----------------------------- MODULE MCLLMCalls -----------------------------
(***************************************************************************)
(* Small instances of LLMCalls: three overlapping calls, so that a breaker *)
(* tripped by two of them meets the late verdict of the third.             *)
(***************************************************************************)
EXTENDS LLMCalls, TLC

CONSTANTS c1, c2, c3

ThreeCalls == {c1, c2, c3}
TwoCalls == {c1, c2}
CallSymmetry == Permutations(ThreeCalls)
=============================================================================
