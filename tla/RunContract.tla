----------------------------- MODULE RunContract -----------------------------
(***************************************************************************)
(* What the agent service promises about one run of an agent, whatever the *)
(* workflow: the status of the run, the kinds of action done for it and    *)
(* the workers that execute it now.                                        *)
(***************************************************************************)
CONSTANTS Runs, Workers, ActionTypes

VARIABLES status, effects, live

vars == <<status, effects, live>>

Terminal == {"completed", "failed", "cancelled"}

Init ==
    /\ status = [k \in Runs |-> "absent"]
    /\ effects = [k \in Runs |-> {}]
    /\ live = [k \in Runs |-> {}]

\* Open a run, and perhaps start to execute it: never one that is settled.
Start(W, k) ==
    /\ status[k] \notin Terminal
    /\ status' = [status EXCEPT ![k] = "running"]
    /\ live' = [live EXCEPT ![k] = @ \union W]
    /\ UNCHANGED effects

Act(k, t) ==
    /\ live[k] # {}
    /\ effects' = [effects EXCEPT ![k] = @ \union {t}]
    /\ UNCHANGED <<status, live>>

Settle(w, k, s) ==
    /\ w \in live[k]
    /\ status' = [status EXCEPT ![k] = s]
    /\ live' = [live EXCEPT ![k] = @ \ {w}]
    /\ UNCHANGED effects

\* Workers stop without settling their runs.
Leave(W) ==
    /\ live' = [k \in Runs |-> live[k] \ W]
    /\ UNCHANGED <<status, effects>>

Cancel(k) ==
    /\ status[k] = "running"
    /\ status' = [status EXCEPT ![k] = "cancelled"]
    /\ UNCHANGED <<effects, live>>

Next ==
    \/ \E k \in Runs :
          \/ \E w \in Workers : Start({w}, k) \/ \E s \in {"completed", "failed"} : Settle(w, k, s)
          \/ Start({}, k)
          \/ \E t \in ActionTypes : Act(k, t)
          \/ Cancel(k)
    \/ \E W \in SUBSET Workers : Leave(W)

Spec == Init /\ [][Next]_vars

KeepsSettled ==
    \A k \in Runs : status[k] \in Terminal =>
        /\ status'[k] \in Terminal /\ live'[k] \subseteq live[k]
        /\ live[k] = {} => status'[k] = status[k] /\ effects'[k] = effects[k]

\* A settled run stays settled and gains no worker, and once the last of them has
\* left it nothing of it changes: what the key of an event promises of a redelivery.
SettledIsFinal == [][KeepsSettled]_vars
=============================================================================
