-------------------------- MODULE FrontDesk_proofs --------------------------
(***************************************************************************)
(* Proofs about FrontDesk for every set of turns, tools and proposals and  *)
(* every bound on requests and failures: what is reported done was done,   *)
(* lead-bound tools follow an upsert, and what a turn has seen saved it    *)
(* does not take back, handoffs aside.                                     *)
(***************************************************************************)
EXTENDS FrontDesk, TLAPS

USE DEF Goto, At, Fault, backend, ghosts

-----------------------------------------------------------------------------
(* Stages                                                                   *)

\* The rank of a stage is its place in STAGE_ORDER, and completed comes last.
LEMMA RankOfStage ==
    /\ \A s \in Stages : Rank(s) \in 1..8
    /\ \A s \in Stages : Rank(s) <= Rank("completed")
<1>1. DOMAIN STAGE_ORDER = 1..8
  BY DEF STAGE_ORDER
<1>2. ASSUME NEW s \in Stages
      PROVE  Rank(s) \in 1..8 /\ STAGE_ORDER[Rank(s)] = s
  <2>1. \E i \in DOMAIN STAGE_ORDER : STAGE_ORDER[i] = s
    BY DEF Stages
  <2>2. QED
    BY <1>1, <2>1, Zenon DEF Rank
<1>3. Rank("completed") = 8
  <2>1. "completed" \in Stages
    <3>1. STAGE_ORDER[8] = "completed"
      BY DEF STAGE_ORDER
    <3>2. QED
      BY <1>1, <3>1 DEF Stages
  <2>2. \A i \in 1..8 : STAGE_ORDER[i] = "completed" => i = 8
    BY DEF STAGE_ORDER
  <2>3. QED
    BY <1>2, <2>1, <2>2
<1>4. QED
  BY <1>2, <1>3

LEMMA StageNames ==
    /\ "greeting" \in Stages /\ "handoff" \in Stages /\ "completed" \in Stages
<1>1. DOMAIN STAGE_ORDER = 1..8 /\ STAGE_ORDER[1] = "greeting"
      /\ STAGE_ORDER[7] = "handoff" /\ STAGE_ORDER[8] = "completed"
  BY DEF STAGE_ORDER
<1>2. QED
  BY <1>1 DEF Stages

\* _advance_stage takes one of its two arguments and never goes back.
LEMMA AdvanceIsForward ==
    ASSUME NEW a \in Stages, NEW b \in Stages
    PROVE  /\ AdvanceStage(a, b) \in Stages
           /\ Rank(a) <= Rank(AdvanceStage(a, b))
  BY RankOfStage DEF AdvanceStage

-----------------------------------------------------------------------------
(* Types                                                                    *)

LEMMA FreshIsState == Fresh \in State
  BY StageNames DEF Fresh, State, Facts

LEMMA TypeInit == Init => TypeOK
<1> SUFFICES ASSUME Init PROVE TypeOK
  OBVIOUS
<1>1. row \in State /\ st \in [Turns -> State]
  BY FreshIsState DEF Init
<1>2. tool \in [Turns -> ALLOWED_TOOLS]
  BY DEF Init, ALLOWED_TOOLS
<1>3. /\ leadRow \in BOOLEAN /\ accepted \in BOOLEAN
      /\ contact \subseteq IDENTITY_FACTS /\ done \subseteq ALLOWED_TOOLS
      /\ fresh \subseteq Turns /\ overtaken \subseteq Turns /\ carried \subseteq Turns
  BY Zenon DEF Init
<1>4. /\ pc \in [Turns -> {"idle", "load", "decide", "ensure", "call", "save",
                           "compose", "save_last"}]
      /\ executed \in [Turns -> {"none", "ok", "failed"}]
      /\ reply \in [Turns -> {"none", "draft", "done", "not_done"}]
  BY DEF Init
<1>5. turns \in 0..MaxTurns /\ faults \in 0..MaxFaults
  BY FrontDeskAssumption DEF Init
<1>6. QED
  BY <1>1, <1>2, <1>3, <1>4, <1>5, Zenon DEF TypeOK

\* The parts of a state that a turn replaces.
LEMMA StateUpdates ==
    ASSUME NEW s \in State, NEW g \in Stages, NEW f \in SUBSET Facts, NEW b \in BOOLEAN
    PROVE  /\ [s EXCEPT !.known_facts = f] \in State
           /\ [s EXCEPT !.stage = g] \in State
           /\ [s EXCEPT !.lead_id = b, !.known_facts = f] \in State
           /\ [s EXCEPT !.known_facts = f, !.lead_id = b] \in State
           /\ [s EXCEPT !.known_facts = f, !.stage = g] \in State
  BY DEF State

\* What the whole of an upsert's turn does to the types.
LEMMA IdentityTaken ==
    ASSUME TypeOK, NEW t \in Turns, NEW f \in SUBSET IDENTITY_FACTS, NEW b \in BOOLEAN,
           TakeIdentity(t, f, b)
    PROVE  st' \in [Turns -> State]
<1>1. st[t] \in State /\ st[t].known_facts \union f \in SUBSET Facts
  BY DEF TypeOK, State, Facts
<1>2. [st[t] EXCEPT !.lead_id = b, !.known_facts = @ \union f] \in State
  BY <1>1, StateUpdates DEF State
<1>3. st' = [st EXCEPT ![t] = [st[t] EXCEPT !.lead_id = b, !.known_facts = @ \union f]]
  BY <1>1 DEF TakeIdentity, TypeOK, State
<1>4. QED
  BY <1>2, <1>3 DEF TypeOK

LEMMA SlotsOffered ==
    ASSUME TypeOK, NEW t \in Turns, NEW slots \in BOOLEAN, OfferSlots(t, slots)
    PROVE  st' \in [Turns -> State]
  BY DEF OfferSlots, TypeOK, State, Facts

LEMMA UpsertedTypes ==
    ASSUME TypeOK, NEW f \in SUBSET IDENTITY_FACTS, NEW b \in BOOLEAN, Upserted(f, b)
    PROVE  /\ row' \in State /\ contact' \subseteq IDENTITY_FACTS
           /\ leadRow' \in BOOLEAN /\ accepted' \in BOOLEAN /\ done' \subseteq ALLOWED_TOOLS
  BY DEF Upserted, TypeOK, ALLOWED_TOOLS

LEMMA TypeStep == TypeOK /\ [Next]_vars => TypeOK'
<1> SUFFICES ASSUME TypeOK, [Next]_vars PROVE TypeOK'
  OBVIOUS
<1> USE FrontDeskAssumption
<1>1. ASSUME NEW t \in Turns, Begin(t) PROVE TypeOK'
  BY <1>1, FreshIsState DEF Begin, ALLOWED_TOOLS, TypeOK
<1>2. ASSUME NEW t \in Turns, LoadState(t) PROVE TypeOK'
  <2>1. PICK said \in SUBSET IDENTITY_FACTS :
           \/ /\ st' = [st EXCEPT ![t] =
                    [row EXCEPT !.known_facts = MergeFacts(@ \union contact, said),
                                !.lead_id = @ \/ leadRow]]
              /\ UNCHANGED <<faults, fresh>>
           \/ /\ Fault
              /\ st' = [st EXCEPT ![t] = [Fresh EXCEPT !.known_facts = said]]
              /\ fresh' = fresh \union {t}
    BY <1>2 DEF LoadState
  <2>2. /\ [row EXCEPT !.known_facts = MergeFacts(@ \union contact, said),
                       !.lead_id = @ \/ leadRow] \in State
        /\ [Fresh EXCEPT !.known_facts = said] \in State
    BY FreshIsState DEF State, MergeFacts, TypeOK, Facts
  <2>3. st' \in [Turns -> State]
    BY <2>1, <2>2 DEF TypeOK
  <2>4. faults' \in 0..MaxFaults /\ fresh' \subseteq Turns
    BY <2>1 DEF TypeOK
  <2>5. QED
    BY <1>2, <2>3, <2>4 DEF LoadState, TypeOK
<1>3. ASSUME NEW t \in Turns, Decide(t) PROVE TypeOK'
  <2>1. PICK choice \in Tools \union {"answer"}, stage \in Proposals \union {"greeting"},
             facts \in SUBSET IDENTITY_FACTS :
          LET s == [st[t] EXCEPT !.known_facts = MergeFacts(@, facts),
                                 !.stage = AdvanceStage(@, stage)] IN
          /\ st' = [st EXCEPT ![t] = s]
          /\ tool' = [tool EXCEPT ![t] = choice]
          /\ \E next \in AfterDecision(s, choice) :
                /\ Goto(t, next[1])
                /\ executed' = [executed EXCEPT ![t] = next[2]]
    BY <1>3 DEF Decide
  <2> DEFINE s == [st[t] EXCEPT !.known_facts = MergeFacts(@, facts),
                                !.stage = AdvanceStage(@, stage)]
  <2>2. s \in State
    <3>1. stage \in Stages /\ st[t] \in State
      BY StageNames DEF TypeOK
    <3>2. AdvanceStage(st[t].stage, stage) \in Stages
      BY <3>1, AdvanceIsForward DEF State
    <3>3. QED
      BY <3>1, <3>2 DEF State, Facts, MergeFacts
  <2>3. choice \in ALLOWED_TOOLS
    BY DEF ALLOWED_TOOLS
  <2>4. PICK next \in AfterDecision(s, choice) :
           /\ Goto(t, next[1])
           /\ executed' = [executed EXCEPT ![t] = next[2]]
    BY <2>1
  <2>5. next \in {<<"save", "none">>, <<"save", "failed">>, <<"call", "none">>,
                  <<"ensure", "none">>}
    BY DEF AfterDecision
  <2>6. st' = [st EXCEPT ![t] = s] /\ tool' = [tool EXCEPT ![t] = choice]
    BY <2>1
  <2> HIDE DEF s
  <2>7. /\ pc' \in [Turns -> {"idle", "load", "decide", "ensure", "call", "save",
                              "compose", "save_last"}]
        /\ executed' \in [Turns -> {"none", "ok", "failed"}]
    BY <2>4, <2>5 DEF TypeOK
  <2>8. st' \in [Turns -> State] /\ tool' \in [Turns -> ALLOWED_TOOLS]
    BY <2>2, <2>3, <2>6 DEF TypeOK
  <2>9. QED
    BY <1>3, <2>7, <2>8 DEF Decide, TypeOK
<1>4. ASSUME NEW t \in Turns, EnsureLead(t) PROVE TypeOK'
  <2>1. CASE UNCHANGED st
    BY <1>4, <2>1, UpsertedTypes DEF EnsureLead, ToolFailed, TypeOK
  <2>2. ASSUME NEW lead \in BOOLEAN, Upserted(IDENTITY_FACTS, lead),
               TakeIdentity(t, IDENTITY_FACTS, lead), Goto(t, "call"),
               UNCHANGED <<executed, faults>>
        PROVE  TypeOK'
    <3>1. st' \in [Turns -> State]
      BY <2>2, IdentityTaken
    <3>2. /\ row' \in State /\ contact' \subseteq IDENTITY_FACTS
          /\ leadRow' \in BOOLEAN /\ accepted' \in BOOLEAN /\ done' \subseteq ALLOWED_TOOLS
      BY <2>2, UpsertedTypes
    <3>3. QED
      BY <1>4, <2>2, <3>1, <3>2 DEF EnsureLead, TypeOK
  <2>3. QED
    BY <1>4, <2>1, <2>2 DEF EnsureLead
<1>5. ASSUME NEW t \in Turns, UpsertLead(t) PROVE TypeOK'
  <2>1. PICK facts \in {{"name"}, IDENTITY_FACTS}, lead \in BOOLEAN :
          \/ /\ Upserted(facts, lead)
             /\ TakeIdentity(t, facts, lead)
             /\ executed' = [executed EXCEPT ![t] = "ok"] /\ Goto(t, "save")
             /\ carried' = carried \union {t}
             /\ UNCHANGED faults
          \/ /\ Fault
             /\ \/ UNCHANGED <<backend, carried>>
                \/ Upserted(facts, lead) /\ carried' = carried \union {t}
             /\ ToolFailed(t)
             /\ UNCHANGED st
    BY <1>5 DEF UpsertLead
  <2>2. facts \in SUBSET IDENTITY_FACTS
    BY DEF IDENTITY_FACTS
  <2>3. st' \in [Turns -> State]
    BY <2>1, <2>2, IdentityTaken DEF TypeOK
  <2>4. /\ row' \in State /\ contact' \subseteq IDENTITY_FACTS
        /\ leadRow' \in BOOLEAN /\ accepted' \in BOOLEAN /\ done' \subseteq ALLOWED_TOOLS
    <3>1. CASE Upserted(facts, lead)
      BY <2>2, <3>1, UpsertedTypes
    <3>2. CASE UNCHANGED backend
      BY <3>2 DEF TypeOK
    <3>3. QED
      BY <2>1, <3>1, <3>2
  <2>5. /\ executed' \in [Turns -> {"none", "ok", "failed"}]
        /\ carried' \subseteq Turns
        /\ faults' \in 0..MaxFaults
        /\ pc' \in [Turns -> {"idle", "load", "decide", "ensure", "call", "save",
                              "compose", "save_last"}]
    BY <2>1 DEF TypeOK, ToolFailed
  <2>6. QED
    BY <1>5, <2>3, <2>4, <2>5 DEF UpsertLead, TypeOK
<1>6. ASSUME NEW t \in Turns, CallTool(t) PROVE TypeOK'
  <2>1. [st[t] EXCEPT !.stage = StageAfter(t)] \in State
    BY StageNames DEF StageAfter, State, TypeOK
  <2>2. CASE UNCHANGED st
    BY <1>6, <2>2 DEF CallTool, CarryOut, ToolFailed, TypeOK
  <2>3. CASE st' = [st EXCEPT ![t].stage = StageAfter(t)]
    <3>1. st' \in [Turns -> State]
      BY <2>1, <2>3 DEF TypeOK
    <3>2. QED
      BY <1>6, <3>1 DEF CallTool, CarryOut, ToolFailed, TypeOK
  <2>4. QED
    BY <1>6, <2>2, <2>3 DEF CallTool
<1>7. ASSUME NEW t \in Turns, CalendarRefuses(t) PROVE TypeOK'
  <2>1. st' \in [Turns -> State]
    BY <1>7, SlotsOffered DEF CalendarRefuses
  <2>2. QED
    BY <1>7, <2>1 DEF CalendarRefuses, ToolFailed, TypeOK
<1>8. ASSUME NEW t \in Turns, ListSlots(t) PROVE TypeOK'
  <2>1. st' \in [Turns -> State]
    BY <1>8, SlotsOffered DEF ListSlots, TypeOK
  <2>2. QED
    BY <1>8, <2>1 DEF ListSlots, ToolFailed, TypeOK
<1>9. ASSUME NEW t \in Turns, Save(t) \/ SaveLast(t) PROVE TypeOK'
  <2>1. /\ row' \in State
        /\ UNCHANGED <<contact, leadRow, accepted, done>>
        /\ overtaken' \subseteq Turns
    BY <1>9 DEF Save, SaveLast, PersistState, Put, TypeOK
  <2>2. faults' \in 0..MaxFaults
    BY <1>9 DEF Save, SaveLast, PersistState, TypeOK
  <2>3. QED
    BY <1>9, <2>1, <2>2 DEF Save, SaveLast, PersistState, TypeOK
<1>10. ASSUME NEW t \in Turns, ComposeReply(t) PROVE TypeOK'
  BY <1>10 DEF ComposeReply, TypeOK
<1>11. CASE Crash
  BY <1>11 DEF Crash, TypeOK
<1>12. CASE UNCHANGED vars
  BY <1>12 DEF vars, TypeOK
<1>13. QED
  BY <1>1, <1>2, <1>3, <1>4, <1>5, <1>6, <1>7, <1>8, <1>9, <1>10, <1>11, <1>12
  DEF Next, Step, RunTool

\* Every variable keeps its type, whatever the model decides: a turn's stage
\* stays one of STAGE_ORDER, its tool one of ALLOWED_TOOLS.
THEOREM TypeCorrect == Spec => []TypeOK
  BY TypeInit, TypeStep, PTL DEF Spec

-----------------------------------------------------------------------------
(***************************************************************************)
(* What is reported.  A reply is composed from executed, which is ok only  *)
(* in the step in which the backend carried the call out.                  *)
(***************************************************************************)
OkIsCarried ==
    \A t \in Turns : executed[t] = "ok" \/ reply[t] = "done" => t \in carried

LEMMA OkIsCarriedStep == TypeOK /\ OkIsCarried /\ [Next]_vars => OkIsCarried'
<1> SUFFICES ASSUME TypeOK, OkIsCarried, [Next]_vars PROVE OkIsCarried'
  OBVIOUS
<1> USE DEF OkIsCarried
<1>t. executed \in [Turns -> {"none", "ok", "failed"}]
      /\ reply \in [Turns -> {"none", "draft", "done", "not_done"}]
  BY DEF TypeOK
<1>1. ASSUME NEW t \in Turns, Begin(t) PROVE OkIsCarried'
  BY <1>t, <1>1 DEF Begin
<1>2. ASSUME NEW t \in Turns, LoadState(t) PROVE OkIsCarried'
  BY <1>t, <1>2 DEF LoadState
<1>3. ASSUME NEW t \in Turns, Decide(t) PROVE OkIsCarried'
  <2>1. UNCHANGED <<reply, carried>>
    BY <1>3 DEF Decide
  <2>2. \E r \in {"none", "failed"} : executed' = [executed EXCEPT ![t] = r]
    <3>1. PICK next \in {<<"save", "none">>, <<"save", "failed">>, <<"call", "none">>,
                         <<"ensure", "none">>} :
             executed' = [executed EXCEPT ![t] = next[2]]
      BY <1>3 DEF Decide, AfterDecision
    <3>2. next[2] \in {"none", "failed"}
      OBVIOUS
    <3>3. QED
      BY <3>1, <3>2
  <2>3. QED
    BY <1>t, <2>1, <2>2
<1>4. ASSUME NEW t \in Turns, EnsureLead(t) PROVE OkIsCarried'
  <2>1. UNCHANGED <<reply, carried>>
    BY <1>4 DEF EnsureLead
  <2>2. executed' = executed \/ executed' = [executed EXCEPT ![t] = "failed"]
    BY <1>4 DEF EnsureLead, ToolFailed
  <2>3. QED
    BY <1>t, <2>1, <2>2
<1>5. ASSUME NEW t \in Turns, RunTool(t), ~EnsureLead(t) PROVE OkIsCarried'
  <2>1. UNCHANGED reply /\ carried \subseteq carried'
    BY <1>5 DEF RunTool, UpsertLead, CallTool, CarryOut, CalendarRefuses, ListSlots
  <2>2. \/ executed' = [executed EXCEPT ![t] = "ok"] /\ t \in carried'
        \/ executed' = [executed EXCEPT ![t] = "failed"]
    BY <1>5 DEF RunTool, UpsertLead, CallTool, CarryOut, CalendarRefuses, ListSlots, ToolFailed
  <2>3. QED
    BY <1>t, <2>1, <2>2
<1>6. ASSUME NEW t \in Turns, Save(t) \/ SaveLast(t) PROVE OkIsCarried'
  BY <1>6 DEF Save, SaveLast, PersistState
<1>7. ASSUME NEW t \in Turns, ComposeReply(t) PROVE OkIsCarried'
  BY <1>t, <1>7 DEF ComposeReply
<1>8. CASE Crash
  BY <1>8 DEF Crash
<1>9. CASE UNCHANGED vars
  BY <1>9 DEF vars
<1>10. QED
  BY <1>1, <1>2, <1>3, <1>4, <1>5, <1>6, <1>7, <1>8, <1>9 DEF Next, Step

(***************************************************************************)
(* The converse: until its tool is called a turn has nothing carried out   *)
(* and no reply, and without a failure a tool that failed was not carried  *)
(* out.                                                                    *)
(***************************************************************************)
Uncalled(t) == pc[t] \in {"load", "decide", "ensure", "call"}

FailedIsNot ==
    /\ \A t \in Turns : Uncalled(t) => t \notin carried /\ reply[t] = "none"
    /\ \A t \in Turns : reply[t] = "not_done" => executed[t] = "failed"
    /\ faults = 0 => \A t \in Turns : executed[t] = "failed" => t \notin carried

LEMMA FailedIsNotStep == TypeOK /\ FailedIsNot /\ [Next]_vars => FailedIsNot'
<1> SUFFICES ASSUME TypeOK, FailedIsNot, [Next]_vars PROVE FailedIsNot'
  OBVIOUS
<1> USE DEF FailedIsNot, Uncalled
<1>t. /\ executed \in [Turns -> {"none", "ok", "failed"}]
      /\ reply \in [Turns -> {"none", "draft", "done", "not_done"}]
      /\ pc \in [Turns -> {"idle", "load", "decide", "ensure", "call", "save",
                          "compose", "save_last"}]
      /\ faults \in Nat
  BY FrontDeskAssumption DEF TypeOK
<1>f. Fault => faults' # 0
  BY <1>t
<1>1. ASSUME NEW t \in Turns, Begin(t) PROVE FailedIsNot'
  BY <1>t, <1>1 DEF Begin
<1>2. ASSUME NEW t \in Turns, LoadState(t) PROVE FailedIsNot'
  <2>1. UNCHANGED <<executed, reply, carried>> /\ (faults' = 0 => faults = 0)
    BY <1>t, <1>2 DEF LoadState
  <2>2. pc[t] = "load" /\ pc' = [pc EXCEPT ![t] = "decide"]
    BY <1>2 DEF LoadState
  <2>3. QED
    BY <1>t, <2>1, <2>2
<1>3. ASSUME NEW t \in Turns, Decide(t) PROVE FailedIsNot'
  <2>1. UNCHANGED <<reply, carried, faults>> /\ pc[t] = "decide"
    BY <1>3 DEF Decide
  <2>2. \E next \in {<<"save", "none">>, <<"save", "failed">>, <<"call", "none">>,
                     <<"ensure", "none">>} :
           pc' = [pc EXCEPT ![t] = next[1]] /\ executed' = [executed EXCEPT ![t] = next[2]]
    BY <1>3 DEF Decide, AfterDecision
  <2>3. QED
    BY <1>t, <2>1, <2>2
<1>4. ASSUME NEW t \in Turns, EnsureLead(t) PROVE FailedIsNot'
  <2>1. UNCHANGED <<reply, carried>> /\ pc[t] = "ensure" /\ (faults' = 0 => faults = 0)
    BY <1>t, <1>4 DEF EnsureLead
  <2>2. \/ executed' = executed /\ pc' = [pc EXCEPT ![t] = "call"]
        \/ executed' = [executed EXCEPT ![t] = "failed"] /\ pc' = [pc EXCEPT ![t] = "save"]
    BY <1>4 DEF EnsureLead, ToolFailed
  <2>3. QED
    BY <1>t, <2>1, <2>2
<1>5. ASSUME NEW t \in Turns, RunTool(t), ~EnsureLead(t) PROVE FailedIsNot'
  <2>1. /\ UNCHANGED reply /\ pc[t] = "call" /\ (faults' = 0 => faults = 0)
        /\ pc' = [pc EXCEPT ![t] = "save"]
    BY <1>t, <1>5 DEF RunTool, UpsertLead, CallTool, CarryOut, CalendarRefuses, ListSlots, ToolFailed
  <2>2. carried' = carried \/ carried' = carried \union {t}
    BY <1>5 DEF RunTool, UpsertLead, CallTool, CarryOut, CalendarRefuses, ListSlots
  <2>3. \/ executed' = [executed EXCEPT ![t] = "ok"]
        \/ executed' = [executed EXCEPT ![t] = "failed"] /\ (faults' = 0 => carried' = carried)
    BY <1>f, <1>5 DEF RunTool, UpsertLead, CallTool, CarryOut, CalendarRefuses, ListSlots, ToolFailed
  <2>4. QED
    BY <1>t, <2>1, <2>2, <2>3
<1>6. ASSUME NEW t \in Turns, Save(t) \/ SaveLast(t) PROVE FailedIsNot'
  <2>1. UNCHANGED <<executed, reply, carried>> /\ (faults' = 0 => faults = 0)
    BY <1>t, <1>6 DEF Save, SaveLast, PersistState
  <2>2. \E there \in {"compose", "idle"} : pc' = [pc EXCEPT ![t] = there]
    BY <1>6 DEF Save, SaveLast, PersistState
  <2>3. QED
    BY <1>t, <2>1, <2>2
<1>7. ASSUME NEW t \in Turns, ComposeReply(t) PROVE FailedIsNot'
  BY <1>t, <1>7 DEF ComposeReply
<1>8. CASE Crash
  <2>1. UNCHANGED <<executed, reply, carried>> /\ \A t \in Turns : pc'[t] = "idle"
    BY <1>8 DEF Crash
  <2>2. QED
    BY <1>f, <1>8, <2>1 DEF Crash
<1>9. CASE UNCHANGED vars
  BY <1>9 DEF vars
<1>10. QED
  BY <1>1, <1>2, <1>3, <1>4, <1>5, <1>6, <1>7, <1>8, <1>9 DEF Next, Step

\* A turn reports success only for a call the backend carried out in it, and a
\* failure of one it did carry out only when an answer was lost, for any number
\* of overlapping turns and failures.
THEOREM ReportsAreTrue == Spec => []ReportIsTrue
<1>1. Init => OkIsCarried /\ FailedIsNot
  BY DEF Init, OkIsCarried, FailedIsNot, Uncalled
<1>2. OkIsCarried /\ FailedIsNot => ReportIsTrue
  BY DEF OkIsCarried, FailedIsNot, ReportIsTrue
<1>3. QED
  BY <1>1, <1>2, TypeInit, TypeStep, OkIsCarriedStep, FailedIsNotStep, PTL DEF Spec

-----------------------------------------------------------------------------
(***************************************************************************)
(* Leads.  lead_id is set from the answer of an upsert and copied between  *)
(* the turns and the row, so wherever it is found an upsert came before;   *)
(* and a lead-bound tool is called only with it or right after an upsert.  *)
(***************************************************************************)
LeadInv ==
    /\ leadRow \/ row.lead_id => accepted
    /\ \A t \in Turns : st[t].lead_id => accepted
    /\ \A t \in Turns : pc[t] = "call" /\ tool[t] \in LeadBound => accepted
    /\ LeadBoundFollowsUpsert

\* The same where nothing was accepted.
NoLead ==
    /\ ~accepted /\ ~leadRow /\ ~row.lead_id
    /\ \A t \in Turns : ~st[t].lead_id
    /\ \A t \in Turns : ~(pc[t] = "call" /\ tool[t] \in LeadBound)
    /\ done \intersect LeadBound = {}

\* What a step does with the leads: a state of a turn keeps its lead_id, or has
\* that of the row, or has none.
SameLeads ==
    /\ UNCHANGED <<leadRow, accepted>>
    /\ row'.lead_id => row.lead_id \/ \E t \in Turns : st[t].lead_id
    /\ \A t \in Turns : st'[t].lead_id => st[t].lead_id \/ row.lead_id \/ leadRow

\* What a step does with the tools: none of the lead-bound ones is chosen anew
\* without a lead, none is carried out but where it was chosen.
SameTools ==
    /\ \A t \in Turns :
          pc'[t] = "call" /\ tool'[t] \in LeadBound =>
              (pc[t] = "call" /\ tool[t] \in LeadBound) \/ st'[t].lead_id
    /\ \A x \in done' \intersect LeadBound :
          x \in done \/ \E t \in Turns : pc[t] = "call" /\ tool[t] = x

LEMMA NoLeadKept == ASSUME NoLead, SameLeads, SameTools PROVE NoLead'
  BY DEF NoLead, SameLeads, SameTools

LEMMA LeadStep == TypeOK /\ LeadInv /\ [Next]_vars => LeadInv'
<1> SUFFICES ASSUME TypeOK, accepted \/ NoLead, [Next]_vars PROVE (accepted \/ NoLead)'
  BY DEF LeadInv, NoLead, LeadBoundFollowsUpsert
<1>t. /\ st \in [Turns -> State] /\ row \in State
      /\ pc \in [Turns -> {"idle", "load", "decide", "ensure", "call", "save", "compose",
                           "save_last"}]
      /\ tool \in [Turns -> ALLOWED_TOOLS]
  BY DEF TypeOK
<1>s. \A s \in State : s.lead_id \in BOOLEAN
  BY DEF State
<1>k. ASSUME SameLeads, SameTools PROVE (accepted \/ NoLead)'
  <2>1. CASE accepted
    BY <1>k, <2>1 DEF SameLeads
  <2>2. CASE NoLead
    BY <1>k, <2>2, NoLeadKept
  <2>3. QED
    BY <2>1, <2>2
<1>1. ASSUME NEW t \in Turns, Begin(t) PROVE SameLeads /\ SameTools
  <2>1. ~Fresh.lead_id
    BY DEF Fresh
  <2>2. QED
    BY <1>t, <1>1, <2>1 DEF Begin, SameLeads, SameTools, LeadBound
<1>2. ASSUME NEW t \in Turns, LoadState(t) PROVE SameLeads /\ SameTools
  <2>1. PICK said \in SUBSET IDENTITY_FACTS :
           \/ st' = [st EXCEPT ![t] =
                    [row EXCEPT !.known_facts = MergeFacts(@ \union contact, said),
                                !.lead_id = @ \/ leadRow]]
           \/ st' = [st EXCEPT ![t] = [Fresh EXCEPT !.known_facts = said]]
    BY <1>2 DEF LoadState
  <2>2. ~[Fresh EXCEPT !.known_facts = said].lead_id
    BY DEF Fresh
  <2>3. [row EXCEPT !.known_facts = MergeFacts(@ \union contact, said),
                    !.lead_id = @ \/ leadRow].lead_id => row.lead_id \/ leadRow
    BY <1>t DEF State
  <2>4. \A u \in Turns : st'[u].lead_id => st[u].lead_id \/ row.lead_id \/ leadRow
    BY <1>t, <2>1, <2>2, <2>3
  <2>5. QED
    BY <1>t, <1>2, <2>4 DEF LoadState, SameLeads, SameTools
<1>3. ASSUME NEW t \in Turns, Decide(t) PROVE SameLeads /\ SameTools
  <2>1. PICK choice \in Tools \union {"answer"}, stage \in Proposals \union {"greeting"},
             facts \in SUBSET IDENTITY_FACTS :
          LET s == [st[t] EXCEPT !.known_facts = MergeFacts(@, facts),
                                 !.stage = AdvanceStage(@, stage)] IN
          /\ st' = [st EXCEPT ![t] = s]
          /\ tool' = [tool EXCEPT ![t] = choice]
          /\ \E next \in AfterDecision(s, choice) :
                /\ Goto(t, next[1])
                /\ executed' = [executed EXCEPT ![t] = next[2]]
    BY <1>3 DEF Decide
  <2> DEFINE s == [st[t] EXCEPT !.known_facts = MergeFacts(@, facts),
                                !.stage = AdvanceStage(@, stage)]
  <2>2. s.lead_id = st[t].lead_id
    BY <1>t DEF State
  <2>3. PICK next \in AfterDecision(s, choice) : pc' = [pc EXCEPT ![t] = next[1]]
    BY <2>1
  <2>4. next[1] = "call" /\ choice \in LeadBound => s.lead_id
    <3>1. CASE choice \in LeadBound /\ ~s.lead_id
      <4>1. next \in {<<"save", "none">>, <<"save", "failed">>, <<"ensure", "none">>}
        BY <3>1 DEF AfterDecision, LeadBound
      <4>2. QED
        BY <4>1
    <3>2. QED
      BY <3>1
  <2>5. st' = [st EXCEPT ![t] = s] /\ tool' = [tool EXCEPT ![t] = choice]
    BY <2>1
  <2> HIDE DEF s
  <2>6. \A u \in Turns : st'[u].lead_id = st[u].lead_id
    BY <1>t, <2>2, <2>5
  <2>7. \A u \in Turns : pc'[u] = "call" /\ tool'[u] \in LeadBound =>
              (pc[u] = "call" /\ tool[u] \in LeadBound) \/ st'[u].lead_id
    BY <1>t, <2>3, <2>4, <2>5
  <2>8. QED
    BY <1>3, <2>6, <2>7 DEF Decide, SameLeads, SameTools
<1>4. ASSUME NEW t \in Turns, EnsureLead(t), ~accepted' PROVE SameLeads /\ SameTools
  BY <1>t, <1>4 DEF EnsureLead, Upserted, ToolFailed, SameLeads, SameTools
<1>5. ASSUME NEW t \in Turns, UpsertLead(t), ~accepted' PROVE SameLeads /\ SameTools
  BY <1>t, <1>5 DEF UpsertLead, Upserted, ToolFailed, SameLeads, SameTools
<1>6. ASSUME NEW t \in Turns, CallTool(t) PROVE SameLeads /\ SameTools
  <2>1. UNCHANGED <<leadRow, accepted, row, tool>> /\ Goto(t, "save")
    BY <1>6 DEF CallTool, CarryOut, ToolFailed
  <2>2. done' = done \/ done' = done \union {tool[t]}
    BY <1>6 DEF CallTool, CarryOut
  <2>3. st' = st \/ st' = [st EXCEPT ![t].stage = StageAfter(t)]
    BY <1>6 DEF CallTool
  <2>4. \A u \in Turns : st'[u].lead_id = st[u].lead_id
    BY <1>t, <2>3 DEF State
  <2>5. pc[t] = "call"
    BY <1>6 DEF CallTool
  <2>6. SameLeads
    BY <2>1, <2>4 DEF SameLeads
  <2>7. SameTools
    BY <1>t, <2>1, <2>2, <2>5 DEF SameTools
  <2>8. QED
    BY <2>6, <2>7
<1>7. ASSUME NEW t \in Turns, CalendarRefuses(t) \/ ListSlots(t) PROVE SameLeads /\ SameTools
  <2>1. st' = st \/ \E slots \in BOOLEAN : OfferSlots(t, slots)
    BY <1>7 DEF CalendarRefuses, ListSlots
  <2>2. \A u \in Turns : st'[u].lead_id = st[u].lead_id
    BY <1>t, <2>1 DEF OfferSlots, State
  <2>3. UNCHANGED <<backend, tool>> /\ Goto(t, "save")
    BY <1>7 DEF CalendarRefuses, ListSlots, ToolFailed
  <2>4. QED
    BY <1>t, <2>2, <2>3 DEF SameLeads, SameTools
<1>8. ASSUME NEW t \in Turns, Save(t) \/ SaveLast(t) PROVE SameLeads /\ SameTools
  <2>1. row' = row \/ row' = st[t]
    BY <1>8 DEF Save, SaveLast, PersistState, Put
  <2>2. UNCHANGED <<leadRow, accepted, done, st, tool>>
        /\ (Goto(t, "compose") \/ Goto(t, "idle"))
    BY <1>8 DEF Save, SaveLast, PersistState, Put
  <2>3. QED
    BY <1>t, <2>1, <2>2 DEF SameLeads, SameTools
<1>9. ASSUME NEW t \in Turns, ComposeReply(t) PROVE SameLeads /\ SameTools
  BY <1>t, <1>9 DEF ComposeReply, SameLeads, SameTools
<1>10. ASSUME Crash PROVE SameLeads /\ SameTools
  BY <1>10 DEF Crash, SameLeads, SameTools
<1>11. ASSUME UNCHANGED vars PROVE SameLeads /\ SameTools
  BY <1>11 DEF vars, SameLeads, SameTools
<1>12. QED
  <2>1. CASE accepted'
    BY <2>1
  <2>2. CASE ~accepted'
    BY <1>k, <1>1, <1>2, <1>3, <1>4, <1>5, <1>6, <1>7, <1>8, <1>9, <1>10, <1>11, <2>2
    DEF Next, Step, RunTool
  <2>3. QED
    BY <2>1, <2>2

\* A note, a task or a meeting needs an upsert before it, whichever turn made
\* it, whatever failed and however the turns overwrite the session.
THEOREM LeadFirst == Spec => []LeadBoundFollowsUpsert
<1>1. Init => LeadInv
  BY DEF Init, LeadInv, LeadBoundFollowsUpsert, Fresh
<1>2. LeadInv => LeadBoundFollowsUpsert
  BY DEF LeadInv
<1>3. QED
  BY <1>1, <1>2, TypeInit, TypeStep, LeadStep, PTL DEF Spec

-----------------------------------------------------------------------------
(***************************************************************************)
(* What a turn may take back.  The checked action properties are about the *)
(* step that saves; the invariant says of every turn on its way there that *)
(* is not blind that its copy of the session covers the row: it holds the  *)
(* visitor's facts, and its stage is not behind unless a handoff set it.   *)
(***************************************************************************)
Loaded == {"decide", "ensure", "call", "save", "compose", "save_last"}

Covers(t) ==
    /\ \/ Rank(row.stage) <= Rank(st[t].stage)
       \/ tool[t] = "request_handoff" /\ executed[t] = "ok"
    /\ row.known_facts \intersect IDENTITY_FACTS \subseteq st[t].known_facts

SightedCovers == \A t \in Turns : pc[t] \in Loaded /\ ~Blind(t) => Covers(t)

\* Before its tool has run a turn has nothing executed.
NotYetRun ==
    \A t \in Turns : pc[t] \in {"load", "decide", "ensure", "call"} => executed[t] = "none"

LEMMA NotYetRunStep == TypeOK /\ NotYetRun /\ [Next]_vars => NotYetRun'
<1> SUFFICES ASSUME TypeOK, NotYetRun, [Next]_vars PROVE NotYetRun'
  OBVIOUS
<1> USE DEF NotYetRun
<1>t. /\ pc \in [Turns -> {"idle", "load", "decide", "ensure", "call", "save", "compose",
                           "save_last"}]
      /\ executed \in [Turns -> {"none", "ok", "failed"}]
  BY DEF TypeOK
<1>1. ASSUME NEW t \in Turns, Begin(t) PROVE NotYetRun'
  BY <1>t, <1>1 DEF Begin
<1>2. ASSUME NEW t \in Turns, LoadState(t) PROVE NotYetRun'
  BY <1>t, <1>2 DEF LoadState
<1>3. ASSUME NEW t \in Turns, Decide(t) PROVE NotYetRun'
  <2>1. PICK next \in {<<"save", "none">>, <<"save", "failed">>, <<"call", "none">>,
                       <<"ensure", "none">>} :
           pc' = [pc EXCEPT ![t] = next[1]] /\ executed' = [executed EXCEPT ![t] = next[2]]
    BY <1>3 DEF Decide, AfterDecision
  <2>2. next[1] = "save" \/ next[2] = "none"
    OBVIOUS
  <2>3. QED
    BY <1>t, <2>1, <2>2
<1>4. ASSUME NEW t \in Turns, RunTool(t) PROVE NotYetRun'
  <2>1. \/ Goto(t, "save") /\ \E r \in {"ok", "failed"} : executed' = [executed EXCEPT ![t] = r]
        \/ pc[t] = "ensure" /\ Goto(t, "call") /\ UNCHANGED executed
    BY <1>4 DEF RunTool, EnsureLead, UpsertLead, CallTool, CalendarRefuses, ListSlots, ToolFailed
  <2>2. QED
    BY <1>t, <2>1
<1>5. ASSUME NEW t \in Turns, Save(t) \/ SaveLast(t) PROVE NotYetRun'
  BY <1>t, <1>5 DEF Save, SaveLast, PersistState
<1>6. ASSUME NEW t \in Turns, ComposeReply(t) PROVE NotYetRun'
  BY <1>t, <1>6 DEF ComposeReply
<1>7. CASE Crash
  BY <1>7 DEF Crash
<1>8. CASE UNCHANGED vars
  BY <1>8 DEF vars
<1>9. QED
  BY <1>1, <1>2, <1>3, <1>4, <1>5, <1>6, <1>7, <1>8 DEF Next, Step

\* A turn whose step t is not, and the row, are left as they are.
Untouched(u) ==
    /\ pc'[u] \in Loaded => pc[u] \in Loaded
    /\ Blind(u) => Blind(u)'
    /\ UNCHANGED <<row, st[u], tool[u], executed[u]>>

LEMMA UntouchedCovers ==
    ASSUME NEW u \in Turns, Untouched(u), pc[u] \in Loaded /\ ~Blind(u) => Covers(u)
    PROVE  (pc[u] \in Loaded /\ ~Blind(u) => Covers(u))'
  BY DEF Untouched, Covers

LEMMA CoversStep == TypeOK /\ NotYetRun /\ SightedCovers /\ [Next]_vars => SightedCovers'
<1> SUFFICES ASSUME TypeOK, NotYetRun, SightedCovers, [Next]_vars,
                    NEW u \in Turns, pc'[u] \in Loaded, ~Blind(u)'
             PROVE  Covers(u)'
  BY DEF SightedCovers
<1>t. /\ st \in [Turns -> State] /\ row \in State
      /\ pc \in [Turns -> {"idle", "load", "decide", "ensure", "call", "save", "compose",
                           "save_last"}]
      /\ tool \in [Turns -> ALLOWED_TOOLS]
      /\ executed \in [Turns -> {"none", "ok", "failed"}]
  BY DEF TypeOK
<1>r. ASSUME NEW s \in State PROVE Rank(s.stage) \in 1..8
  BY <1>r, RankOfStage DEF State
<1>u. ASSUME Untouched(u) PROVE Covers(u)'
  BY <1>u, UntouchedCovers DEF SightedCovers
<1>h. ASSUME pc[u] \in Loaded, ~Blind(u) PROVE Covers(u)
  BY <1>h DEF SightedCovers
<1>1. ASSUME NEW t \in Turns, Begin(t) PROVE Untouched(u)
  BY <1>t, <1>1 DEF Begin, Untouched, Blind, Loaded
<1>2. ASSUME NEW t \in Turns, LoadState(t) PROVE Covers(u)'
  <2>1. CASE u # t
    BY <1>t, <1>u, <1>2, <2>1 DEF LoadState, Untouched, Blind
  <2>2. CASE u = t
    <3>1. PICK said \in SUBSET IDENTITY_FACTS :
              \/ st' = [st EXCEPT ![t] =
                    [row EXCEPT !.known_facts = MergeFacts(@ \union contact, said),
                                !.lead_id = @ \/ leadRow]]
              \/ fresh' = fresh \union {t}
      BY <1>2 DEF LoadState
    <3>2. st' = [st EXCEPT ![t] =
                    [row EXCEPT !.known_facts = MergeFacts(@ \union contact, said),
                                !.lead_id = @ \/ leadRow]]
      BY <2>2, <3>1 DEF Blind
    <3>3. st'[t].stage = row.stage /\ row.known_facts \subseteq st'[t].known_facts
      BY <1>t, <3>2 DEF State, MergeFacts
    <3>4. row' = row
      BY <1>2 DEF LoadState
    <3>5. QED
      BY <1>t, <1>r, <2>2, <3>3, <3>4 DEF Covers
  <2>3. QED
    BY <2>1, <2>2
<1>3. ASSUME NEW t \in Turns, Decide(t) PROVE Covers(u)'
  <2>1. CASE u # t
    BY <1>t, <1>u, <1>3, <2>1 DEF Decide, Untouched, Blind
  <2>2. CASE u = t
    <3>1. PICK choice \in Tools \union {"answer"}, stage \in Proposals \union {"greeting"},
               facts \in SUBSET IDENTITY_FACTS :
             st' = [st EXCEPT ![t] = [st[t] EXCEPT !.known_facts = MergeFacts(@, facts),
                                                   !.stage = AdvanceStage(@, stage)]]
      BY <1>3 DEF Decide
    <3>2. /\ st'[t].stage = AdvanceStage(st[t].stage, stage)
          /\ st[t].known_facts \subseteq st'[t].known_facts
      BY <1>t, <3>1 DEF State, MergeFacts
    <3>3. Rank(st[t].stage) <= Rank(st'[t].stage)
      <4>1. st[t].stage \in Stages /\ stage \in Stages
        BY <1>t, StageNames, FrontDeskAssumption DEF State
      <4>2. QED
        BY <3>2, <4>1, AdvanceIsForward
    <3>4. Rank(row.stage) <= Rank(st[t].stage)
          /\ row.known_facts \intersect IDENTITY_FACTS \subseteq st[t].known_facts
      <4>1. pc[t] = "decide" /\ ~Blind(t)
        BY <1>3, <2>2 DEF Decide, Blind
      <4>2. Covers(t)
        BY <1>h, <2>2, <4>1 DEF Loaded
      <4>3. executed[t] # "ok"
        BY <4>1 DEF NotYetRun
      <4>4. QED
        BY <4>2, <4>3 DEF Covers
    <3>5. row' = row
      BY <1>3 DEF Decide
    <3>6. /\ Rank(row.stage) \in 1..8 /\ Rank(st[t].stage) \in 1..8
          /\ Rank(st'[t].stage) \in 1..8
      BY <1>t, <1>r, TypeStep DEF TypeOK
    <3>7. QED
      BY <2>2, <3>2, <3>3, <3>4, <3>5, <3>6 DEF Covers
  <2>3. QED
    BY <2>1, <2>2
<1>4. ASSUME NEW t \in Turns, RunTool(t) PROVE Covers(u)'
  <2>1. CASE u # t
    <3>1. /\ UNCHANGED <<tool, fresh, overtaken, row>>
          /\ pc'[u] = pc[u] /\ st'[u] = st[u] /\ executed'[u] = executed[u]
      BY <1>t, <1>4, <2>1
      DEF RunTool, EnsureLead, UpsertLead, CallTool, CalendarRefuses, ListSlots, ToolFailed,
          Upserted, TakeIdentity, CarryOut, OfferSlots
    <3>2. QED
      BY <1>u, <3>1 DEF Untouched, Blind
  <2>2. CASE u = t
    <3>1. /\ pc[t] \in {"ensure", "call"} /\ executed[t] # "ok"
          /\ UNCHANGED <<tool, fresh, overtaken, row>>
      BY <1>4 DEF RunTool, EnsureLead, UpsertLead, CallTool, CalendarRefuses, ListSlots,
                  Upserted, CarryOut, NotYetRun
    <3>2. Rank(row.stage) <= Rank(st[t].stage)
          /\ row.known_facts \intersect IDENTITY_FACTS \subseteq st[t].known_facts
      BY <1>h, <2>2, <3>1 DEF Covers, Loaded, Blind
    <3>3. st[t].known_facts \intersect IDENTITY_FACTS \subseteq st'[t].known_facts
      <4>1. CASE UNCHANGED st
        BY <4>1
      <4>2. ASSUME NEW f \in SUBSET IDENTITY_FACTS, NEW b \in BOOLEAN, TakeIdentity(t, f, b)
            PROVE  st[t].known_facts \subseteq st'[t].known_facts
        BY <1>t, <4>2 DEF TakeIdentity, State
      <4>3. CASE st' = [st EXCEPT ![t].stage = StageAfter(t)]
        BY <1>t, <4>3 DEF State
      <4>4. ASSUME NEW slots \in BOOLEAN, OfferSlots(t, slots)
            PROVE  st[t].known_facts \intersect IDENTITY_FACTS \subseteq st'[t].known_facts
        BY <1>t, <4>4 DEF OfferSlots, State, IDENTITY_FACTS
      <4>5. IDENTITY_FACTS \in SUBSET IDENTITY_FACTS /\ {"name"} \in SUBSET IDENTITY_FACTS
        BY DEF IDENTITY_FACTS
      <4>6. QED
        BY <1>4, <4>1, <4>2, <4>3, <4>4, <4>5
        DEF RunTool, EnsureLead, UpsertLead, CallTool, CalendarRefuses, ListSlots
    <3>4. \/ Rank(st[t].stage) <= Rank(st'[t].stage)
          \/ tool[t] = "request_handoff" /\ executed'[t] = "ok"
      <4>1. CASE st'[t].stage = st[t].stage
        BY <1>t, <1>r, <4>1
      <4>2. CASE CallTool(t) /\ st' = [st EXCEPT ![t].stage = StageAfter(t)]
                 /\ executed' = [executed EXCEPT ![t] = "ok"]
        <5>1. st'[t].stage = StageAfter(t) /\ executed'[t] = "ok"
          BY <1>t, <4>2 DEF State
        <5>2. CASE tool[t] = "request_handoff"
          BY <5>1, <5>2
        <5>3. CASE tool[t] = "book_meeting"
          <6>1. st'[t].stage = "completed"
            BY <5>1, <5>3 DEF StageAfter
          <6>2. QED
            BY <1>t, <6>1, RankOfStage DEF State
        <5>4. CASE tool[t] \notin {"request_handoff", "book_meeting"}
          <6>1. st'[t].stage = st[t].stage
            BY <5>1, <5>4 DEF StageAfter
          <6>2. QED
            BY <4>1, <6>1
        <5>5. QED
          BY <5>2, <5>3, <5>4
      <4>3. ASSUME NEW f, NEW b, TakeIdentity(t, f, b) PROVE st'[t].stage = st[t].stage
        BY <1>t, <4>3 DEF TakeIdentity, State
      <4>4. ASSUME NEW slots, OfferSlots(t, slots) PROVE st'[t].stage = st[t].stage
        BY <1>t, <4>4 DEF OfferSlots, State
      <4>5. CASE UNCHANGED st
        BY <4>1, <4>5
      <4>6. QED
        BY <1>4, <4>1, <4>2, <4>3, <4>4, <4>5
        DEF RunTool, EnsureLead, UpsertLead, CallTool, CalendarRefuses, ListSlots
    <3>5. /\ Rank(row.stage) \in 1..8 /\ Rank(st[t].stage) \in 1..8
          /\ Rank(st'[t].stage) \in 1..8
      BY <1>t, <1>r, TypeStep DEF TypeOK
    <3>6. QED
      BY <2>2, <3>1, <3>2, <3>3, <3>4, <3>5 DEF Covers
  <2>3. QED
    BY <2>1, <2>2
<1>5. ASSUME NEW t \in Turns, Save(t) \/ SaveLast(t) PROVE Covers(u)'
  <2>1. UNCHANGED <<st, tool, executed, fresh>>
    BY <1>5 DEF Save, SaveLast, PersistState
  <2>2. CASE Put(t)
    <3>1. row' = st[t] /\ (u # t => pc[u] \in {"idle", "load"} \/ u \in overtaken')
      BY <2>2 DEF Put
    <3>2. u = t
      BY <1>t, <1>5, <3>1 DEF Save, SaveLast, PersistState, Loaded, Blind
    <3>3. QED
      BY <1>t, <1>r, <2>1, <3>1, <3>2 DEF Covers
  <2>3. CASE UNCHANGED <<backend, overtaken>>
    BY <1>t, <1>u, <1>5, <2>1, <2>3
    DEF Save, SaveLast, PersistState, Untouched, Blind, Loaded
  <2>4. QED
    BY <1>5, <2>2, <2>3 DEF Save, SaveLast, PersistState
<1>6. ASSUME NEW t \in Turns, ComposeReply(t) PROVE Untouched(u)
  BY <1>t, <1>6 DEF ComposeReply, Untouched, Blind, Loaded
<1>7. CASE Crash
  BY <1>7 DEF Crash, Loaded
<1>8. ASSUME UNCHANGED vars PROVE Untouched(u)
  BY <1>8 DEF vars, Untouched, Blind
<1>9. QED
  BY <1>u, <1>1, <1>2, <1>3, <1>4, <1>5, <1>6, <1>7, <1>8 DEF Next, Step

\* The row changes by the save of one turn.
LEMMA RowChanges ==
    ASSUME Next, row' # row PROVE \E t \in Turns : Saves(t)
  BY DEF Next, Step, RunTool, Begin, LoadState, Decide, EnsureLead, UpsertLead, Upserted,
         CallTool, CarryOut, CalendarRefuses, ListSlots, Save, SaveLast, PersistState, Put,
         ComposeReply, Crash, Saves

SightedInv == TypeOK /\ NotYetRun /\ SightedCovers

LEMMA SightedInvariant == Spec => []SightedInv
<1>1. Init => SightedInv
  BY TypeInit DEF Init, SightedInv, NotYetRun, SightedCovers, Loaded
<1>2. SightedInv /\ [Next]_vars => SightedInv'
  BY TypeStep, NotYetRunStep, CoversStep DEF SightedInv
<1>3. QED
  BY <1>1, <1>2, PTL DEF Spec

LEMMA RewindStep ==
    SightedInv /\ [Next]_vars =>
        [Rank(row'.stage) < Rank(row.stage) =>
            \E t \in Turns :
               /\ Saves(t)
               /\ \/ Blind(t)
                  \/ tool[t] = "request_handoff" /\ executed[t] = "ok"]_vars
<1> SUFFICES ASSUME SightedInv, Next, Rank(row'.stage) < Rank(row.stage)
             PROVE  \E t \in Turns :
                       /\ Saves(t)
                       /\ \/ Blind(t)
                          \/ tool[t] = "request_handoff" /\ executed[t] = "ok"
  OBVIOUS
<1>1. Rank(row.stage) \in 1..8
  BY RankOfStage DEF SightedInv, TypeOK, State
<1>2. PICK t \in Turns : Saves(t)
  BY <1>1, RowChanges
<1>3. Blind(t) \/ Covers(t)
  BY <1>2 DEF SightedInv, SightedCovers, Saves, Loaded
<1>4. row' = st[t] /\ Rank(st[t].stage) \in 1..8
  BY <1>2, RankOfStage DEF Saves, SightedInv, TypeOK, State
<1>5. QED
  BY <1>1, <1>2, <1>3, <1>4 DEF Covers

LEMMA FactsStep ==
    SightedInv /\ [Next]_vars =>
        [\A f \in IDENTITY_FACTS : f \in row.known_facts =>
            f \in row'.known_facts \/ \E t \in Turns : Saves(t) /\ Blind(t)]_vars
<1> SUFFICES ASSUME SightedInv, Next,
                    NEW f \in IDENTITY_FACTS, f \in row.known_facts, f \notin row'.known_facts
             PROVE  \E t \in Turns : Saves(t) /\ Blind(t)
  OBVIOUS
<1>1. PICK t \in Turns : Saves(t)
  BY RowChanges
<1>2. Blind(t) \/ Covers(t)
  BY <1>1 DEF SightedInv, SightedCovers, Saves, Loaded
<1>3. QED
  BY <1>1, <1>2 DEF Covers, Saves

\* Whatever turns overlap and whatever fails, only a turn that has not seen what
\* it overwrites, or one with a confirmed handoff, sets the saved stage back.
THEOREM RewindsAreExplained == Spec => RewindNeedsCause
  BY SightedInvariant, RewindStep, PTL DEF Spec, RewindNeedsCause

\* ... and only a turn that has not seen them drops the visitor's name and email.
THEOREM FactsAreKept == Spec => FactsLostNeedBlindTurn
  BY SightedInvariant, FactsStep, PTL DEF Spec, FactsLostNeedBlindTurn
=============================================================================
