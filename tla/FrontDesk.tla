------------------------------ MODULE FrontDesk ------------------------------
(***************************************************************************)
(* One visitor's session at the front desk: app/workflows/frontdesk.py.    *)
(* A turn is a coroutine serving one chat request.  It reads the session   *)
(* from the backend, asks the model for a decision, runs at most one tool  *)
(* there, and writes the whole session state back, twice.  Nothing orders  *)
(* the turns of a session: between two awaits of one any other may run.    *)
(*                                                                         *)
(* The model's decision is any of those the parser lets through.  A call   *)
(* of the backend succeeds, fails, or is applied and its answer lost.  Of  *)
(* the facts about the visitor only those the code reads are kept: name,   *)
(* email and the slots offered last.                                       *)
(***************************************************************************)
EXTENDS Naturals, Sequences

CONSTANTS Turns,       \* coroutines that may serve the session at a time
          Tools,       \* tools the model picks in this instance
          Proposals,   \* stages the model proposes in this instance
          MaxTurns,    \* bound on the chat requests of a behaviour
          MaxFaults    \* bound on failed calls, lost answers and crashes

STAGE_ORDER == <<"greeting", "identity", "business_context", "problem",
                 "qualification", "meeting_offer", "handoff", "completed">>
Stages == {STAGE_ORDER[i] : i \in DOMAIN STAGE_ORDER}

LeadBound == {"save_note", "create_task", "book_meeting"}
ALLOWED_TOOLS == LeadBound \union
                 {"answer", "upsert_lead", "request_handoff", "list_slots"}

IDENTITY_FACTS == {"name", "email"}
Facts == IDENTITY_FACTS \union {"offered_slots"}

ASSUME FrontDeskAssumption ==
    /\ Tools \subseteq ALLOWED_TOOLS /\ Proposals \subseteq Stages
    /\ MaxTurns \in Nat /\ MaxFaults \in Nat

VARIABLES row,       \* the session's ai_state at the backend
          contact,   \* identity facts the session's contact has there
          leadRow,   \* the session's contact is a lead
          accepted,  \* the backend accepted an upsert for the session
          done       \* tools the backend has carried out for the session

VARIABLES pc,        \* what each turn does next
          st,        \* FrontDeskState of each turn
          tool,      \* decision.tool
          executed,  \* executed: not run, ok or failed
          reply      \* what the reply reports

VARIABLES turns,     \* chat requests so far
          faults,    \* failures so far
          fresh,     \* turns that could not load the state
          overtaken, \* turns since whose load another turn has saved
          carried    \* turns whose own tool call the backend carried out

backend == <<row, contact, leadRow, accepted, done>>
ghosts == <<fresh, overtaken, carried>>
vars == <<backend, pc, st, tool, executed, reply, turns, faults, ghosts>>

State == [stage : Stages, known_facts : SUBSET Facts, lead_id : BOOLEAN]
Fresh == [stage |-> "greeting", known_facts |-> {}, lead_id |-> FALSE]

TypeOK ==
    /\ row \in State
    /\ contact \subseteq IDENTITY_FACTS
    /\ leadRow \in BOOLEAN /\ accepted \in BOOLEAN
    /\ done \subseteq ALLOWED_TOOLS
    /\ pc \in [Turns -> {"idle", "load", "decide", "ensure", "call", "save",
                         "compose", "save_last"}]
    /\ st \in [Turns -> State]
    /\ tool \in [Turns -> ALLOWED_TOOLS]
    /\ executed \in [Turns -> {"none", "ok", "failed"}]
    /\ reply \in [Turns -> {"none", "draft", "done", "not_done"}]
    /\ turns \in 0..MaxTurns /\ faults \in 0..MaxFaults
    /\ fresh \subseteq Turns /\ overtaken \subseteq Turns /\ carried \subseteq Turns

Init ==
    /\ row = Fresh
    /\ contact = {} /\ leadRow = FALSE /\ accepted = FALSE /\ done = {}
    /\ pc = [t \in Turns |-> "idle"]
    /\ st = [t \in Turns |-> Fresh]
    /\ tool = [t \in Turns |-> "answer"]
    /\ executed = [t \in Turns |-> "none"]
    /\ reply = [t \in Turns |-> "none"]
    /\ turns = 0 /\ faults = 0
    /\ fresh = {} /\ overtaken = {} /\ carried = {}

-----------------------------------------------------------------------------
\* _stage_rank: the index in STAGE_ORDER (which DOMAIN counts from 1).
Rank(s) == CHOOSE i \in DOMAIN STAGE_ORDER : STAGE_ORDER[i] = s

Goto(t, s) == pc' = [pc EXCEPT ![t] = s]
At(t, s) == pc[t] = s
Fault == faults < MaxFaults /\ faults' = faults + 1

\* Mutant of AdvanceStage: the model's stage is taken as it is.
AdvanceStage_Any(current, proposed) == proposed

\* _advance_stage
AdvanceStage(current, proposed) ==
    IF Rank(proposed) > Rank(current) THEN proposed ELSE current

\* Mutant of MergeFacts: the new facts replace the old ones.
MergeFacts_Replace(current, incoming) == incoming

\* _merge_facts: a fact that is known keeps its value.
MergeFacts(current, incoming) == current \union incoming

\* POST /chat or /chat/stream
Begin(t) ==
    /\ At(t, "idle") /\ turns < MaxTurns
    /\ turns' = turns + 1
    /\ Goto(t, "load")
    /\ st' = [st EXCEPT ![t] = Fresh]
    /\ tool' = [tool EXCEPT ![t] = "answer"]
    /\ executed' = [executed EXCEPT ![t] = "none"]
    /\ reply' = [reply EXCEPT ![t] = "none"]
    /\ fresh' = fresh \ {t} /\ overtaken' = overtaken \ {t}
    /\ carried' = carried \ {t}
    /\ UNCHANGED <<backend, faults>>

\* _load_state: the session's state and its contact.  When the call fails or
\* the state does not validate, an empty one.  Either way the facts found in
\* the transcript are added.
LoadState(t) ==
    /\ At(t, "load")
    /\ \E said \in SUBSET IDENTITY_FACTS :
          \/ /\ st' = [st EXCEPT ![t] =
                  [row EXCEPT !.known_facts = MergeFacts(@ \union contact, said),
                              !.lead_id = @ \/ leadRow]]
             /\ UNCHANGED <<faults, fresh>>
          \/ /\ Fault
             /\ st' = [st EXCEPT ![t] = [Fresh EXCEPT !.known_facts = said]]
             /\ fresh' = fresh \union {t}
    /\ Goto(t, "decide")
    /\ UNCHANGED <<backend, tool, executed, reply, turns, overtaken, carried>>

\* Mutant of AfterDecision: the tool does not wait for a lead.
AfterDecision_Eager(s, choice) ==
    IF choice = "answer" THEN {<<"save", "none">>}
    ELSE {<<"save", "failed">>, <<"call", "none">>}

\* Where a turn goes with its decision: a tool with invalid arguments fails at
\* once, a lead-bound one without a lead first needs name and email.
AfterDecision(s, choice) ==
    IF choice = "answer" THEN {<<"save", "none">>}
    ELSE {<<"save", "failed">>} \union
         (IF choice \notin LeadBound \/ s.lead_id THEN {<<"call", "none">>}
          ELSE IF IDENTITY_FACTS \subseteq s.known_facts THEN {<<"ensure", "none">>}
          ELSE {})

\* _retrieve, which only reads, then _decide, and the merge of its facts and
\* stage into the state.  A provider failure answers at stage greeting.
Decide(t) ==
    /\ At(t, "decide")
    /\ \E choice \in Tools \union {"answer"}, stage \in Proposals \union {"greeting"},
          facts \in SUBSET IDENTITY_FACTS :
          LET s == [st[t] EXCEPT !.known_facts = MergeFacts(@, facts),
                                 !.stage = AdvanceStage(@, stage)] IN
          /\ st' = [st EXCEPT ![t] = s]
          /\ tool' = [tool EXCEPT ![t] = choice]
          /\ \E next \in AfterDecision(s, choice) :
                /\ Goto(t, next[1])
                /\ executed' = [executed EXCEPT ![t] = next[2]]
    /\ UNCHANGED <<backend, reply, turns, faults, ghosts>>

\* POST /leads/upsert (external): the session's contact becomes a lead, or the
\* backend finds no single match and answers without one.
Upserted(facts, lead) ==
    /\ contact' = contact \union facts
    /\ leadRow' = (leadRow \/ lead)
    /\ accepted' = TRUE
    /\ done' = done \union {"upsert_lead"}
    /\ UNCHANGED row

\* What the turn does with the answer: the identity is replaced.
TakeIdentity(t, facts, lead) ==
    st' = [st EXCEPT ![t].lead_id = lead, ![t].known_facts = @ \union facts]

ToolFailed(t) ==
    /\ executed' = [executed EXCEPT ![t] = "failed"]
    /\ Goto(t, "save")

\* _ensure_lead: an upsert with the name and email in the state, and then the
\* turn's own tool.
EnsureLead(t) ==
    /\ At(t, "ensure")
    /\ \/ \E lead \in BOOLEAN :
             /\ Upserted(IDENTITY_FACTS, lead)
             /\ TakeIdentity(t, IDENTITY_FACTS, lead)
             /\ Goto(t, "call")
             /\ UNCHANGED <<executed, faults>>
       \/ /\ Fault
          /\ \/ UNCHANGED backend
             \/ \E lead \in BOOLEAN : Upserted(IDENTITY_FACTS, lead)
          /\ ToolFailed(t)
          /\ UNCHANGED st
    /\ UNCHANGED <<tool, reply, turns, ghosts>>

\* upsert_lead as the turn's tool: the model's arguments have a name, perhaps
\* an email.
UpsertLead(t) ==
    /\ At(t, "call") /\ tool[t] = "upsert_lead"
    /\ \E facts \in {{"name"}, IDENTITY_FACTS}, lead \in BOOLEAN :
          \/ /\ Upserted(facts, lead)
             /\ TakeIdentity(t, facts, lead)
             /\ executed' = [executed EXCEPT ![t] = "ok"] /\ Goto(t, "save")
             /\ carried' = carried \union {t}
             /\ UNCHANGED faults
          \/ /\ Fault
             /\ \/ UNCHANGED <<backend, carried>>
                \/ Upserted(facts, lead) /\ carried' = carried \union {t}
             /\ ToolFailed(t)
             /\ UNCHANGED st
    /\ UNCHANGED <<tool, reply, turns, fresh, overtaken>>

CarryOut(t) ==
    /\ done' = done \union {tool[t]}
    /\ carried' = carried \union {t}
    /\ UNCHANGED <<row, contact, leadRow, accepted>>

\* The stage a successful tool sets.
StageAfter(t) ==
    CASE tool[t] = "request_handoff" -> "handoff"
      [] tool[t] = "book_meeting" -> "completed"
      [] OTHER -> st[t].stage

\* save_note, create_task, request_handoff and book_meeting when the backend
\* does it: the answer arrives, or is lost and the tool counts as failed.
CallTool(t) ==
    /\ At(t, "call") /\ tool[t] \in LeadBound \union {"request_handoff"}
    /\ \/ /\ CarryOut(t)
          /\ st' = [st EXCEPT ![t].stage = StageAfter(t)]
          /\ executed' = [executed EXCEPT ![t] = "ok"] /\ Goto(t, "save")
          /\ UNCHANGED faults
       \/ /\ Fault
          /\ CarryOut(t) \/ UNCHANGED <<backend, carried>>
          /\ ToolFailed(t)
          /\ UNCHANGED st
    /\ UNCHANGED <<tool, reply, turns, fresh, overtaken>>

OfferSlots(t, slots) ==
    st' = [st EXCEPT ![t].known_facts =
              IF slots THEN @ \union {"offered_slots"} ELSE @ \ {"offered_slots"}]

\* Mutant of CalendarRefuses: a 200 is a booking.
CalendarRefuses_Ok(t) ==
    /\ At(t, "call") /\ tool[t] = "book_meeting"
    /\ executed' = [executed EXCEPT ![t] = "ok"] /\ Goto(t, "save")
    /\ st' = [st EXCEPT ![t].stage = "completed"]
    /\ UNCHANGED <<backend, tool, reply, turns, faults, ghosts>>

\* book_meeting answered 200 with calendar_synced false: the slot is refused
\* and the alternatives, if any, replace those offered before.
CalendarRefuses(t) ==
    /\ At(t, "call") /\ tool[t] = "book_meeting"
    /\ ToolFailed(t)
    /\ \E slots \in BOOLEAN : OfferSlots(t, slots)
    /\ UNCHANGED <<backend, tool, reply, turns, faults, ghosts>>

\* list_slots: ok when the day has openings.  Nothing changes at the backend,
\* and nothing is there to be carried out.
ListSlots(t) ==
    /\ At(t, "call") /\ tool[t] = "list_slots"
    /\ \/ \E slots \in BOOLEAN :
             /\ OfferSlots(t, slots)
             /\ executed' = [executed EXCEPT ![t] = IF slots THEN "ok" ELSE "failed"]
             /\ carried' = IF slots THEN carried \union {t} ELSE carried
             /\ Goto(t, "save")
             /\ UNCHANGED faults
       \/ Fault /\ ToolFailed(t) /\ UNCHANGED <<st, carried>>
    /\ UNCHANGED <<backend, tool, reply, turns, fresh, overtaken>>

\* PUT /sessions/{id}/state: the whole state, whoever wrote last.
Put(t) ==
    /\ row' = st[t]
    /\ overtaken' = overtaken \union
                    {u \in Turns \ {t} : pc[u] \notin {"idle", "load"}}
    /\ UNCHANGED <<contact, leadRow, accepted, done>>

\* _persist_state: a failure is logged and the turn goes on.
PersistState(t, here, there) ==
    /\ At(t, here)
    /\ \/ Put(t) /\ UNCHANGED faults
       \/ Fault /\ Put(t)
       \/ Fault /\ UNCHANGED <<backend, overtaken>>
    /\ Goto(t, there)
    /\ UNCHANGED <<st, tool, executed, reply, turns, fresh, carried>>

\* _compose_reply: the draft of an answer; for a tool a text made from its
\* result, by the model or, when that fails, by _template_reply.
ComposeReply(t) ==
    /\ At(t, "compose")
    /\ reply' = [reply EXCEPT ![t] =
                    IF executed[t] = "none" THEN "draft"
                    ELSE IF executed[t] = "ok" THEN "done" ELSE "not_done"]
    /\ Goto(t, "save_last")
    /\ UNCHANGED <<backend, st, tool, executed, turns, faults, ghosts>>

\* The service stops: the turn is gone, what the backend has stays.
Crash ==
    /\ Fault
    /\ pc' = [t \in Turns |-> "idle"]
    /\ UNCHANGED <<backend, st, tool, executed, reply, turns, ghosts>>

-----------------------------------------------------------------------------
Save(t) == PersistState(t, "save", "compose")
SaveLast(t) == PersistState(t, "save_last", "idle")

RunTool(t) == EnsureLead(t) \/ UpsertLead(t) \/ CallTool(t)
              \/ CalendarRefuses(t) \/ ListSlots(t)

Step(t) == LoadState(t) \/ Decide(t) \/ RunTool(t) \/ Save(t)
           \/ ComposeReply(t) \/ SaveLast(t)

Next == (\E t \in Turns : Begin(t) \/ Step(t)) \/ Crash

Spec == Init /\ [][Next]_vars

-----------------------------------------------------------------------------
(* Properties                                                               *)

\* A report is true: a turn that tells the visitor its tool succeeded had that call
\* carried out by the backend ("Never claim completion before backend
\* confirmation", prompts/frontdesk/guardrails.md), and one that reports a failure
\* did not, unless an answer was lost: the visitor who asks again does not book
\* twice.
ReportIsTrue ==
    \A t \in Turns : /\ reply[t] = "done" => t \in carried
                     /\ reply[t] = "not_done" /\ faults = 0 => t \notin carried

\* A note, a task or a meeting reaches the backend only for a session whose
\* lead was upserted before, in this turn or another.
LeadBoundFollowsUpsert == done \intersect LeadBound # {} => accepted

Saves(t) == (At(t, "save") \/ At(t, "save_last")) /\ row' = st[t]

\* The turn wrote over a state it had not read.
Blind(t) == t \in fresh \union overtaken

\* The saved stage moves back only when a handoff is confirmed in a session that
\* was completed, or when the turn that saves has not seen what it overwrites: its
\* load failed, or another turn saved since.
RewindNeedsCause ==
    [][Rank(row'.stage) < Rank(row.stage) =>
          \E t \in Turns :
             /\ Saves(t)
             /\ \/ Blind(t)
                \/ tool[t] = "request_handoff" /\ executed[t] = "ok"]_vars

\* The visitor's name and email, once saved, are lost only to such a turn.
FactsLostNeedBlindTurn ==
    [][\A f \in IDENTITY_FACTS : f \in row.known_facts =>
          f \in row'.known_facts \/ \E t \in Turns : Saves(t) /\ Blind(t)]_vars

\* Claimed, and not so: "Discovery is a forward-only state machine"
\* (prompts/frontdesk/discovery.md).
ForwardOnly == [][Rank(row'.stage) >= Rank(row.stage)]_vars
=============================================================================
