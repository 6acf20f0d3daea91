--------------------------- MODULE AgentRuns_proofs ---------------------------
(***************************************************************************)
(* Proofs about AgentRuns for every set of deliveries, records and event   *)
(* ids, every sweep and every event type: the planner's policy, type       *)
(* correctness, one action per run, the cooldown, the notes of deadline    *)
(* alerts, the meaning of a completed, a failed and an open run, when a    *)
(* run is executed again, and the contract of a run.                       *)
(***************************************************************************)
EXTENDS AgentRuns, TLAPS

(***************************************************************************)
(* What the planner's policy guarantees of a plan, whatever the model      *)
(* replied.                                                                *)
(***************************************************************************)
LEMMA NormalForm ==
    ASSUME NEW p \in PlannedActions, NEW actor \in Recipients
    PROVE  /\ NormalizePlan(p, actor) \in PlannedActions
           /\ NormalizePlan(p, actor).recipient \in {Nobody, actor}
  BY DEF NormalizePlan, Validated, Addressed, AllowedType, PolicyFlag, PolicyRecipient,
         Choice, PlannedActions, ActionTypes, Flags, HighRisk

\* The three rules of action_policy.py hold of every plan, whatever its type and
\* whomever it names: the type is an allowed one, a task requires approval and
\* no flag is left open, and the recipient is the actor or nobody.  An alert is
\* for the actor.
THEOREM PlansObeyPolicy ==
    ASSUME NEW type, NEW flag \in Flags, NEW recipient \in Recipients,
           NEW actor \in Recipients
    PROVE  LET q == NormalizePlan(Choice(type, flag, recipient), actor)
           IN  /\ q.type \in ActionTypes
               /\ q.flag # "unset"
               /\ q.type = "create_task" => q.flag = "yes"
               /\ q.recipient \in {Nobody, actor}
               /\ q.type = "create_alert" => q.recipient = actor
<1> DEFINE p == Addressed(Choice(type, flag, recipient), actor)
<1>1. p.type = type /\ p.flag = flag /\ p.recipient \in {recipient, actor}
  BY DEF Addressed, Choice
<1>2. type = "create_alert" => (p.recipient = Nobody <=> actor = Nobody /\ recipient = Nobody)
  BY ActionPolicyAssumption DEF Addressed, Choice
<1>3. QED
  BY <1>1, <1>2 DEF NormalizePlan, Validated, AllowedType, PolicyFlag, PolicyRecipient,
     Choice, ActionTypes, Flags, HighRisk

-----------------------------------------------------------------------------
(***************************************************************************)
(* Types.                                                                  *)
(***************************************************************************)
USE DEF Goto, Fault, Raise, backendVars, localVars, exitVars, faultVars, raceVars,
        historyVars, Terminal, Status, Executing, Steps, Advices, ActionTypes, EntityIn, Begin,
        Post, NoPost
USE DEF Choices, NoAction, Choice, PlannedActions, Flags, Recipients

LEMMA BucketsOfRuns ==
    ASSUME TypeOK, NEW d \in Deliveries
    PROVE  <<EntityOf[d], WindowBucket(d)>> \in Runs
  BY AgentRunsAssumption DEF TypeOK, Runs, Buckets, WindowBucket

LEMMA OpenedType ==
    ASSUME TypeOK, NEW k \in Runs PROVE Opened(k) \in [Runs -> Status]
  BY DEF TypeOK, Opened

LEMMA AcceptType ==
    ASSUME TypeOK, NEW d \in Deliveries, plan[d] \in PlannedActions
    PROVE  Accept(NewAction(d)) \subseteq Actions
<1>1. NewAction(d) \in Actions
  BY DEF TypeOK, NewAction, Actions, Approval
<1>2. QED
  BY <1>1 DEF TypeOK, Accept

\* The planner's answer is well formed and addressed to the actor or nobody.
LEMMA PlannerTypes ==
    ASSUME NEW d \in Deliveries, NEW p \in Planner(d)
    PROVE  /\ p \in PlannedActions
           /\ p.recipient \in {Nobody, Actor(d)} /\ Actor(d) \in Recipients
<1>1. Actor(d) \in Recipients
  BY AgentRunsAssumption DEF Actor
<1>2. PICK q \in PlannedActions \union {FallbackPlan(EventType, Actor(d))} :
        p = NormalizePlan(q, Actor(d))
  BY DEF Planner, Plans
<1>3. q \in PlannedActions
  BY <1>1, <1>2 DEF FallbackPlan
<1>4. QED
  BY <1>1, <1>2, <1>3, NormalForm

LEMMA PlanTypes ==
    ASSUME NEW d \in Deliveries PROVE PlanChoices(d) \subseteq Choices
<1>1. DealChoices(d) \subseteq Choices
  BY PlannerTypes DEF DealChoices, DealRecipient
<1>2. SummaryChoices(d) \subseteq Choices
  BY PlannerTypes DEF SummaryChoices
<1>3. QED
  BY <1>1, <1>2 DEF PlanChoices, LeadChoices, AutoChoices, MeetingChoices

\* What is dispatched is an action, never the decision not to act.
Planned == \A d \in Deliveries : pc[d] = "dispatch" => plan[d] \in PlannedActions

TypeInv == TypeOK /\ Planned

LEMMA TypeInvInit == Init => TypeInv
<1> SUFFICES ASSUME Init PROVE TypeInv
  OBVIOUS
<1>1. pc = [d \in Deliveries |-> "idle"]
  BY DEF Init
<1>2. key \in [Deliveries -> Runs]
  BY AgentRunsAssumption DEF Init, Runs, Buckets
<1>3. aborted \in BOOLEAN
  BY Zenon DEF Init
<1>3a. /\ content \in [Deliveries -> Contents] /\ advice \in [Deliveries -> Advices]
       /\ left \subseteq Deliveries /\ lost \in [Deliveries -> SUBSET Steps]
       /\ cut \subseteq Deliveries /\ overtaken \in [Deliveries -> SUBSET Deliveries]
  <2>1. (CHOOSE x \in Contents : TRUE) \in Contents
    BY AgentRunsAssumption
  <2>2. QED
    BY <2>1 DEF Init
<1>4. clock \in 0..MaxClock /\ faults \in 0..MaxFaults
  BY AgentRunsAssumption DEF Init
<1>5. /\ run \in [Runs -> Status] /\ actions \subseteq Actions /\ rejected \subseteq Actions /\ alerted \subseteq Entities \X Contents
      /\ memory \in [Deliveries -> SUBSET Actions]
      /\ plan \in [Deliveries -> Choices]
      /\ executors \in [Runs -> SUBSET Deliveries] /\ declined \subseteq Runs
  BY DEF Init
<1>6. pc \in [Deliveries -> Steps] /\ Planned
  BY <1>1 DEF Planned
<1>7. QED
  BY <1>2, <1>3, <1>3a, <1>4, <1>5, <1>6, Zenon DEF TypeInv, TypeOK

\* What is recorded of a failed call, and of where it leads
LEMMA LossType ==
    ASSUME TypeInv, NEW d \in Deliveries,
           lost' \in {lost, [lost EXCEPT ![d] = @ \union {pc[d]}]}
    PROVE  lost' \in [Deliveries -> SUBSET Steps]
<1>1. lost \in [Deliveries -> SUBSET Steps] /\ pc[d] \in Steps
  BY DEF TypeInv, TypeOK
<1>2. QED
  BY ONLY <1>1, lost' \in {lost, [lost EXCEPT ![d] = @ \union {pc[d]}]}

LEMMA PostType ==
    ASSUME TypeInv, NEW d \in Deliveries, Post(d)
    PROVE  overtaken' \in [Deliveries -> SUBSET Deliveries]
  BY DEF TypeInv, TypeOK

LEMMA SettleType ==
    ASSUME TypeInv, NEW d \in Deliveries, NEW s \in Terminal, Settle(d, s)
    PROVE  TypeInv'
<1> USE AgentRunsAssumption DEF TypeInv, TypeOK, Planned
<1>1. run' \in [Runs -> Status]
  BY DEF Settle
<1>2. faults' \in 0..MaxFaults /\ pc' \in [Deliveries -> Steps] /\ Planned'
  BY DEF Settle
<1>3. aborted' \in BOOLEAN
  BY DEF Settle
<1>3a. lost' \in {lost, [lost EXCEPT ![d] = @ \union {pc[d]}]} /\ left' \subseteq Deliveries
  BY DEF Settle
<1>3b. lost' \in [Deliveries -> SUBSET Steps]
  BY <1>3a, LossType
<1>4. QED
  BY <1>1, <1>2, <1>3, <1>3a, <1>3b DEF Settle

LEMMA TypeInvStep == TypeInv /\ [Next]_vars => TypeInv'
<1> SUFFICES ASSUME TypeInv, [Next]_vars PROVE TypeInv'
  OBVIOUS
<1> USE AgentRunsAssumption DEF TypeInv, TypeOK, Planned
<1>1. ASSUME NEW d \in Deliveries, Interpret(d) PROVE TypeInv'
  <2>1. <<EntityOf[d], WindowBucket(d)>> \in Runs
    BY BucketsOfRuns
  <2>2. /\ key' \in [Deliveries -> Runs] /\ content' \in [Deliveries -> Contents]
        /\ advice' \in [Deliveries -> Advices]
    BY <1>1, <2>1 DEF Interpret, AdvicesOf
  <2>3. pc' \in [Deliveries -> Steps] /\ Planned'
    BY <1>1 DEF Interpret
  <2>4. QED
    BY <1>1, <2>2, <2>3 DEF Interpret
<1>2. ASSUME NEW d \in Deliveries, CreateRun(d) PROVE TypeInv'
  <2>1. run' \in [Runs -> Status]
    BY <1>2, OpenedType DEF CreateRun
  <2>2. executors' \in [Runs -> SUBSET Deliveries]
    BY <1>2 DEF CreateRun
  <2>3. faults' \in 0..MaxFaults /\ pc' \in [Deliveries -> Steps] /\ Planned'
    BY <1>2 DEF CreateRun
  <2>4. aborted' \in BOOLEAN
    BY <1>2 DEF CreateRun
  <2>5. lost' \in {lost, [lost EXCEPT ![d] = @ \union {pc[d]}]} /\ left' \subseteq Deliveries
    BY <1>2 DEF CreateRun
  <2>5b. lost' \in [Deliveries -> SUBSET Steps]
    BY <2>5, LossType
  <2>6. QED
    BY <1>2, <2>1, <2>2, <2>3, <2>4, <2>5, <2>5b DEF CreateRun
<1>3. ASSUME NEW d \in Deliveries, Context(d) PROVE TypeInv'
  <2>1. \A e : \A m \in Remembered(e) : m \ rejected \subseteq Actions
    BY DEF Remembered, AiTasks
  <2>2. memory' \in [Deliveries -> SUBSET Actions]
    <3>1. CASE UNCHANGED memory
      BY <3>1
    <3>2. ASSUME NEW m \in Remembered(EntityOf[d]), memory' = [memory EXCEPT ![d] = m \ rejected]
          PROVE  memory' \in [Deliveries -> SUBSET Actions]
      <4>1. m \ rejected \in SUBSET Actions
        BY <2>1
      <4>2. memory \in [Deliveries -> SUBSET Actions]
        OBVIOUS
      <4>3. QED
        BY ONLY <3>2, <4>1, <4>2
    <3>3. QED
      BY <1>3, <3>1, <3>2 DEF Context
  <2>3. faults' \in 0..MaxFaults /\ pc' \in [Deliveries -> Steps] /\ Planned'
    BY <1>3 DEF Context
  <2>4. lost' \in {lost, [lost EXCEPT ![d] = @ \union {pc[d]}]} /\ cut' \subseteq Deliveries
    BY <1>3 DEF Context
  <2>4b. lost' \in [Deliveries -> SUBSET Steps]
    BY <2>4, LossType
  <2>5. QED
    BY <1>3, <2>2, <2>3, <2>4, <2>4b DEF Context
<1>4. ASSUME NEW d \in Deliveries, Plan(d) PROVE TypeInv'
  <2>1. CASE Fault(d, "fail") /\ UNCHANGED <<plan, declined>>
    <3>1. lost' \in [Deliveries -> SUBSET Steps]
      BY <2>1, LossType
    <3>2. QED
      BY <1>4, <2>1, <3>1 DEF Plan
  <2>2. ASSUME NEW t \in PlanChoices(d), plan' = [plan EXCEPT ![d] = t],
               Goto(d, IF t = NoAction THEN "confirm" ELSE "dispatch"),
               declined' = IF t = NoAction THEN declined \union {key[d]} ELSE declined,
               UNCHANGED faultVars
        PROVE  TypeInv'
    <3>1. t \in Choices
      BY PlanTypes
    <3>2. CASE t = NoAction
      BY <1>4, <2>2, <3>2 DEF Plan
    <3>3. CASE t # NoAction
      BY <1>4, <2>2, <3>1, <3>3 DEF Plan
    <3>4. QED
      BY <3>2, <3>3
  <2>3. QED
    BY <1>4, <2>1, <2>2 DEF Plan
<1>5. ASSUME NEW d \in Deliveries, OwnRun(d) PROVE TypeInv'
  <2>1. PICK s \in {"complete", "record", "fail"} : Goto(d, s)
    BY <1>5 DEF OwnRun
  <2>1a. pc' \in [Deliveries -> Steps]
    BY <2>1
  <2>1b. plan' = plan
    BY <1>5 DEF OwnRun
  <2>1c. Planned'
    BY <2>1, <2>1b
  <2>1d. faults' \in 0..MaxFaults
    BY <1>5 DEF OwnRun
  <2>1e. declined' \subseteq Runs
    BY <1>5 DEF OwnRun
  <2>2. lost' \in {lost, [lost EXCEPT ![d] = @ \union {pc[d]}]}
    BY <1>5 DEF OwnRun
  <2>2b. lost' \in [Deliveries -> SUBSET Steps]
    BY <2>2, LossType
  <2>3. QED
    BY <1>5, <2>1a, <2>1c, <2>1d, <2>1e, <2>2b DEF OwnRun
<1>6. ASSUME NEW d \in Deliveries, RecordAlert(d) PROVE TypeInv'
  <2>1. Task(d) \in Entities \X Contents
    BY DEF Task
  <2>2. alerted' \subseteq Entities \X Contents
    BY <1>6, <2>1 DEF RecordAlert
  <2>3. faults' \in 0..MaxFaults
    BY <1>6 DEF RecordAlert
  <2>3a. \/ plan' = [plan EXCEPT ![d] = DeadlineNote] /\ Goto(d, "dispatch")
         \/ UNCHANGED plan /\ Goto(d, "fail")
    BY <1>6 DEF RecordAlert
  <2>3b. plan' \in [Deliveries -> Choices] /\ pc' \in [Deliveries -> Steps] /\ Planned'
    <3>1. CASE plan' = [plan EXCEPT ![d] = DeadlineNote] /\ Goto(d, "dispatch")
      <4>1. DeadlineNote \in PlannedActions
        BY DEF DeadlineNote
      <4>2. plan' \in [Deliveries -> Choices] /\ pc' \in [Deliveries -> Steps]
        BY <3>1, <4>1
      <4>3. Planned'
        BY <3>1, <4>1
      <4>4. QED
        BY <4>2, <4>3
    <3>2. CASE UNCHANGED plan /\ Goto(d, "fail")
      BY <3>2
    <3>3. QED
      BY <2>3a, <3>1, <3>2
  <2>4. lost' \in {lost, [lost EXCEPT ![d] = @ \union {pc[d]}]}
    BY <1>6 DEF RecordAlert
  <2>4b. lost' \in [Deliveries -> SUBSET Steps]
    BY <2>4, LossType
  <2>5. QED
    BY <1>6, <2>2, <2>3, <2>3b, <2>4b DEF RecordAlert
<1>7. ASSUME NEW d \in Deliveries, Dispatch(d) PROVE TypeInv'
  <2>1. actions' \subseteq Actions
    BY <1>7, AcceptType DEF Dispatch
  <2>2. overtaken' \in [Deliveries -> SUBSET Deliveries]
    BY <1>7, PostType DEF Dispatch
  <2>3. faults' \in 0..MaxFaults
    BY <1>7 DEF Dispatch
  <2>3a. \E s \in {"confirm", "fail"} : Goto(d, s)
    BY <1>7 DEF Dispatch
  <2>3b. pc' \in [Deliveries -> Steps] /\ Planned'
    BY <1>7, <2>3a DEF Dispatch
  <2>4. lost' \in {lost, [lost EXCEPT ![d] = @ \union {pc[d]}]}
    BY <1>7 DEF Dispatch
  <2>4b. lost' \in [Deliveries -> SUBSET Steps]
    BY <2>4, LossType
  <2>5. QED
    BY <1>7, <2>1, <2>2, <2>3, <2>3b, <2>4b DEF Dispatch
<1>8. ASSUME NEW d \in Deliveries, Confirm(d) PROVE TypeInv'
  <2>1. pc' \in [Deliveries -> Steps] /\ Planned' /\ faults' \in 0..MaxFaults
    BY <1>8 DEF Confirm
  <2>2. lost' \in {lost, [lost EXCEPT ![d] = @ \union {pc[d]}]}
    BY <1>8 DEF Confirm
  <2>2b. lost' \in [Deliveries -> SUBSET Steps]
    BY <2>2, LossType
  <2>3. QED
    BY <1>8, <2>1, <2>2b DEF Confirm
<1>9. ASSUME NEW d \in Deliveries, CompleteRun(d) PROVE TypeInv'
  BY <1>9, SettleType DEF CompleteRun
<1>10. ASSUME NEW d \in Deliveries, FailRun(d) PROVE TypeInv'
  BY <1>10, SettleType DEF FailRun
<1>11. ASSUME NEW k \in Runs, Cancel(k) PROVE TypeInv'
  BY <1>11 DEF Cancel
<1>11a. ASSUME NEW a \in actions, Reject(a) PROVE TypeInv'
  BY <1>11a DEF Reject
<1>12. CASE Tick
  BY <1>12 DEF Tick
<1>13. CASE Crash
  <2>1. /\ pc' \in [Deliveries -> Steps] /\ Planned' /\ faults' \in 0..MaxFaults
        /\ lost' \in [Deliveries -> SUBSET Steps]
    BY <1>13 DEF Crash, InFlight
  <2>2. left' \subseteq Deliveries
    BY <1>13, AgentRunsAssumption DEF Crash, InFlight, Forgone, Swept
  <2>3. aborted' \in BOOLEAN
    BY <1>13 DEF Crash
  <2>4. QED
    BY <1>13, <2>1, <2>2, <2>3 DEF Crash
<1>14. CASE UNCHANGED vars
  BY <1>14 DEF vars
<1>15. QED
  BY <1>1, <1>2, <1>3, <1>4, <1>5, <1>6, <1>7, <1>8, <1>9, <1>10, <1>11, <1>11a, <1>12,
     <1>13, <1>14 DEF Next, Advance

\* Every variable keeps its type.
THEOREM TypeCorrect == Spec => []TypeOK
<1>1. TypeInv => TypeOK
  BY DEF TypeInv
<1>2. QED
  BY <1>1, TypeInvInit, TypeInvStep, PTL DEF Spec
-----------------------------------------------------------------------------
(***************************************************************************)
(* One action per run.  A delivery dispatches once, the backend drops what *)
(* it knows by key, and all workflows but the summary's have one type.     *)
(***************************************************************************)
\* Who has an action is past its dispatch.
Past == \A a \in actions : pc[a.by] \in {"confirm", "complete", "fail", "done"}

OneEach == \A a, b \in actions : a.by = b.by => a = b

KeyedOnce == \A a, b \in actions : SameKey(a, b) => a = b

TypesOfEvent ==
    CASE EventType = "daily_summary" -> ActionTypes
      [] EventType = "deal_risk" -> {"create_alert"}
      [] EventType = "task_deadline_watch" -> {"create_note"}
      [] OTHER -> {"create_task"}

TypesFixed ==
    /\ \A a \in actions : a.type \in TypesOfEvent
    /\ \A d \in Deliveries :
           /\ pc[d] = "dispatch" => plan[d].type \in TypesOfEvent
           /\ IsDeadline => pc[d] # "plan"
           /\ pc[d] = "record" => IsDeadline

ActionsInv == Past /\ OneEach /\ KeyedOnce /\ TypesFixed

\* A step that accepts no action, moves no delivery to its planning or dispatch,
\* and none out of what follows its dispatch.
Quiet ==
    /\ UNCHANGED actions
    /\ \A c \in Deliveries :
           /\ pc'[c] = "dispatch" => pc[c] = "dispatch" /\ plan'[c] = plan[c]
           /\ pc'[c] = "plan" => pc[c] = "plan" \/ ~IsDeadline
           /\ pc'[c] = "record" => pc[c] = "record" \/ IsDeadline
           /\ pc[c] \in {"confirm", "complete", "fail", "done"}
                  => pc'[c] \in {"confirm", "complete", "fail", "done"}

LEMMA ActionsFrame ==
    ASSUME TypeInv, ActionsInv, Quiet
    PROVE  ActionsInv'
<1>1. \A a \in actions : a.by \in Deliveries
  BY DEF TypeInv, TypeOK, Actions
<1>2. Past'
  BY <1>1 DEF ActionsInv, Past, Quiet
<1>3. OneEach' /\ KeyedOnce'
  BY DEF ActionsInv, OneEach, KeyedOnce, SameKey, TaskOf, Quiet
<1>4. TypesFixed'
  BY DEF ActionsInv, TypesFixed, TypesOfEvent, IsDeadline, Quiet
<1>5. QED
  BY <1>2, <1>3, <1>4 DEF ActionsInv

LEMMA ChoiceTypes ==
    ASSUME NEW d \in Deliveries, ~IsDeadline, NEW t \in PlanChoices(d), t # NoAction
    PROVE  t.type \in TypesOfEvent
  BY AgentRunsAssumption, PlannerTypes DEF PlanChoices, LeadChoices, DealChoices, SummaryChoices,
     AutoChoices, MeetingChoices, TypesOfEvent, IsDeadline, EventTypes

LEMMA AcceptedAction ==
    ASSUME TypeInv, ActionsInv, NEW d \in Deliveries, pc[d] = "dispatch",
           actions' \in {actions, Accept(NewAction(d))},
           pc' \in {[pc EXCEPT ![d] = "confirm"], [pc EXCEPT ![d] = "fail"]},
           UNCHANGED plan
    PROVE  ActionsInv'
<1> DEFINE new == NewAction(d)
<1>1. \A a \in actions : a.by \in Deliveries /\ a.by # d
  BY DEF TypeInv, TypeOK, Actions, ActionsInv, Past
<1>2. CASE actions' = actions
  <2>1. Quiet
    BY <1>2 DEF TypeInv, TypeOK, Quiet
  <2>2. QED
    BY <2>1, ActionsFrame
<1>3. CASE actions' # actions
  <2>1. actions' = actions \union {new} /\ \A b \in actions : ~SameKey(new, b)
    BY <1>3 DEF Accept
  <2>2. new.by = d /\ new.type = plan[d].type
    BY DEF NewAction
  <2>3. Past'
    BY <1>1, <2>1, <2>2 DEF ActionsInv, Past, TypeInv, TypeOK
  <2>4. OneEach'
    BY <1>1, <2>1, <2>2 DEF ActionsInv, OneEach
  <2>5. KeyedOnce'
    <3>1. \A b \in actions : ~SameKey(b, new)
      BY <2>1 DEF SameKey
    <3>2. SUFFICES ASSUME NEW a \in actions', NEW b \in actions', SameKey(a, b)
                   PROVE  a = b
      BY DEF KeyedOnce, SameKey, TaskOf
    <3>3. QED
      BY <2>1, <3>1, <3>2 DEF ActionsInv, KeyedOnce
  <2>6. TypesFixed'
    <3>1. \A a \in actions' : a.type \in TypesOfEvent
      BY <2>1, <2>2 DEF ActionsInv, TypesFixed
    <3>2. \A c \in Deliveries :
             /\ pc'[c] = "dispatch" => plan'[c].type \in TypesOfEvent
             /\ IsDeadline => pc'[c] # "plan"
             /\ pc'[c] = "record" => IsDeadline
      BY DEF ActionsInv, TypesFixed, TypeInv, TypeOK
    <3>3. QED
      BY <3>1, <3>2 DEF TypesFixed, TypesOfEvent, IsDeadline
  <2>7. QED
    BY <2>3, <2>4, <2>5, <2>6 DEF ActionsInv
<1>4. QED
  BY <1>2, <1>3

LEMMA ActionsInvStep == TypeInv /\ ActionsInv /\ [Next]_vars => ActionsInv'
<1> SUFFICES ASSUME TypeInv, ActionsInv, [Next]_vars PROVE ActionsInv'
  OBVIOUS
<1>1. ASSUME NEW d \in Deliveries, Interpret(d) PROVE ActionsInv'
  <2>1. Quiet
    BY <1>1 DEF Interpret, TypeInv, TypeOK, Quiet
  <2>2. QED
    BY <2>1, ActionsFrame
<1>2. ASSUME NEW d \in Deliveries, CreateRun(d) PROVE ActionsInv'
  <2>1. Quiet
    BY <1>2 DEF CreateRun, TypeInv, TypeOK, Quiet
  <2>2. QED
    BY <2>1, ActionsFrame
<1>3. ASSUME NEW d \in Deliveries, Context(d) PROVE ActionsInv'
  <2>1. Quiet
    BY <1>3 DEF Context, IsGraph, IsDeadline, TypeInv, TypeOK, Quiet
  <2>2. QED
    BY <2>1, ActionsFrame
<1>4. ASSUME NEW d \in Deliveries, Plan(d) PROVE ActionsInv'
  <2>1. CASE Fault(d, "fail") /\ UNCHANGED <<plan, declined>>
    <3>1. Quiet
      BY <1>4, <2>1 DEF Plan, TypeInv, TypeOK, Quiet
    <3>2. QED
      BY <3>1, ActionsFrame
  <2>2. ASSUME NEW t \in PlanChoices(d), plan' = [plan EXCEPT ![d] = t],
               Goto(d, IF t = NoAction THEN "confirm" ELSE "dispatch")
        PROVE  ActionsInv'
    <3>1. ~IsDeadline /\ UNCHANGED actions /\ pc[d] = "plan"
      BY <1>4 DEF Plan, ActionsInv, TypesFixed
    <3>2. CASE t = NoAction
      <4>1. Quiet
        BY <2>2, <3>1, <3>2 DEF TypeInv, TypeOK, Quiet
      <4>2. QED
        BY <4>1, ActionsFrame
    <3>3. CASE t # NoAction
      <4>1. t.type \in TypesOfEvent
        BY <3>1, <3>3, ChoiceTypes
      <4>2. Past'
        BY <2>2, <3>1, <3>3 DEF TypeInv, TypeOK, Actions, ActionsInv, Past
      <4>3. OneEach' /\ KeyedOnce'
        BY <3>1 DEF ActionsInv, OneEach, KeyedOnce, SameKey, TaskOf
      <4>4. TypesFixed'
        BY <2>2, <3>1, <3>3, <4>1
           DEF TypeInv, TypeOK, ActionsInv, TypesFixed, TypesOfEvent, IsDeadline
      <4>5. QED
        BY <4>2, <4>3, <4>4 DEF ActionsInv
    <3>4. QED
      BY <3>2, <3>3
  <2>3. QED
    BY <1>4, <2>1, <2>2 DEF Plan
<1>5. ASSUME NEW d \in Deliveries, OwnRun(d) PROVE ActionsInv'
  <2>1. Quiet
    BY <1>5 DEF OwnRun, ProposesNothing, TypeInv, TypeOK, Quiet
  <2>2. QED
    BY <2>1, ActionsFrame
<1>6. ASSUME NEW d \in Deliveries, RecordAlert(d) PROVE ActionsInv'
  <2>1. CASE Fault(d, "fail") /\ UNCHANGED plan
    <3>1. Quiet
      BY <1>6, <2>1 DEF RecordAlert, TypeInv, TypeOK, Quiet
    <3>2. QED
      BY <3>1, ActionsFrame
  <2>2. CASE plan' = [plan EXCEPT ![d] = DeadlineNote] /\ Goto(d, "dispatch")
    <3>1. UNCHANGED actions /\ pc[d] = "record"
      BY <1>6 DEF RecordAlert
    <3>2. IsDeadline
      BY <3>1 DEF ActionsInv, TypesFixed
    <3>3. DeadlineNote.type \in TypesOfEvent
      BY <3>2 DEF DeadlineNote, TypesOfEvent, IsDeadline
    <3>4. Past'
      BY <2>2, <3>1 DEF TypeInv, TypeOK, Actions, ActionsInv, Past
    <3>5. OneEach' /\ KeyedOnce'
      BY <3>1 DEF ActionsInv, OneEach, KeyedOnce, SameKey, TaskOf
    <3>6. TypesFixed'
      BY <2>2, <3>1, <3>3
         DEF TypeInv, TypeOK, ActionsInv, TypesFixed, TypesOfEvent, IsDeadline
    <3>7. QED
      BY <3>4, <3>5, <3>6 DEF ActionsInv
  <2>3. QED
    BY <1>6, <2>1, <2>2 DEF RecordAlert
<1>7. ASSUME NEW d \in Deliveries, Dispatch(d) PROVE ActionsInv'
  BY <1>7, AcceptedAction DEF Dispatch
<1>8. ASSUME NEW d \in Deliveries, Confirm(d) PROVE ActionsInv'
  <2>1. Quiet
    BY <1>8 DEF Confirm, TypeInv, TypeOK, Quiet
  <2>2. QED
    BY <2>1, ActionsFrame
<1>9. ASSUME NEW d \in Deliveries, CompleteRun(d) PROVE ActionsInv'
  <2>1. Quiet
    BY <1>9 DEF CompleteRun, Settle, TypeInv, TypeOK, Quiet
  <2>2. QED
    BY <2>1, ActionsFrame
<1>10. ASSUME NEW d \in Deliveries, FailRun(d) PROVE ActionsInv'
  <2>1. Quiet
    BY <1>10 DEF FailRun, Settle, TypeInv, TypeOK, Quiet
  <2>2. QED
    BY <2>1, ActionsFrame
<1>11. ASSUME NEW k \in Runs, Cancel(k) PROVE ActionsInv'
  <2>1. Quiet
    BY <1>11 DEF Cancel, Quiet
  <2>2. QED
    BY <2>1, ActionsFrame
<1>11a. ASSUME NEW a \in actions, Reject(a) PROVE ActionsInv'
  <2>1. Quiet
    BY <1>11a DEF Reject, Quiet
  <2>2. QED
    BY <2>1, ActionsFrame
<1>12. CASE Tick
  <2>1. Quiet
    BY <1>12 DEF Tick, Quiet
  <2>2. QED
    BY <2>1, ActionsFrame
<1>13. CASE Crash
  <2>1. Quiet
    BY <1>13 DEF Crash, InFlight, TypeInv, TypeOK, Quiet
  <2>2. QED
    BY <2>1, ActionsFrame
<1>14. CASE UNCHANGED vars
  <2>1. Quiet
    BY <1>14 DEF vars, Quiet
  <2>2. QED
    BY <2>1, ActionsFrame
<1>15. QED
  BY <1>1, <1>2, <1>3, <1>4, <1>5, <1>6, <1>7, <1>8, <1>9, <1>10, <1>11, <1>11a, <1>12,
     <1>13, <1>14 DEF Next, Advance

LEMMA ActionsInvariant == Spec => [](TypeInv /\ ActionsInv)
<1>1. Init => ActionsInv
  BY DEF Init, ActionsInv, Past, OneEach, KeyedOnce, TypesFixed
<1>2. QED
  BY <1>1, TypeInvInit, TypeInvStep, ActionsInvStep, PTL DEF Spec

\* Whatever is lost, retried, redelivered or run concurrently, a run has one
\* action, except that a summary's run has one of each type it was planned to be.
THEOREM OneAction == Spec => []OneActionPerRun
<1>1. TypeInv /\ ActionsInv => OneActionPerRun
  <2> SUFFICES ASSUME TypeInv, ActionsInv, ~IsDeadline, NEW a \in actions, NEW b \in actions,
                      a.run = b.run, a # b
               PROVE  EventType = "daily_summary" /\ a.by # b.by /\ a.type # b.type
    BY DEF OneActionPerRun
  <2>1. ~SameKey(a, b) /\ a.by # b.by
    BY DEF ActionsInv, KeyedOnce, OneEach
  <2>2. a.type # b.type
    BY <2>1 DEF SameKey
  <2>3. EventType = "daily_summary"
    BY <2>2 DEF ActionsInv, TypesFixed, TypesOfEvent, IsDeadline
  <2>4. QED
    BY <2>1, <2>2, <2>3
<1>2. QED
  BY <1>1, ActionsInvariant, PTL

-----------------------------------------------------------------------------
(***************************************************************************)
(* What a delivery is bound to.  From its interpretation on it keeps its   *)
(* run and its task; it executes a run only after it has joined it; and a  *)
(* delivery that has not begun has lost nothing.                           *)
(***************************************************************************)
Bound ==
    /\ \A d \in Deliveries :
           /\ EntityIn(key[d]) = EntityOf[d]
           /\ pc[d] = "idle" => lost[d] = {}
           /\ pc[d] \in Executing => d \in executors[key[d]]
    /\ \A k \in Runs : \A d \in executors[k] :
           key[d] = k /\ pc[d] \notin {"idle", "create_run"}

\* A step of a delivery that is past its interpretation, or of nobody: its run and
\* its task stay, what it has lost stays, and it joins no run.
Proceeds ==
    /\ UNCHANGED <<key, content>>
    /\ \A c \in Deliveries :
           /\ pc'[c] = "idle" <=> pc[c] = "idle"
           /\ pc'[c] = "create_run" => pc[c] = "create_run"
           /\ pc'[c] \in Executing => pc[c] \in Executing
           /\ pc[c] = "done" => pc'[c] = "done"
           /\ lost[c] \subseteq lost'[c]
           /\ pc[c] = "idle" => lost'[c] = lost[c]

LEMMA WorkProceeds ==
    ASSUME TypeInv, NEW d \in Deliveries,
           \/ Context(d) \/ Plan(d) \/ OwnRun(d) \/ RecordAlert(d)
           \/ Dispatch(d) \/ Confirm(d) \/ CompleteRun(d) \/ FailRun(d)
    PROVE  /\ Proceeds /\ UNCHANGED <<executors, clock, rejected>>
           /\ pc[d] \in Executing /\ pc'[d] \in Executing \union {"done"}
           /\ \A c \in Deliveries : c # d => pc'[c] = pc[c] /\ lost'[c] = lost[c]
<1> USE DEF TypeInv, TypeOK, Proceeds
<1>1. CASE Context(d)
  BY <1>1 DEF Context
<1>2. CASE Plan(d)
  <2>1. /\ \E s \in {"confirm", "dispatch", "fail"} : Goto(d, s)
        /\ lost' \in {lost, [lost EXCEPT ![d] = @ \union {pc[d]}]}
        /\ pc[d] = "plan" /\ UNCHANGED <<key, content, executors, clock, rejected>>
    BY <1>2 DEF Plan
  <2>2. QED
    BY <2>1
<1>4. CASE OwnRun(d)
  BY <1>4 DEF OwnRun
<1>5. CASE RecordAlert(d)
  BY <1>5 DEF RecordAlert
<1>6. CASE Dispatch(d)
  <2>1. /\ \E s \in {"confirm", "fail"} : Goto(d, s)
        /\ lost' \in {lost, [lost EXCEPT ![d] = @ \union {pc[d]}]}
        /\ pc[d] = "dispatch" /\ UNCHANGED <<key, content, executors, clock, rejected>>
    BY <1>6 DEF Dispatch
  <2>2. QED
    BY <2>1
<1>7. CASE Confirm(d)
  BY <1>7 DEF Confirm
<1>8. CASE CompleteRun(d)
  BY <1>8 DEF CompleteRun, Settle
<1>9. CASE FailRun(d)
  BY <1>9 DEF FailRun, Settle
<1>10. QED
  BY <1>1, <1>2, <1>4, <1>5, <1>6, <1>7, <1>8, <1>9

\* The steps that belong to no delivery.
Ambient == (\E k \in Runs : Cancel(k)) \/ (\E a \in actions : Reject(a)) \/ Tick \/ UNCHANGED vars

LEMMA AmbientProceeds ==
    ASSUME TypeInv, Ambient
    PROVE  /\ Proceeds
           /\ UNCHANGED <<actions, alerted, pc, key, memory, content, left, lost, executors,
                          declined, cut, overtaken>>
<1>1. UNCHANGED <<actions, alerted, pc, key, memory, content, left, lost, executors,
                  declined, cut, overtaken>>
  BY DEF Ambient, Cancel, Reject, Tick, vars
<1>2. QED
  BY <1>1 DEF Proceeds, TypeInv, TypeOK

LEMMA CrashProceeds ==
    ASSUME TypeInv, Crash
    PROVE  /\ Proceeds
           /\ UNCHANGED <<clock, run, actions, rejected, alerted, memory, plan, executors,
                          declined, cut, overtaken>>
           /\ \A c \in Deliveries :
                  /\ pc'[c] = IF c \in InFlight THEN "done" ELSE pc[c]
                  /\ c \in InFlight => c \in left' /\ lost'[c] = lost[c] \union {pc[c]}
           /\ left \subseteq left'
  BY DEF Crash, InFlight, Proceeds, TypeInv, TypeOK

LEMMA InterpretStep ==
    ASSUME TypeInv, NEW d \in Deliveries, Interpret(d)
    PROVE  /\ pc[d] = "idle" /\ pc'[d] \in {"create_run", "done"}
           /\ key'[d][1] = EntityOf[d]
           /\ \A c \in Deliveries :
                  c # d => pc'[c] = pc[c] /\ key'[c] = key[c] /\ content'[c] = content[c]
           /\ UNCHANGED <<clock, run, actions, rejected, alerted, memory, plan, left, lost,
                          executors, declined, cut, overtaken, faults>>
  BY DEF Interpret, TypeInv, TypeOK

LEMMA CreateRunStep ==
    ASSUME TypeInv, NEW d \in Deliveries, CreateRun(d)
    PROVE  /\ pc[d] = "create_run" /\ key[d] \in Runs
           /\ \A c \in Deliveries : c # d => pc'[c] = pc[c] /\ lost'[c] = lost[c]
           /\ run' \in {run, Opened(key[d])}
           /\ \/ /\ pc'[d] = "context" /\ run[key[d]] \notin Terminal
                 /\ run' = Opened(key[d])
                 /\ executors' = [executors EXCEPT ![key[d]] = @ \union {d}]
                 /\ UNCHANGED <<lost, left>>
              \/ /\ pc'[d] = "done" /\ run[key[d]] \in Terminal
                 /\ UNCHANGED <<executors, lost, left>>
              \/ /\ pc'[d] = "done" /\ d \in left' /\ left' = left \union {d}
                 /\ lost'[d] = lost[d] \union {"create_run"}
                 /\ UNCHANGED executors
           /\ UNCHANGED <<clock, actions, rejected, alerted, key, memory, plan, content,
                          declined, cut, overtaken>>
  BY DEF CreateRun, IsDuplicate, TypeInv, TypeOK

LEMMA BoundStep == TypeInv /\ Bound /\ [Next]_vars => Bound'
<1> SUFFICES ASSUME TypeInv, Bound, [Next]_vars PROVE Bound'
  OBVIOUS
<1>0. /\ \A d \in Deliveries : key[d] \in Runs
      /\ \A k \in Runs : executors[k] \subseteq Deliveries
  BY DEF TypeInv, TypeOK
<1>1. ASSUME NEW d \in Deliveries, Interpret(d) PROVE Bound'
  BY <1>0, <1>1, InterpretStep DEF Bound
<1>2. ASSUME NEW d \in Deliveries, CreateRun(d) PROVE Bound'
  <2>1. \A k \in Runs : executors'[k] \in {executors[k], executors[k] \union {d}}
        /\ (executors'[k] # executors[k] => k = key[d] /\ pc'[d] = "context")
    BY <1>2, CreateRunStep DEF TypeInv, TypeOK
  <2>2. pc'[d] = "context" => d \in executors'[key[d]]
    BY <1>2, CreateRunStep DEF TypeInv, TypeOK
  <2>3. /\ pc[d] = "create_run" /\ pc'[d] \in {"context", "done"} /\ UNCHANGED key
        /\ \A c \in Deliveries : c # d => pc'[c] = pc[c] /\ lost'[c] = lost[c]
    BY <1>2, CreateRunStep
  <2>4. \A k \in Runs : executors[k] \subseteq executors'[k]
    BY <2>1
  <2>5. QED
    BY <1>0, <2>1, <2>2, <2>3, <2>4 DEF Bound
<1>3. ASSUME Proceeds, UNCHANGED executors PROVE Bound'
  BY <1>0, <1>3 DEF Bound, Proceeds
<1>4. ASSUME NEW d \in Deliveries,
             \/ Context(d) \/ Plan(d) \/ OwnRun(d) \/ RecordAlert(d)
             \/ Dispatch(d) \/ Confirm(d) \/ CompleteRun(d) \/ FailRun(d)
      PROVE  Bound'
  BY <1>3, <1>4, WorkProceeds
<1>5. CASE Ambient
  BY <1>3, <1>5, AmbientProceeds
<1>6. CASE Crash
  BY <1>3, <1>6, CrashProceeds
<1>7. QED
  BY <1>1, <1>2, <1>4, <1>5, <1>6 DEF Next, Advance, Ambient

LEMMA BoundInvariant == Spec => [](TypeInv /\ ActionsInv /\ Bound)
<1>1. Init => Bound
  BY DEF Init, Bound
<1>2. QED
  BY <1>1, TypeInvInit, TypeInvStep, ActionsInvariant, BoundStep, PTL DEF Spec

-----------------------------------------------------------------------------
(***************************************************************************)
(* The cooldown.  Of the tasks of its lead a delivery that decides has     *)
(* been shown each, unless it was rejected, or accepted since, or the list *)
(* was cut; and what it was shown is older than the cooldown when it has   *)
(* planned a task.                                                         *)
(***************************************************************************)
Cooled(d) == \A a \in memory[d] : clock > a.at + Cooldown

Shown(d) ==
    \A a \in actions : EntityIn(a.run) = EntityOf[d] /\ a.by # d =>
        a \in memory[d] \/ a \in rejected \/ a.by \in overtaken[d] \/ d \in cut

CooldownInv ==
    EventType = "stale_lead" /\ Cooldown > 0 =>
        /\ \A d \in Deliveries : pc[d] \in {"plan", "dispatch"} => Shown(d)
        /\ \A d \in Deliveries : pc[d] = "dispatch" => Cooled(d)
        /\ CooldownRespected

\* A step that reads no memory, plans nothing and accepts nothing.
Unread ==
    /\ UNCHANGED <<actions, memory, cut, overtaken>>
    /\ rejected \subseteq rejected' /\ clock' \in {clock, clock + 1}
    /\ \A c \in Deliveries : /\ pc'[c] = "dispatch" => pc[c] = "dispatch"
                             /\ pc'[c] = "plan" => pc[c] = "plan"

LEMMA CooldownFrame ==
    ASSUME TypeInv, CooldownInv, Unread PROVE CooldownInv'
<1>1. /\ clock \in Nat /\ Cooldown \in Nat
      /\ \A c \in Deliveries : \A a \in memory[c] : a.at \in Nat
  BY AgentRunsAssumption DEF TypeInv, TypeOK, Actions
<1>2. \A c \in Deliveries : Cooled(c) => Cooled(c)'
  BY <1>1 DEF Unread, Cooled
<1>3. \A c \in Deliveries : Shown(c) => Shown(c)'
  BY DEF Unread, Shown
<1>4. CooldownRespected => CooldownRespected'
  BY DEF Unread, CooldownRespected, SameLead, Apart
<1>5. QED
  BY <1>2, <1>3, <1>4 DEF CooldownInv, Unread

LEMMA CooldownStep ==
    TypeInv /\ ActionsInv /\ Bound /\ CooldownInv /\ [Next]_vars => CooldownInv'
<1> SUFFICES ASSUME TypeInv, ActionsInv, Bound, CooldownInv, [Next]_vars,
                    EventType = "stale_lead", Cooldown > 0
             PROVE  CooldownInv'
  BY DEF CooldownInv
<1>0. /\ \A a \in actions : /\ a.by \in Deliveries /\ pc[a.by] \notin {"context", "plan", "dispatch"}
                            /\ a.type = "create_task" /\ a.at \in Nat
      /\ clock \in Nat /\ Cooldown \in Nat
      /\ \A c \in Deliveries : \A a \in memory[c] : a.at \in Nat
  <2>1. actions \subseteq Actions /\ \A c \in Deliveries : memory[c] \subseteq Actions
    BY DEF TypeInv, TypeOK
  <2>2. \A a \in Actions : a.by \in Deliveries /\ a.at \in Nat
    BY AgentRunsAssumption DEF Actions
  <2>3. \A a \in actions : a.type = "create_task"
    BY DEF ActionsInv, TypesFixed, TypesOfEvent
  <2>4. \A a \in actions : pc[a.by] \notin {"context", "plan", "dispatch"}
    BY DEF ActionsInv, Past
  <2>5. clock \in Nat /\ Cooldown \in Nat
    BY AgentRunsAssumption DEF TypeInv, TypeOK
  <2>6. QED
    BY <2>1, <2>2, <2>3, <2>4, <2>5
<1>1. ASSUME NEW d \in Deliveries, Context(d) PROVE CooldownInv'
  <2>1. /\ pc[d] = "context" /\ UNCHANGED <<actions, clock, rejected, overtaken>>
        /\ \A c \in Deliveries : c # d => memory'[c] = memory[c] /\ pc'[c] = pc[c]
        /\ cut \subseteq cut' /\ cut' \subseteq cut \union {d}
        /\ pc'[d] # "dispatch"
    BY <1>1 DEF Context, TypeInv, TypeOK
  <2>2. pc'[d] = "plan" => \/ memory'[d] = AiTasks(EntityOf[d]) \ rejected
                           \/ d \in cut'
    BY <1>1 DEF Context, TypeInv, TypeOK
  <2>3. pc'[d] = "plan" => Shown(d)'
    BY <1>0, <2>1, <2>2 DEF Shown, AiTasks
  <2>4. \A c \in Deliveries : c # d => (Cooled(c) => Cooled(c)') /\ (Shown(c) => Shown(c)')
    BY <2>1 DEF Cooled, Shown
  <2>5. CooldownRespected'
    BY <2>1 DEF CooldownInv, CooldownRespected, SameLead, Apart
  <2>6. QED
    BY <2>1, <2>3, <2>4, <2>5 DEF CooldownInv
<1>2. ASSUME NEW d \in Deliveries, Plan(d) PROVE CooldownInv'
  <2>1. /\ pc[d] = "plan" /\ UNCHANGED <<actions, clock, memory, rejected, cut, overtaken>>
        /\ \A c \in Deliveries : c # d => pc'[c] = pc[c]
        /\ pc'[d] # "plan"
    BY <1>2 DEF Plan, TypeInv, TypeOK
  <2>2. pc'[d] = "dispatch" => Cooled(d)
    <3> SUFFICES ASSUME pc'[d] = "dispatch" PROVE Cooled(d)
      OBVIOUS
    <3>1. ~RecentTask(d)
      BY <1>2 DEF Plan, PlanChoices, LeadChoices, TypeInv, TypeOK
    <3>2. QED
      BY <1>0, <3>1 DEF RecentTask, Cooled
  <2>3. \A c \in Deliveries : (Cooled(c)' <=> Cooled(c)) /\ (Shown(c)' <=> Shown(c))
    BY <2>1 DEF Cooled, Shown
  <2>4. CooldownRespected'
    BY <2>1 DEF CooldownInv, CooldownRespected, SameLead, Apart
  <2>5. QED
    BY <2>1, <2>2, <2>3, <2>4 DEF CooldownInv
<1>3. ASSUME NEW d \in Deliveries, RecordAlert(d) PROVE CooldownInv'
  BY <1>3 DEF RecordAlert, ActionsInv, TypesFixed, IsDeadline
<1>4. ASSUME NEW d \in Deliveries, Dispatch(d) PROVE CooldownInv'
  <2> DEFINE new == NewAction(d)
  <2>1. /\ pc[d] = "dispatch" /\ UNCHANGED <<clock, memory, rejected, cut>>
        /\ actions' \subseteq actions \union {new}
        /\ \A c \in Deliveries : c # d => pc'[c] = pc[c]
        /\ pc'[d] \notin {"plan", "dispatch"}
    BY <1>4 DEF Dispatch, Accept, TypeInv, TypeOK
  <2>2. \A c \in Deliveries : /\ overtaken[c] \subseteq overtaken'[c]
                              /\ new \in actions' /\ new \notin actions /\ c \in Deciding /\ c # d
                                     => d \in overtaken'[c]
    BY <1>4 DEF Dispatch
  <2>3. new.by = d /\ new.at = clock /\ EntityIn(new.run) = EntityOf[d]
    BY DEF NewAction, Bound
  <2>4. Shown(d) /\ Cooled(d)
    BY <2>1 DEF CooldownInv
  <2>5. \A c \in Deliveries : c # d /\ pc[c] \in {"plan", "dispatch"} => Shown(c)'
    <3> SUFFICES ASSUME NEW c \in Deliveries, c # d, pc[c] \in {"plan", "dispatch"},
                        NEW a \in actions', EntityIn(a.run) = EntityOf[c], a.by # c
                 PROVE  a \in memory[c] \/ a \in rejected \/ a.by \in overtaken'[c] \/ c \in cut
      BY <2>1 DEF Shown
    <3>1. CASE a \in actions
      BY <2>2, <3>1 DEF CooldownInv, Shown
    <3>2. CASE a \notin actions
      BY <2>1, <2>2, <2>3, <3>2 DEF Deciding
    <3>3. QED
      BY <3>1, <3>2
  <2>6. CooldownRespected'
    <3> DEFINE Spared(a, b) ==
                 \/ Apart(a, b)
                 \/ a.by \in overtaken'[b.by] \/ b.by \in overtaken'[a.by]
                 \/ a.by \in cut \/ b.by \in cut
    <3>1. ASSUME NEW a \in actions \ rejected, EntityIn(a.run) = EntityOf[d]
          PROVE  Spared(a, new) /\ Spared(new, a)
      <4>1. a.by # d /\ a.at \in Nat
        BY <1>0, <2>1
      <4>2. a \in memory[d] \/ a.by \in overtaken[d] \/ d \in cut
        BY <2>4, <3>1, <4>1 DEF Shown
      <4>3. a \in memory[d] => a.at + Cooldown < new.at
        BY <1>0, <2>3, <2>4, <4>1 DEF Cooled
      <4>4. a.by \in overtaken[d] => a.by \in overtaken'[new.by]
        BY <2>2, <2>3
      <4>5. QED
        BY <2>3, <4>2, <4>3, <4>4 DEF Apart
    <3>2. ASSUME NEW a \in actions \ rejected, NEW b \in actions \ rejected, SameLead(a, b)
          PROVE  Spared(a, b)
      BY <1>0, <2>2, <3>2 DEF CooldownInv, CooldownRespected
    <3>3. ASSUME NEW a \in actions' \ rejected, NEW b \in actions' \ rejected, SameLead(a, b)
          PROVE  Spared(a, b)
      <4>1. CASE a \in actions /\ b \in actions
        BY <3>2, <3>3, <4>1
      <4>2. CASE a \notin actions
        <5>1. a = new /\ b \in actions
          BY <2>1, <3>3, <4>2 DEF SameLead
        <5>2. EntityIn(b.run) = EntityOf[d]
          BY <2>3, <3>3, <5>1 DEF SameLead
        <5>3. QED
          BY <3>1, <3>3, <5>1, <5>2
      <4>3. CASE b \notin actions
        <5>1. b = new /\ a \in actions
          BY <2>1, <3>3, <4>3 DEF SameLead
        <5>2. EntityIn(a.run) = EntityOf[d]
          BY <2>3, <3>3, <5>1 DEF SameLead
        <5>3. QED
          BY <3>1, <3>3, <5>1, <5>2
      <4>4. QED
        BY <4>1, <4>2, <4>3
    <3>4. QED
      BY <2>1, <3>3 DEF CooldownRespected, SameLead, Apart
  <2>7. \A c \in Deliveries : Cooled(c)' <=> Cooled(c)
    BY <2>1 DEF Cooled
  <2>8. QED
    BY <2>1, <2>5, <2>6, <2>7 DEF CooldownInv
<1>5. ASSUME NEW d \in Deliveries,
             \/ Interpret(d) \/ CreateRun(d) \/ OwnRun(d) \/ Confirm(d)
             \/ CompleteRun(d) \/ FailRun(d)
      PROVE  CooldownInv'
  <2>1. Unread
    BY <1>5 DEF Interpret, CreateRun, OwnRun, Confirm, CompleteRun, FailRun,
       Settle, Unread, TypeInv, TypeOK
  <2>2. QED
    BY <2>1, CooldownFrame
<1>6. CASE Ambient \/ Crash
  <2>1. Unread
    BY <1>6 DEF Ambient, Cancel, Reject, Tick, Crash, InFlight, vars, Unread
  <2>2. QED
    BY <2>1, CooldownFrame
<1>7. QED
  BY <1>1, <1>2, <1>3, <1>4, <1>5, <1>6 DEF Next, Advance, Ambient

\* Whatever is redelivered, raced or lost: two tasks of a lead within the cooldown
\* mean a race between a read and a dispatch, or a list that was cut.
THEOREM CooldownHolds == Spec => []CooldownRespected
<1>1. Init => CooldownInv
  BY DEF Init, CooldownInv, CooldownRespected
<1>2. CooldownInv => CooldownRespected
  BY DEF CooldownInv, CooldownRespected
<1>3. QED
  BY <1>1, <1>2, BoundInvariant, CooldownStep, PTL DEF Spec

-----------------------------------------------------------------------------
(***************************************************************************)
(* Deadline notes.  A delivery dispatches a note only once its alert is    *)
(* recorded, and the note of a recorded alert is accepted, or being        *)
(* dispatched, or lost.                                                    *)
(***************************************************************************)
Unsent(d) == pc[d] = "dispatch" \/ lost[d] \intersect {"record", "dispatch"} # {}

Noted(t) ==
    (\E a \in actions : TaskOf(a) = t) \/ \E d \in Deliveries : Task(d) = t /\ Unsent(d)

NoteInv ==
    IsDeadline =>
        /\ \A a \in actions : TaskOf(a) \in alerted
        /\ \A d \in Deliveries : pc[d] = "dispatch" => Task(d) \in alerted
        /\ \A t \in alerted : Noted(t)

\* A step that records no alert and brings none to its dispatch, nor from it unless
\* the call is lost.
NoNote ==
    /\ UNCHANGED <<actions, alerted>>
    /\ \A c \in Deliveries :
           /\ pc'[c] = "dispatch" => pc[c] = "dispatch"
           /\ Unsent(c) => Unsent(c)' /\ content'[c] = content[c]

LEMMA NoteFrame ==
    ASSUME TypeInv, NoteInv, NoNote PROVE NoteInv'
<1>1. \A c \in Deliveries : Unsent(c) => Unsent(c)' /\ Task(c)' = Task(c)
  BY DEF NoNote, Task
<1>2. \A a : TaskOf(a)' = TaskOf(a)
  BY DEF TaskOf
<1>3. \A t : Noted(t) => Noted(t)'
  BY <1>1, <1>2 DEF Noted, NoNote
<1>4. \A c \in Deliveries : pc'[c] = "dispatch" => pc[c] = "dispatch" /\ Task(c)' = Task(c)
  BY <1>1 DEF NoNote, Unsent
<1>5. QED
  BY <1>2, <1>3, <1>4 DEF NoteInv, NoNote, IsDeadline

LEMMA NoteStep ==
    TypeInv /\ ActionsInv /\ Bound /\ NoteInv /\ [Next]_vars => NoteInv'
<1> SUFFICES ASSUME TypeInv, ActionsInv, Bound, NoteInv, [Next]_vars, IsDeadline
             PROVE  NoteInv'
  BY DEF NoteInv, IsDeadline
<1>0. \A a : TaskOf(a)' = TaskOf(a)
  BY DEF TaskOf
<1>1. ASSUME NEW d \in Deliveries, RecordAlert(d) PROVE NoteInv'
  <2>1. /\ UNCHANGED <<actions, content>> /\ pc[d] = "record"
        /\ alerted \subseteq alerted' /\ alerted' \subseteq alerted \union {Task(d)}
        /\ \A c \in Deliveries : c # d => pc'[c] = pc[c] /\ lost'[c] = lost[c]
        /\ lost[d] \subseteq lost'[d]
    BY <1>1 DEF RecordAlert, TypeInv, TypeOK
  <2>2. \/ pc'[d] = "dispatch" /\ Task(d) \in alerted'
        \/ pc'[d] = "fail" /\ "record" \in lost'[d]
    BY <1>1 DEF RecordAlert, TypeInv, TypeOK
  <2>3. Unsent(d)' /\ \A c \in Deliveries : Unsent(c) => Unsent(c)'
    BY <2>1, <2>2 DEF Unsent
  <2>4. \A c \in Deliveries : Task(c)' = Task(c)
    BY <2>1 DEF Task
  <2>5. \A t \in alerted' : Noted(t)'
    BY <1>0, <2>1, <2>3, <2>4 DEF NoteInv, Noted
  <2>6. QED
    BY <1>0, <2>1, <2>2, <2>4, <2>5 DEF NoteInv
<1>2. ASSUME NEW d \in Deliveries, Dispatch(d) PROVE NoteInv'
  <2> DEFINE new == NewAction(d)
  <2>1. pc[d] = "dispatch" /\ Task(d) \in alerted /\ plan[d].type = "create_note"
    BY <1>2 DEF Dispatch, NoteInv, ActionsInv, TypesFixed, TypesOfEvent, IsDeadline
  <2>2. Valid(d)
    BY <2>1 DEF Valid, ValidTool
  <2>3. TaskOf(new) = Task(d)
    BY DEF NewAction, Bound, TaskOf, Task
  <2>4. /\ UNCHANGED <<alerted, content>>
        /\ actions \subseteq actions' /\ actions' \subseteq actions \union {new}
        /\ \A c \in Deliveries : c # d => pc'[c] = pc[c] /\ lost'[c] = lost[c]
        /\ lost[d] \subseteq lost'[d]
        /\ pc'[d] # "dispatch"
    BY <1>2, <2>1 DEF Dispatch, Accept, TypeInv, TypeOK
  <2>5. "dispatch" \in lost'[d] \/ actions' = Accept(new)
    BY <1>2, <2>1, <2>2 DEF Dispatch, TypeInv, TypeOK
  <2>6. actions' = Accept(new) => \E a \in actions' : TaskOf(a) = Task(d)
    BY <2>3 DEF Accept, SameKey
  <2>7. \A c \in Deliveries : Task(c)' = Task(c) /\ (c # d => (Unsent(c) => Unsent(c)'))
    BY <2>4 DEF Task, Unsent
  <2>8. \A t \in alerted' : Noted(t)'
    <3> SUFFICES ASSUME NEW t \in alerted PROVE Noted(t)'
      BY <2>4
    <3>1. Noted(t)
      BY DEF NoteInv
    <3>2. CASE t = Task(d)
      BY <1>0, <2>5, <2>6, <2>7, <3>2 DEF Noted, Unsent
    <3>3. CASE t # Task(d)
      BY <1>0, <2>4, <2>7, <3>1, <3>3 DEF Noted
    <3>4. QED
      BY <3>2, <3>3
  <2>9. QED
    BY <1>0, <2>1, <2>3, <2>4, <2>7, <2>8 DEF NoteInv
<1>3. ASSUME NEW d \in Deliveries, Plan(d) PROVE NoteInv'
  BY <1>3 DEF Plan, ActionsInv, TypesFixed
<1>4. ASSUME NEW d \in Deliveries, Interpret(d) PROVE NoteInv'
  <2>1. NoNote
    BY <1>4, InterpretStep DEF Bound, NoNote, Unsent
  <2>2. QED
    BY <2>1, NoteFrame
<1>5. ASSUME NEW d \in Deliveries, CreateRun(d) PROVE NoteInv'
  <2>1. NoNote
    BY <1>5, CreateRunStep DEF NoNote, Unsent
  <2>2. QED
    BY <2>1, NoteFrame
<1>6. ASSUME NEW d \in Deliveries,
             \/ Context(d) \/ OwnRun(d) \/ Confirm(d)
             \/ CompleteRun(d) \/ FailRun(d)
      PROVE  NoteInv'
  <2>1. UNCHANGED <<actions, alerted>> /\ pc[d] # "dispatch" /\ pc'[d] # "dispatch"
    BY <1>6 DEF Context, OwnRun, Confirm, CompleteRun, FailRun, Settle,
       TypeInv, TypeOK
  <2>2. Proceeds /\ \A c \in Deliveries : c # d => pc'[c] = pc[c] /\ lost'[c] = lost[c]
    BY <1>6, WorkProceeds
  <2>3. NoNote
    BY <2>1, <2>2 DEF NoNote, Unsent, Proceeds
  <2>4. QED
    BY <2>3, NoteFrame
<1>7. CASE Ambient
  <2>1. NoNote
    BY <1>7, AmbientProceeds DEF NoNote, Unsent
  <2>2. QED
    BY <2>1, NoteFrame
<1>8. CASE Crash
  <2>1. NoNote
    BY <1>8, CrashProceeds DEF NoNote, Unsent, InFlight, Proceeds
  <2>2. QED
    BY <2>1, NoteFrame
<1>9. QED
  BY <1>1, <1>2, <1>3, <1>4, <1>5, <1>6, <1>7, <1>8 DEF Next, Advance, Ambient

\* A deadline note comes after the alert that caches its text, an alert has at most
\* one, and it goes without only when a call of its own delivery is lost.
THEOREM NotesFollowAlerts == Spec => []NotesMatchAlerts
<1>1. Init => NoteInv
  BY DEF Init, NoteInv
<1>2. NoteInv /\ ActionsInv => NotesMatchAlerts
  <2> SUFFICES ASSUME NoteInv, ActionsInv, IsDeadline
               PROVE  /\ \A a \in actions : TaskOf(a) \in alerted
                      /\ \A a, b \in actions : TaskOf(a) = TaskOf(b) => a = b
                      /\ \A t \in alerted :
                             \/ \E a \in actions : TaskOf(a) = t
                             \/ \E d \in Deliveries : Task(d) = t /\ Unsent(d)
    BY DEF NotesMatchAlerts, Unsent
  <2>1. \A a, b \in actions : TaskOf(a) = TaskOf(b) => a = b
    BY DEF ActionsInv, KeyedOnce, SameKey
  <2>2. QED
    BY <2>1 DEF NoteInv, Noted
<1>3. QED
  BY <1>1, <1>2, BoundInvariant, NoteStep, PTL DEF Spec

-----------------------------------------------------------------------------
(***************************************************************************)
(* Open runs.  Whoever has executed a run and has returned has settled it, *)
(* and a run that is open has somebody who has not returned.               *)
(***************************************************************************)
ReturnedInv ==
    /\ OrphanNeedsFault
    /\ \A k \in Runs : run[k] \notin Terminal => executors[k] \subseteq Open(k)

\* A step at which nobody returns and no run is opened.
Unreturned ==
    /\ \A k \in Runs : /\ run'[k] \notin Terminal => run'[k] = run[k]
                       /\ executors'[k] = executors[k]
    /\ left \subseteq left' /\ UNCHANGED key
    /\ \A c \in Deliveries :
           c \in InFlight => pc'[c] # "idle" /\ (pc'[c] = "done" => c \in left')
    /\ \A c \in Deliveries : pc[c] # "idle" => pc'[c] # "idle"

LEMMA ReturnedFrame ==
    ASSUME TypeInv, ReturnedInv, Unreturned PROVE ReturnedInv'
<1>1. \A k \in Runs : Open(k) \subseteq Open(k)'
  BY DEF Open, InFlight, Unreturned
<1>2. QED
  BY <1>1 DEF ReturnedInv, OrphanNeedsFault, Unreturned

\* Who settles its run returns from a run that is settled, or does not return.
LEMMA SettleReturns ==
    ASSUME TypeInv, Bound, ReturnedInv, NEW d \in Deliveries, pc[d] \in Executing,
           NEW s \in {"completed", "failed"}, Settle(d, s)
    PROVE  ReturnedInv'
<1>1. /\ UNCHANGED <<key, executors>> /\ left \subseteq left' /\ key[d] \in Runs
      /\ pc'[d] = "done" /\ \A c \in Deliveries : c # d => pc'[c] = pc[c]
      /\ \A k \in Runs : k # key[d] => run'[k] = run[k]
      /\ run'[key[d]] = s \/ (run' = run /\ d \in left')
  BY DEF Settle, TypeInv, TypeOK
<1>2. \A k \in Runs : \A c \in Open(k) : c \in Open(k)' \/ (c = d /\ k = key[d] /\ run'[k] = s)
  BY <1>1 DEF Open, InFlight
<1>3. QED
  BY <1>1, <1>2 DEF ReturnedInv, OrphanNeedsFault

LEMMA ReturnedStep == TypeInv /\ Bound /\ ReturnedInv /\ [Next]_vars => ReturnedInv'
<1> SUFFICES ASSUME TypeInv, Bound, ReturnedInv, [Next]_vars PROVE ReturnedInv'
  OBVIOUS
<1>0. /\ \A d \in Deliveries : key[d] \in Runs
      /\ \A k \in Runs : executors[k] \subseteq Deliveries
  BY DEF TypeInv, TypeOK
<1>1. ASSUME NEW d \in Deliveries, Interpret(d) PROVE ReturnedInv'
  <2>1. \A k \in Runs : Open(k) \subseteq Open(k)'
    BY <1>1, InterpretStep DEF Open, InFlight
  <2>2. QED
    BY <1>1, <2>1, InterpretStep DEF ReturnedInv, OrphanNeedsFault
<1>2. ASSUME NEW d \in Deliveries, CreateRun(d) PROVE ReturnedInv'
  <2>1. /\ pc[d] = "create_run" /\ UNCHANGED key /\ key[d] \in Runs
        /\ \A c \in Deliveries : c # d => pc'[c] = pc[c]
        /\ left \subseteq left'
        /\ pc'[d] \in {"context", "done"}
        /\ pc'[d] = "done" => d \in left' \/ run[key[d]] \in Terminal
    BY <1>2, CreateRunStep
  <2>2. \A k \in Runs : run'[k] = run[k] \/ (k = key[d] /\ run[k] = "absent" /\ run'[k] = "running")
    BY <1>2, <2>1, CreateRunStep DEF Opened, TypeInv, TypeOK
  <2>3. \A k \in Runs : run[k] \notin Terminal => Open(k) \subseteq Open(k)'
    BY <2>1 DEF Open, InFlight
  <2>4. \A k \in Runs : k = key[d] /\ run[k] \notin Terminal => d \in Open(k)'
    BY <2>1 DEF Open, InFlight
  <2>5. \A k \in Runs : executors'[k] # executors[k] =>
            k = key[d] /\ executors'[k] = executors[k] \union {d}
    BY <1>2, CreateRunStep DEF TypeInv, TypeOK
  <2>6. \A k \in Runs : run'[k] \notin Terminal => run[k] \notin Terminal
    BY <2>2
  <2>7. \A k \in Runs : run'[k] = "running" => Open(k)' # {}
    <3> SUFFICES ASSUME NEW k \in Runs, run'[k] = "running" PROVE Open(k)' # {}
      OBVIOUS
    <3>1. CASE run[k] = "running"
      <4>1. Open(k) # {}
        BY <3>1 DEF ReturnedInv, OrphanNeedsFault
      <4>2. Open(k) \subseteq Open(k)'
        BY <2>3, <3>1
      <4>3. QED
        BY <4>1, <4>2
    <3>2. CASE run[k] # "running"
      <4>1. k = key[d] /\ run[k] = "absent"
        BY <2>2, <3>2
      <4>2. d \in Open(k)'
        BY <2>4, <4>1
      <4>3. QED
        BY <4>2
    <3>3. QED
      BY <3>1, <3>2
  <2>8. \A k \in Runs : run'[k] \notin Terminal => executors'[k] \subseteq Open(k)'
    <3> SUFFICES ASSUME NEW k \in Runs, run'[k] \notin Terminal
                 PROVE  executors'[k] \subseteq Open(k)'
      OBVIOUS
    <3>1. run[k] \notin Terminal
      BY <2>6
    <3>2. executors[k] \subseteq Open(k)'
      BY <2>3, <3>1 DEF ReturnedInv
    <3>3. executors'[k] = executors[k] \/ (executors'[k] = executors[k] \union {d} /\ d \in Open(k)')
      BY <2>4, <2>5, <3>1
    <3>4. QED
      BY <3>2, <3>3
  <2>9. OrphanNeedsFault'
    BY <2>7 DEF OrphanNeedsFault
  <2>10. QED
    BY <2>8, <2>9 DEF ReturnedInv
<1>3. ASSUME NEW d \in Deliveries, CompleteRun(d) \/ FailRun(d) PROVE ReturnedInv'
  BY <1>3, SettleReturns DEF CompleteRun, FailRun
<1>4. ASSUME NEW d \in Deliveries,
             \/ Context(d) \/ Plan(d) \/ OwnRun(d) \/ RecordAlert(d)
             \/ Dispatch(d) \/ Confirm(d)
      PROVE  ReturnedInv'
  <2>1. /\ UNCHANGED <<run, left, key, executors>>
        /\ \E s \in Executing : Goto(d, s)
    BY <1>4 DEF Context, Plan, OwnRun, RecordAlert, Dispatch, Confirm
  <2>2. Unreturned
    BY <2>1 DEF Unreturned, InFlight, TypeInv, TypeOK
  <2>3. QED
    BY <2>2, ReturnedFrame
<1>5. CASE Ambient
  <2>1. UNCHANGED <<pc, key, left, executors>>
    BY <1>5, AmbientProceeds
  <2>2. \A k \in Runs : run'[k] = run[k] \/ run'[k] = "cancelled"
    BY <1>5 DEF Ambient, Cancel, Reject, Tick, vars, TypeInv, TypeOK
  <2>3. Unreturned
    BY <2>1, <2>2 DEF Unreturned, InFlight
  <2>4. QED
    BY <2>3, ReturnedFrame
<1>6. CASE Crash
  <2>1. Unreturned
    BY <1>6, CrashProceeds DEF Unreturned, Proceeds, InFlight
  <2>2. QED
    BY <2>1, ReturnedFrame
<1>7. QED
  BY <1>1, <1>2, <1>3, <1>4, <1>5, <1>6 DEF Next, Advance, Ambient

LEMMA ReturnedInvariant == Spec => [](TypeInv /\ Bound /\ ReturnedInv)
<1>1. Init => ReturnedInv
  BY DEF Init, ReturnedInv, OrphanNeedsFault
<1>2. QED
  BY <1>1, BoundInvariant, ReturnedStep, PTL DEF Spec

\* A run that is open has a delivery at work, or one that a crash or an exception of
\* its own start or end took away.
THEOREM NoOrphan == Spec => []OrphanNeedsFault
<1>1. ReturnedInv => OrphanNeedsFault
  BY DEF ReturnedInv
<1>2. QED
  BY <1>1, ReturnedInvariant, PTL

\* No run is executed again after one of its deliveries has returned.
THEOREM ReturnsAreFinal == Spec => RunsAgainOnlyIfOpen
<1> DEFINE Joins == \A k \in Runs : executors'[k] # executors[k] => executors[k] \subseteq Open(k)
<1>1. TypeInv /\ ReturnedInv /\ [Next]_vars => [Joins]_vars
  <2> SUFFICES ASSUME TypeInv, ReturnedInv, Next, NEW k \in Runs, executors'[k] # executors[k]
               PROVE  executors[k] \subseteq Open(k)
    OBVIOUS
  <2>1. PICK d \in Deliveries : CreateRun(d)
    <3>1. ASSUME NEW d \in Deliveries, Interpret(d) PROVE FALSE
      BY <3>1, InterpretStep
    <3>2. ASSUME NEW d \in Deliveries,
             \/ Context(d) \/ Plan(d) \/ OwnRun(d) \/ RecordAlert(d)
             \/ Dispatch(d) \/ Confirm(d) \/ CompleteRun(d) \/ FailRun(d)
          PROVE  FALSE
      BY <3>2, WorkProceeds
    <3>3. CASE Ambient
      BY <3>3, AmbientProceeds
    <3>4. CASE Crash
      BY <3>4, CrashProceeds
    <3>5. QED
      BY <3>1, <3>2, <3>3, <3>4 DEF Next, Advance, Ambient
  <2>2. k = key[d] /\ run[k] \notin Terminal
    BY <2>1, CreateRunStep DEF TypeInv, TypeOK
  <2>3. QED
    BY <2>2 DEF ReturnedInv
<1>2. QED
  BY <1>1, ReturnedInvariant, PTL DEF Spec, RunsAgainOnlyIfOpen

-----------------------------------------------------------------------------
(***************************************************************************)
(* What a completed run means: a delivery that is about to complete its    *)
(* run has an answer for it, and an answer is never taken back.            *)
(***************************************************************************)
Answered(d) == key[d] \in declined \/ \E a \in actions : Answers(a, d)

AnsweredInv ==
    /\ \A k \in Runs : run[k] = "completed" =>
           k \in declined \/ \E d \in executors[k] : Answered(d)
    /\ \A d \in Deliveries : pc[d] \in {"confirm", "complete"} => Answered(d)

\* The answers of a delivery that has begun stay.
Kept ==
    /\ actions \subseteq actions' /\ declined \subseteq declined'
    /\ \A k \in Runs : executors[k] \subseteq executors'[k]
    /\ \A c \in Deliveries : pc[c] # "idle" => key'[c] = key[c] /\ content'[c] = content[c]

LEMMA AnswersStay ==
    ASSUME NEW d \in Deliveries, pc[d] # "idle", Kept, Answered(d)
    PROVE  Answered(d)'
<1>1. \A a : Answers(a, d) => Answers(a, d)'
  BY DEF Kept, Answers, IsDeadline, TaskOf, Task
<1>2. QED
  BY <1>1 DEF Kept, Answered

\* The runs that are completed at the end of a step, and the deliveries that are
\* past their dispatch then, were so before or have an answer now.
LEMMA AnsweredFrame ==
    ASSUME TypeInv, Bound, AnsweredInv, Kept,
           \A k \in Runs : run'[k] = "completed" =>
               run[k] = "completed" \/ k \in declined' \/ \E d \in executors'[k] : Answered(d)',
           \A c \in Deliveries : pc'[c] \in {"confirm", "complete"} =>
               pc[c] \in {"confirm", "complete"} \/ Answered(c)'
    PROVE  AnsweredInv'
<1>1. \A k \in Runs : executors[k] \subseteq Deliveries
  BY DEF TypeInv, TypeOK
<1>2. \A k \in Runs : \A d \in executors[k] : Answered(d) => Answered(d)'
  BY <1>1, AnswersStay DEF Bound
<1>3. \A d \in Deliveries : pc[d] \in {"confirm", "complete"} => Answered(d)'
  BY AnswersStay DEF AnsweredInv
<1>4. \A k \in Runs : run'[k] = "completed" =>
          k \in declined' \/ \E d \in executors'[k] : Answered(d)'
  BY <1>2 DEF AnsweredInv, Kept
<1>5. QED
  BY <1>3, <1>4 DEF AnsweredInv

LEMMA AnsweredStep == TypeInv /\ Bound /\ AnsweredInv /\ [Next]_vars => AnsweredInv'
<1> SUFFICES ASSUME TypeInv, Bound, AnsweredInv, [Next]_vars PROVE AnsweredInv'
  OBVIOUS
<1>0. /\ \A d \in Deliveries : key[d] \in Runs
      /\ \A k \in Runs : executors[k] \subseteq Deliveries
  BY DEF TypeInv, TypeOK
\* It remains to look at who gets past its dispatch, and at completed runs.
<1>1. ASSUME NEW d \in Deliveries, Interpret(d) PROVE AnsweredInv'
  <2>1. Kept
    BY <1>1, InterpretStep DEF Kept
  <2>2. \A c \in Deliveries : pc'[c] \in {"confirm", "complete"} => pc[c] = pc'[c]
    BY <1>1, InterpretStep
  <2>3. UNCHANGED run
    BY <1>1, InterpretStep
  <2>4. QED
    BY <2>1, <2>2, <2>3, AnsweredFrame
<1>2. ASSUME NEW d \in Deliveries, CreateRun(d) PROVE AnsweredInv'
  <2>1. Kept
    BY <1>2, CreateRunStep DEF Kept, TypeInv, TypeOK
  <2>2. \A c \in Deliveries : pc'[c] \in {"confirm", "complete"} => pc[c] = pc'[c]
    BY <1>2, CreateRunStep
  <2>3. \A k \in Runs : run'[k] = "completed" => run[k] = "completed"
    BY <1>2, CreateRunStep DEF Opened, TypeInv, TypeOK
  <2>4. QED
    BY <2>1, <2>2, <2>3, AnsweredFrame
<1>3. ASSUME NEW d \in Deliveries,
             \/ Context(d) \/ Plan(d) \/ OwnRun(d) \/ RecordAlert(d)
             \/ Dispatch(d) \/ Confirm(d) \/ CompleteRun(d) \/ FailRun(d)
      PROVE  Kept /\ \A c \in Deliveries : c # d => pc'[c] = pc[c]
  <2>1. Proceeds /\ UNCHANGED executors /\ \A c \in Deliveries : c # d => pc'[c] = pc[c]
    BY <1>3, WorkProceeds
  <2>2. actions \subseteq actions' /\ declined \subseteq declined'
    BY <1>3 DEF Context, Plan, OwnRun, RecordAlert, Dispatch, Accept, Confirm,
       CompleteRun, FailRun, Settle
  <2>3. QED
    BY <2>1, <2>2 DEF Kept, Proceeds
<1>4. ASSUME NEW d \in Deliveries, Context(d) \/ RecordAlert(d) PROVE AnsweredInv'
  <2>1. pc'[d] \notin {"confirm", "complete"} /\ UNCHANGED run
    BY <1>4 DEF Context, RecordAlert, TypeInv, TypeOK
  <2>2. QED
    BY <1>3, <1>4, <2>1, AnsweredFrame
<1>5. ASSUME NEW d \in Deliveries, Plan(d) \/ OwnRun(d) PROVE AnsweredInv'
  <2>1. pc'[d] \in {"confirm", "complete"} => key[d] \in declined'
    BY <1>5 DEF Plan, OwnRun, TypeInv, TypeOK
  <2>2. UNCHANGED <<run, key>>
    BY <1>5 DEF Plan, OwnRun
  <2>3. pc'[d] \in {"confirm", "complete"} => Answered(d)'
    BY <2>1, <2>2 DEF Answered
  <2>4. QED
    BY <1>3, <1>5, <2>2, <2>3, AnsweredFrame
<1>6. ASSUME NEW d \in Deliveries, Dispatch(d) PROVE AnsweredInv'
  <2> DEFINE new == NewAction(d)
  <2>1. /\ UNCHANGED <<run, key, content>>
        /\ pc'[d] \in {"confirm", "complete"} => actions' = Accept(new)
    BY <1>6 DEF Dispatch, TypeInv, TypeOK
  <2>2. SameKey(new, new) /\ new.run = key[d] /\ TaskOf(new) = Task(d)
    BY DEF SameKey, NewAction, TaskOf, Task, Bound
  <2>3. pc'[d] \in {"confirm", "complete"} => \E a \in actions' : SameKey(new, a)
    BY <2>1, <2>2 DEF Accept
  <2>4. \A a : SameKey(new, a) => Answers(a, d)'
    <3> SUFFICES ASSUME NEW a, SameKey(new, a) PROVE Answers(a, d)'
      OBVIOUS
    <3>1. Answers(a, d)
      BY <2>2 DEF SameKey, Answers
    <3>2. QED
      BY <2>1, <3>1 DEF Answers, IsDeadline, TaskOf, Task
  <2>5. pc'[d] \in {"confirm", "complete"} => Answered(d)'
    <3> HIDE DEF new
    <3> QED
      BY <2>3, <2>4 DEF Answered
  <2>6. QED
    BY <1>3, <1>6, <2>1, <2>5, AnsweredFrame
<1>7. ASSUME NEW d \in Deliveries, Confirm(d) PROVE AnsweredInv'
  <2>1. pc[d] = "confirm" /\ UNCHANGED run
    BY <1>7 DEF Confirm
  <2>2. QED
    BY <1>3, <1>7, <2>1, AnsweredFrame
<1>8. ASSUME NEW d \in Deliveries, CompleteRun(d) PROVE AnsweredInv'
  <2>1. /\ pc[d] = "complete" /\ pc'[d] = "done" /\ d \in executors'[key[d]]
        /\ \A k \in Runs : run'[k] = "completed" => run[k] = "completed" \/ k = key[d]
    BY <1>8 DEF CompleteRun, Settle, Bound, TypeInv, TypeOK
  <2>2. Answered(d)'
    BY <1>3, <1>8, <2>1, AnswersStay DEF AnsweredInv
  <2>3. QED
    BY <1>3, <1>8, <2>1, <2>2, AnsweredFrame
<1>9. ASSUME NEW d \in Deliveries, FailRun(d) PROVE AnsweredInv'
  <2>1. pc'[d] = "done" /\ \A k \in Runs : run'[k] = "completed" => run[k] = "completed"
    BY <1>9 DEF FailRun, Settle, TypeInv, TypeOK
  <2>2. QED
    BY <1>3, <1>9, <2>1, AnsweredFrame
<1>10. CASE Ambient
  <2>1. Kept /\ UNCHANGED pc
    BY <1>10, AmbientProceeds DEF Kept
  <2>2. \A k \in Runs : run'[k] = "completed" => run[k] = "completed"
    BY <1>10 DEF Ambient, Cancel, Reject, Tick, vars, TypeInv, TypeOK
  <2>3. QED
    BY <2>1, <2>2, AnsweredFrame
<1>11. CASE Crash
  <2>1. Kept /\ UNCHANGED run
    BY <1>11, CrashProceeds DEF Kept, Proceeds
  <2>2. \A c \in Deliveries : pc'[c] \in {"confirm", "complete"} => pc[c] = pc'[c]
    BY <1>11, CrashProceeds
  <2>3. QED
    BY <2>1, <2>2, AnsweredFrame
<1>12. QED
  BY <1>1, <1>2, <1>4, <1>5, <1>6, <1>7, <1>8, <1>9, <1>10, <1>11 DEF Next, Advance, Ambient

\* A run is completed only over the decision that no action is needed or over the
\* accepted action of one of its own executions.
THEOREM CompletedMeansAnswered == Spec => []CompletedIsAnswered
<1>1. Init => AnsweredInv
  BY DEF Init, AnsweredInv
<1>2. TypeInv /\ Bound /\ AnsweredInv => CompletedIsAnswered
  BY DEF AnsweredInv, Answered, CompletedIsAnswered, Bound
<1>3. QED
  BY <1>1, <1>2, BoundInvariant, AnsweredStep, PTL DEF Spec

-----------------------------------------------------------------------------
(***************************************************************************)
(* What a failed run means.  A delivery whose dispatch and last trace are  *)
(* answered fails only before it has acted, and who marked a run failed    *)
(* never acts again: an action of the run is another delivery's.           *)
(***************************************************************************)
Actless(d) == \A a \in actions : a.by # d

Excused(d) == Actless(d) \/ lost[d] \intersect {"dispatch", "confirm"} # {}

FailedInv ==
    /\ \A a \in actions : key[a.by] = a.run /\ a.by \in executors[a.run]
    /\ \A d \in Deliveries : pc[d] = "fail" => Excused(d)
    /\ \A k \in Runs : run[k] = "failed" =>
           \E c \in executors[k] : pc[c] = "done" /\ Excused(c)

\* A step in which nobody acts, and nobody fails but with an excuse.
Harmless ==
    /\ UNCHANGED actions
    /\ \A k \in Runs : run'[k] = "failed" => run[k] = "failed"
    /\ \A k \in Runs : executors[k] \subseteq executors'[k]
    /\ \A c \in Deliveries :
           /\ pc[c] # "idle" => key'[c] = key[c]
           /\ pc[c] = "done" => pc'[c] = "done"
           /\ lost[c] \subseteq lost'[c]
           /\ pc'[c] = "fail" => pc[c] = "fail" \/ Excused(c)'

LEMMA FailedFrame ==
    ASSUME TypeInv, ActionsInv, Bound, FailedInv, Harmless PROVE FailedInv'
<1>0. /\ \A k \in Runs : executors[k] \subseteq Deliveries
      /\ \A a \in actions : a.by \in Deliveries /\ a.run \in Runs /\ pc[a.by] # "idle"
  BY DEF TypeInv, TypeOK, Actions, ActionsInv, Past
<1>1. \A c \in Deliveries : Excused(c) => Excused(c)'
  BY DEF Harmless, Excused, Actless
<1>2. \A a \in actions' : key'[a.by] = a.run /\ a.by \in executors'[a.run]
  BY <1>0 DEF FailedInv, Harmless
<1>3. \A d \in Deliveries : pc'[d] = "fail" => Excused(d)'
  BY <1>1 DEF FailedInv, Harmless
<1>4. \A k \in Runs : run'[k] = "failed" => \E c \in executors'[k] : pc'[c] = "done" /\ Excused(c)'
  BY <1>0, <1>1 DEF FailedInv, Harmless
<1>5. QED
  BY <1>2, <1>3, <1>4 DEF FailedInv

LEMMA FailedStep ==
    TypeInv /\ ActionsInv /\ Bound /\ FailedInv /\ [Next]_vars => FailedInv'
<1> SUFFICES ASSUME TypeInv, ActionsInv, Bound, FailedInv, [Next]_vars PROVE FailedInv'
  OBVIOUS
<1>0. /\ \A k \in Runs : executors[k] \subseteq Deliveries
      /\ \A d \in Deliveries : key[d] \in Runs
      /\ \A a \in actions :
             a.by \in Deliveries /\ pc[a.by] \in {"confirm", "complete", "fail", "done"}
  BY DEF TypeInv, TypeOK, Actions, ActionsInv, Past
<1>1. ASSUME NEW d \in Deliveries, Interpret(d) PROVE FailedInv'
  <2>1. Harmless
    BY <1>1, InterpretStep DEF Harmless
  <2>2. QED
    BY <2>1, FailedFrame
<1>2. ASSUME NEW d \in Deliveries, CreateRun(d) PROVE FailedInv'
  <2>1. \A k \in Runs : run'[k] = "failed" => run[k] = "failed"
    BY <1>2, CreateRunStep DEF Opened, TypeInv, TypeOK
  <2>2. \A k \in Runs : executors[k] \subseteq executors'[k]
    BY <1>2, CreateRunStep DEF TypeInv, TypeOK
  <2>3. Harmless
    BY <1>2, <2>1, <2>2, CreateRunStep DEF Harmless
  <2>4. QED
    BY <2>3, FailedFrame
<1>3. ASSUME NEW d \in Deliveries,
             \/ Context(d) \/ Plan(d) \/ OwnRun(d) \/ RecordAlert(d)
             \/ Confirm(d) \/ CompleteRun(d)
      PROVE  FailedInv'
  <2>1. /\ UNCHANGED actions
        /\ \A k \in Runs : run'[k] = "failed" => run[k] = "failed"
    BY <1>3 DEF Context, Plan, OwnRun, RecordAlert, Confirm, CompleteRun,
       Settle, TypeInv, TypeOK
  <2>2. /\ Proceeds /\ UNCHANGED executors
        /\ \A c \in Deliveries : c # d => pc'[c] = pc[c]
    BY <1>3, WorkProceeds
  <2>3. pc'[d] = "fail" => pc[d] \in {"context", "plan", "record"} \/ "confirm" \in lost'[d]
    BY <1>3 DEF Context, Plan, OwnRun, RecordAlert, Confirm, CompleteRun,
       Settle, TypeInv, TypeOK
  <2>4. pc'[d] = "fail" => Excused(d)'
    BY <1>0, <2>1, <2>3 DEF Excused, Actless
  <2>5. Harmless
    BY <2>1, <2>2, <2>4 DEF Harmless, Proceeds
  <2>6. QED
    BY <2>5, FailedFrame
<1>4. ASSUME NEW d \in Deliveries, Dispatch(d) PROVE FailedInv'
  <2> DEFINE new == NewAction(d)
  <2>1. /\ pc[d] = "dispatch" /\ d \in executors[key[d]]
        /\ UNCHANGED <<key, run, executors>>
        /\ \A c \in Deliveries : c # d => pc'[c] = pc[c] /\ lost'[c] = lost[c]
        /\ pc'[d] \in {"confirm", "fail"}
        /\ actions' \subseteq actions \union {new}
    BY <1>4 DEF Dispatch, Accept, Bound, TypeInv, TypeOK
  <2>2. new.by = d /\ new.run = key[d] /\ Actless(d)
    BY <1>0, <2>1 DEF NewAction, Actless
  <2>3. pc'[d] = "fail" => actions' = actions \/ "dispatch" \in lost'[d]
    BY <1>4, <2>1 DEF Dispatch, TypeInv, TypeOK
  <2>4. \A c \in Deliveries : c # d /\ Excused(c) => Excused(c)'
    BY <2>1, <2>2 DEF Actless, Excused
  <2>5. \A a \in actions' : key[a.by] = a.run /\ a.by \in executors[a.run]
    BY <2>1, <2>2 DEF FailedInv
  <2>6. pc'[d] = "fail" => Excused(d)'
    BY <2>2, <2>3 DEF Actless, Excused
  <2>7. QED
    BY <1>0, <2>1, <2>4, <2>5, <2>6 DEF FailedInv
<1>5. ASSUME NEW d \in Deliveries, FailRun(d) PROVE FailedInv'
  <2>1. /\ pc[d] = "fail" /\ d \in executors[key[d]]
        /\ UNCHANGED <<actions, key, executors>>
        /\ \A c \in Deliveries : c # d => pc'[c] = pc[c]
        /\ pc'[d] = "done"
        /\ \A c \in Deliveries : lost[c] \subseteq lost'[c]
        /\ \A k \in Runs : run'[k] = "failed" => run[k] = "failed" \/ k = key[d]
    BY <1>5 DEF FailRun, Settle, Bound, TypeInv, TypeOK
  <2>2. \A c \in Deliveries : Excused(c) => Excused(c)'
    BY <2>1 DEF Actless, Excused
  <2>3. QED
    BY <1>0, <2>1, <2>2 DEF FailedInv
<1>6. CASE Ambient
  <2>1. \A k \in Runs : run'[k] = "failed" => run[k] = "failed"
    BY <1>6 DEF Ambient, Cancel, Reject, Tick, vars, TypeInv, TypeOK
  <2>2. Harmless
    BY <1>6, <2>1, AmbientProceeds DEF Harmless
  <2>3. QED
    BY <2>2, FailedFrame
<1>7. CASE Crash
  <2>1. Harmless
    BY <1>7, CrashProceeds DEF Harmless, Proceeds
  <2>2. QED
    BY <2>1, FailedFrame
<1>8. QED
  BY <1>1, <1>2, <1>3, <1>4, <1>5, <1>6, <1>7 DEF Next, Advance, Ambient

\* A run is marked failed over an accepted action only when the answer to it or
\* the trace behind it was lost, or by one delivery while another acted.
THEOREM FailuresLeaveNothing == Spec => []FailedRunHasNoAction
<1>1. Init => FailedInv
  BY DEF Init, FailedInv
<1>2. TypeInv /\ FailedInv => FailedRunHasNoAction
  <2> SUFFICES ASSUME TypeInv, FailedInv, NEW a \in actions, run[a.run] = "failed",
                      ~Overlap(a.run, a.by)
               PROVE  lost[a.by] \intersect {"dispatch", "confirm"} # {}
    BY DEF FailedRunHasNoAction
  <2>1. a.run \in Runs
    BY DEF TypeInv, TypeOK, Actions
  <2>2. PICK c \in executors[a.run] : Excused(c)
    BY <2>1 DEF FailedInv
  <2>3. c = a.by
    BY <2>2 DEF Overlap
  <2>4. QED
    BY <2>2, <2>3 DEF Excused, Actless
<1>3. QED
  BY <1>1, <1>2, BoundInvariant, FailedStep, PTL DEF Spec

-----------------------------------------------------------------------------
(***************************************************************************)
(* The contract of a run.  The workers of a run are the deliveries between *)
(* the answer to create_run and the end of handle_event.  All steps of a   *)
(* workflow but its dispatch are invisible to the contract.                *)
(***************************************************************************)
CStep == [Contract!Next]_(Contract!vars)

\* Nobody joins or leaves a run.
SameWorkers ==
    \A c \in Deliveries :
        /\ pc'[c] \in Executing <=> pc[c] \in Executing
        /\ pc[c] \in Executing => key'[c] = key[c]

LEMMA LiveSame == ASSUME SameWorkers PROVE Live' = Live
<1>1. \A k \in Runs :
         {d \in Deliveries : pc'[d] \in Executing /\ key'[d] = k}
           = {d \in Deliveries : pc[d] \in Executing /\ key[d] = k}
  BY DEF SameWorkers
<1>2. QED
  BY <1>1 DEF Live

LEMMA EffectsSame == ASSUME UNCHANGED actions PROVE Effects' = Effects
  BY DEF Effects

LEMMA Invisible ==
    ASSUME SameWorkers, UNCHANGED <<run, actions>> PROVE CStep
  BY LiveSame, EffectsSame DEF CStep, Contract!vars

\* d starts on the run of its key, or leaves it, and nobody else moves.
LEMMA LiveJoins ==
    ASSUME TypeInv, NEW d \in Deliveries, pc[d] \notin Executing,
           NEW s \in Executing, Goto(d, s), UNCHANGED key
    PROVE  Live' = [Live EXCEPT ![key[d]] = @ \union {d}]
<1> DEFINE W(k) == {c \in Deliveries : pc[c] \in Executing /\ key[c] = k}
<1>1. \A k \in Runs : W(k)' = IF k = key[d] THEN W(k) \union {d} ELSE W(k)
  BY DEF TypeInv, TypeOK
<1>2. Live = [k \in Runs |-> W(k)] /\ Live' = [k \in Runs |-> W(k)']
  BY DEF Live
<1> HIDE DEF W
<1>3. QED
  BY <1>1, <1>2

LEMMA LiveLeaves ==
    ASSUME TypeInv, NEW d \in Deliveries, Goto(d, "done"), UNCHANGED key
    PROVE  /\ Live' = [Live EXCEPT ![key[d]] = @ \ {d}]
           /\ Live' = [k \in Runs |-> Live[k] \ {d}]
<1> DEFINE W(k) == {c \in Deliveries : pc[c] \in Executing /\ key[c] = k}
<1>1. \A k \in Runs : W(k)' = W(k) \ {d} /\ (k # key[d] => W(k)' = W(k))
  BY DEF TypeInv, TypeOK
<1>2. Live = [k \in Runs |-> W(k)] /\ Live' = [k \in Runs |-> W(k)']
  BY DEF Live
<1> HIDE DEF W
<1>3. Live' = [Live EXCEPT ![key[d]] = @ \ {d}]
  BY <1>1, <1>2
<1>4. Live' = [k \in Runs |-> Live[k] \ {d}]
  BY <1>1, <1>2
<1>5. QED
  BY <1>3, <1>4

LEMMA SettleStep ==
    ASSUME TypeInv, NEW d \in Deliveries, pc[d] \in Executing,
           NEW s \in {"completed", "failed"}, Settle(d, s)
    PROVE  CStep
<1>1. /\ run' \in {run, [run EXCEPT ![key[d]] = s]}
      /\ Goto(d, "done") /\ UNCHANGED <<key, actions>>
  BY DEF Settle
<1>2. key[d] \in Runs /\ d \in Live[key[d]]
  BY DEF TypeInv, TypeOK, Live
<1>3. CASE run' = run
  <2>1. Contract!Leave({d})
    BY <1>1, <1>3, LiveLeaves, EffectsSame DEF Contract!Leave
  <2>2. QED
    BY <2>1 DEF CStep, Contract!Next
<1>4. CASE run' = [run EXCEPT ![key[d]] = s]
  <2>1. Contract!Settle(d, key[d], s)
    BY <1>1, <1>2, <1>4, LiveLeaves, EffectsSame DEF Contract!Settle
  <2>2. QED
    BY <1>2, <2>1 DEF CStep, Contract!Next
<1>5. QED
  BY <1>1, <1>3, <1>4

LEMMA ContractStep == TypeInv /\ [Next]_vars => CStep
<1> SUFFICES ASSUME TypeInv, [Next]_vars PROVE CStep
  OBVIOUS
<1>1. ASSUME NEW d \in Deliveries, Interpret(d) PROVE CStep
  <2>1. SameWorkers /\ UNCHANGED <<run, actions>>
    BY <1>1 DEF Interpret, TypeInv, TypeOK, SameWorkers
  <2>2. QED
    BY <2>1, Invisible
<1>2. ASSUME NEW d \in Deliveries, CreateRun(d) PROVE CStep
  <2> DEFINE k == key[d]
  <2>1. k \in Runs /\ pc[d] = "create_run" /\ UNCHANGED <<actions, key>>
    BY <1>2 DEF CreateRun, TypeInv, TypeOK
  <2>2. run' \in {run, Opened(k)}
    BY <1>2 DEF CreateRun
  <2>3. run' = run \/ (run[k] \notin Terminal /\ run' = [run EXCEPT ![k] = "running"])
    BY <2>1, <2>2 DEF Opened, TypeInv, TypeOK
  <2>4. CASE Goto(d, "context")
    <3>1. run[k] \notin Terminal /\ run' = Opened(k)
      BY <1>2, <2>4 DEF CreateRun, IsDuplicate, TypeInv, TypeOK
    <3>2. run' = [run EXCEPT ![k] = "running"]
      BY <2>1, <3>1 DEF Opened, TypeInv, TypeOK
    <3>3. Contract!Start({d}, k)
      BY <2>1, <2>4, <3>1, <3>2, LiveJoins, EffectsSame DEF Contract!Start, Contract!Terminal
    <3>4. QED
      BY <2>1, <3>3 DEF CStep, Contract!Next
  <2>5. CASE Goto(d, "done")
    <3>1. SameWorkers
      BY <2>1, <2>5 DEF SameWorkers, TypeInv, TypeOK
    <3>2. CASE run' = run
      BY <2>1, <3>1, <3>2, Invisible
    <3>3. CASE run[k] \notin Terminal /\ run' = [run EXCEPT ![k] = "running"]
      <4>1. Live' = [Live EXCEPT ![k] = @ \union {}]
        BY <3>1, LiveSame DEF Live
      <4>2. Contract!Start({}, k)
        BY <2>1, <3>3, <4>1, EffectsSame DEF Contract!Start, Contract!Terminal
      <4>3. QED
        BY <2>1, <4>2 DEF CStep, Contract!Next
    <3>4. QED
      BY <2>3, <3>2, <3>3
  <2>6. QED
    BY <1>2, <2>4, <2>5 DEF CreateRun
<1>3. ASSUME NEW d \in Deliveries, Context(d) PROVE CStep
  <2>1. SameWorkers /\ UNCHANGED <<run, actions>>
    BY <1>3 DEF Context, TypeInv, TypeOK, SameWorkers
  <2>2. QED
    BY <2>1, Invisible
<1>4. ASSUME NEW d \in Deliveries, Plan(d) PROVE CStep
  <2>1. UNCHANGED <<run, actions, key>> /\ pc[d] = "plan"
    BY <1>4 DEF Plan
  <2>2. \E s \in Executing : Goto(d, s)
    BY <1>4 DEF Plan
  <2>3. SameWorkers
    BY <2>1, <2>2 DEF SameWorkers, TypeInv, TypeOK
  <2>4. QED
    BY <2>1, <2>3, Invisible
<1>5. ASSUME NEW d \in Deliveries, OwnRun(d) PROVE CStep
  <2>1. SameWorkers /\ UNCHANGED <<run, actions>>
    BY <1>5 DEF OwnRun, TypeInv, TypeOK, SameWorkers
  <2>2. QED
    BY <2>1, Invisible
<1>6. ASSUME NEW d \in Deliveries, RecordAlert(d) PROVE CStep
  <2>1. SameWorkers /\ UNCHANGED <<run, actions>>
    BY <1>6 DEF RecordAlert, TypeInv, TypeOK, SameWorkers
  <2>2. QED
    BY <2>1, Invisible
<1>7. ASSUME NEW d \in Deliveries, Dispatch(d) PROVE CStep
  <2> DEFINE new == NewAction(d)
  <2>1. /\ pc[d] = "dispatch" /\ UNCHANGED <<run, key>>
        /\ actions' \in {actions, Accept(new)}
        /\ \E s \in Executing : Goto(d, s)
    BY <1>7 DEF Dispatch
  <2>2. SameWorkers
    BY <2>1 DEF SameWorkers, TypeInv, TypeOK
  <2>3. CASE actions' = actions
    BY <2>1, <2>2, <2>3, Invisible
  <2>4. CASE actions' = actions \union {new}
    <3>1. key[d] \in Runs /\ d \in Live[key[d]]
      BY <2>1 DEF TypeInv, TypeOK, Live
    <3>2. plan[d].type \in ActionTypes
      BY <2>1 DEF TypeInv, Planned
    <3>3. Effects' = [Effects EXCEPT ![key[d]] = @ \union {plan[d].type}]
      <4>1. new.run = key[d] /\ new.type = plan[d].type
        BY DEF NewAction
      <4>2. \A k \in Runs :
               {a.type : a \in {b \in actions' : b.run = k}}
                 = IF k = key[d]
                   THEN {a.type : a \in {b \in actions : b.run = k}} \union {plan[d].type}
                   ELSE {a.type : a \in {b \in actions : b.run = k}}
        BY <2>4, <4>1
      <4>3. QED
        BY <4>2 DEF Effects
    <3>4. Contract!Act(key[d], plan[d].type)
      BY <2>1, <2>2, <3>1, <3>3, LiveSame DEF Contract!Act
    <3>5. QED
      BY <3>1, <3>2, <3>4 DEF CStep, Contract!Next
  <2>5. QED
    BY <2>1, <2>3, <2>4 DEF Accept
<1>8. ASSUME NEW d \in Deliveries, Confirm(d) PROVE CStep
  <2>1. SameWorkers /\ UNCHANGED <<run, actions>>
    BY <1>8 DEF Confirm, TypeInv, TypeOK, SameWorkers
  <2>2. QED
    BY <2>1, Invisible
<1>9. ASSUME NEW d \in Deliveries, CompleteRun(d) PROVE CStep
  BY <1>9, SettleStep DEF CompleteRun
<1>10. ASSUME NEW d \in Deliveries, FailRun(d) PROVE CStep
  BY <1>10, SettleStep DEF FailRun
<1>11. ASSUME NEW k \in Runs, Cancel(k) PROVE CStep
  <2>1. SameWorkers /\ UNCHANGED actions
    BY <1>11 DEF Cancel, SameWorkers
  <2>2. Contract!Cancel(k)
    BY <1>11, <2>1, LiveSame, EffectsSame DEF Cancel, Contract!Cancel
  <2>3. QED
    BY <2>2 DEF CStep, Contract!Next
<1>11a. ASSUME NEW a \in actions, Reject(a) PROVE CStep
  <2>1. SameWorkers /\ UNCHANGED <<run, actions>>
    BY <1>11a DEF Reject, TypeInv, TypeOK, SameWorkers
  <2>2. QED
    BY <2>1, Invisible
<1>12. CASE Tick
  <2>1. SameWorkers /\ UNCHANGED <<run, actions>>
    BY <1>12 DEF Tick, TypeInv, TypeOK, SameWorkers
  <2>2. QED
    BY <2>1, Invisible
<1>13. CASE Crash
  <2>1. UNCHANGED <<run, actions, key>>
        /\ \A c \in Deliveries : pc'[c] = IF c \in InFlight THEN "done" ELSE pc[c]
    BY <1>13 DEF Crash
  <2>2. \A k \in Runs :
           {c \in Deliveries : pc'[c] \in Executing /\ key'[c] = k}
             = {c \in Deliveries : pc[c] \in Executing /\ key[c] = k} \ InFlight
    BY <2>1 DEF InFlight
  <2>3. Live' = [k \in Runs |-> Live[k] \ InFlight]
    BY <2>2 DEF Live
  <2>4. Contract!Leave(InFlight) /\ InFlight \in SUBSET Deliveries
    BY <2>1, <2>3, EffectsSame DEF Contract!Leave, InFlight
  <2>5. QED
    BY <2>4 DEF CStep, Contract!Next
<1>14. CASE UNCHANGED vars
  <2>1. SameWorkers /\ UNCHANGED <<run, actions>>
    BY <1>14 DEF vars, TypeInv, TypeOK, SameWorkers
  <2>2. QED
    BY <2>1, Invisible
<1>15. QED
  BY <1>1, <1>2, <1>3, <1>4, <1>5, <1>6, <1>7, <1>8, <1>9, <1>10, <1>11, <1>11a, <1>12,
     <1>13, <1>14 DEF Next, Advance

\* The orchestrator implements the contract of a run: however deliveries overlap,
\* fail and crash, none starts on a settled run, and only those that started on
\* a run act for it or settle it.
THEOREM RefinesContract == Spec => ImplementsContract
<1>1. Init => Contract!Init
  <2> SUFFICES ASSUME Init PROVE Contract!Init
    OBVIOUS
  <2>1. Live = [k \in Runs |-> {}]
    BY DEF Init, Live
  <2>2. Effects = [k \in Runs |-> {}]
    BY DEF Init, Effects
  <2>3. QED
    BY <2>1, <2>2 DEF Init, Contract!Init
<1>2. TypeInv /\ [Next]_vars => [Contract!Next]_(Contract!vars)
  BY ContractStep DEF CStep
<1>3. QED
  BY <1>1, <1>2, TypeInvInit, TypeInvStep, PTL DEF Spec, ImplementsContract, Contract!Spec

\* The contract's own promise of a settled run, step by step.
LEMMA FinalStep ==
    ASSUME TypeInv, CStep PROVE [Contract!KeepsSettled]_(Contract!vars)
<1>1. SUFFICES ASSUME Contract!Next, NEW k \in Runs, run[k] \in Contract!Terminal
               PROVE  /\ run'[k] \in Contract!Terminal /\ Live'[k] \subseteq Live[k]
                      /\ Live[k] = {} => run'[k] = run[k] /\ Effects'[k] = Effects[k]
  BY DEF CStep, Contract!KeepsSettled
<1>2. /\ run \in [Runs -> Status]
      /\ Live = [l \in Runs |-> Live[l]] /\ Effects = [l \in Runs |-> Effects[l]]
  BY DEF TypeInv, TypeOK, Live, Effects
<1>3. ASSUME NEW l \in Runs, NEW W, Contract!Start(W, l)
      PROVE  l # k /\ run'[k] = run[k] /\ Live'[k] = Live[k] /\ Effects' = Effects
  BY <1>1, <1>2, <1>3 DEF Contract!Start
<1>4. ASSUME NEW l \in Runs, NEW w, NEW s \in {"completed", "failed"}, Contract!Settle(w, l, s)
      PROVE  /\ run'[k] \in Contract!Terminal /\ Live'[k] \subseteq Live[k]
             /\ Live[k] = {} => run'[k] = run[k] /\ Effects'[k] = Effects[k]
  BY <1>1, <1>2, <1>4 DEF Contract!Settle, Contract!Terminal
<1>5. ASSUME NEW l \in Runs, NEW t, Contract!Act(l, t)
      PROVE  /\ run' = run /\ Live' = Live
             /\ Live[k] = {} => Effects'[k] = Effects[k]
  BY <1>2, <1>5 DEF Contract!Act
<1>6. ASSUME NEW l \in Runs, Contract!Cancel(l)
      PROVE  /\ run'[k] \in Contract!Terminal /\ Live' = Live /\ Effects' = Effects
             /\ run'[k] = run[k]
  BY <1>1, <1>2, <1>6 DEF Contract!Cancel, Contract!Terminal
<1>7. ASSUME NEW W, Contract!Leave(W)
      PROVE  run' = run /\ Live'[k] \subseteq Live[k] /\ Effects' = Effects
  BY <1>7 DEF Contract!Leave
<1>8. QED
  BY <1>1, <1>3, <1>4, <1>5, <1>6, <1>7 DEF Contract!Next

\* A redelivered, swept or repeated event does nothing to a run that is settled and
\* left: neither its status nor its actions change again.
THEOREM SettledRunsStay == Spec => Contract!SettledIsFinal
<1>1. TypeInv /\ [Next]_vars => [Contract!KeepsSettled]_(Contract!vars)
  BY ContractStep, FinalStep
<1>2. QED
  BY <1>1, TypeInvInit, TypeInvStep, PTL DEF Spec, Contract!SettledIsFinal
=============================================================================
