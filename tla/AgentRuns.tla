------------------------------ MODULE AgentRuns ------------------------------
(***************************************************************************)
(* Agent runs: handle_event of app/services/agent_orchestrator.py with the *)
(* run manager, the action manager and the workflows under app/workflows,  *)
(* against the AutoCRM backend that stores runs and actions.  A delivery   *)
(* is one call of handle_event, by the events route, by the transcription  *)
(* service or by a scheduled sweep; all of them are coroutines of one      *)
(* event loop.  Every HTTP call is a step: it is answered, or refused, or  *)
(* applied with its answer lost; the last two raise in the caller.  Trace  *)
(* posts change nothing that is modelled: a step fails with its traces.    *)
(* An instance looks at one event type.  The clock counts the buckets of   *)
(* that type: days for daily_summary, else hours.                          *)
(***************************************************************************)
EXTENDS ActionPolicy, Naturals, Sequences, FiniteSets

CONSTANTS Deliveries,   \* calls of handle_event
          Entities,     \* the CRM records the events are about
          EventIds,     \* metadata event_id or recording_id values
          NoId,         \* an event that carries neither
          Contents,     \* what a deadline candidate shows of its task: its context_hash
          EntityOf,     \* the record of each delivery
          IdOf,         \* the event id of each delivery, or NoId
          Sweep,        \* the deliveries of a scheduled sweep, in list order
          ActorOf,      \* the actor_id of a record's events, or Nobody
          EventType,    \* the event type of the instance
          Cooldown,     \* settings.lead_nudge_task_cooldown_hours
          MemoryLimit,  \* items get_entity_memory keeps, of whatever kind
          MaxClock,     \* bound on the clock
          MaxFaults     \* bound on failed calls and crashes

EventTypes == {"stale_lead", "deal_risk", "daily_summary", "task_auto",
               "meeting_complete", "task_deadline_watch", "frontdesk_message"}
Swept == {Sweep[i] : i \in DOMAIN Sweep}

ASSUME AgentRunsAssumption ==
    /\ NoId \notin EventIds
    /\ Contents # {}
    /\ EntityOf \in [Deliveries -> Entities]
    /\ IdOf \in [Deliveries -> EventIds \union {NoId}]
    /\ Sweep \in Seq(Deliveries)
    /\ \A d \in Swept : IdOf[d] = NoId
    /\ ActorOf \in [Entities -> Recipients]
    /\ EventType \in EventTypes
    /\ Cooldown \in Nat /\ MemoryLimit \in Nat
    /\ MaxClock \in Nat /\ MaxFaults \in Nat

Buckets == EventIds \union 0..MaxClock
Runs == Entities \X Buckets
EntityIn(k) == k[1]

Terminal == {"completed", "failed", "cancelled"}
Status == {"absent", "running"} \union Terminal

Actions == [by : Deliveries, run : Runs, content : Contents, at : 0..MaxClock,
            type : ActionTypes, approval : {"pending", "auto_approved"}]

\* What a deadline candidate asks for: that its text be generated, or nothing,
\* since the text is cached (fresh_llm_output) or none is wanted (should_use_llm
\* is false).  Every other event asks for its workflow.
Advices == {"enrich", "cached", "skip"}

\* What an action factory returns: an action, or None.
NoAction == Choice("none", "unset", Nobody)
Choices == PlannedActions \union {NoAction}

\* The steps of a delivery; those of an execution come after create_run.
Executing == {"context", "plan", "record", "dispatch", "confirm",
              "complete", "fail"}
Steps == {"idle", "create_run", "done"} \union Executing

VARIABLES clock,
          run,        \* backend: the status of each run, by external_run_id
          actions,    \* backend: the accepted actions
          rejected,   \* backend: those of them that a user rejected
          alerted     \* backend: the tasks, with their content, whose alert is recorded

VARIABLES pc,         \* the step each delivery takes next
          key,        \* the run of the delivery, once it is interpreted
          memory,     \* the AI tasks of the record, as read for the context
          plan,       \* what the workflow chose
          content,    \* what the event shows of its task
          advice      \* what the event asks for

VARIABLES aborted,    \* the sweep's loop was left by an exception
          left,       \* history: deliveries an exception or a crash ended, or never began
          faults,     \* failed calls and crashes so far
          lost        \* history: the steps at which a delivery lost a call or its service

VARIABLES executors,  \* history: the deliveries that began to execute a run
          declined,   \* history: runs a workflow was done with, without an action
          cut,        \* history: deliveries to which the memory showed a part only
          overtaken   \* history: who acted between a delivery's read and its dispatch

backendVars == <<run, actions, rejected, alerted>>
localVars == <<key, memory, plan, content, advice>>
exitVars == <<aborted, left>>
faultVars == <<faults, lost>>
raceVars == <<cut, overtaken>>
historyVars == <<executors, declined, raceVars>>
vars == <<clock, backendVars, pc, localVars, exitVars, faultVars, historyVars>>

TypeOK ==
    /\ clock \in 0..MaxClock
    /\ run \in [Runs -> Status]
    /\ actions \subseteq Actions
    /\ rejected \subseteq Actions
    /\ alerted \subseteq Entities \X Contents
    /\ pc \in [Deliveries -> Steps]
    /\ key \in [Deliveries -> Runs]
    /\ memory \in [Deliveries -> SUBSET Actions]
    /\ plan \in [Deliveries -> Choices]
    /\ content \in [Deliveries -> Contents] /\ advice \in [Deliveries -> Advices]
    /\ aborted \in BOOLEAN /\ left \subseteq Deliveries
    /\ faults \in 0..MaxFaults
    /\ lost \in [Deliveries -> SUBSET Steps]
    /\ executors \in [Runs -> SUBSET Deliveries]
    /\ declined \subseteq Runs
    /\ cut \subseteq Deliveries
    /\ overtaken \in [Deliveries -> SUBSET Deliveries]

Init ==
    /\ clock = 0
    /\ run = [k \in Runs |-> "absent"]
    /\ actions = {} /\ rejected = {} /\ alerted = {}
    /\ pc = [d \in Deliveries |-> "idle"]
    /\ key = [d \in Deliveries |-> <<EntityOf[d], 0>>]
    /\ memory = [d \in Deliveries |-> {}]
    /\ plan = [d \in Deliveries |-> NoAction]
    /\ content = [d \in Deliveries |-> CHOOSE x \in Contents : TRUE]
    /\ advice = [d \in Deliveries |-> "enrich"]
    /\ aborted = FALSE /\ left = {}
    /\ faults = 0 /\ lost = [d \in Deliveries |-> {}]
    /\ executors = [k \in Runs |-> {}] /\ declined = {}
    /\ cut = {} /\ overtaken = [d \in Deliveries |-> {}]

-----------------------------------------------------------------------------
Goto(d, s) == pc' = [pc EXCEPT ![d] = s]

\* A call of d raises and d goes on at step s.
Fault(d, s) ==
    /\ faults < MaxFaults
    /\ faults' = faults + 1
    /\ lost' = [lost EXCEPT ![d] = @ \union {pc[d]}]
    /\ Goto(d, s)

\* An exception that leaves handle_event also leaves the sweep's loop.
Raise(d) ==
    /\ Fault(d, "done")
    /\ aborted' = (aborted \/ d \in Swept)
    /\ left' = left \union {d}

\* The turn of a candidate comes when the loop is done with those before it.
MayBegin(d) ==
    d \in Swept =>
        /\ ~aborted
        /\ \A i, j \in DOMAIN Sweep :
               i < j /\ Sweep[j] = d => pc[Sweep[i]] = "done"

\* _window_bucket
WindowBucket(d) == IF IdOf[d] = NoId THEN clock ELSE IdOf[d]

Begin(d) == pc[d] = "idle" /\ MayBegin(d)

IsDeadline == EventType = "task_deadline_watch"

\* What an event may ask for.  Its metadata may be older than an alert recorded
\* since it was read.
AdvicesOf(e, x) ==
    {a \in Advices : /\ a # "enrich" => IsDeadline
                     /\ a = "cached" => <<e, x>> \in alerted}

\* A sweep of deadline candidates takes those only whose text is to be generated.
Filtered(d) == d \in Swept /\ advice'[d] # "enrich"

\* _interpret_event up to the call of create_run, and the filter of a sweep.  A
\* disabled agent ends the delivery.
Interpret(d) ==
    /\ Begin(d)
    /\ \E x \in Contents : \E a \in AdvicesOf(EntityOf[d], x) :
           /\ content' = [content EXCEPT ![d] = x]
           /\ advice' = [advice EXCEPT ![d] = a]
    /\ key' = [key EXCEPT ![d] = <<EntityOf[d], WindowBucket(d)>>]
    /\ \/ ~Filtered(d) /\ Goto(d, "create_run")
       \/ Goto(d, "done")
    /\ UNCHANGED <<clock, backendVars, memory, plan, exitVars, faultVars, historyVars>>

\* The backend's POST /api/agent/runs: a known external id keeps its status.
Opened(k) == [run EXCEPT ![k] = IF @ = "absent" THEN "running" ELSE @]

\* Mutant of IsDuplicate: a cancelled run is executed again.
IsDuplicate_NotCancelled(status) == status \in {"completed", "failed"}

\* Mutant of IsDuplicate: a redelivery makes up for a failed run.
IsDuplicate_NotFailed(status) == status \in {"completed", "cancelled"}

IsDuplicate(status) == status \in Terminal

\* start_run: an event of a settled run is a duplicate.
CreateRun(d) ==
    /\ pc[d] = "create_run"
    /\ \/ /\ run' = Opened(key[d])
          /\ IF IsDuplicate(run[key[d]])
             THEN Goto(d, "done") /\ UNCHANGED executors
             ELSE /\ Goto(d, "context")
                  /\ executors' = [executors EXCEPT ![key[d]] = @ \union {d}]
          /\ UNCHANGED <<exitVars, faultVars>>
       \/ /\ run' \in {run, Opened(key[d])}
          /\ Raise(d)
          /\ UNCHANGED executors
    /\ UNCHANGED <<clock, actions, rejected, alerted, localVars, declined, raceVars>>

-----------------------------------------------------------------------------
(* The workflows                                                            *)

AiTasks(e) == {a \in actions : EntityIn(a.run) = e /\ a.type = "create_task"}

\* get_entity_memory keeps the first items of the list only, and what else was
\* done for the record takes places in it.
Remembered(e) == {m \in SUBSET AiTasks(e) : Cardinality(m) <= MemoryLimit}

\* The workflows that are graphs of a context and an action node.
IsGraph == EventType \notin {"task_deadline_watch", "frontdesk_message"}

\* _context_node, with what entity_memory shows of the record.  A task the user
\* rejected by then takes its place in the list, but does not count.
Context(d) ==
    /\ pc[d] = "context" /\ IsGraph
    /\ \/ /\ \E m \in Remembered(EntityOf[d]) :
                  /\ memory' = [memory EXCEPT ![d] = m \ rejected]
                  /\ cut' = IF m = AiTasks(EntityOf[d]) THEN cut ELSE cut \union {d}
          /\ Goto(d, "plan")
          /\ UNCHANGED faultVars
       \/ /\ Fault(d, "fail")
          /\ UNCHANGED <<memory, cut>>
    /\ UNCHANGED <<clock, backendVars, key, plan, content, advice, exitVars, executors,
                   declined, overtaken>>

\* Mutant of RecentTask: created_at > cutoff.
RecentTask_Strict(d) == Cooldown > 0 /\ \E a \in memory[d] : a.at + Cooldown > clock

\* _recent_ai_task_exists
RecentTask(d) == Cooldown > 0 /\ \E a \in memory[d] : a.at + Cooldown >= clock

\* What the action factory of each workflow may return.  The texts have
\* fallbacks; what is left is whether to act, and what a user sees of it.
Actor(d) == ActorOf[EntityOf[d]]
Planner(d) == Plans(EventType, Actor(d))

LeadChoices(d) == {IF RecentTask(d) THEN NoAction ELSE Choice("create_task", "yes", Nobody)}

\* plan.recipient_id or event.actor_id or ""
DealRecipient(p, d) == IF p.recipient = Nobody THEN Actor(d) ELSE p.recipient
DealChoices(d) == {Choice("create_alert", "no", DealRecipient(p, d)) : p \in Planner(d)}

\* The summary keeps the type of the plan, and neither its flag nor its recipient.
SummaryChoices(d) == {Choice(p.type, "unset", Nobody) : p \in Planner(d)}
AutoChoices == {Choice("create_task", "unset", Nobody)}
MeetingChoices == {NoAction, Choice("create_task", "yes", Nobody)}
DeadlineNote == Choice("create_note", "no", Nobody)

\* WorkflowRouter.resolve, as far as a workflow plans an action
PlanChoices(d) ==
    CASE EventType = "stale_lead" -> LeadChoices(d)
      [] EventType = "deal_risk" -> DealChoices(d)
      [] EventType = "daily_summary" -> SummaryChoices(d)
      [] EventType = "task_auto" -> AutoChoices
      [] EventType = "meeting_complete" -> MeetingChoices
      [] OTHER -> {}

\* The first half of _action_node.  A planner or LLM error that is not
\* answered by a fallback raises.
Plan(d) ==
    /\ pc[d] = "plan"
    /\ \/ \E c \in PlanChoices(d) :
              /\ plan' = [plan EXCEPT ![d] = c]
              /\ declined' = IF c = NoAction THEN declined \union {key[d]} ELSE declined
              /\ Goto(d, IF c = NoAction THEN "confirm" ELSE "dispatch")
              /\ UNCHANGED faultVars
       \/ /\ Fault(d, "fail")
          /\ UNCHANGED <<plan, declined>>
    /\ UNCHANGED <<clock, backendVars, key, memory, content, advice, exitVars, executors,
                   raceVars>>

\* A workflow with a run of its own that proposes nothing: the front desk, whose
\* tools are no actions of the run, and a deadline event that asks for no text.
ProposesNothing(d) == IsDeadline => advice[d] # "enrich"

\* FrontDeskWorkflow.run, a turn of the session, and TaskDeadlineWatchWorkflow.run
\* up to the alert
OwnRun(d) ==
    /\ pc[d] = "context" /\ ~IsGraph
    /\ \/ /\ ProposesNothing(d)
          /\ declined' = declined \union {key[d]}
          /\ Goto(d, "complete")
          /\ UNCHANGED faultVars
       \/ /\ ~ProposesNothing(d)
          /\ Goto(d, "record")
          /\ UNCHANGED <<faultVars, declined>>
       \/ /\ Fault(d, "fail")
          /\ UNCHANGED declined
    /\ UNCHANGED <<clock, backendVars, localVars, exitVars, executors, raceVars>>

\* The task of a delivery, with its content: what an alert and a note are for.
Task(d) == <<EntityOf[d], content[d]>>

\* Mutant of RecordAlert: an alert that fell back to the fixed text is not sent.
RecordAlert_Skipped(d) ==
    /\ pc[d] = "record"
    /\ alerted' \in {alerted, alerted \union {Task(d)}}
    /\ plan' = [plan EXCEPT ![d] = DeadlineNote]
    /\ Goto(d, "dispatch")
    /\ UNCHANGED <<clock, run, actions, rejected, key, memory, content, advice, exitVars,
                   faultVars, historyVars>>

\* record_task_deadline_alert, which caches the output, and its trace
RecordAlert(d) ==
    /\ pc[d] = "record"
    /\ \/ /\ alerted' = alerted \union {Task(d)}
          /\ plan' = [plan EXCEPT ![d] = DeadlineNote]
          /\ Goto(d, "dispatch")
          /\ UNCHANGED faultVars
       \/ /\ alerted' \in {alerted, alerted \union {Task(d)}}
          /\ Fault(d, "fail")
          /\ UNCHANGED plan
    /\ UNCHANGED <<clock, run, actions, rejected, key, memory, content, advice, exitVars,
                   historyVars>>

Valid(d) == ValidTool(plan[d].type, plan[d].recipient)

\* Mutant of SameKey: a key that is new in each delivery.
SameKey_PerDelivery(a, b) == a.by = b.by

\* The task of an action, with its content
TaskOf(a) == <<EntityIn(a.run), a.content>>

\* The idempotency key of an action: of its run and type; for a deadline note,
\* of its task and content.
SameKey(a, b) ==
    IF IsDeadline THEN TaskOf(a) = TaskOf(b)
                  ELSE a.run = b.run /\ a.type = b.type

NewAction(d) ==
    [by |-> d, run |-> key[d], content |-> content[d], at |-> clock, type |-> plan[d].type,
     approval |-> Approval(plan[d].type, plan[d].flag)]

\* The backend's POST /api/agent/actions: a known key creates nothing.
Accept(a) ==
    IF \E b \in actions : SameKey(a, b) THEN actions ELSE actions \union {a}

\* Who has read its context and not dispatched yet
Deciding == {c \in Deliveries : pc[c] \in {"plan", "dispatch"}}

\* create_action reaches the backend.
Post(d) ==
    /\ actions' = Accept(NewAction(d))
    /\ overtaken' = [c \in Deliveries |->
                       IF c \in Deciding /\ c # d THEN overtaken[c] \union {d} ELSE overtaken[c]]

NoPost == UNCHANGED <<actions, overtaken>>

\* Mutant of Dispatch: the action is sent before it is validated.
Dispatch_Unchecked(d) ==
    /\ pc[d] = "dispatch"
    /\ Post(d)
    /\ Goto(d, IF Valid(d) THEN "confirm" ELSE "fail")
    /\ UNCHANGED <<clock, run, rejected, alerted, localVars, exitVars, faultVars, executors,
                   declined, cut>>

\* Mutant of Dispatch: what the validation raises leaves handle_event.
Dispatch_Raises(d) ==
    /\ pc[d] = "dispatch"
    /\ IF Valid(d)
       THEN Post(d) /\ Goto(d, "confirm") /\ UNCHANGED aborted
       ELSE NoPost /\ Goto(d, "done") /\ aborted' = (aborted \/ d \in Swept)
    /\ UNCHANGED <<clock, run, rejected, alerted, localVars, left, faultVars, executors,
                   declined, cut>>

\* create_action, after its validation
Dispatch(d) ==
    /\ pc[d] = "dispatch"
    /\ \/ /\ ~Valid(d)
          /\ NoPost
          /\ Goto(d, "fail")
          /\ UNCHANGED faultVars
       \/ /\ Valid(d)
          /\ Post(d)
          /\ Goto(d, "confirm")
          /\ UNCHANGED faultVars
       \/ /\ NoPost \/ (Valid(d) /\ Post(d))
          /\ Fault(d, "fail")
    /\ UNCHANGED <<clock, run, rejected, alerted, localVars, exitVars, executors, declined, cut>>

\* The last trace of the workflow: when it raises, the workflow has failed.
Confirm(d) ==
    /\ pc[d] = "confirm"
    /\ \/ Goto(d, "complete") /\ UNCHANGED faultVars
       \/ Fault(d, "fail")
    /\ UNCHANGED <<clock, backendVars, localVars, exitVars, historyVars>>

-----------------------------------------------------------------------------
(* The end of a run                                                         *)

\* complete_run: the backend's PATCH of the status, unconditional.
Settle(d, status) ==
    /\ \/ /\ run' = [run EXCEPT ![key[d]] = status]
          /\ Goto(d, "done")
          /\ UNCHANGED <<exitVars, faultVars>>
       \/ /\ run' \in {run, [run EXCEPT ![key[d]] = status]}
          /\ Raise(d)
    /\ UNCHANGED <<clock, actions, rejected, alerted, localVars, historyVars>>

\* Mutant of CompleteRun: a run without an action is not completed.
CompleteRun_IfPlanned(d) ==
    /\ pc[d] = "complete"
    /\ IF plan[d] = NoAction
       THEN /\ Goto(d, "done")
            /\ UNCHANGED <<clock, backendVars, localVars, exitVars, faultVars, historyVars>>
       ELSE Settle(d, "completed")

CompleteRun(d) == pc[d] = "complete" /\ Settle(d, "completed")

\* Mutant of FailRun: a failed workflow is routed to complete_run.
FailRun_Completed(d) == pc[d] = "fail" /\ Settle(d, "completed")

\* Mutant of FailRun: the failure is logged and the run left open.
FailRun_Silent(d) ==
    /\ pc[d] = "fail"
    /\ Goto(d, "done")
    /\ UNCHANGED <<clock, backendVars, localVars, exitVars, faultVars, historyVars>>

FailRun(d) == pc[d] = "fail" /\ Settle(d, "failed")

\* A user cancels a run in the CRM; the deliveries that execute it go on.
Cancel(k) ==
    /\ run[k] = "running"
    /\ run' = [run EXCEPT ![k] = "cancelled"]
    /\ UNCHANGED <<clock, actions, rejected, alerted, pc, localVars, exitVars, faultVars, historyVars>>

\* A user rejects an action that waits for approval.
Reject(a) ==
    /\ a.approval = "pending" /\ a \notin rejected
    /\ rejected' = rejected \union {a}
    /\ UNCHANGED <<clock, run, actions, alerted, pc, localVars, exitVars, faultVars, historyVars>>

Tick ==
    /\ clock < MaxClock
    /\ clock' = clock + 1
    /\ UNCHANGED <<backendVars, pc, localVars, exitVars, faultVars, historyVars>>

SweepBegun == \E c \in Swept : pc[c] # "idle"

InFlight == {d \in Deliveries : pc[d] \notin {"idle", "done"}}

\* The candidates that a crash keeps a sweep from
Forgone == {d \in Swept : SweepBegun /\ pc[d] = "idle"}

\* The service dies and comes back: the calls in it and its sweep are lost.
Crash ==
    /\ InFlight # {} \/ SweepBegun
    /\ faults < MaxFaults /\ faults' = faults + 1
    /\ lost' = [d \in Deliveries |-> IF d \in InFlight THEN lost[d] \union {pc[d]} ELSE lost[d]]
    /\ pc' = [d \in Deliveries |-> IF d \in InFlight THEN "done" ELSE pc[d]]
    /\ aborted' = (aborted \/ SweepBegun)
    /\ left' = left \union InFlight \union Forgone
    /\ UNCHANGED <<clock, backendVars, localVars, historyVars>>

Advance(d) ==
    \/ CreateRun(d) \/ Context(d) \/ Plan(d) \/ OwnRun(d) \/ RecordAlert(d)
    \/ Dispatch(d) \/ Confirm(d) \/ CompleteRun(d) \/ FailRun(d)

Next ==
    \/ \E d \in Deliveries : Interpret(d) \/ Advance(d)
    \/ \E k \in Runs : Cancel(k)
    \/ \E a \in actions : Reject(a)
    \/ Tick
    \/ Crash

Spec == Init /\ [][Next]_vars

\* Every call returns or times out (autocrm_auth_timeout), and a sweep's loop
\* goes on to the next candidate by itself.  Nothing makes an event arrive.
FairSpec ==
    /\ Spec
    /\ \A d \in Deliveries : WF_vars(Advance(d))
    /\ \A d \in Swept :
           WF_vars(SweepBegun /\ Interpret(d))

-----------------------------------------------------------------------------
(* Safety                                                                   *)

Overlap(k, d) == executors[k] # {d}

\* Whatever is lost, retried or delivered twice, a run has one action: its external
\* id and its type are the key, and all workflows but the summary's propose one
\* type.  The planner of daily_summary chooses the type anew in each execution: its
\* run has one action of each type.  Deadline notes have another key (below).
OneActionPerRun ==
    ~IsDeadline =>
        \A a, b \in actions : a.run = b.run =>
            a = b \/ (EventType = "daily_summary" /\ a.by # b.by /\ a.type # b.type)

Apart(a, b) == a.at + Cooldown < b.at \/ b.at + Cooldown < a.at
SameLead(a, b) == a # b /\ EntityIn(a.run) = EntityIn(b.run)

\* A lead has two AI tasks within the cooldown, neither of them rejected, only when
\* one was accepted between the other's read of entity_memory and its dispatch, or
\* when the list one of them read was cut: there is no third cause, whatever
\* is redelivered, swept, delayed or lost.  (Both occur: app/config.py calls the
\* cooldown the "minimum hours before creating another AI follow-up task".)
CooldownRespected ==
    EventType = "stale_lead" /\ Cooldown > 0 =>
        \A a, b \in actions \ rejected : SameLead(a, b) =>
            \/ Apart(a, b)
            \/ a.by \in overtaken[b.by] \/ b.by \in overtaken[a.by]
            \/ a.by \in cut \/ b.by \in cut

Answers(a, d) ==
    IF IsDeadline THEN TaskOf(a) = Task(d) ELSE a.run = key[d]

\* A completed run did what it was for: its workflow decided that no action is
\* needed, or the action of one of the deliveries that executed it was accepted;
\* for a deadline run, the note about the very content its event showed.
CompletedIsAnswered ==
    \A k \in Runs : run[k] = "completed" =>
        k \in declined \/ \E d \in executors[k] : \E a \in actions : Answers(a, d)

\* A run is marked failed over an action that was accepted for it only when the
\* answer to that action or the trace behind it was lost, or when two deliveries
\* executed the run: the failure of a workflow by itself leaves nothing behind.
FailedRunHasNoAction ==
    \A a \in actions : run[a.run] = "failed" =>
        lost[a.by] \intersect {"dispatch", "confirm"} # {} \/ Overlap(a.run, a.by)

\* The deliveries of a run that have begun and have not returned from handle_event,
\* nor ever will in the case of those that are left
Open(k) == {d \in Deliveries : key[d] = k /\ pc[d] # "idle" /\ (d \in InFlight \/ d \in left)}

\* A run stays open only for a delivery that is at work for it, or that a crash or
\* an exception of start_run, complete_run or fail_run ended: what fails in a
\* workflow settles its run.
OrphanNeedsFault == \A k \in Runs : run[k] = "running" => Open(k) # {}

\* A run is executed again only while each delivery that has executed it is still
\* at work or was ended by an exception or a crash: once one has returned, its
\* event is a duplicate for ever, and the work, which for a front desk turn
\* has no key of its own, is not done twice.
RunsAgainOnlyIfOpen ==
    [][\A k \in Runs : executors'[k] # executors[k] => executors[k] \subseteq Open(k)]_vars

\* The notes of deadline runs match their alerts.  A note is dispatched after the
\* alert that caches its text; an alert has one note, however many runs look at
\* the same content of its task; and it goes without one only while the note
\* is being dispatched, or when a delivery lost the call that recorded the alert or
\* the note itself.  Then no later sweep makes up for it: the text is cached.
NotesMatchAlerts ==
    IsDeadline =>
        /\ \A a \in actions : TaskOf(a) \in alerted
        /\ \A a, b \in actions : TaskOf(a) = TaskOf(b) => a = b
        /\ \A t \in alerted :
               \/ \E a \in actions : TaskOf(a) = t
               \/ \E d \in Deliveries :
                      Task(d) = t /\ (pc[d] = "dispatch" \/ lost[d] \intersect {"record", "dispatch"} # {})

-----------------------------------------------------------------------------
(* Refinement                                                               *)

Effects == [k \in Runs |-> {a.type : a \in {b \in actions : b.run = k}}]
Live == [k \in Runs |-> {d \in Deliveries : pc[d] \in Executing /\ key[d] = k}]

Contract == INSTANCE RunContract WITH
    Workers <- Deliveries, status <- run, effects <- Effects, live <- Live

\* The deliveries of a run, however they interleave, fail or crash, keep to the
\* contract of a run: none starts on a settled run, and only those that started
\* before act for it or settle it.
ImplementsContract == Contract!Spec

-----------------------------------------------------------------------------
(* Liveness                                                                 *)

\* A run that is opened is settled, by its delivery or by a user, unless a crash or
\* an exception of its own start or end takes a delivery of the run out of it.
RunSettles ==
    \A k \in Runs :
        run[k] = "running" ~>
            (run[k] \in Terminal \/ \E d \in left : key[d] = k /\ pc[d] = "done")

\* A sweep reaches every candidate, those after a run that failed included, unless
\* an exception of start_run, complete_run or fail_run leaves its loop, or a crash.
SweepReachesAll ==
    \A d \in Swept : SweepBegun ~> (pc[d] = "done" \/ left \intersect Swept # {})
=============================================================================
