---------------------------- MODULE ActionPolicy ----------------------------
(***************************************************************************)
(* What may become of an action a model plans: planner_service.py,         *)
(* action_policy.py and the approval rule of action_manager.py.  Only what *)
(* decides about a plan is kept: its type, the approval flag and the       *)
(* recipient.  The texts, and selected_tool, which only the unreachable    *)
(* AgentLoop reads, are left out.                                          *)
(***************************************************************************)

CONSTANTS Users,        \* ids a plan may name as recipient
          Nobody        \* no recipient_id, or no actor_id

ActionTypes == {"create_task", "create_note", "create_alert"}

ASSUME ActionPolicyAssumption == Nobody \notin Users

Recipients == Users \union {Nobody}

\* requires_approval is None, True or False.
Flags == {"unset", "yes", "no"}

Choice(type, flag, recipient) == [type |-> type, flag |-> flag, recipient |-> recipient]

\* PlannedAction: a reply with another type does not validate.
PlannedActions == [type : ActionTypes, flag : Flags, recipient : Recipients]

\* _fallback_plan, for a reply that does not parse or validate
FallbackPlan(event, actor) ==
    CASE event = "daily_summary" -> Choice("create_note", "unset", Nobody)
      [] event = "deal_risk" -> Choice("create_alert", "no", actor)
      [] OTHER -> Choice("create_task", "yes", Nobody)

HighRisk == {"create_task"}

AllowedType(type) == IF type \in ActionTypes THEN type ELSE "create_task"

PolicyFlag(type, flag) ==
    CASE type \in HighRisk -> "yes"
      [] type \notin HighRisk /\ flag = "unset" -> "no"
      [] OTHER -> flag

PolicyRecipient(recipient, actor) == IF recipient = Nobody THEN Nobody ELSE actor

\* validate_planned_action
Validated(p, actor) ==
    LET type == AllowedType(p.type)
    IN Choice(type, PolicyFlag(type, p.flag), PolicyRecipient(p.recipient, actor))

\* An alert without a recipient is for the actor.
Addressed(p, actor) ==
    IF p.type = "create_alert" /\ p.recipient = Nobody
    THEN [p EXCEPT !.recipient = actor] ELSE p

\* _normalize_plan
NormalizePlan(p, actor) == Validated(Addressed(p, actor), actor)

\* plan_action: whatever the model replied
Plans(event, actor) ==
    {NormalizePlan(p, actor) : p \in PlannedActions \union {FallbackPlan(event, actor)}}

\* _requires_approval: the rule of the action manager, whatever the flag says
RequiresApproval(type, flag) ==
    flag = "yes" \/ type \in {"create_task", "send_email", "update_deal_stage",
                              "update_lead_status"}

Approval(type, flag) == IF RequiresApproval(type, flag) THEN "pending" ELSE "auto_approved"

\* validate_action_tool: titles and contents have fallbacks, recipients have none.
ValidTool(type, recipient) ==
    /\ type \in ActionTypes
    /\ type = "create_alert" => recipient # Nobody
=============================================================================
