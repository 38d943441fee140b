------------------------------ MODULE Steering ------------------------------
(***************************************************************************)
(* How people steer a run: route plans and the commands on them            *)
(* (route_plan.py), guidance (guidance.py) and the two derivers that turn  *)
(* an active route or a piece of guidance into a work item                 *)
(* (orchestrator_route_control.py, orchestrator_guidance.py).  The guided  *)
(* deriver reads the guidance in one transaction, decides, and acts in     *)
(* another; when the run's fence has moved it refuses in a third.  Every   *)
(* transaction also appends its activity row, which no guard reads.        *)
(***************************************************************************)
EXTENDS Naturals, FiniteSets, Sequences

CONSTANTS Plans,            \* route plans, of one route each
          GuidanceIds, Authors, Derivers,
          WorkKeys,         \* logical keys of work items
          MaxFence,         \* bound: how often the kernel moves the run
          MaxPlanCommands,  \* bound: commands that are given
          NoSteering

VARIABLES fence,        \* revision and contract version of the run
          plans,        \* rows of product_route_plans, with the plan's routes
          planLog,      \* rows of product_route_plan_commands, in order
          guidance,     \* rows of product_guidance and product_guidance_effects
          workItems,    \* rows of product_work_items
          derivers      \* guided derivations between their transactions

steeringVars == <<fence, plans, planLog, guidance, workItems, derivers>>

PlanStates == {"PROPOSED", "APPROVED", "ACTIVE", "PAUSED", "STOPPED"}
GuidanceKinds == {"CHANGE_REPRESENTATION", "PRIORITIZE_LEMMA", "STOP_ROUTE_REQUEST"}
GuidanceStates == {"QUEUED", "APPLIED", "REJECTED", "CANCELLED", "SUPERSEDED"}

\* A proposal keeps the revision it was made for as history in `proposed`.
PlanTransitions ==
    [APPROVE |-> [PROPOSED |-> "APPROVED"],
     START |-> [APPROVED |-> "ACTIVE", PAUSED |-> "ACTIVE"],
     PAUSE |-> [ACTIVE |-> "PAUSED"],
     STOP |-> [APPROVED |-> "STOPPED", ACTIVE |-> "STOPPED", PAUSED |-> "STOPPED"]]

PlanActions == DOMAIN PlanTransitions \cup {"SET_PRIORITY", "SET_BUDGET"}
Settings == {1, 2}

\* The part of a command that its request digest covers.
PlanCommand == [plan : Plans, action : PlanActions, value : Settings, revision : 0..MaxFence,
                contract : 1..(MaxFence + 1)]

PlanRow == [state : PlanStates, revision : 0..MaxFence, contract : 1..(MaxFence + 1),
            priority : Settings, budget : Settings, proposed : 0..MaxFence]

\* The item that guided work is stored under has a key of its own.
GuidedKey(g, k) == <<g, k>>
GuidedKeys == {GuidedKey(g, k) : g \in GuidanceIds, k \in WorkKeys}

GuidanceCodes == {"none", "REPLACED_BY_NEW_GUIDANCE", "CANCELLED_BY_SUBMITTER", "WORK_INPUT_CHANGED",
                  "FORMAL_B09B_STOP_REQUIRED", "NO_INPUT_CHANGE", "STALE_RESEARCH_FENCE"}
GuidanceRow == [plan : Plans, target : WorkKeys \cup {"ROUTE"}, kind : GuidanceKinds, author : Authors,
                old : GuidanceIds \cup {NoSteering}, revision : 0..MaxFence, contract : 1..(MaxFence + 1),
                state : GuidanceStates, code : GuidanceCodes,
                item : GuidedKeys \cup {NoSteering}]
DeriverRow == [pc : {"derive", "refuse"}, guidance : GuidanceIds, key : WorkKeys, code : GuidanceCodes]

\* A missing row is no row, and no guidance.
ASSUME SteeringInputs ==
    /\ MaxFence \in Nat /\ NoSteering \notin GuidanceIds
    /\ NoSteering \notin PlanRow /\ NoSteering \notin GuidanceRow /\ NoSteering \notin DeriverRow

AtFence(r, c) == fence.revision = r /\ fence.contract = c

-----------------------------------------------------------------------------
(* Route plans *)

\* Registering a plan again under its identity returns it or, with other content,
\* is refused.
RegisterProposal(p, r, c) ==
    /\ AtFence(r, c)
    /\ plans[p] = NoSteering
    /\ plans' = [plans EXCEPT ![p] = [state |-> "PROPOSED", revision |-> r, contract |-> c,
                                      priority |-> 1, budget |-> 1, proposed |-> r]]
    /\ UNCHANGED <<fence, planLog, guidance, workItems, derivers>>

\* _apply_action: the row after the command, if the command is allowed in its state.
CommandAllowed(row, action) ==
    IF action \in DOMAIN PlanTransitions
    THEN row.state \in DOMAIN PlanTransitions[action]
    ELSE row.state # "STOPPED"

Commanded(row, action, value) ==
    CASE action = "SET_PRIORITY" -> [row EXCEPT !.priority = value]
      [] action = "SET_BUDGET" -> [row EXCEPT !.budget = value]
      [] OTHER -> [row EXCEPT !.state = PlanTransitions[action][row.state]]

\* Mutant: the command log is not looked up, so a delayed duplicate of a request takes
\* effect again whenever its fence still holds.
ApplyPlanNoReplay(q, cmd) ==
    /\ q \in 1..(Len(planLog) + 1)
    /\ q <= Len(planLog) => cmd = planLog[q]
    /\ q \in 1..MaxPlanCommands
    /\ AtFence(cmd.revision, cmd.contract)
    /\ plans[cmd.plan] # NoSteering /\ plans[cmd.plan].contract = cmd.contract
    /\ plans[cmd.plan].state = "PROPOSED" => plans[cmd.plan].revision = cmd.revision
    /\ CommandAllowed(plans[cmd.plan], cmd.action)
    /\ plans' = [plans EXCEPT ![cmd.plan] =
                    [Commanded(@, cmd.action, cmd.value) EXCEPT !.revision = cmd.revision]]
    /\ planLog' = IF q <= Len(planLog) THEN planLog ELSE Append(planLog, cmd)
    /\ UNCHANGED <<fence, guidance, workItems, derivers>>

\* Request ids are given out in the order of the log.  A request whose id is in the log
\* is answered from it or, with other content, refused: neither changes anything.
ApplyPlan(q, cmd) ==
    /\ q = Len(planLog) + 1 /\ q <= MaxPlanCommands
    /\ AtFence(cmd.revision, cmd.contract)
    /\ plans[cmd.plan] # NoSteering /\ plans[cmd.plan].contract = cmd.contract
    /\ plans[cmd.plan].state = "PROPOSED" => plans[cmd.plan].revision = cmd.revision
    /\ CommandAllowed(plans[cmd.plan], cmd.action)
    /\ plans' = [plans EXCEPT ![cmd.plan] =
                    [Commanded(@, cmd.action, cmd.value) EXCEPT !.revision = cmd.revision]]
    /\ planLog' = Append(planLog, cmd)
    /\ UNCHANGED <<fence, guidance, workItems, derivers>>

\* Mutant: a paused route may still be worked on.
RouteNotStopped(p) == plans[p] # NoSteering /\ plans[p].state \in {"ACTIVE", "PAUSED"}

RouteActive(p) == plans[p] # NoSteering /\ plans[p].state = "ACTIVE"

-----------------------------------------------------------------------------
(* Guidance *)

Queued(g) == guidance[g] # NoSteering /\ guidance[g].state = "QUEUED"

\* _assert_target: the route is a route of the run, and a work item that is the target
\* is one of that route.
TargetBound(p, target) ==
    /\ plans[p] # NoSteering
    /\ target # "ROUTE" => target \in DOMAIN workItems /\ workItems[target].plan = p

Resolve(table, g, state, code) ==
    [table EXCEPT ![g] = [@ EXCEPT !.state = state, !.code = code]]

\* The guidance that is superseded is queued, by the same author, for the same target.
SubmitGuidance(g, p, target, kind, author, old) ==
    /\ guidance[g] = NoSteering
    /\ TargetBound(p, target)
    /\ old # NoSteering => /\ Queued(old) /\ guidance[old].author = author
                           /\ guidance[old].target = target
                           /\ target = "ROUTE" => guidance[old].plan = p
    /\ LET row == [plan |-> p, target |-> target, kind |-> kind, author |-> author,
                   old |-> old, revision |-> fence.revision, contract |-> fence.contract,
                   state |-> "QUEUED", code |-> "none", item |-> NoSteering]
           replaced == IF old = NoSteering THEN guidance
                       ELSE Resolve(guidance, old, "SUPERSEDED", "REPLACED_BY_NEW_GUIDANCE")
       IN guidance' = [replaced EXCEPT ![g] = row]
    /\ UNCHANGED <<fence, plans, planLog, workItems, derivers>>

CancelGuidance(g, actor) ==
    /\ Queued(g) /\ guidance[g].author = actor
    /\ guidance' = Resolve(guidance, g, "CANCELLED", "CANCELLED_BY_SUBMITTER")
    /\ UNCHANGED <<fence, plans, planLog, workItems, derivers>>

-----------------------------------------------------------------------------
(* Deriving work *)

\* An item created under a logical key keeps its declaration; the deriver of a route
\* asks only that the route is active, not that the fence is current.
DeriveForRoute(p, k) ==
    /\ RouteActive(p) /\ k \notin DOMAIN workItems
    /\ workItems' = [x \in DOMAIN workItems \cup {k} |->
                        IF x = k THEN [plan |-> p, guided |-> NoSteering, under |-> "ACTIVE"]
                        ELSE workItems[x]]
    /\ UNCHANGED <<fence, plans, planLog, guidance, derivers>>

DeriverAt(d, pc) == derivers[d] # NoSteering /\ derivers[d].pc = pc
DeriverDone(d) == derivers' = [derivers EXCEPT ![d] = NoSteering]

\* The caller names the run, route, fence and parent that the guidance is bound to.
RequestBinds(g) == Queued(g)

\* The first read, and what follows from it alone: a request to stop is refused, and so
\* is guidance whose artifact is among the inputs already.
ReadGuidance(d, g, k, present) ==
    /\ derivers[d] = NoSteering
    /\ RequestBinds(g)
    /\ derivers' = [derivers EXCEPT ![d] =
            [pc |-> IF guidance[g].kind = "STOP_ROUTE_REQUEST" \/ present THEN "refuse"
                    ELSE "derive",
             guidance |-> g, key |-> k,
             code |-> IF guidance[g].kind = "STOP_ROUTE_REQUEST"
                      THEN "FORMAL_B09B_STOP_REQUIRED" ELSE "NO_INPUT_CHANGE"]]
    /\ UNCHANGED <<fence, plans, planLog, guidance, workItems>>

\* reject raises when the guidance was resolved meanwhile.
RefuseGuidance(d) ==
    /\ DeriverAt(d, "refuse")
    /\ guidance' = IF Queued(derivers[d].guidance)
                   THEN Resolve(guidance, derivers[d].guidance, "REJECTED", derivers[d].code)
                   ELSE guidance
    /\ DeriverDone(d)
    /\ UNCHANGED <<fence, plans, planLog, workItems>>

StillBinds(d) ==
    LET g == guidance[derivers[d].guidance] IN
    g.state = "QUEUED" /\ AtFence(g.revision, g.contract)

\* The guidance is marked applied only if it was queued: with the guard above it is.
DeriveGuided(d) ==
    /\ DeriverAt(d, "derive")
    /\ LET g == derivers[d].guidance
           row == guidance[g]
           key == GuidedKey(g, derivers[d].key)
       IN /\ StillBinds(d) /\ RouteActive(row.plan)
          /\ workItems' = [x \in DOMAIN workItems \cup {key} |->
                              IF x = key THEN [plan |-> row.plan, guided |-> g,
                                               under |-> plans[row.plan].state]
                              ELSE workItems[x]]
          /\ guidance' = [guidance EXCEPT ![g] =
                  [@ EXCEPT !.state = "APPLIED", !.code = "WORK_INPUT_CHANGED", !.item = key]]
    /\ DeriverDone(d)
    /\ UNCHANGED <<fence, plans, planLog>>

\* Guidance that is no longer queued is left; a moved fence is answered by a rejection in
\* a transaction of its own; a route that is not active leaves the guidance queued.
DeriveRefused(d) ==
    /\ DeriverAt(d, "derive")
    /\ LET row == guidance[derivers[d].guidance] IN
       \/ /\ row.state # "QUEUED" \/ (AtFence(row.revision, row.contract)
                                       /\ ~RouteActive(row.plan))
          /\ DeriverDone(d)
       \/ /\ row.state = "QUEUED" /\ ~AtFence(row.revision, row.contract)
          /\ derivers' = [derivers EXCEPT ![d] =
                            [@ EXCEPT !.pc = "refuse", !.code = "STALE_RESEARCH_FENCE"]]
    /\ UNCHANGED <<fence, plans, planLog, guidance, workItems>>

\* The process of a deriver dies between its transactions.
DeriverCrash(d) ==
    /\ derivers[d] # NoSteering
    /\ DeriverDone(d)
    /\ UNCHANGED <<fence, plans, planLog, guidance, workItems>>

\* The kernel commits a command on the run, or an amendment of its contract.
KernelMoves ==
    /\ fence.revision < MaxFence
    /\ \E c \in {fence.contract, fence.contract + 1} :
          fence' = [revision |-> fence.revision + 1, contract |-> c]
    /\ UNCHANGED <<plans, planLog, guidance, workItems, derivers>>

-----------------------------------------------------------------------------
SteeringInit ==
    /\ fence = [revision |-> 0, contract |-> 1]
    /\ plans = [p \in Plans |-> NoSteering]
    /\ planLog = <<>>
    /\ guidance = [g \in GuidanceIds |-> NoSteering]
    /\ workItems = [x \in {} |-> NoSteering]
    /\ derivers = [d \in Derivers |-> NoSteering]

PlanNext ==
    \/ KernelMoves
    \/ \E p \in Plans : RegisterProposal(p, fence.revision, fence.contract)
    \/ \E q \in 1..MaxPlanCommands, p \in Plans, a \in PlanActions, v \in Settings :
          /\ a \in DOMAIN PlanTransitions => v = 1
          /\ ApplyPlan(q, [plan |-> p, action |-> a, value |-> v,
                           revision |-> fence.revision, contract |-> fence.contract])

GuidanceNext ==
    \/ KernelMoves
    \/ \E p \in Plans : RegisterProposal(p, fence.revision, fence.contract)
    \/ \E q \in 1..MaxPlanCommands, p \in Plans, a \in DOMAIN PlanTransitions :
          ApplyPlan(q, [plan |-> p, action |-> a, value |-> 1,
                        revision |-> fence.revision, contract |-> fence.contract])
    \/ \E g \in GuidanceIds, p \in Plans, t \in WorkKeys \cup {"ROUTE"}, k \in GuidanceKinds,
          w \in Authors, old \in GuidanceIds \cup {NoSteering} :
          SubmitGuidance(g, p, t, k, w, old)
    \/ \E g \in GuidanceIds, w \in Authors : CancelGuidance(g, w)
    \/ \E p \in Plans, k \in WorkKeys : DeriveForRoute(p, k)
    \/ \E d \in Derivers, g \in GuidanceIds, k \in WorkKeys, present \in BOOLEAN :
          ReadGuidance(d, g, k, present)
    \/ \E d \in Derivers : RefuseGuidance(d) \/ DeriveGuided(d) \/ DeriveRefused(d)
                           \/ DeriverCrash(d)

SteeringNext == PlanNext \/ GuidanceNext
SteeringSpec == SteeringInit /\ [][SteeringNext]_steeringVars

-----------------------------------------------------------------------------
\* The stores hold rows of their types.
SteeringTypeOK ==
    /\ fence \in [revision : 0..MaxFence, contract : 1..(MaxFence + 1)]
    /\ plans \in [Plans -> PlanRow \cup {NoSteering}]
    /\ planLog \in Seq(PlanCommand)
    /\ guidance \in [GuidanceIds -> GuidanceRow \cup {NoSteering}]
    /\ derivers \in [Derivers -> DeriverRow \cup {NoSteering}]

LastOf(p, action) ==
    LET at == {i \in DOMAIN planLog : planLog[i].plan = p /\ planLog[i].action = action}
    IN IF at = {} THEN 1 ELSE planLog[CHOOSE i \in at : \A j \in at : j <= i].value

\* What a person sees of a plan is the outcome of the commands in its log, each applied
\* once whatever duplicates arrive: the settings are those of the last command that set
\* them, and a plan left PROPOSED only by an approval at the very revision of the proposal.
PlansFollowTheirLog ==
    \A p \in Plans : plans[p] # NoSteering =>
        /\ plans[p].priority = LastOf(p, "SET_PRIORITY")
        /\ plans[p].budget = LastOf(p, "SET_BUDGET")
        /\ plans[p].state # "PROPOSED" =>
              \E i \in DOMAIN planLog :
                  /\ planLog[i].plan = p /\ planLog[i].action = "APPROVE"
                  /\ planLog[i].revision = plans[p].proposed

\* Guidance and the work that follows from it agree, whatever cancellations,
\* replacements, route stops and kernel commits fall between the deriver's read and its
\* transaction: guidance is APPLIED exactly when one work item carries it, that item was
\* derived while its route was active, and cancelled, superseded or rejected guidance
\* has none.
GuidanceHasOneEffect ==
    \A g \in GuidanceIds : guidance[g] # NoSteering =>
        LET carried == {x \in DOMAIN workItems : workItems[x].guided = g} IN
        /\ carried = IF guidance[g].state = "APPLIED" THEN {guidance[g].item} ELSE {}
        /\ \A x \in carried : workItems[x].plan = guidance[g].plan
                              /\ workItems[x].under = "ACTIVE"

\* What people ask of a run is done once and only as asked: plans are the outcome of
\* their logged commands, guidance of its one derivation (route_plan.py apply,
\* orchestrator_guidance.py derive).
SteeringHasOneEffect == SteeringTypeOK /\ PlansFollowTheirLog /\ GuidanceHasOneEffect
=============================================================================
