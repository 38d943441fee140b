----------------------------- MODULE Placement -----------------------------
(***************************************************************************)
(* Schedules of one run's work over the deployment's hardware: probes      *)
(* (deployment.py), placement, claims, serial promotion (placement.py) and *)
(* the budget back-pressure that pauses them (budgeting.py).  The kernel   *)
(* owns the budget; a decision is read from it in one step and applied to  *)
(* a plan in a later one.                                                  *)
(***************************************************************************)
EXTENDS Naturals, Sequences, FiniteSets

CONSTANTS SchedulePlans,
          WorkOf,        \* plan -> its work items, in stable order
          Acceptable,    \* work item -> targets that meet its requirement, by allowed kind
          Capability,    \* target -> the capability whose probe decides its availability
          CommandProbes, \* capabilities probed by a configured command
          Unconfigured,  \* capabilities without a configuration
          GroupOf, CapacityOf,  \* target -> concurrency group, and its capacity
          MaxBudget, NoProbe, NoPlacement

Targets == DOMAIN Capability
Capabilities == {Capability[t] : t \in Targets}
WorkItems == UNION {{WorkOf[p][k] : k \in DOMAIN WorkOf[p]} : p \in SchedulePlans}

\* work_item_id is a primary key: no item is listed twice.
ASSUME PlacementInputs ==
    /\ \A t \in Targets : CapacityOf[t] \in Nat /\ CapacityOf[t] > 0
    /\ \A p \in SchedulePlans : WorkOf[p] # <<>> /\ WorkOf[p] \in Seq(WorkItems)
    /\ \A p, q \in SchedulePlans : \A j \in DOMAIN WorkOf[p], k \in DOMAIN WorkOf[q] :
          WorkOf[p][j] = WorkOf[q][k] => p = q /\ j = k
    /\ \A w \in WorkItems : Acceptable[w] \in Seq(Targets)
    /\ MaxBudget \in Nat

VARIABLES report,      \* latest deployment probe
          planState, work, promotion,
          placed,      \* work item -> target
          budget,      \* the kernel's snapshot
          decision     \* the back-pressure decision read last for a plan

placementVars == <<report, planState, work, promotion, placed, budget, decision>>

ProbeStatuses == {"AVAILABLE", "DEGRADED", "UNAVAILABLE", "UNCONFIGURED"}

PlacementInit ==
    /\ report = NoProbe
    /\ planState = [p \in SchedulePlans |-> "NONE"]
    /\ work = [w \in WorkItems |-> "NONE"] /\ promotion = [w \in WorkItems |-> "NONE"]
    /\ placed = [w \in WorkItems |-> NoPlacement]
    /\ budget = [left |-> MaxBudget, fuse |-> FALSE, unknown |-> FALSE]
    /\ decision = [p \in SchedulePlans |-> "NONE"]

-----------------------------------------------------------------------------
(* Probes *)

\* A command answers or it does not; only the tool catalogue can be limited.
ProbeOutcomes(c) ==
    CASE c \in Unconfigured -> {"UNCONFIGURED"}
      [] c \in CommandProbes -> {"AVAILABLE", "UNAVAILABLE"}
      [] OTHER -> {"AVAILABLE", "DEGRADED", "UNAVAILABLE"}

Aggregate(r) ==
    LET configured == {r[c] : c \in Capabilities} \ {"UNCONFIGURED"}
    IN  CASE configured = {} -> "UNCONFIGURED"
          [] "UNAVAILABLE" \in configured -> "UNAVAILABLE"
          [] "DEGRADED" \in configured -> "DEGRADED"
          [] OTHER -> "AVAILABLE"

PersistProbe(r) == report' = [results |-> r, status |-> Aggregate(r)]

Probe(r) ==
    /\ \A c \in Capabilities : r[c] \in ProbeOutcomes(c)
    /\ PersistProbe(r)
    /\ UNCHANGED <<planState, work, promotion, placed, budget, decision>>

TargetAvailable(t) == report # NoProbe /\ report.results[Capability[t]] = "AVAILABLE"

-----------------------------------------------------------------------------
(* Plans *)

TargetChoices(w) == {k \in DOMAIN Acceptable[w] : TargetAvailable(Acceptable[w][k])}
Place(w) == Acceptable[w][CHOOSE k \in TargetChoices(w) : \A j \in TargetChoices(w) : k <= j]

ItemsOf(p) == {WorkOf[p][k] : k \in DOMAIN WorkOf[p]}

\* Every item finds a target, or nothing is recorded.
CreateSchedule(p) ==
    /\ planState[p] = "NONE" /\ \A w \in ItemsOf(p) : TargetChoices(w) # {}
    /\ planState' = [planState EXCEPT ![p] = "READY"]
    /\ work' = [w \in WorkItems |-> IF w \in ItemsOf(p) THEN "QUEUED" ELSE work[w]]
    /\ promotion' = [w \in WorkItems |-> IF w \in ItemsOf(p) THEN "WAITING" ELSE promotion[w]]
    /\ placed' = [w \in WorkItems |-> IF w \in ItemsOf(p) THEN Place(w) ELSE placed[w]]
    /\ UNCHANGED <<report, budget, decision>>

StartSchedule(p) ==
    /\ planState[p] = "READY" /\ planState' = [planState EXCEPT ![p] = "RUNNING"]
    /\ UNCHANGED <<report, work, promotion, placed, budget, decision>>

-----------------------------------------------------------------------------
(* Budget *)

BudgetEvents == {"RESERVATION", "ACTUAL", "REFUND", "UNKNOWN_COST", "FUSE_TRIP"}

\* Measured usage carries a host receipt, policy events do not.
SubmitBudget(kind, hostReceipt) ==
    /\ hostReceipt = (kind \in {"ACTUAL", "UNKNOWN_COST"})
    /\ \/ /\ kind \in {"RESERVATION", "ACTUAL"} /\ budget.left > 0
          /\ budget' = [budget EXCEPT !.left = @ - 1]
       \/ /\ kind = "REFUND" /\ budget.left < MaxBudget
          /\ budget' = [budget EXCEPT !.left = @ + 1]
       \/ kind = "UNKNOWN_COST" /\ budget' = [budget EXCEPT !.unknown = TRUE]
       \/ kind = "FUSE_TRIP" /\ budget' = [budget EXCEPT !.fuse = TRUE]
    /\ UNCHANGED <<report, planState, work, promotion, placed, decision>>

Evaluate(b, needsKnownCost) ==
    IF b.fuse \/ (needsKnownCost /\ b.unknown) \/ b.left = 0 THEN "DENIED" ELSE "ALLOWED"

ReadBackpressure(p, needsKnownCost) ==
    /\ planState[p] # "NONE"
    /\ decision' = [decision EXCEPT ![p] = Evaluate(budget, needsKnownCost)]
    /\ UNCHANGED <<report, planState, work, promotion, placed, budget>>

\* Mutant: the plan is paused and its queue is left as it is.
PausePlanOnly(p) ==
    /\ decision[p] # "NONE" /\ decision' = [decision EXCEPT ![p] = "NONE"]
    /\ \/ /\ decision[p] = "ALLOWED" /\ planState[p] = "BUDGET_PAUSED"
          /\ planState' = [planState EXCEPT ![p] = "RUNNING"]
       \/ /\ decision[p] = "DENIED" /\ planState[p] = "RUNNING"
          /\ planState' = [planState EXCEPT ![p] = "BUDGET_PAUSED"]
    /\ UNCHANGED <<report, work, promotion, placed, budget>>

\* Plan and queue change together; any other combination changes nothing.
ApplyBackpressure(p) ==
    /\ decision[p] # "NONE" /\ decision' = [decision EXCEPT ![p] = "NONE"]
    /\ \/ /\ decision[p] = "ALLOWED" /\ planState[p] = "BUDGET_PAUSED"
          /\ planState' = [planState EXCEPT ![p] = "RUNNING"]
          /\ work' = [w \in WorkItems |->
                        IF w \in ItemsOf(p) /\ work[w] = "BUDGET_PAUSED" THEN "QUEUED" ELSE work[w]]
       \/ /\ decision[p] = "DENIED" /\ planState[p] = "RUNNING"
          /\ planState' = [planState EXCEPT ![p] = "BUDGET_PAUSED"]
          /\ work' = [w \in WorkItems |->
                        IF w \in ItemsOf(p) /\ work[w] = "QUEUED" THEN "BUDGET_PAUSED" ELSE work[w]]
       \/ /\ <<decision[p], planState[p]>> \notin {<<"ALLOWED", "BUDGET_PAUSED">>, <<"DENIED", "RUNNING">>}
          /\ UNCHANGED <<planState, work>>
    /\ UNCHANGED <<report, promotion, placed, budget>>

-----------------------------------------------------------------------------
(* Work *)

GroupRunning(p, g) == {w \in ItemsOf(p) : work[w] = "RUNNING" /\ GroupOf[placed[w]] = g}

\* An item of the queue is taken while its group has room.
OfGroup(items, g) == {v \in items : GroupOf[placed[v]] = g}
TakeNext(p, before, w) ==
    LET g == GroupOf[placed[w]]
        busy == Cardinality(GroupRunning(p, g)) + Cardinality(OfGroup(before, g))
    IN  IF work[w] = "QUEUED" /\ busy < CapacityOf[placed[w]] THEN before \cup {w} ELSE before

\* The queue is gone through in stable order.
ClaimableUpTo(p) ==
    LET taken[k \in 0..Len(WorkOf[p])] ==
          IF k = 0 THEN {} ELSE TakeNext(p, taken[k - 1], WorkOf[p][k])
    IN  taken[Len(WorkOf[p])]

ClaimReady(p) ==
    /\ planState[p] = "RUNNING" /\ ClaimableUpTo(p) # {}
    /\ work' = [w \in WorkItems |-> IF w \in ClaimableUpTo(p) THEN "RUNNING" ELSE work[w]]
    /\ UNCHANGED <<report, planState, promotion, placed, budget, decision>>

\* The receipt names the target the item was placed on.
FinishWork(w, target, outcome) ==
    /\ work[w] = "RUNNING" /\ target = placed[w]
    /\ work' = [work EXCEPT ![w] = outcome]
    /\ promotion' = [promotion EXCEPT ![w] = IF outcome = "SUCCEEDED" THEN "WAITING" ELSE "NOT_ELIGIBLE"]
    /\ UNCHANGED <<report, planState, placed, budget, decision>>

-----------------------------------------------------------------------------
(* Promotion *)

Unpromoted(p) == {k \in DOMAIN WorkOf[p] : promotion[WorkOf[p][k]] \in {"WAITING", "CLAIMED"}}
FirstOf(S) == CHOOSE k \in S : \A j \in S : k <= j

\* Mutant: the first finished item is promoted, whatever is before it.
PromoteFinished(p) ==
    LET ready == {k \in Unpromoted(p) : work[WorkOf[p][k]] = "SUCCEEDED"
                                        /\ promotion[WorkOf[p][k]] = "WAITING"}
    IN  /\ ready # {}
        /\ promotion' = [promotion EXCEPT ![WorkOf[p][FirstOf(ready)]] = "CLAIMED"]
        /\ UNCHANGED <<report, planState, work, placed, budget, decision>>

\* Only the first item that is not promoted may be claimed, and only once.
ClaimNextPromotion(p) ==
    /\ Unpromoted(p) # {}
    /\ LET w == WorkOf[p][FirstOf(Unpromoted(p))]
       IN  /\ work[w] = "SUCCEEDED" /\ promotion[w] = "WAITING"
           /\ promotion' = [promotion EXCEPT ![w] = "CLAIMED"]
    /\ UNCHANGED <<report, planState, work, placed, budget, decision>>

MarkPromoted(w) ==
    /\ promotion[w] = "CLAIMED" /\ promotion' = [promotion EXCEPT ![w] = "PROMOTED"]
    /\ UNCHANGED <<report, planState, work, placed, budget, decision>>

PlacementNext ==
    \/ \E r \in [Capabilities -> ProbeStatuses] : Probe(r)
    \/ \E p \in SchedulePlans : \/ CreateSchedule(p) \/ StartSchedule(p) \/ ApplyBackpressure(p)
                                \/ ClaimReady(p) \/ ClaimNextPromotion(p)
                                \/ \E known \in BOOLEAN : ReadBackpressure(p, known)
    \/ \E kind \in BudgetEvents, h \in BOOLEAN :
         SubmitBudget(kind, h)
    \/ \E w \in WorkItems : \/ MarkPromoted(w)
                            \/ \E t \in Targets, o \in {"SUCCEEDED", "FAILED"} : FinishWork(w, t, o)

PlacementSpec == PlacementInit /\ [][PlacementNext]_placementVars

-----------------------------------------------------------------------------

PlacementTypeOK ==
    /\ report = NoProbe \/ /\ report.results \in [Capabilities -> ProbeStatuses]
                           /\ report.status \in ProbeStatuses
    /\ planState \in [SchedulePlans -> {"NONE", "READY", "RUNNING", "BUDGET_PAUSED"}]
    /\ work \in [WorkItems -> {"NONE", "QUEUED", "RUNNING", "BUDGET_PAUSED", "SUCCEEDED", "FAILED"}]
    /\ promotion \in [WorkItems -> {"NONE", "WAITING", "CLAIMED", "PROMOTED", "NOT_ELIGIBLE"}]
    /\ placed \in [WorkItems -> Targets \cup {NoPlacement}]
    /\ budget \in [left : 0..MaxBudget, fuse : BOOLEAN, unknown : BOOLEAN]
    /\ decision \in [SchedulePlans -> {"NONE", "ALLOWED", "DENIED"}]

\* Whatever order items finish in, results are promoted one at a time and in the plan's stable
\* order: everything before a claimed or promoted item is promoted or out (claim_next_promotion).
\* No group runs more of a plan's items than its largest target admits, and a pause and the queue it
\* pauses never come apart, so paused work is always found again by the decision that resumes it.
SchedulesKeepTheirOrder ==
    /\ PlacementTypeOK
    /\ \A p \in SchedulePlans :
         /\ \A k \in DOMAIN WorkOf[p] :
              promotion[WorkOf[p][k]] \in {"CLAIMED", "PROMOTED"}
                => /\ work[WorkOf[p][k]] = "SUCCEEDED"
                   /\ \A j \in 1..(k - 1) : promotion[WorkOf[p][j]] \in {"PROMOTED", "NOT_ELIGIBLE"}
         /\ \A t \in {placed[w] : w \in ItemsOf(p)} \ {NoPlacement} :
              \E u \in Targets : /\ GroupOf[u] = GroupOf[t]
                                  /\ Cardinality(GroupRunning(p, GroupOf[t])) <= CapacityOf[u]
         /\ planState[p] = "BUDGET_PAUSED" => \A w \in ItemsOf(p) : work[w] # "QUEUED"
         /\ planState[p] = "RUNNING" => \A w \in ItemsOf(p) : work[w] # "BUDGET_PAUSED"
=============================================================================
