------------------------------ MODULE Ablation ------------------------------
(***************************************************************************)
(* The five-arm ablation ledger (ablation.py) and the executor that        *)
(* freezes a plan (production_executors.py, production_research_ports.py). *)
(* Freezing is one transaction; the other operations run statement by      *)
(* statement on an autocommitting connection, so that every statement is a *)
(* step and a caller may die, or another may act, between two of them.     *)
(***************************************************************************)
EXTENDS Naturals, FiniteSets

CONSTANTS AblationPlans, Configs,   \* plan ids and digests of complete configurations
          Arms,                     \* the arms of a plan
          FarArms,                  \* those that take bridge opportunities
          ArmProblems,              \* problems of the frozen pool, the denominator of an arm
          AblationCallers, NoPlan

ASSUME ArmsAreFar == FarArms \subseteq Arms /\ ArmProblems # {} /\ IsFiniteSet(ArmProblems)
ASSUME NoPlanIsNoState ==
    /\ NoPlan \notin {"PENDING", "RUNNING", "COMPLETED", "SUCCEEDED", "FAILED", "REJECTED_BRIDGE"}
    /\ NoPlan \notin [digest : Configs, state : {"FROZEN", "RUNNING", "COMPLETED"}]

VARIABLES plan,         \* plan id -> frozen digest and state
          arm,          \* <<plan, arm>> -> state of the group row
          assignment,   \* <<plan, arm, problem>> -> state of the assignment row
          result,       \* <<plan, arm, problem>> -> result row
          ablator       \* what a caller is in the middle of

ablationVars == <<plan, arm, assignment, result, ablator>>

ArmKeys == AblationPlans \X Arms
Assigned == AblationPlans \X Arms \X ArmProblems
Outcomes == {"VERIFIED", "REJECTED", "INCONCLUSIVE", "EXECUTION_FAILED"}
ResultRow == [outcome : Outcomes, digest : Configs]
ASSUME NoPlanIsNoResult == NoPlan \notin ResultRow

AtRest == [at |-> "idle", plan |-> NoPlan, key |-> NoPlan, value |-> NoPlan]

AblationInit ==
    /\ plan = [p \in AblationPlans |-> NoPlan]
    /\ arm = [k \in ArmKeys |-> NoPlan]
    /\ assignment = [a \in Assigned |-> NoPlan]
    /\ result = [a \in Assigned |-> NoPlan]
    /\ ablator = [w \in AblationCallers |-> AtRest]

Step(w, at) == ablator' = [ablator EXCEPT ![w].at = at]
Rests(w) == ablator' = [ablator EXCEPT ![w] = AtRest]

\* The caller's process ends between two statements.
AblatorDies(w) == ablator[w] # AtRest /\ Rests(w) /\ UNCHANGED <<plan, arm, assignment, result>>

-----------------------------------------------------------------------------
(* Freezing *)

\* The executor looks for the plan; the same configuration is a replay,
\* another one is refused.
LookForPlan(w, p, c) ==
    /\ ablator[w] = AtRest /\ plan[p] = NoPlan
    /\ ablator' = [ablator EXCEPT ![w] = [at |-> "freeze", plan |-> p, key |-> NoPlan, value |-> c]]
    /\ UNCHANGED <<plan, arm, assignment, result>>

\* One plan for a run and digest; a second writer of the plan fails.
FreezePlan(w) ==
    /\ ablator[w].at = "freeze"
    /\ LET p == ablator[w].plan
           c == ablator[w].value
       IN IF plan[p] # NoPlan \/ \E q \in AblationPlans : plan[q] # NoPlan /\ plan[q].digest = c
          THEN UNCHANGED <<plan, arm, assignment>>
          ELSE /\ plan' = [plan EXCEPT ![p] = [digest |-> c, state |-> "FROZEN"]]
               /\ arm' = [k \in ArmKeys |-> IF k[1] = p THEN "PENDING" ELSE arm[k]]
               /\ assignment' = [a \in Assigned |-> IF a[1] = p THEN "PENDING" ELSE assignment[a]]
    /\ Rests(w) /\ UNCHANGED result

-----------------------------------------------------------------------------
(* Running an arm *)

\* One statement: the opportunity is set, or the problem leaves the arm with
\* the reason its bridge was rejected for.
RejectBridge(a) ==
    /\ a[2] \in FarArms /\ assignment[a] = "PENDING"
    /\ assignment' = [assignment EXCEPT ![a] = "REJECTED_BRIDGE"]
    /\ UNCHANGED <<plan, arm, result, ablator>>

StartArm(w, k, digest) ==
    /\ ablator[w] = AtRest /\ plan[k[1]] # NoPlan /\ plan[k[1]].digest = digest
    /\ arm[k] = "PENDING" /\ arm' = [arm EXCEPT ![k] = "RUNNING"]
    /\ ablator' = [ablator EXCEPT ![w] = [at |-> "startPlan", plan |-> k[1], key |-> k, value |-> NoPlan]]
    /\ UNCHANGED <<plan, assignment, result>>

StartPlan(w) ==
    /\ ablator[w].at = "startPlan"
    /\ plan' = [plan EXCEPT ![ablator[w].plan].state = IF @ = "FROZEN" THEN "RUNNING" ELSE @]
    /\ Step(w, "startAssignments") /\ UNCHANGED <<arm, assignment, result>>

StartAssignments(w) ==
    /\ ablator[w].at = "startAssignments"
    /\ assignment' = [a \in Assigned |->
         IF <<a[1], a[2]>> = ablator[w].key /\ assignment[a] = "PENDING" THEN "RUNNING" ELSE assignment[a]]
    /\ Rests(w) /\ UNCHANGED <<plan, arm, result>>

\* Only a running assignment takes a result, and only one under the frozen
\* digest and verifier profile.
CheckResult(w, a, outcome, digest) ==
    /\ ablator[w] = AtRest /\ assignment[a] = "RUNNING" /\ plan[a[1]].digest = digest
    /\ ablator' = [ablator EXCEPT ![w] =
         [at |-> "insert", plan |-> a[1], key |-> a, value |-> [outcome |-> outcome, digest |-> digest]]]
    /\ UNCHANGED <<plan, arm, assignment, result>>

\* The result row has the assignment as its key: the second writer fails.
\* Mutant: a later result replaces the row.
ReplaceResult(w) ==
    /\ ablator[w].at = "insert"
    /\ result' = [result EXCEPT ![ablator[w].key] = ablator[w].value]
    /\ Step(w, "close") /\ UNCHANGED <<plan, arm, assignment>>

InsertResult(w) ==
    /\ ablator[w].at = "insert"
    /\ IF result[ablator[w].key] # NoPlan THEN Rests(w) /\ UNCHANGED result
       ELSE /\ result' = [result EXCEPT ![ablator[w].key] = ablator[w].value]
            /\ Step(w, "close")
    /\ UNCHANGED <<plan, arm, assignment>>

CloseAssignment(w) ==
    /\ ablator[w].at = "close"
    /\ assignment' = [assignment EXCEPT ![ablator[w].key] =
         IF ablator[w].value.outcome = "VERIFIED" THEN "SUCCEEDED" ELSE "FAILED"]
    /\ Rests(w) /\ UNCHANGED <<plan, arm, result>>

-----------------------------------------------------------------------------
(* Completing *)

OpenIn(k) == {a \in Assigned : <<a[1], a[2]>> = k /\ assignment[a] \in {"PENDING", "RUNNING"}}

\* The count and the update are two statements.  A caller names an arm of a
\* frozen plan: for an unknown plan the count is of no rows at all, and the
\* update would find the arm if it had been started in between.
\* Mutant: assignments that were never started are not counted as open.
CountRunningOnly(w, k) ==
    /\ ablator[w] = AtRest /\ plan[k[1]] # NoPlan
    /\ \A a \in Assigned : <<a[1], a[2]>> = k => assignment[a] # "RUNNING"
    /\ ablator' = [ablator EXCEPT ![w] = [at |-> "completeArm", plan |-> k[1], key |-> k, value |-> NoPlan]]
    /\ UNCHANGED <<plan, arm, assignment, result>>

CountOpen(w, k) ==
    /\ ablator[w] = AtRest /\ plan[k[1]] # NoPlan /\ OpenIn(k) = {}
    /\ ablator' = [ablator EXCEPT ![w] = [at |-> "completeArm", plan |-> k[1], key |-> k, value |-> NoPlan]]
    /\ UNCHANGED <<plan, arm, assignment, result>>

CompleteArm(w) ==
    /\ ablator[w].at = "completeArm"
    /\ IF arm[ablator[w].key] # "RUNNING" THEN Rests(w) /\ UNCHANGED arm
       ELSE arm' = [arm EXCEPT ![ablator[w].key] = "COMPLETED"] /\ Step(w, "completePlan")
    /\ UNCHANGED <<plan, assignment, result>>

\* The count of the other arms and the update it decides are two statements,
\* but an arm that is completed stays so.
CompletePlan(w) ==
    /\ ablator[w].at = "completePlan"
    /\ plan' = [plan EXCEPT ![ablator[w].plan].state =
         IF \A g \in Arms : arm[<<ablator[w].plan, g>>] = "COMPLETED" THEN "COMPLETED" ELSE @]
    /\ Rests(w) /\ UNCHANGED <<arm, assignment, result>>

AblationNext ==
    \/ \E w \in AblationCallers :
         \/ AblatorDies(w) \/ FreezePlan(w) \/ StartPlan(w) \/ StartAssignments(w)
         \/ InsertResult(w) \/ CloseAssignment(w) \/ CompleteArm(w) \/ CompletePlan(w)
         \/ \E p \in AblationPlans, c \in Configs : LookForPlan(w, p, c)
         \/ \E k \in ArmKeys : CountOpen(w, k) \/ \E c \in Configs : StartArm(w, k, c)
         \/ \E a \in Assigned, o \in {"VERIFIED", "REJECTED"}, c \in Configs : CheckResult(w, a, o, c)
    \/ \E a \in Assigned : RejectBridge(a)

AblationSpec == AblationInit /\ [][AblationNext]_ablationVars

-----------------------------------------------------------------------------
(* The report and the property *)

\* What the report of an arm counts: rows, verified results, rejected bridges.
ReportOf(k) ==
    LET rows == {a \in Assigned : <<a[1], a[2]>> = k}
        with(o) == Cardinality({a \in rows : result[a] # NoPlan /\ result[a].outcome = o})
    IN  [denominator |-> Cardinality(rows), verified |-> with("VERIFIED"), rejected |-> with("REJECTED"),
         inconclusive |-> with("INCONCLUSIVE"), failed |-> with("EXECUTION_FAILED"),
         bridges |-> Cardinality({a \in rows : assignment[a] = "REJECTED_BRIDGE"})]

AblationTypeOK ==
    /\ \A p \in AblationPlans : plan[p] = NoPlan
         \/ plan[p] \in [digest : Configs, state : {"FROZEN", "RUNNING", "COMPLETED"}]
    /\ arm \in [ArmKeys -> {NoPlan, "PENDING", "RUNNING", "COMPLETED"}]
    /\ assignment \in [Assigned -> {NoPlan, "PENDING", "RUNNING", "SUCCEEDED", "FAILED", "REJECTED_BRIDGE"}]
    /\ \A a \in Assigned : result[a] = NoPlan \/ result[a] \in ResultRow

\* A completed arm leaves no problem out: every one of its denominator has a
\* result under the plan's frozen digest, or lost its bridge and has none, and
\* the counts of the report add up to the denominator.  A problem counts as
\* succeeded exactly when its result is VERIFIED, whoever recorded it, and no
\* plan is complete before its arms are.
\* (ablation.py record_result, complete_group, report)
CompletedArmsCountEveryProblem ==
    /\ AblationTypeOK
    /\ \A k \in ArmKeys : arm[k] = "COMPLETED" =>
         LET r == ReportOf(k) IN
         r.verified + r.rejected + r.inconclusive + r.failed + r.bridges = r.denominator
    /\ \A a \in Assigned :
         /\ assignment[a] = "SUCCEEDED" => result[a] # NoPlan /\ result[a].outcome = "VERIFIED"
         /\ assignment[a] = "FAILED" => result[a] # NoPlan /\ result[a].outcome # "VERIFIED"
         /\ result[a] # NoPlan => result[a].digest = plan[a[1]].digest /\ assignment[a] # "PENDING"
    /\ \A p \in AblationPlans : plan[p] # NoPlan /\ plan[p].state = "COMPLETED"
         => \A g \in Arms : arm[<<p, g>>] = "COMPLETED"
=============================================================================
