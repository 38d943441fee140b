-------------------------- MODULE OperationsProofs --------------------------
(***************************************************************************)
(* Proofs about the parts of a running deployment: route plans and their   *)
(* guidance, the activity trail and public logs, backups, migrations and   *)
(* the service, placement of work, the lineage of imported cases, and the  *)
(* graph index with its paged reads.                                       *)
(***************************************************************************)
EXTENDS Steering, ActivityTrail, Maintenance, Placement, CaseLineage, GraphIndex, Integers,
        SequenceTheorems, FiniteSetTheorems, WellFoundedInduction, TLAPS

-----------------------------------------------------------------------------
(* Natural numbers *)

\* A set of naturals that is not empty has a least member.
LEMMA LeastNatural ==
    ASSUME NEW T, T \subseteq Nat, T # {}
    PROVE  \E x \in T : \A y \in T : x <= y
<1> DEFINE R == {ss \in Nat \X Nat : ss[1] < ss[2]}
<1>1. R = OpToRel(<, Nat)
  BY DEF OpToRel
<1>2. IsWellFoundedOn(R, Nat)
  BY <1>1, NatLessThanWellFounded
<1>3. \E x \in T : \A y \in T : ~(<<y, x>> \in R)
  <2> HIDE DEF R
  <2> QED BY <1>2, WFMin
<1>4. \A x, y \in T : (~(<<y, x>> \in R)) => x <= y
  OBVIOUS
<1> HIDE DEF R
<1> QED BY <1>3, <1>4

\* A bounded set of naturals that is not empty has a greatest member.
LEMMA GreatestNatural ==
    ASSUME NEW n \in Nat, NEW S, S \subseteq 0 .. n, S # {}
    PROVE  \E x \in S : \A y \in S : y <= x
<1> DEFINE T == {m \in 0 .. n : n - m \in S}
<1>1. T \subseteq Nat /\ T # {}
  <2>1. PICK x \in S : TRUE
    OBVIOUS
  <2>2. x \in 0 .. n /\ n - x \in 0 .. n /\ n - (n - x) = x
    OBVIOUS
  <2>3. PICK m \in 0 .. n : m = n - x /\ n - m = x
    BY <2>2
  <2>4. m \in T
    BY <2>1, <2>3
  <2>5. \A j \in T : j \in Nat
    OBVIOUS
  <2> HIDE DEF T
  <2> QED BY <2>4, <2>5
<1>2. PICK m \in T : \A y \in T : m <= y
  <2> HIDE DEF T
  <2> QED BY <1>1, LeastNatural
<1>3. n - m \in S /\ m \in 0 .. n
  OBVIOUS
<1>4. ASSUME NEW y \in S PROVE y <= n - m
  <2>1. y \in 0 .. n /\ n - y \in 0 .. n /\ n - (n - y) = y
    OBVIOUS
  <2>2. m <= n - y
    BY <1>2, <2>1
  <2> QED BY <1>3, <2>1, <2>2
<1> QED BY <1>3, <1>4

\* A set that holds 0 and is closed under successor below n holds 0 .. n.
LEMMA InductionUpTo ==
    ASSUME NEW n \in Nat, NEW S, 0 \in S, \A k \in 0 .. n - 1 : k \in S => k + 1 \in S
    PROVE  \A k \in 0 .. n : k \in S
<1> SUFFICES ASSUME NEW k \in 0 .. n, k \notin S PROVE FALSE
  OBVIOUS
<1> DEFINE T == {j \in 0 .. n : j \notin S}
<1>1. T \subseteq Nat /\ T # {}
  OBVIOUS
<1>2. PICK x \in T : \A y \in T : x <= y
  <2> HIDE DEF T
  <2> QED BY <1>1, LeastNatural
<1>3. x \in 0 .. n /\ x \notin S /\ x # 0
  OBVIOUS
<1>4. PICK y \in 0 .. n - 1 : x = y + 1
  <2>1. x - 1 \in 0 .. n - 1 /\ x = (x - 1) + 1
    BY <1>3
  <2> QED BY <2>1
<1>5. y \notin T
  BY <1>2, <1>4
<1> QED BY <1>3, <1>4, <1>5

-----------------------------------------------------------------------------
(* Route plans *)

\* A plan is what its log says, and a proposal keeps its revision.
PlanFits(p) ==
    /\ plans[p] = NoSteering => \A i \in 1 .. Len(planLog) : planLog[i].plan # p
    /\ plans[p] # NoSteering =>
          /\ plans[p].priority = LastOf(p, "SET_PRIORITY") /\ plans[p].budget = LastOf(p, "SET_BUDGET")
          /\ plans[p].state = "PROPOSED" => plans[p].revision = plans[p].proposed
          /\ plans[p].state # "PROPOSED" =>
                \E i \in 1 .. Len(planLog) : /\ planLog[i].plan = p /\ planLog[i].action = "APPROVE"
                                             /\ planLog[i].revision = plans[p].proposed

\* The log after one more command.
LEMMA LogGrows ==
    ASSUME NEW log \in Seq(PlanCommand), NEW cmd \in PlanCommand
    PROVE  /\ Append(log, cmd) \in Seq(PlanCommand) /\ Len(log) \in Nat /\ DOMAIN log = 1 .. Len(log)
           /\ Len(Append(log, cmd)) = Len(log) + 1 /\ DOMAIN Append(log, cmd) = 1 .. Len(log) + 1
           /\ Append(log, cmd)[Len(log) + 1] = cmd
           /\ \A i \in 1 .. Len(log) : Append(log, cmd)[i] = log[i]
OBVIOUS

\* The last command that sets something, before and after a command is logged.
LEMMA LastOfGrows ==
    ASSUME planLog \in Seq(PlanCommand), NEW cmd \in PlanCommand, planLog' = Append(planLog, cmd),
           NEW p, NEW a
    PROVE  LastOf(p, a)' = IF cmd.plan = p /\ cmd.action = a THEN cmd.value ELSE LastOf(p, a)
<1> DEFINE At(log) == {i \in DOMAIN log : log[i].plan = p /\ log[i].action = a}
           Last(S) == CHOOSE i \in S : \A j \in S : j <= i
<1>1. PICK n \in Nat : n = Len(planLog)
  BY LogGrows
<1>2. PICK new \in Seq(PlanCommand) : new = planLog'
  BY LogGrows
<1>3. /\ DOMAIN planLog = 1 .. n /\ DOMAIN new = 1 .. n + 1 /\ new[n + 1] = cmd
      /\ \A i \in 1 .. n : new[i] = planLog[i]
  BY <1>1, <1>2, LogGrows
<1>4. LastOf(p, a) = IF At(planLog) = {} THEN 1 ELSE planLog[Last(At(planLog))].value
  BY DEF LastOf
<1>5. LastOf(p, a)' = IF At(new) = {} THEN 1 ELSE new[Last(At(new))].value
  BY <1>2 DEF LastOf
<1>6. CASE cmd.plan = p /\ cmd.action = a
  <2>1. n + 1 \in At(new) /\ \A j \in At(new) : j \in 1 .. n + 1
    BY <1>3, <1>6
  <2> HIDE DEF At
  <2>2. Last(At(new)) \in At(new) /\ n + 1 <= Last(At(new))
    <3>1. \E i \in At(new) : \A j \in At(new) : j <= i
      BY <2>1
    <3> QED BY <2>1, <3>1
  <2>3. Last(At(new)) = n + 1
    BY <2>1, <2>2
  <2> QED BY <1>3, <1>5, <1>6, <2>1, <2>3
<1>7. CASE ~(cmd.plan = p /\ cmd.action = a)
  <2>1. At(new) = At(planLog)
    <3>1. \A i \in 1 .. n + 1 : i \in At(new) <=> i \in At(planLog)
      BY <1>3, <1>7
    <3>2. At(new) \subseteq 1 .. n + 1 /\ At(planLog) \subseteq 1 .. n + 1
      BY <1>3
    <3> HIDE DEF At
    <3> QED BY <3>1, <3>2
  <2>2. At(planLog) \subseteq 1 .. n /\ At(planLog) \subseteq 0 .. n
    BY <1>3
  <2> HIDE DEF At
  <2>3. CASE At(planLog) = {}
    BY <1>4, <1>5, <1>7, <2>1, <2>3
  <2>4. CASE At(planLog) # {}
    <3>1. \E i \in At(planLog) : \A j \in At(planLog) : j <= i
      BY <2>2, <2>4, GreatestNatural
    <3>2. Last(At(planLog)) \in At(planLog)
      BY <3>1
    <3> HIDE DEF Last
    <3>3. new[Last(At(planLog))] = planLog[Last(At(planLog))]
      BY <1>3, <2>2, <3>2
    <3> QED BY <1>4, <1>5, <1>7, <2>1, <2>4, <3>3
  <2> QED BY <2>3, <2>4
<1> QED BY <1>6, <1>7

\* What a command does to the row of a plan.
LEMMA CommandedRow ==
    ASSUME NEW row \in PlanRow, NEW a \in PlanActions, NEW v \in Settings, CommandAllowed(row, a),
           NEW r \in 0 .. MaxFence
    PROVE  LET new == [Commanded(row, a, v) EXCEPT !.revision = r] IN
           /\ new \in PlanRow /\ new.revision = r /\ new.proposed = row.proposed /\ new.contract = row.contract
           /\ new.priority = IF a = "SET_PRIORITY" THEN v ELSE row.priority
           /\ new.budget = IF a = "SET_BUDGET" THEN v ELSE row.budget
           /\ new.state = "PROPOSED" => row.state = "PROPOSED"
           /\ row.state = "PROPOSED" /\ new.state # "PROPOSED" => a = "APPROVE"
<1>1. CASE a = "SET_PRIORITY"
  BY <1>1 DEF Commanded, PlanRow
<1>2. CASE a = "SET_BUDGET"
  BY <1>2 DEF Commanded, PlanRow
<1>3. ASSUME NEW s \in PlanStates, a \notin {"SET_PRIORITY", "SET_BUDGET"},
             Commanded(row, a, v) = [row EXCEPT !.state = s], s # "PROPOSED",
             row.state = "PROPOSED" => a = "APPROVE"
      PROVE  LET new == [Commanded(row, a, v) EXCEPT !.revision = r] IN
             /\ new \in PlanRow /\ new.revision = r /\ new.proposed = row.proposed /\ new.contract = row.contract
             /\ new.priority = IF a = "SET_PRIORITY" THEN v ELSE row.priority
             /\ new.budget = IF a = "SET_BUDGET" THEN v ELSE row.budget
             /\ new.state = "PROPOSED" => row.state = "PROPOSED"
             /\ row.state = "PROPOSED" /\ new.state # "PROPOSED" => a = "APPROVE"
  BY <1>3 DEF PlanRow
<1>4. CASE a = "APPROVE"
  <2>1. row.state = "PROPOSED" /\ Commanded(row, a, v) = [row EXCEPT !.state = "APPROVED"]
    BY <1>4 DEF CommandAllowed, Commanded, PlanTransitions
  <2> QED BY <1>3, <1>4, <2>1 DEF PlanStates
<1>5. CASE a = "START"
  <2>1. row.state \in {"APPROVED", "PAUSED"} /\ Commanded(row, a, v) = [row EXCEPT !.state = "ACTIVE"]
    BY <1>5 DEF CommandAllowed, Commanded, PlanTransitions
  <2> QED BY <1>3, <1>5, <2>1 DEF PlanStates
<1>6. CASE a = "PAUSE"
  <2>1. row.state = "ACTIVE" /\ Commanded(row, a, v) = [row EXCEPT !.state = "PAUSED"]
    BY <1>6 DEF CommandAllowed, Commanded, PlanTransitions
  <2> QED BY <1>3, <1>6, <2>1 DEF PlanStates
<1>7. CASE a = "STOP"
  <2>1. row.state \in {"APPROVED", "ACTIVE", "PAUSED"} /\ Commanded(row, a, v) = [row EXCEPT !.state = "STOPPED"]
    BY <1>7 DEF CommandAllowed, Commanded, PlanTransitions
  <2> QED BY <1>3, <1>7, <2>1 DEF PlanStates
<1> QED BY <1>1, <1>2, <1>4, <1>5, <1>6, <1>7 DEF PlanActions, PlanTransitions

-----------------------------------------------------------------------------
(* Guidance *)

Carried(g) == {x \in DOMAIN workItems : workItems[x].guided = g}

GuidanceFits(g) ==
    guidance[g] # NoSteering =>
        /\ Carried(g) = IF guidance[g].state = "APPLIED" THEN {guidance[g].item} ELSE {}
        /\ \A x \in Carried(g) : workItems[x].plan = guidance[g].plan /\ workItems[x].under = "ACTIVE"

\* A guided item has the key of its guidance, which exists.
ItemsFit ==
    \A x \in DOMAIN workItems : workItems[x].guided # NoSteering =>
        /\ workItems[x].guided \in GuidanceIds /\ guidance[workItems[x].guided] # NoSteering
        /\ \E k \in WorkKeys : x = GuidedKey(workItems[x].guided, k)

DeriverFits(d) == derivers[d] # NoSteering => guidance[derivers[d].guidance] # NoSteering

SteeringInv ==
    /\ SteeringTypeOK /\ fence.contract <= fence.revision + 1
    /\ \A p \in Plans : PlanFits(p)
    /\ \A g \in GuidanceIds : GuidanceFits(g)
    /\ ItemsFit
    /\ \A d \in Derivers : DeriverFits(d)

\* Guidance and work stay.
LEMMA GuidanceStays ==
    ASSUME SteeringInv, UNCHANGED <<guidance, workItems>>
    PROVE  ItemsFit' /\ \A g \in GuidanceIds : GuidanceFits(g)'
BY DEF SteeringInv, ItemsFit, GuidanceFits, Carried

\* A plan and the log stay.
LEMMA PlanStays ==
    ASSUME NEW p, PlanFits(p), plans'[p] = plans[p], UNCHANGED planLog
    PROVE  PlanFits(p)'
<1>1. LastOf(p, "SET_PRIORITY")' = LastOf(p, "SET_PRIORITY") /\ LastOf(p, "SET_BUDGET")' = LastOf(p, "SET_BUDGET")
  BY DEF LastOf
<1> QED BY <1>1 DEF PlanFits

\* Plans and their log stay.
LEMMA PlansStay ==
    ASSUME SteeringInv, UNCHANGED <<plans, planLog>>
    PROVE  \A p \in Plans : PlanFits(p)'
<1> TAKE p \in Plans
<1> QED BY PlanStays DEF SteeringInv

\* KernelMoves
LEMMA KernelMovesStep == ASSUME SteeringInv, KernelMoves PROVE SteeringInv'
<1>1. UNCHANGED <<plans, planLog, guidance, workItems, derivers>>
  BY DEF KernelMoves
<1>2. fence' \in [revision : 0 .. MaxFence, contract : 1 .. (MaxFence + 1)] /\ fence'.contract <= fence'.revision + 1
  <2>1. PICK c \in {fence.contract, fence.contract + 1} : fence' = [revision |-> fence.revision + 1, contract |-> c]
    BY DEF KernelMoves
  <2>2. /\ fence.revision \in 0 .. MaxFence /\ fence.contract \in 1 .. (MaxFence + 1)
        /\ fence.contract <= fence.revision + 1 /\ fence.revision < MaxFence
    BY DEF KernelMoves, SteeringInv, SteeringTypeOK
  <2>3. fence.revision + 1 \in 0 .. MaxFence /\ c \in 1 .. (MaxFence + 1) /\ c <= (fence.revision + 1) + 1
    BY <2>2, SteeringInputs
  <2> QED BY <2>1, <2>3
<1>3. SteeringTypeOK'
  BY <1>1, <1>2 DEF SteeringInv, SteeringTypeOK
<1>4. \A d \in Derivers : DeriverFits(d)'
  BY <1>1 DEF SteeringInv, DeriverFits
<1> QED BY <1>1, <1>2, <1>3, <1>4, GuidanceStays, PlansStay DEF SteeringInv

\* RegisterProposal: no command on the plan was given before.
LEMMA RegisterProposalStep ==
    ASSUME SteeringInv, NEW p \in Plans, RegisterProposal(p, fence.revision, fence.contract)
    PROVE  SteeringInv'
<1>1. PICK row : row = [state |-> "PROPOSED", revision |-> fence.revision, contract |-> fence.contract,
                        priority |-> 1, budget |-> 1, proposed |-> fence.revision]
  OBVIOUS
<1>2. /\ row \in PlanRow /\ row.priority = 1 /\ row.budget = 1 /\ row.state = "PROPOSED"
      /\ row.revision = row.proposed
  BY <1>1 DEF SteeringInv, SteeringTypeOK, PlanRow, PlanStates, Settings
<1>3. /\ plans[p] = NoSteering /\ plans' = [plans EXCEPT ![p] = row]
      /\ UNCHANGED <<fence, planLog, guidance, workItems, derivers>>
  BY <1>1 DEF RegisterProposal
<1>4. plans'[p] = row /\ \A x \in Plans \ {p} : plans'[x] = plans[x]
  BY <1>3 DEF SteeringInv, SteeringTypeOK
<1>5. SteeringTypeOK'
  BY <1>2, <1>3 DEF SteeringInv, SteeringTypeOK
<1>6. \A x \in Plans \ {p} : PlanFits(x)'
  <2> TAKE x \in Plans \ {p}
  <2> QED BY <1>3, <1>4, PlanStays DEF SteeringInv
<1>7. PlanFits(p)'
  <2>1. DOMAIN planLog = 1 .. Len(planLog)
    BY DEF SteeringInv, SteeringTypeOK
  <2>2. \A i \in DOMAIN planLog : planLog[i].plan # p
    BY <1>3, <2>1 DEF SteeringInv, PlanFits
  <2>3. LastOf(p, "SET_PRIORITY") = 1 /\ LastOf(p, "SET_BUDGET") = 1
    BY <2>2 DEF LastOf
  <2>4. LastOf(p, "SET_PRIORITY")' = 1 /\ LastOf(p, "SET_BUDGET")' = 1
    BY <1>3, <2>3 DEF LastOf
  <2>5. row # NoSteering
    BY <1>2, SteeringInputs
  <2> QED BY <1>2, <1>3, <1>4, <2>4, <2>5 DEF PlanFits
<1>8. \A d \in Derivers : DeriverFits(d)'
  BY <1>3 DEF SteeringInv, DeriverFits
<1> QED BY <1>3, <1>5, <1>6, <1>7, <1>8, GuidanceStays DEF SteeringInv

\* ApplyPlan
LEMMA ApplyPlanStep ==
    ASSUME SteeringInv, NEW q, NEW cmd \in PlanCommand, ApplyPlan(q, cmd)
    PROVE  SteeringInv'
<1>1. PICK p \in Plans : p = cmd.plan
  BY DEF PlanCommand
<1>2. PICK a \in PlanActions : a = cmd.action
  BY DEF PlanCommand
<1>3. PICK v \in Settings : v = cmd.value
  BY DEF PlanCommand
<1>4. PICK r \in 0 .. MaxFence : r = cmd.revision
  BY DEF PlanCommand
<1>5. PICK old : old = plans[p]
  OBVIOUS
<1>6. /\ old # NoSteering /\ old \in PlanRow /\ CommandAllowed(old, a)
      /\ old.state = "PROPOSED" => old.revision = r
  BY <1>1, <1>2, <1>4, <1>5 DEF ApplyPlan, SteeringInv, SteeringTypeOK
<1>7. PICK row : row = [Commanded(old, a, v) EXCEPT !.revision = r]
  OBVIOUS
<1>8. /\ row \in PlanRow /\ row.revision = r /\ row.proposed = old.proposed
      /\ row.priority = IF a = "SET_PRIORITY" THEN v ELSE old.priority
      /\ row.budget = IF a = "SET_BUDGET" THEN v ELSE old.budget
      /\ row.state = "PROPOSED" => old.state = "PROPOSED"
      /\ old.state = "PROPOSED" /\ row.state # "PROPOSED" => a = "APPROVE"
  BY <1>6, <1>7, CommandedRow
<1>9. /\ plans' = [plans EXCEPT ![p] = row] /\ planLog' = Append(planLog, cmd)
      /\ UNCHANGED <<fence, guidance, workItems, derivers>>
  BY <1>1, <1>2, <1>3, <1>4, <1>5, <1>7 DEF ApplyPlan
<1>10. plans'[p] = row /\ \A x \in Plans \ {p} : plans'[x] = plans[x]
  BY <1>9 DEF SteeringInv, SteeringTypeOK
<1>11. planLog \in Seq(PlanCommand)
  BY DEF SteeringInv, SteeringTypeOK
<1>12. PICK n \in Nat : n = Len(planLog)
  BY <1>11, LogGrows
<1>13. /\ planLog' \in Seq(PlanCommand) /\ Len(planLog') = n + 1 /\ planLog'[n + 1] = cmd
       /\ \A i \in 1 .. n : planLog'[i] = planLog[i]
  BY <1>9, <1>11, <1>12, LogGrows
<1>14. SteeringTypeOK'
  BY <1>8, <1>9, <1>13 DEF SteeringInv, SteeringTypeOK
<1>15. ASSUME NEW x \in Plans \ {p} PROVE PlanFits(x)'
  <2>1. PlanFits(x) /\ plans'[x] = plans[x]
    BY <1>10 DEF SteeringInv
  <2>2. LastOf(x, "SET_PRIORITY")' = LastOf(x, "SET_PRIORITY") /\ LastOf(x, "SET_BUDGET")' = LastOf(x, "SET_BUDGET")
    <3>1. cmd.plan # x
      BY <1>1
    <3> QED BY <1>9, <1>11, <3>1, LastOfGrows
  <2>3. (\A i \in 1 .. n : planLog[i].plan # x) => \A i \in 1 .. n + 1 : planLog'[i].plan # x
    BY <1>1, <1>13
  <2>4. \A i \in 1 .. n : i \in 1 .. n + 1 /\ planLog'[i] = planLog[i]
    BY <1>13
  <2> QED BY <1>12, <1>13, <2>1, <2>2, <2>3, <2>4 DEF PlanFits
<1>16. PlanFits(p)'
  <2>1. PlanFits(p) /\ plans[p] # NoSteering /\ row # NoSteering
    BY <1>5, <1>6, <1>8, SteeringInputs DEF SteeringInv
  <2>2. /\ LastOf(p, "SET_PRIORITY")' = IF a = "SET_PRIORITY" THEN v ELSE LastOf(p, "SET_PRIORITY")
        /\ LastOf(p, "SET_BUDGET")' = IF a = "SET_BUDGET" THEN v ELSE LastOf(p, "SET_BUDGET")
    BY <1>1, <1>2, <1>3, <1>9, <1>11, LastOfGrows
  <2>3. row.priority = LastOf(p, "SET_PRIORITY")' /\ row.budget = LastOf(p, "SET_BUDGET")'
    BY <1>5, <1>8, <2>1, <2>2 DEF PlanFits
  <2>4. row.state = "PROPOSED" => row.revision = row.proposed
    BY <1>5, <1>6, <1>8, <2>1 DEF PlanFits
  <2>5. ASSUME row.state # "PROPOSED"
        PROVE  \E i \in 1 .. n + 1 : /\ planLog'[i].plan = p /\ planLog'[i].action = "APPROVE"
                                     /\ planLog'[i].revision = row.proposed
    <3>1. CASE old.state = "PROPOSED"
      <4>1. a = "APPROVE" /\ old.revision = old.proposed
        BY <1>5, <1>8, <2>1, <2>5, <3>1 DEF PlanFits
      <4>2. planLog'[n + 1].plan = p /\ planLog'[n + 1].action = "APPROVE" /\ planLog'[n + 1].revision = row.proposed
        BY <1>1, <1>2, <1>4, <1>6, <1>8, <1>13, <3>1, <4>1
      <4>3. n + 1 \in 1 .. n + 1
        OBVIOUS
      <4> QED BY <4>2, <4>3
    <3>2. CASE old.state # "PROPOSED"
      <4>1. PICK i \in 1 .. n : /\ planLog[i].plan = p /\ planLog[i].action = "APPROVE"
                                /\ planLog[i].revision = old.proposed
        BY <1>5, <1>12, <2>1, <3>2 DEF PlanFits
      <4>2. i \in 1 .. n + 1 /\ planLog'[i] = planLog[i]
        BY <1>13
      <4> QED BY <1>8, <4>1, <4>2
    <3> QED BY <3>1, <3>2
  <2> QED BY <1>10, <1>13, <2>1, <2>3, <2>4, <2>5 DEF PlanFits
<1>17. \A d \in Derivers : DeriverFits(d)'
  BY <1>9 DEF SteeringInv, DeriverFits
<1> QED BY <1>9, <1>14, <1>15, <1>16, <1>17, GuidanceStays DEF SteeringInv

\* Guidance that is added or resolved while the work items stay.
LEMMA GuidanceMoves ==
    ASSUME SteeringInv, guidance' \in [GuidanceIds -> GuidanceRow \cup {NoSteering}],
           \A g \in GuidanceIds :
              \/ guidance'[g] = guidance[g]
              \/ /\ guidance'[g] # NoSteering /\ guidance'[g].state # "APPLIED"
                 /\ guidance[g] # NoSteering => guidance[g].state = "QUEUED" /\ guidance'[g].plan = guidance[g].plan,
           derivers' \in [Derivers -> DeriverRow \cup {NoSteering}],
           \A d \in Derivers : derivers'[d] # NoSteering /\ derivers'[d] # derivers[d] =>
                                  guidance[derivers'[d].guidance] # NoSteering,
           UNCHANGED <<fence, plans, planLog, workItems>>
    PROVE  SteeringInv'
<1>1. SteeringTypeOK'
  BY DEF SteeringInv, SteeringTypeOK
<1>2. \A g \in GuidanceIds : guidance[g] # NoSteering => guidance'[g] # NoSteering
  OBVIOUS
<1>3. ItemsFit'
  BY <1>2 DEF SteeringInv, ItemsFit
<1>4. ASSUME NEW g \in GuidanceIds PROVE GuidanceFits(g)'
  <2>1. Carried(g)' = Carried(g) /\ GuidanceFits(g)
    BY DEF Carried, SteeringInv
  <2>2. CASE guidance'[g] = guidance[g]
    BY <2>1, <2>2 DEF GuidanceFits
  <2>3. CASE /\ guidance'[g] # NoSteering /\ guidance'[g].state # "APPLIED"
             /\ guidance[g] # NoSteering => guidance[g].state = "QUEUED"
    <3>1. Carried(g) = {}
      <4>1. CASE guidance[g] = NoSteering
        BY <4>1, SteeringInputs DEF SteeringInv, ItemsFit, Carried
      <4>2. CASE guidance[g] # NoSteering
        BY <2>1, <2>3, <4>2 DEF GuidanceFits
      <4> QED BY <4>1, <4>2
    <3> QED BY <2>1, <2>3, <3>1 DEF GuidanceFits
  <2> QED BY <2>2, <2>3
<1>5. \A d \in Derivers : DeriverFits(d)'
  <2> TAKE d \in Derivers
  <2>1. CASE derivers'[d] = derivers[d]
    <3>1. derivers[d] # NoSteering => derivers[d].guidance \in GuidanceIds /\ guidance[derivers[d].guidance] # NoSteering
      BY DEF SteeringInv, SteeringTypeOK, DeriverFits, DeriverRow
    <3> QED BY <1>2, <2>1, <3>1 DEF DeriverFits
  <2>2. CASE derivers'[d] # derivers[d]
    <3>1. derivers'[d] # NoSteering => derivers'[d].guidance \in GuidanceIds
      BY DEF DeriverRow
    <3> QED BY <1>2, <2>2, <3>1 DEF DeriverFits
  <2> QED BY <2>1, <2>2
<1> QED BY <1>1, <1>3, <1>4, <1>5, PlansStay DEF SteeringInv

\* SubmitGuidance: what it replaces was queued.
LEMMA SubmitGuidanceStep ==
    ASSUME SteeringInv, NEW g \in GuidanceIds, NEW p \in Plans, NEW t \in WorkKeys \cup {"ROUTE"},
           NEW k \in GuidanceKinds, NEW w \in Authors, NEW old \in GuidanceIds \cup {NoSteering},
           SubmitGuidance(g, p, t, k, w, old)
    PROVE  SteeringInv'
<1>1. PICK row : row = [plan |-> p, target |-> t, kind |-> k, author |-> w, old |-> old,
                        revision |-> fence.revision, contract |-> fence.contract,
                        state |-> "QUEUED", code |-> "none", item |-> NoSteering]
  OBVIOUS
<1>2. row \in GuidanceRow /\ row.state = "QUEUED"
  BY <1>1 DEF SteeringInv, SteeringTypeOK, GuidanceRow, GuidanceStates, GuidanceCodes
<1>3. row # NoSteering
  BY <1>2, SteeringInputs
<1>4. guidance[g] = NoSteering /\ UNCHANGED <<fence, plans, planLog, workItems, derivers>>
  BY DEF SubmitGuidance
<1>5. guidance \in [GuidanceIds -> GuidanceRow \cup {NoSteering}] /\ derivers' \in [Derivers -> DeriverRow \cup {NoSteering}]
  BY <1>4 DEF SteeringInv, SteeringTypeOK
<1>6. CASE old = NoSteering
  <2>1. guidance' = [guidance EXCEPT ![g] = row]
    BY <1>1, <1>6 DEF SubmitGuidance
  <2>2. guidance' \in [GuidanceIds -> GuidanceRow \cup {NoSteering}]
    BY <1>2, <1>5, <2>1
  <2>3. guidance'[g] = row /\ \A x \in GuidanceIds \ {g} : guidance'[x] = guidance[x]
    BY <1>5, <2>1
  <2> QED BY <1>2, <1>3, <1>4, <1>5, <2>2, <2>3, GuidanceMoves
<1>7. CASE old # NoSteering
  <2>1. old \in GuidanceIds /\ guidance[old] # NoSteering /\ guidance[old].state = "QUEUED" /\ old # g
    BY <1>4, <1>7 DEF SubmitGuidance, Queued
  <2>2. PICK done : done = [guidance[old] EXCEPT !.state = "SUPERSEDED", !.code = "REPLACED_BY_NEW_GUIDANCE"]
    OBVIOUS
  <2>3. done \in GuidanceRow /\ done.state = "SUPERSEDED" /\ done.plan = guidance[old].plan
    <3>1. guidance[old] \in GuidanceRow
      BY <1>5, <2>1
    <3>2. "SUPERSEDED" \in GuidanceStates /\ "REPLACED_BY_NEW_GUIDANCE" \in GuidanceCodes
      BY DEF GuidanceStates, GuidanceCodes
    <3>3. PICK u \in GuidanceRow : u = guidance[old]
      BY <3>1
    <3>4. PICK st \in GuidanceStates : st = "SUPERSEDED"
      BY <3>2
    <3>5. PICK c \in GuidanceCodes : c = "REPLACED_BY_NEW_GUIDANCE"
      BY <3>2
    <3>6. done = [u EXCEPT !.state = st, !.code = c]
      BY <2>2, <3>3, <3>4, <3>5
    <3>7. done \in GuidanceRow /\ done.state = st /\ done.plan = u.plan
      BY <3>6 DEF GuidanceRow
    <3> QED BY <3>3, <3>4, <3>7
  <2>4. done # NoSteering
    BY <2>3, SteeringInputs
  <2>5. guidance' = [[guidance EXCEPT ![old] = done] EXCEPT ![g] = row]
    BY <1>1, <1>7, <2>2 DEF SubmitGuidance, Resolve
  <2>6. guidance' \in [GuidanceIds -> GuidanceRow \cup {NoSteering}]
    BY <1>2, <1>5, <2>1, <2>3, <2>5
  <2>7. guidance'[g] = row /\ guidance'[old] = done /\ \A x \in GuidanceIds \ {g, old} : guidance'[x] = guidance[x]
    BY <1>5, <2>1, <2>5
  <2> QED BY <1>2, <1>3, <1>4, <1>5, <2>1, <2>3, <2>4, <2>6, <2>7, GuidanceMoves
<1> QED BY <1>6, <1>7

\* Queued guidance is resolved without work.
LEMMA GuidanceResolved ==
    ASSUME SteeringInv, NEW g \in GuidanceIds, Queued(g), NEW s \in GuidanceStates \ {"APPLIED"},
           NEW c \in GuidanceCodes, guidance' = Resolve(guidance, g, s, c),
           derivers' \in [Derivers -> DeriverRow \cup {NoSteering}],
           \A d \in Derivers : derivers'[d] = derivers[d] \/ derivers'[d] = NoSteering,
           UNCHANGED <<fence, plans, planLog, workItems>>
    PROVE  SteeringInv'
<1>1. guidance[g] \in GuidanceRow /\ guidance[g] # NoSteering /\ guidance[g].state = "QUEUED"
  BY DEF Queued, SteeringInv, SteeringTypeOK
<1>2. PICK done : done = [guidance[g] EXCEPT !.state = s, !.code = c]
  OBVIOUS
<1>3. done \in GuidanceRow /\ done.state = s /\ done.plan = guidance[g].plan
  <2>1. PICK u \in GuidanceRow : u = guidance[g]
    BY <1>1
  <2>2. PICK st \in GuidanceStates : st = s
    OBVIOUS
  <2>3. done = [u EXCEPT !.state = st, !.code = c]
    BY <1>2, <2>1, <2>2
  <2>4. done \in GuidanceRow /\ done.state = st /\ done.plan = u.plan
    BY <2>3 DEF GuidanceRow
  <2> QED BY <2>1, <2>2, <2>4
<1>4. done # NoSteering
  BY <1>3, SteeringInputs
<1>5. guidance' = [guidance EXCEPT ![g] = done]
  BY <1>2 DEF Resolve
<1>6. /\ guidance' \in [GuidanceIds -> GuidanceRow \cup {NoSteering}]
      /\ guidance'[g] = done /\ \A x \in GuidanceIds \ {g} : guidance'[x] = guidance[x]
  BY <1>3, <1>5 DEF SteeringInv, SteeringTypeOK
<1> QED BY <1>1, <1>3, <1>4, <1>6, GuidanceMoves

\* A deriver moves alone, on guidance that exists.
LEMMA DeriverMoves ==
    ASSUME SteeringInv, NEW d \in Derivers, NEW r \in DeriverRow \cup {NoSteering},
           derivers' = [derivers EXCEPT ![d] = r], r # NoSteering => guidance[r.guidance] # NoSteering,
           UNCHANGED <<fence, plans, planLog, guidance, workItems>>
    PROVE  SteeringInv'
<1>1. /\ derivers' \in [Derivers -> DeriverRow \cup {NoSteering}]
      /\ derivers'[d] = r /\ \A x \in Derivers \ {d} : derivers'[x] = derivers[x]
  BY DEF SteeringInv, SteeringTypeOK
<1>2. guidance' \in [GuidanceIds -> GuidanceRow \cup {NoSteering}] /\ \A g \in GuidanceIds : guidance'[g] = guidance[g]
  BY DEF SteeringInv, SteeringTypeOK
<1>3. \A x \in Derivers : derivers'[x] # NoSteering /\ derivers'[x] # derivers[x] => guidance[derivers'[x].guidance] # NoSteering
  BY <1>1
<1> QED BY <1>1, <1>2, <1>3, GuidanceMoves

\* The steps of a deriver before its transaction, its refusals and its crash.
LEMMA DeriverStep ==
    ASSUME SteeringInv, NEW d \in Derivers,
           \/ \E g \in GuidanceIds, k \in WorkKeys, present \in BOOLEAN : ReadGuidance(d, g, k, present)
           \/ RefuseGuidance(d) \/ DeriveRefused(d) \/ DeriverCrash(d)
    PROVE  SteeringInv'
<1>1. ASSUME NEW g \in GuidanceIds, NEW k \in WorkKeys, NEW present \in BOOLEAN, ReadGuidance(d, g, k, present)
      PROVE  SteeringInv'
  <2>1. PICK r : r = [pc |-> IF guidance[g].kind = "STOP_ROUTE_REQUEST" \/ present THEN "refuse" ELSE "derive",
                      guidance |-> g, key |-> k,
                      code |-> IF guidance[g].kind = "STOP_ROUTE_REQUEST"
                               THEN "FORMAL_B09B_STOP_REQUIRED" ELSE "NO_INPUT_CHANGE"]
    OBVIOUS
  <2>2. r \in DeriverRow /\ r.guidance = g
    BY <2>1 DEF DeriverRow, GuidanceCodes
  <2>3. derivers' = [derivers EXCEPT ![d] = r] /\ UNCHANGED <<fence, plans, planLog, guidance, workItems>>
    BY <1>1, <2>1 DEF ReadGuidance
  <2>4. guidance[g] # NoSteering
    BY <1>1 DEF ReadGuidance, RequestBinds, Queued
  <2> QED BY <2>2, <2>3, <2>4, DeriverMoves
<1>2. CASE RefuseGuidance(d)
  <2>1. derivers[d] # NoSteering /\ derivers[d] \in DeriverRow
    BY <1>2 DEF RefuseGuidance, DeriverAt, SteeringInv, SteeringTypeOK
  <2>2. PICK g \in GuidanceIds : g = derivers[d].guidance
    BY <2>1 DEF DeriverRow
  <2>3. PICK c \in GuidanceCodes : c = derivers[d].code
    BY <2>1 DEF DeriverRow
  <2>4. /\ derivers' = [derivers EXCEPT ![d] = NoSteering] /\ UNCHANGED <<fence, plans, planLog, workItems>>
        /\ guidance' = IF Queued(g) THEN Resolve(guidance, g, "REJECTED", c) ELSE guidance
    BY <1>2, <2>2, <2>3 DEF RefuseGuidance, DeriverDone
  <2>5. CASE Queued(g)
    <3>1. /\ derivers' \in [Derivers -> DeriverRow \cup {NoSteering}]
          /\ \A x \in Derivers : derivers'[x] = derivers[x] \/ derivers'[x] = NoSteering
      BY <2>4 DEF SteeringInv, SteeringTypeOK
    <3>2. guidance' = Resolve(guidance, g, "REJECTED", c) /\ "REJECTED" \in GuidanceStates \ {"APPLIED"}
      BY <2>4, <2>5 DEF GuidanceStates
    <3> QED BY <2>4, <2>5, <3>1, <3>2, GuidanceResolved
  <2>6. CASE ~Queued(g)
    BY <2>4, <2>6, DeriverMoves
  <2> QED BY <2>5, <2>6
<1>3. CASE DeriveRefused(d)
  <2>1. derivers[d] # NoSteering /\ derivers[d] \in DeriverRow /\ UNCHANGED <<fence, plans, planLog, guidance, workItems>>
    BY <1>3 DEF DeriveRefused, DeriverAt, SteeringInv, SteeringTypeOK
  <2>2. CASE derivers' = [derivers EXCEPT ![d] = NoSteering]
    BY <2>1, <2>2, DeriverMoves
  <2>3. CASE derivers' = [derivers EXCEPT ![d] = [@ EXCEPT !.pc = "refuse", !.code = "STALE_RESEARCH_FENCE"]]
    <3>1. PICK r : r = [derivers[d] EXCEPT !.pc = "refuse", !.code = "STALE_RESEARCH_FENCE"]
      OBVIOUS
    <3>2. r \in DeriverRow /\ r.guidance = derivers[d].guidance
      BY <2>1, <3>1 DEF DeriverRow, GuidanceCodes
    <3>3. derivers' = [derivers EXCEPT ![d] = r]
      BY <2>3, <3>1
    <3>4. guidance[r.guidance] # NoSteering
      BY <2>1, <3>2 DEF SteeringInv, DeriverFits
    <3> QED BY <2>1, <3>2, <3>3, <3>4, DeriverMoves
  <2> QED BY <1>3, <2>2, <2>3 DEF DeriveRefused, DeriverDone
<1>4. CASE DeriverCrash(d)
  <2>1. derivers' = [derivers EXCEPT ![d] = NoSteering] /\ UNCHANGED <<fence, plans, planLog, guidance, workItems>>
    BY <1>4 DEF DeriverCrash, DeriverDone
  <2> QED BY <2>1, DeriverMoves
<1> QED BY <1>1, <1>2, <1>3, <1>4

\* A work item is added that no guidance asked for.
LEMMA DeriveForRouteStep ==
    ASSUME SteeringInv, NEW p \in Plans, NEW k \in WorkKeys, DeriveForRoute(p, k)
    PROVE  SteeringInv'
<1>1. PICK row : row = [plan |-> p, guided |-> NoSteering, under |-> "ACTIVE"]
  OBVIOUS
<1>2. row.guided = NoSteering
  BY <1>1
<1>3. /\ k \notin DOMAIN workItems /\ UNCHANGED <<fence, plans, planLog, guidance, derivers>>
      /\ workItems' = [x \in DOMAIN workItems \cup {k} |-> IF x = k THEN row ELSE workItems[x]]
  BY <1>1 DEF DeriveForRoute
<1>4. /\ DOMAIN workItems' = DOMAIN workItems \cup {k} /\ workItems'[k] = row
      /\ \A x \in DOMAIN workItems : workItems'[x] = workItems[x]
  BY <1>3
<1>5. SteeringTypeOK' /\ \A d \in Derivers : DeriverFits(d)'
  BY <1>3 DEF SteeringInv, SteeringTypeOK, DeriverFits
<1>6. ItemsFit'
  BY <1>2, <1>3, <1>4 DEF SteeringInv, ItemsFit
<1>7. ASSUME NEW g \in GuidanceIds PROVE GuidanceFits(g)'
  <2>1. Carried(g)' = Carried(g) /\ Carried(g) \subseteq DOMAIN workItems
    BY <1>2, <1>4, SteeringInputs DEF Carried
  <2>2. GuidanceFits(g)
    BY DEF SteeringInv
  <2> QED BY <1>3, <1>4, <2>1, <2>2 DEF GuidanceFits
<1> QED BY <1>3, <1>5, <1>6, <1>7, PlansStay DEF SteeringInv

\* DeriveGuided: the guidance was queued, so no item carries it yet, and the item's key is its own.
LEMMA DeriveGuidedStep ==
    ASSUME SteeringInv, NEW d \in Derivers, DeriveGuided(d)
    PROVE  SteeringInv'
<1>1. derivers[d] # NoSteering /\ derivers[d] \in DeriverRow
  BY DEF DeriveGuided, DeriverAt, SteeringInv, SteeringTypeOK
<1>2. PICK g \in GuidanceIds : g = derivers[d].guidance
  BY <1>1 DEF DeriverRow
<1>3. PICK k \in WorkKeys : k = derivers[d].key
  BY <1>1 DEF DeriverRow
<1>4. PICK key : key = GuidedKey(g, k)
  OBVIOUS
<1>5. PICK old : old = guidance[g]
  OBVIOUS
<1>6. old # NoSteering /\ old \in GuidanceRow /\ old.state = "QUEUED" /\ plans[old.plan].state = "ACTIVE"
  BY <1>1, <1>2, <1>5 DEF DeriveGuided, StillBinds, RouteActive, SteeringInv, SteeringTypeOK, DeriverFits
<1>7. PICK row : row = [plan |-> old.plan, guided |-> g, under |-> plans[old.plan].state]
  OBVIOUS
<1>8. row.plan = old.plan /\ row.guided = g /\ row.under = "ACTIVE"
  BY <1>6, <1>7
<1>9. PICK new : new = [old EXCEPT !.state = "APPLIED", !.code = "WORK_INPUT_CHANGED", !.item = key]
  OBVIOUS
<1>10. new \in GuidanceRow /\ new.state = "APPLIED" /\ new.item = key /\ new.plan = old.plan
  <2>1. key \in GuidedKeys /\ "WORK_INPUT_CHANGED" \in GuidanceCodes
    BY <1>4 DEF GuidedKeys, GuidanceCodes
  <2>2. PICK u \in GuidanceRow : u = old
    BY <1>6
  <2>3. PICK c \in GuidanceCodes : c = "WORK_INPUT_CHANGED"
    BY <2>1
  <2>4. new = [u EXCEPT !.state = "APPLIED", !.code = c, !.item = key]
    BY <1>9, <2>2, <2>3
  <2>5. new \in GuidanceRow /\ new.state = "APPLIED" /\ new.plan = u.plan /\ new.item = key
    <3>1. "APPLIED" \in GuidanceStates
      BY DEF GuidanceStates
    <3> QED BY <2>1, <2>4, <3>1 DEF GuidanceRow
  <2> QED BY <2>2, <2>5
<1>11. new # NoSteering
  BY <1>10, SteeringInputs
<1>12. /\ workItems' = [x \in DOMAIN workItems \cup {key} |-> IF x = key THEN row ELSE workItems[x]]
       /\ guidance' = [guidance EXCEPT ![g] = new] /\ derivers' = [derivers EXCEPT ![d] = NoSteering]
       /\ UNCHANGED <<fence, plans, planLog>>
  BY <1>2, <1>3, <1>4, <1>5, <1>7, <1>9 DEF DeriveGuided, DeriverDone
<1>13. /\ DOMAIN workItems' = DOMAIN workItems \cup {key} /\ workItems'[key] = row
       /\ \A x \in DOMAIN workItems \ {key} : workItems'[x] = workItems[x]
  BY <1>12
<1>14. guidance'[g] = new /\ \A x \in GuidanceIds \ {g} : guidance'[x] = guidance[x]
  BY <1>12 DEF SteeringInv, SteeringTypeOK
<1>15. SteeringTypeOK'
  BY <1>10, <1>12 DEF SteeringInv, SteeringTypeOK
<1>16. \A x \in GuidanceIds : guidance[x] # NoSteering => guidance'[x] # NoSteering
  BY <1>11, <1>14
<1>17. ItemsFit'
  <2> SUFFICES ASSUME NEW x \in DOMAIN workItems', workItems'[x].guided # NoSteering
               PROVE  /\ workItems'[x].guided \in GuidanceIds /\ guidance'[workItems'[x].guided] # NoSteering
                      /\ \E j \in WorkKeys : x = GuidedKey(workItems'[x].guided, j)
    BY DEF ItemsFit
  <2>1. CASE x = key
    BY <1>4, <1>8, <1>11, <1>13, <1>14, <2>1
  <2>2. CASE x # key
    BY <1>13, <1>16, <2>2 DEF SteeringInv, ItemsFit
  <2> QED BY <2>1, <2>2
<1>18. Carried(g) = {}
  BY <1>5, <1>6 DEF SteeringInv, GuidanceFits
<1>19. key \in DOMAIN workItems => workItems[key].guided = NoSteering
  <2> SUFFICES ASSUME key \in DOMAIN workItems, workItems[key].guided # NoSteering PROVE FALSE
    OBVIOUS
  <2>1. PICK j \in WorkKeys : key = GuidedKey(workItems[key].guided, j)
    BY DEF SteeringInv, ItemsFit
  <2>2. workItems[key].guided = g
    BY <1>4, <2>1 DEF GuidedKey
  <2> QED BY <1>18, <2>2 DEF Carried
<1>20. GuidanceFits(g)'
  <2>1. Carried(g)' = {key}
    BY <1>8, <1>13, <1>18 DEF Carried
  <2> QED BY <1>8, <1>10, <1>13, <1>14, <2>1 DEF GuidanceFits
<1>21. ASSUME NEW h \in GuidanceIds \ {g} PROVE GuidanceFits(h)'
  <2>1. Carried(h)' = Carried(h) /\ key \notin Carried(h) /\ Carried(h) \subseteq DOMAIN workItems
    BY <1>8, <1>13, <1>19, SteeringInputs DEF Carried
  <2>2. GuidanceFits(h) /\ guidance'[h] = guidance[h]
    BY <1>14 DEF SteeringInv
  <2> QED BY <1>13, <2>1, <2>2 DEF GuidanceFits
<1>22. \A x \in Derivers : DeriverFits(x)'
  <2>1. \A x \in Derivers : derivers'[x] # NoSteering => derivers'[x] = derivers[x] /\ derivers[x].guidance \in GuidanceIds
    BY <1>12 DEF SteeringInv, SteeringTypeOK, DeriverRow
  <2> QED BY <1>16, <2>1 DEF SteeringInv, DeriverFits
<1> QED BY <1>12, <1>15, <1>17, <1>20, <1>21, <1>22, PlansStay DEF SteeringInv

\* Every step keeps the invariant.
LEMMA SteeringStep == SteeringInv /\ [SteeringNext]_steeringVars => SteeringInv'
<1> SUFFICES ASSUME SteeringInv, [SteeringNext]_steeringVars PROVE SteeringInv'
  OBVIOUS
<1>1. CASE KernelMoves
  BY <1>1, KernelMovesStep
<1>2. CASE \E p \in Plans : RegisterProposal(p, fence.revision, fence.contract)
  BY <1>2, RegisterProposalStep
<1>3. ASSUME NEW q, NEW p \in Plans, NEW a \in PlanActions, NEW v \in Settings,
             ApplyPlan(q, [plan |-> p, action |-> a, value |-> v,
                           revision |-> fence.revision, contract |-> fence.contract])
      PROVE  SteeringInv'
  <2>1. PICK cmd : cmd = [plan |-> p, action |-> a, value |-> v,
                          revision |-> fence.revision, contract |-> fence.contract]
    OBVIOUS
  <2>2. cmd \in PlanCommand
    BY <2>1 DEF SteeringInv, SteeringTypeOK, PlanCommand
  <2> QED BY <1>3, <2>1, <2>2, ApplyPlanStep
<1>4. CASE \E g \in GuidanceIds, p \in Plans, t \in WorkKeys \cup {"ROUTE"}, k \in GuidanceKinds,
              w \in Authors, old \in GuidanceIds \cup {NoSteering} : SubmitGuidance(g, p, t, k, w, old)
  BY <1>4, SubmitGuidanceStep
<1>5. ASSUME NEW g \in GuidanceIds, NEW w \in Authors, CancelGuidance(g, w) PROVE SteeringInv'
  <2>1. /\ Queued(g) /\ guidance' = Resolve(guidance, g, "CANCELLED", "CANCELLED_BY_SUBMITTER")
        /\ UNCHANGED <<fence, plans, planLog, workItems, derivers>>
    BY <1>5 DEF CancelGuidance
  <2>2. "CANCELLED" \in GuidanceStates \ {"APPLIED"} /\ "CANCELLED_BY_SUBMITTER" \in GuidanceCodes
    BY DEF GuidanceStates, GuidanceCodes
  <2>3. derivers' \in [Derivers -> DeriverRow \cup {NoSteering}]
    BY <2>1 DEF SteeringInv, SteeringTypeOK
  <2> QED BY <2>1, <2>2, <2>3, GuidanceResolved
<1>6. CASE \E p \in Plans, k \in WorkKeys : DeriveForRoute(p, k)
  BY <1>6, DeriveForRouteStep
<1>7. CASE \E d \in Derivers, g \in GuidanceIds, k \in WorkKeys, present \in BOOLEAN : ReadGuidance(d, g, k, present)
  BY <1>7, DeriverStep
<1>8. CASE \E d \in Derivers : RefuseGuidance(d) \/ DeriveGuided(d) \/ DeriveRefused(d) \/ DeriverCrash(d)
  BY <1>8, DeriverStep, DeriveGuidedStep
<1>9. CASE UNCHANGED steeringVars
  <2>1. SteeringTypeOK' /\ \A d \in Derivers : DeriverFits(d)'
    BY <1>9 DEF steeringVars, SteeringInv, SteeringTypeOK, DeriverFits
  <2> QED BY <1>9, <2>1, PlansStay, GuidanceStays DEF steeringVars, SteeringInv
<1>10. CASE PlanNext
  BY <1>1, <1>2, <1>3, <1>10 DEF PlanNext
<1>11. CASE GuidanceNext
  <2>1. DOMAIN PlanTransitions \subseteq PlanActions /\ 1 \in Settings
    BY DEF PlanActions, Settings
  <2> QED BY <1>1, <1>2, <1>3, <1>4, <1>5, <1>6, <1>7, <1>8, <1>11, <2>1 DEF GuidanceNext
<1> QED BY <1>9, <1>10, <1>11 DEF SteeringNext

\* SteeringHasOneEffect, for every number of plans, commands, guidance, authors and derivers.
THEOREM SteeringAlwaysHasOneEffect == SteeringSpec => []SteeringHasOneEffect
<1>1. SteeringInit => SteeringInv
  <2> SUFFICES ASSUME SteeringInit PROVE SteeringInv
    OBVIOUS
  <2>1. planLog \in Seq(PlanCommand) /\ Len(planLog) = 0
    <3>1. planLog = << >>
      BY DEF SteeringInit
    <3>2. << >> \in Seq(PlanCommand) /\ Len(<< >>) = 0
      OBVIOUS
    <3> QED BY <3>1, <3>2, Zenon
  <2>2. SteeringTypeOK /\ fence.contract <= fence.revision + 1
    <3>1. fence \in [revision : 0 .. MaxFence, contract : 1 .. (MaxFence + 1)] /\ fence.contract <= fence.revision + 1
      BY SteeringInputs DEF SteeringInit
    <3> QED BY <2>1, <3>1 DEF SteeringInit, SteeringTypeOK
  <2>3. \A p \in Plans : PlanFits(p)
    BY <2>1 DEF SteeringInit, PlanFits
  <2>4. ItemsFit /\ (\A g \in GuidanceIds : GuidanceFits(g)) /\ (\A d \in Derivers : DeriverFits(d))
    BY DEF SteeringInit, ItemsFit, GuidanceFits, DeriverFits
  <2> QED BY <2>2, <2>3, <2>4 DEF SteeringInv
<1>2. SteeringInv /\ [SteeringNext]_steeringVars => SteeringInv'
  BY SteeringStep
<1>3. SteeringInv => SteeringHasOneEffect
  <2> SUFFICES ASSUME SteeringInv PROVE SteeringHasOneEffect
    OBVIOUS
  <2>1. DOMAIN planLog = 1 .. Len(planLog)
    BY DEF SteeringInv, SteeringTypeOK
  <2>2. PlansFollowTheirLog
    BY <2>1 DEF SteeringInv, PlanFits, PlansFollowTheirLog
  <2>3. GuidanceHasOneEffect
    BY DEF SteeringInv, GuidanceFits, Carried, GuidanceHasOneEffect
  <2> QED BY <2>2, <2>3 DEF SteeringInv, SteeringHasOneEffect
<1> QED BY <1>1, <1>2, <1>3, PTL DEF SteeringSpec

-----------------------------------------------------------------------------
(* Worker runs *)

Completed == \E w \in Assigned : workers[w].state = "COMPLETED"

WorkInv ==
    /\ WorkTypeOK
    /\ {workers[w].ordinal : w \in Assigned} = 1 .. Cardinality(Assigned)
    /\ completedAt # 0 => Cardinality(Assigned) = completedAt /\ Completed

\* There are finitely many worker runs.
LEMMA AssignedSize == IsFiniteSet(Assigned) /\ Cardinality(Assigned) \in Nat /\ Assigned \subseteq Workers
<1>1. Assigned \subseteq Workers
  BY DEF Assigned
<1>2. IsFiniteSet(Assigned)
  BY <1>1, TrailInputs, FS_Subset
<1> QED BY <1>1, <1>2, FS_CardinalityType

\* AssignWorker: the item was not completed, and the run counts the runs before it.
LEMMA AssignWorkerStep ==
    ASSUME WorkInv, NEW w \in Workers, AssignWorker(w) PROVE WorkInv'
<1>1. PICK A : A = Assigned
  OBVIOUS
<1>2. PICK n \in Nat : n = Cardinality(A)
  BY <1>1, AssignedSize
<1>3. PICK row : row = [state |-> "QUEUED", ordinal |-> n + 1]
  OBVIOUS
<1>4. row \in WorkerRow /\ row.ordinal = n + 1
  BY <1>3 DEF WorkerRow, WorkerTransitions
<1>5. row # NoTrail
  BY <1>4, TrailInputs
<1>6. /\ workers' = [workers EXCEPT ![w] = row] /\ workers[w] = NoTrail /\ Reassignable
      /\ UNCHANGED <<workItem, hostAttempts, completedAt>>
  BY <1>1, <1>2, <1>3 DEF AssignWorker
<1>7. workers'[w] = row /\ \A x \in Workers \ {w} : workers'[x] = workers[x]
  BY <1>6 DEF WorkInv, WorkTypeOK
<1>8. Assigned' = A \cup {w} /\ w \notin A
  BY <1>1, <1>5, <1>6, <1>7 DEF Assigned
<1>9. Cardinality(A \cup {w}) = n + 1
  BY <1>1, <1>2, <1>8, AssignedSize, FS_AddElement
<1>10. WorkTypeOK'
  BY <1>4, <1>6 DEF WorkInv, WorkTypeOK
<1>11. {workers'[x].ordinal : x \in Assigned'} = 1 .. n + 1
  <2>1. A \subseteq Workers /\ {workers[x].ordinal : x \in A} = 1 .. n
    BY <1>1, <1>2, AssignedSize DEF WorkInv
  <2>2. {workers'[x].ordinal : x \in A} = 1 .. n
    BY <1>7, <1>8, <2>1
  <2>3. {workers'[x].ordinal : x \in A \cup {w}} = {workers'[x].ordinal : x \in A} \cup {n + 1}
    BY <1>4, <1>7
  <2>4. 1 .. n + 1 = (1 .. n) \cup {n + 1}
    OBVIOUS
  <2> QED BY <1>8, <2>2, <2>3, <2>4
<1>12. completedAt = 0
  BY <1>6 DEF WorkInv, Completed, Reassignable
<1> QED BY <1>6, <1>8, <1>9, <1>10, <1>11, <1>12 DEF WorkInv

\* SetWorkerState: a run that is over is not moved.
LEMMA SetWorkerStateStep ==
    ASSUME WorkInv, NEW w \in Workers, NEW s, SetWorkerState(w, s) PROVE WorkInv'
<1>1. w \in Assigned /\ workers[w] # NoTrail /\ workers[w] \in WorkerRow
  BY DEF SetWorkerState, Assigned, WorkInv, WorkTypeOK
<1>2. workers[w].state # "COMPLETED" /\ s \in DOMAIN WorkerTransitions \cup WorkerTerminal
  BY DEF SetWorkerState, WorkerTransitions, WorkerTerminal
<1>3. PICK row : row = [workers[w] EXCEPT !.state = s]
  OBVIOUS
<1>4. row \in WorkerRow /\ row.state = s /\ row.ordinal = workers[w].ordinal
  BY <1>1, <1>2, <1>3 DEF WorkerRow
<1>5. row # NoTrail
  BY <1>4, TrailInputs
<1>6. /\ workers' = [workers EXCEPT ![w] = row] /\ UNCHANGED <<workItem, hostAttempts>>
      /\ completedAt' = IF s = "COMPLETED" /\ completedAt = 0 THEN Cardinality(Assigned) ELSE completedAt
  BY <1>3 DEF SetWorkerState
<1>7. workers'[w] = row /\ \A x \in Workers \ {w} : workers'[x] = workers[x]
  BY <1>6 DEF WorkInv, WorkTypeOK
<1>8. Assigned' = Assigned
  BY <1>1, <1>5, <1>7 DEF Assigned
<1>9. WorkTypeOK'
  BY <1>4, <1>6, AssignedSize DEF WorkInv, WorkTypeOK
<1>10. \A x \in Assigned : workers'[x].ordinal = workers[x].ordinal
  BY <1>4, <1>7, AssignedSize
<1>11. {workers'[x].ordinal : x \in Assigned'} = 1 .. Cardinality(Assigned')
  BY <1>8, <1>10 DEF WorkInv
<1>12. Completed => Completed'
  BY <1>2, <1>7, <1>8, AssignedSize DEF Completed
<1>13. s = "COMPLETED" => Completed'
  BY <1>1, <1>4, <1>7, <1>8 DEF Completed
<1> QED BY <1>6, <1>8, <1>9, <1>11, <1>12, <1>13 DEF WorkInv

\* The attempts of the runs.
LEMMA AttemptStep ==
    ASSUME WorkInv, \/ \E a \in Attempts, w \in Workers : BeginAttempt(a, w)
                    \/ \E a \in Attempts, s \in AttemptTerminal : FinishAttempt(a, s)
    PROVE  WorkInv'
<1>1. UNCHANGED <<workItem, workers, completedAt>>
  BY DEF BeginAttempt, FinishAttempt
<1>2. hostAttempts' \in [Attempts -> AttemptRow \cup {NoTrail}]
  <2>1. ASSUME NEW a \in Attempts, NEW w \in Workers, BeginAttempt(a, w)
        PROVE  hostAttempts' \in [Attempts -> AttemptRow \cup {NoTrail}]
    <3>1. PICK B : B = {b \in Attempts : hostAttempts[b] # NoTrail /\ hostAttempts[b].worker = w}
      OBVIOUS
    <3>2. hostAttempts' = [hostAttempts EXCEPT ![a] = [worker |-> w, ordinal |-> Cardinality(B) + 1, state |-> "RUNNING"]]
      BY <2>1, <3>1 DEF BeginAttempt
    <3>3. Cardinality(B) \in Nat
      <4>1. IsFiniteSet(B)
        <5>1. B \subseteq Attempts
          BY <3>1
        <5> QED BY <5>1, TrailInputs, FS_Subset
      <4> QED BY <4>1, FS_CardinalityType
    <3>4. PICK r : r = [worker |-> w, ordinal |-> Cardinality(B) + 1, state |-> "RUNNING"]
      OBVIOUS
    <3>5. r \in AttemptRow
      BY <3>3, <3>4 DEF AttemptRow
    <3> QED BY <3>2, <3>4, <3>5 DEF WorkInv, WorkTypeOK
  <2>2. ASSUME NEW a \in Attempts, NEW s \in AttemptTerminal, FinishAttempt(a, s)
        PROVE  hostAttempts' \in [Attempts -> AttemptRow \cup {NoTrail}]
    <3>1. hostAttempts[a] \in AttemptRow
      BY <2>2 DEF FinishAttempt, WorkInv, WorkTypeOK
    <3>2. PICK r : r = [hostAttempts[a] EXCEPT !.state = s]
      OBVIOUS
    <3>3. r \in AttemptRow
      BY <3>1, <3>2 DEF AttemptRow
    <3>4. hostAttempts' = [hostAttempts EXCEPT ![a] = r]
      BY <2>2, <3>2 DEF FinishAttempt
    <3> QED BY <3>3, <3>4 DEF WorkInv, WorkTypeOK
  <2> QED BY <2>1, <2>2
<1>3. Assigned' = Assigned
  BY <1>1 DEF Assigned
<1> QED BY <1>1, <1>2, <1>3 DEF WorkInv, WorkTypeOK, Completed

\* Every step keeps the invariant.
LEMMA WorkStep == WorkInv /\ [WorkNext]_workVars => WorkInv'
<1> SUFFICES ASSUME WorkInv, [WorkNext]_workVars PROVE WorkInv'
  OBVIOUS
<1>1. CASE CreateWorkItem \/ UNCHANGED workVars
  <2>1. workItem' \in BOOLEAN /\ UNCHANGED <<workers, hostAttempts, completedAt>>
    BY <1>1 DEF CreateWorkItem, workVars, WorkInv, WorkTypeOK
  <2>2. Assigned' = Assigned
    BY <2>1 DEF Assigned
  <2> QED BY <2>1, <2>2 DEF WorkInv, WorkTypeOK, Completed
<1> QED BY <1>1, AssignWorkerStep, SetWorkerStateStep, AttemptStep DEF WorkNext

\* CompletedWorkStays, for every number of worker runs and attempts.
THEOREM CompletedWorkAlwaysStays == TrailSpec => []CompletedWorkStays
<1>1. TrailInit => WorkInv
  <2> SUFFICES ASSUME TrailInit PROVE WorkInv
    OBVIOUS
  <2>1. Assigned = {}
    BY DEF TrailInit, Assigned
  <2>2. Cardinality({}) = 0 /\ 1 .. 0 = {}
    BY FS_EmptySet
  <2> QED BY <2>1, <2>2 DEF TrailInit, WorkInv, WorkTypeOK
<1>2. WorkInv /\ [TrailNext]_trailVars => WorkInv'
  <2>1. [TrailNext]_trailVars => [WorkNext]_workVars
    BY DEF TrailNext, trailVars, StreamNext, LogNext, AppendActivity, Retain, Subscribe, DrainBacklog, SendFrame,
           Unsubscribe, CreateLog, AppendLog, BeginSeal, Materialize, RegisterLog, BindSealed, SealerDies
  <2> QED BY <2>1, WorkStep
<1>3. WorkInv => CompletedWorkStays
  <2> SUFFICES ASSUME WorkInv PROVE CompletedWorkStays
    OBVIOUS
  <2>1. Completed => AggregateState = "COMPLETED"
    BY DEF Completed, AggregateState
  <2> QED BY <2>1 DEF WorkInv, CompletedWorkStays
<1> QED BY <1>1, <1>2, <1>3, PTL DEF TrailSpec

-----------------------------------------------------------------------------
(* The public log *)

Covers(c, n) == c.offset <= n /\ n < c.offset + Len(c.data)

\* The chunks lie side by side from the first byte to the last.
ChunksFit ==
    /\ publicLog = NoTrail => chunks = {}
    /\ publicLog # NoTrail =>
          /\ \A c \in chunks : c.offset + Len(c.data) <= publicLog.bytes
          /\ \A n \in 0 .. (publicLog.bytes - 1) : \E c \in chunks : Covers(c, n)
          /\ \A n \in Nat : \A c, d \in chunks : Covers(c, n) /\ Covers(d, n) => c = d

\* A call that seals works on a log that no longer grows.
SealerFits(z) ==
    sealers[z] # NoTrail =>
        /\ publicLog # NoTrail /\ publicLog.state # "OPEN"
        /\ sealers[z].pc \in {"register", "bind"} => sealers[z].text = LogText
        /\ sealers[z].pc = "bind" => sealers[z].text \in logArtifact

SealedFits ==
    publicLog # NoTrail /\ publicLog.state = "SEALED" =>
        publicLog.artifact = LogText /\ publicLog.artifact \in logArtifact

LogInv == LogTypeOK /\ ChunksFit /\ SealedFits /\ \A z \in Sealers : SealerFits(z)

\* Every byte of the log is a byte.
LEMMA LogTextType ==
    ASSUME LogInv, publicLog # NoTrail
    PROVE  LogText \in Seq(LogBytes) /\ Len(LogText) = publicLog.bytes /\ publicLog.bytes \in Nat
<1>1. PICK b \in Nat : b = publicLog.bytes
  BY DEF LogInv, LogTypeOK, LogRow
<1>2. ASSUME NEW n \in 0 .. b - 1 PROVE ByteAt(n) \in LogBytes
  <2> DEFINE C == CHOOSE c \in chunks : Covers(c, n)
  <2>1. \E c \in chunks : Covers(c, n)
    BY <1>1 DEF LogInv, ChunksFit
  <2>2. C \in chunks /\ Covers(C, n)
    BY <2>1
  <2>3. ByteAt(n) = C.data[n - C.offset + 1]
    BY DEF ByteAt, Covers
  <2> HIDE DEF C
  <2>4. C.offset \in Nat /\ C.data \in Seq(LogBytes)
    BY <2>2 DEF LogInv, LogTypeOK, ChunkRow
  <2>5. n - C.offset + 1 \in 1 .. Len(C.data)
    BY <2>2, <2>4 DEF Covers
  <2>6. C.data[n - C.offset + 1] \in LogBytes
    BY <2>4, <2>5, ElementOfSeq
  <2> QED BY <2>3, <2>6
<1>3. LogText = [i \in 1 .. b |-> ByteAt(i - 1)]
  BY <1>1 DEF LogText
<1>4. \A i \in 1 .. b : ByteAt(i - 1) \in LogBytes
  <2> TAKE i \in 1 .. b
  <2>1. i - 1 \in 0 .. b - 1
    OBVIOUS
  <2> QED BY <1>2, <2>1
<1>5. LogText \in [1 .. b -> LogBytes]
  BY <1>3, <1>4
<1>6. LogText \in Seq(LogBytes) /\ Len(LogText) = b
  BY <1>5
<1> QED BY <1>1, <1>6

\* Nothing that the text depends on moves.
LEMMA LogTextStays ==
    ASSUME UNCHANGED chunks, publicLog'.bytes = publicLog.bytes PROVE LogText' = LogText
BY DEF LogText, ByteAt

\* One call moves while the log keeps its bytes.
LEMMA SealerMoves ==
    ASSUME LogInv, NEW z \in Sealers, NEW r \in SealerRow \cup {NoTrail}, sealers' = [sealers EXCEPT ![z] = r],
           UNCHANGED chunks, publicLog # NoTrail, publicLog' \in LogRow, publicLog'.bytes = publicLog.bytes,
           publicLog.state # "OPEN" => publicLog'.state # "OPEN",
           r # NoTrail => /\ publicLog'.state # "OPEN"
                          /\ r.pc \in {"register", "bind"} => r.text = LogText
                          /\ r.pc = "bind" => r.text \in logArtifact',
           logArtifact \subseteq logArtifact', logArtifact' \subseteq Seq(LogBytes),
           publicLog'.state = "SEALED" => publicLog'.artifact = LogText /\ publicLog'.artifact \in logArtifact'
    PROVE  LogInv'
<1>1. LogText' = LogText /\ publicLog' # NoTrail
  BY LogTextStays, TrailInputs
<1>2. sealers'[z] = r /\ \A x \in Sealers \ {z} : sealers'[x] = sealers[x]
  BY DEF LogInv, LogTypeOK
<1>3. LogTypeOK'
  BY DEF LogInv, LogTypeOK
<1>4. ChunksFit'
  BY <1>1 DEF LogInv, ChunksFit
<1>5. SealerFits(z)'
  BY <1>1, <1>2 DEF SealerFits
<1>6. \A x \in Sealers \ {z} : SealerFits(x)'
  BY <1>1, <1>2 DEF LogInv, SealerFits
<1>7. SealedFits'
  BY <1>1 DEF SealedFits
<1> QED BY <1>3, <1>4, <1>5, <1>6, <1>7 DEF LogInv

\* CreateLog
LEMMA CreateLogStep == ASSUME LogInv, CreateLog PROVE LogInv'
<1>1. PICK r : r = [state |-> "OPEN", bytes |-> 0, artifact |-> NoTrail]
  OBVIOUS
<1>2. r \in LogRow /\ r.bytes = 0 /\ r.state = "OPEN"
  BY <1>1 DEF LogRow
<1>3. publicLog = NoTrail /\ publicLog' = r /\ UNCHANGED <<chunks, sealers, logArtifact>>
  BY <1>1 DEF CreateLog
<1>4. chunks = {} /\ \A z \in Sealers : sealers[z] = NoTrail
  BY <1>3 DEF LogInv, ChunksFit, SealerFits
<1>5. LogTypeOK'
  BY <1>2, <1>3 DEF LogInv, LogTypeOK
<1>6. ChunksFit'
  BY <1>2, <1>3, <1>4, TrailInputs DEF ChunksFit
<1> QED BY <1>2, <1>3, <1>4, <1>5, <1>6 DEF LogInv, SealerFits, SealedFits

\* AppendLog: the new chunk begins where the log ended, and nobody seals.
LEMMA AppendLogStep ==
    ASSUME LogInv, NEW o \in 0 .. MaxLog, NEW data \in Seq(LogBytes), AppendLog(o, data) PROVE LogInv'
<1>1. PICK new : new = [offset |-> o, data |-> data]
  OBVIOUS
<1>2. publicLog # NoTrail /\ publicLog \in LogRow /\ publicLog.state = "OPEN" /\ o = publicLog.bytes
  BY DEF AppendLog, LogInv, LogTypeOK
<1>3. PICK k \in Nat : k = Len(data)
  BY LenProperties
<1>4. PICK m \in Nat : m = o + k
  BY TrailInputs
<1>5. PICK r : r = [publicLog EXCEPT !.bytes = m]
  OBVIOUS
<1>6. r \in LogRow /\ r.bytes = m /\ r.state = "OPEN"
  BY <1>2, <1>5 DEF LogRow
<1>7. r # NoTrail
  BY <1>6, TrailInputs
<1>8. chunks' = chunks \cup {new} /\ publicLog' = r /\ UNCHANGED <<sealers, logArtifact>>
  BY <1>1, <1>3, <1>4, <1>5 DEF AppendLog
<1>9. new \in ChunkRow /\ new.offset = o /\ new.data = data /\ Len(new.data) = k /\ o \in Nat
  BY <1>1, <1>3, TrailInputs DEF ChunkRow
<1>10. \A z \in Sealers : sealers[z] = NoTrail
  BY <1>2 DEF LogInv, SealerFits
<1>11. LogTypeOK'
  BY <1>6, <1>8, <1>9 DEF LogInv, LogTypeOK
<1>12. /\ \A c \in chunks : c.offset + Len(c.data) <= o /\ c.offset \in Nat /\ Len(c.data) \in Nat
       /\ \A n \in 0 .. (o - 1) : \E c \in chunks : Covers(c, n)
       /\ \A n \in Nat : \A c, d \in chunks : Covers(c, n) /\ Covers(d, n) => c = d
  <2>1. \A c \in chunks : c.offset \in Nat /\ c.data \in Seq(LogBytes)
    BY DEF LogInv, LogTypeOK, ChunkRow
  <2>2. \A c \in chunks : Len(c.data) \in Nat
    BY <2>1, LenProperties
  <2> QED BY <1>2, <2>1, <2>2 DEF LogInv, ChunksFit
<1>13. \A n \in Nat : Covers(new, n) <=> (o <= n /\ n < m)
  BY <1>4, <1>9 DEF Covers
<1>14. \A c \in chunks : \A n \in Nat : Covers(c, n) => n < o
  BY <1>9, <1>12 DEF Covers
<1>15. ChunksFit'
  <2>1. \A c \in chunks' : c.offset + Len(c.data) <= m
    BY <1>4, <1>8, <1>9, <1>12
  <2>2. ASSUME NEW n \in 0 .. (m - 1) PROVE \E c \in chunks' : Covers(c, n)
    <3>1. CASE n < o
      <4>1. n \in 0 .. (o - 1)
        BY <1>9, <3>1
      <4> QED BY <1>8, <1>12, <4>1
    <3>2. CASE o <= n
      <4>1. Covers(new, n)
        BY <1>13, <3>2
      <4> QED BY <1>8, <4>1
    <3> QED BY <1>9, <3>1, <3>2
  <2>3. ASSUME NEW n \in Nat, NEW c \in chunks', NEW d \in chunks', Covers(c, n), Covers(d, n) PROVE c = d
    <3>1. CASE c \in chunks /\ d \in chunks
      BY <1>12, <2>3, <3>1
    <3>2. CASE c = new /\ d = new
      BY <3>2
    <3>3. CASE c = new /\ d \in chunks
      <4>1. n < o /\ o <= n
        BY <1>13, <1>14, <2>3, <3>3
      <4> QED BY <1>9, <4>1
    <3>4. CASE c \in chunks /\ d = new
      <4>1. n < o /\ o <= n
        BY <1>13, <1>14, <2>3, <3>4
      <4> QED BY <1>9, <4>1
    <3> QED BY <1>8, <3>1, <3>2, <3>3, <3>4
  <2>4. publicLog' # NoTrail /\ publicLog'.bytes = m
    BY <1>6, <1>7, <1>8
  <2> QED BY <2>1, <2>2, <2>3, <2>4 DEF ChunksFit, Covers
<1> QED BY <1>6, <1>8, <1>10, <1>11, <1>15 DEF LogInv, SealerFits, SealedFits

\* The steps of a call that seals.
LEMMA SealStep ==
    ASSUME LogInv, NEW z \in Sealers,
           BeginSeal(z) \/ Materialize(z) \/ RegisterLog(z) \/ BindSealed(z) \/ SealerDies(z)
    PROVE  LogInv'
<1>1. CASE BeginSeal(z)
  <2>1. publicLog # NoTrail /\ publicLog \in LogRow /\ publicLog.state \in {"OPEN", "SEALING"}
    BY <1>1 DEF BeginSeal, LogInv, LogTypeOK
  <2>2. PICK p : p = [publicLog EXCEPT !.state = "SEALING"]
    OBVIOUS
  <2>3. p \in LogRow /\ p.bytes = publicLog.bytes /\ p.state = "SEALING"
    BY <2>1, <2>2 DEF LogRow
  <2>4. PICK t : t = << >>
    OBVIOUS
  <2>5. t \in Seq(LogBytes)
    BY <2>4
  <2>6. PICK r : r = [pc |-> "spool", bytes |-> publicLog.bytes, text |-> t]
    OBVIOUS
  <2>7. r \in SealerRow /\ r.pc = "spool"
    <3>1. publicLog.bytes \in Nat
      BY <2>1 DEF LogRow
    <3> QED BY <2>5, <2>6, <3>1 DEF SealerRow
  <2>8. publicLog' = p /\ sealers' = [sealers EXCEPT ![z] = r] /\ UNCHANGED <<chunks, logArtifact>>
    BY <1>1, <2>2, <2>4, <2>6 DEF BeginSeal
  <2>9. logArtifact' \subseteq Seq(LogBytes)
    BY <2>8 DEF LogInv, LogTypeOK
  <2> QED BY <2>1, <2>3, <2>7, <2>8, <2>9, SealerMoves
<1>2. CASE Materialize(z)
  <2>1. sealers[z] # NoTrail /\ sealers[z] \in SealerRow
    BY <1>2 DEF Materialize, SealerAt, LogInv, LogTypeOK
  <2>2. publicLog # NoTrail /\ publicLog.state # "OPEN" /\ publicLog \in LogRow
    BY <2>1 DEF LogInv, SealerFits, LogTypeOK
  <2>3. PICK t \in Seq(LogBytes) : t = LogText
    BY <2>2, LogTextType
  <2>4. PICK r : r = [sealers[z] EXCEPT !.pc = "register", !.text = t]
    OBVIOUS
  <2>5. r \in SealerRow /\ r.pc = "register" /\ r.text = t
    BY <2>1, <2>4 DEF SealerRow
  <2>6. sealers' = [sealers EXCEPT ![z] = r] /\ UNCHANGED <<publicLog, chunks, logArtifact>>
    BY <1>2, <2>3, <2>4 DEF Materialize
  <2>7. logArtifact' \subseteq Seq(LogBytes) /\ (publicLog.state = "SEALED" => publicLog.artifact = LogText /\ publicLog.artifact \in logArtifact)
    BY <2>2, <2>6 DEF LogInv, LogTypeOK, SealedFits
  <2> QED BY <2>2, <2>3, <2>5, <2>6, <2>7, SealerMoves
<1>3. CASE RegisterLog(z)
  <2>1. sealers[z] # NoTrail /\ sealers[z] \in SealerRow /\ sealers[z].pc = "register"
    BY <1>3 DEF RegisterLog, SealerAt, LogInv, LogTypeOK
  <2>2. publicLog # NoTrail /\ publicLog.state # "OPEN" /\ publicLog \in LogRow /\ sealers[z].text = LogText
    BY <2>1 DEF LogInv, SealerFits, LogTypeOK
  <2>3. PICK r : r = [sealers[z] EXCEPT !.pc = "bind"]
    OBVIOUS
  <2>4. r \in SealerRow /\ r.pc = "bind" /\ r.text = LogText /\ r.text \in Seq(LogBytes)
    BY <2>1, <2>2, <2>3 DEF SealerRow
  <2>5. /\ sealers' = [sealers EXCEPT ![z] = r] /\ UNCHANGED <<publicLog, chunks>>
        /\ logArtifact' = logArtifact \cup {LogText}
    BY <1>3, <2>2, <2>3 DEF RegisterLog
  <2>6. logArtifact' \subseteq Seq(LogBytes) /\ (publicLog.state = "SEALED" => publicLog.artifact = LogText /\ publicLog.artifact \in logArtifact)
    BY <2>2, <2>4, <2>5 DEF LogInv, LogTypeOK, SealedFits
  <2> QED BY <2>2, <2>4, <2>5, <2>6, SealerMoves
<1>4. CASE BindSealed(z)
  <2>1. sealers[z] # NoTrail /\ sealers[z] \in SealerRow /\ sealers[z].pc = "bind"
    BY <1>4 DEF BindSealed, SealerAt, LogInv, LogTypeOK
  <2>2. /\ publicLog # NoTrail /\ publicLog \in LogRow
        /\ sealers[z].text = LogText /\ sealers[z].text \in logArtifact /\ sealers[z].text \in Seq(LogBytes)
    BY <2>1 DEF LogInv, SealerFits, LogTypeOK, SealerRow
  <2>3. sealers' = [sealers EXCEPT ![z] = NoTrail] /\ UNCHANGED <<chunks, logArtifact>> /\ logArtifact' \subseteq Seq(LogBytes)
    BY <1>4 DEF BindSealed, LogInv, LogTypeOK
  <2>4. CASE publicLog' = [publicLog EXCEPT !.state = "SEALED", !.artifact = sealers[z].text]
    <3>1. publicLog' \in LogRow /\ publicLog'.bytes = publicLog.bytes /\ publicLog'.state = "SEALED" /\ publicLog'.artifact = LogText
      BY <2>2, <2>4 DEF LogRow
    <3> QED BY <2>2, <2>3, <3>1, SealerMoves
  <2>5. CASE publicLog.state = "SEALED" /\ UNCHANGED publicLog
    <3>1. publicLog.artifact = LogText /\ publicLog.artifact \in logArtifact
      BY <2>2, <2>5 DEF LogInv, SealedFits
    <3> QED BY <2>2, <2>3, <2>5, <3>1, SealerMoves
  <2> QED BY <1>4, <2>4, <2>5 DEF BindSealed
<1>5. CASE SealerDies(z)
  <2>1. sealers[z] # NoTrail /\ sealers' = [sealers EXCEPT ![z] = NoTrail] /\ UNCHANGED <<publicLog, chunks, logArtifact>>
    BY <1>5 DEF SealerDies
  <2>2. publicLog # NoTrail /\ publicLog \in LogRow /\ logArtifact' \subseteq Seq(LogBytes)
    BY <2>1 DEF LogInv, SealerFits, LogTypeOK
  <2>3. publicLog.state = "SEALED" => publicLog.artifact = LogText /\ publicLog.artifact \in logArtifact
    BY <2>2 DEF LogInv, SealedFits
  <2> QED BY <2>1, <2>2, <2>3, SealerMoves
<1> QED BY <1>1, <1>2, <1>3, <1>4, <1>5

\* Every step keeps the invariant.
LEMMA LogStep == LogInv /\ [LogNext]_logVars => LogInv'
<1> SUFFICES ASSUME LogInv, [LogNext]_logVars PROVE LogInv'
  OBVIOUS
<1>1. CASE UNCHANGED logVars
  <2>1. UNCHANGED <<publicLog, chunks, sealers, logArtifact>>
    BY <1>1 DEF logVars
  <2>2. LogText' = LogText
    BY <2>1, LogTextStays
  <2>3. LogTypeOK' /\ ChunksFit'
    BY <2>1 DEF LogInv, LogTypeOK, ChunksFit, Covers
  <2>4. SealedFits' /\ \A z \in Sealers : SealerFits(z)'
    BY <2>1, <2>2 DEF LogInv, SealedFits, SealerFits
  <2> QED BY <2>3, <2>4 DEF LogInv
<1>2. ASSUME NEW o \in 0 .. MaxLog, NEW data \in UNION {[1 .. n -> LogBytes] : n \in {1, 2}}, AppendLog(o, data)
      PROVE  LogInv'
  <2>1. data \in Seq(LogBytes)
    <3>1. PICK n \in {1, 2} : data \in [1 .. n -> LogBytes]
      OBVIOUS
    <3>2. n \in Nat
      OBVIOUS
    <3> QED BY <3>1, <3>2, SeqDef
  <2> QED BY <1>2, <2>1, AppendLogStep
<1> QED BY <1>1, <1>2, CreateLogStep, SealStep DEF LogNext

\* The invariant of the log says what the property says.
LEMMA LogInvImplies == LogInv => SealedLogIsTheLog
<1> SUFFICES ASSUME LogInv PROVE SealedLogIsTheLog
  OBVIOUS
<1>1. LogTypeOK
  BY DEF LogInv
<1>2. ASSUME publicLog # NoTrail, NEW n \in 0 .. (publicLog.bytes - 1)
      PROVE  Cardinality({c \in chunks : c.offset <= n /\ n < c.offset + Len(c.data)}) = 1
  <2>1. n \in Nat
    BY <1>2, LogTextType
  <2>2. PICK c \in chunks : Covers(c, n)
    BY <1>2 DEF LogInv, ChunksFit
  <2>3. {d \in chunks : Covers(d, n)} = {c}
    BY <1>2, <2>1, <2>2 DEF LogInv, ChunksFit
  <2>4. {d \in chunks : d.offset <= n /\ n < d.offset + Len(d.data)} = {c}
    BY <2>3 DEF Covers
  <2>5. Cardinality({c}) = 1
    BY FS_Singleton
  <2> QED BY <2>4, <2>5
<1>3. ASSUME publicLog # NoTrail, publicLog.state = "SEALED", NEW i \in 0 .. publicLog.bytes, NEW j \in i .. publicLog.bytes
      PROVE  TailOf(i, j) = SubSeq(publicLog.artifact, i + 1, j)
  <2>1. PICK b \in Nat : b = publicLog.bytes
    BY <1>3, LogTextType
  <2>2. PICK t \in Seq(LogBytes) : t = LogText /\ Len(t) = b
    BY <1>3, <2>1, LogTextType
  <2>3. publicLog.artifact = t
    BY <1>3, <2>2 DEF LogInv, SealedFits
  <2>4. i \in 0 .. b /\ j \in i .. b /\ i + 1 \in 1 .. Len(t) + 1 /\ j \in i .. Len(t)
    BY <2>1, <2>2
  <2>5. \A k \in 1 .. b : t[k] = ByteAt(k - 1)
    BY <2>1, <2>2 DEF LogText
  <2>6. SubSeq(t, i + 1, j) = [k \in 1 .. (j - i) |-> t[k + i]]
    BY <2>2, <2>4
  <2>7. ASSUME NEW k \in 1 .. (j - i) PROVE t[k + i] = ByteAt(i + k - 1)
    <3>1. k + i \in 1 .. b /\ (k + i) - 1 = i + k - 1
      BY <2>4
    <3> QED BY <2>5, <3>1
  <2>8. TailOf(i, j) = [k \in 1 .. (j - i) |-> ByteAt(i + k - 1)]
    BY DEF TailOf
  <2> QED BY <2>3, <2>6, <2>7, <2>8
<1> QED BY <1>1, <1>2, <1>3 DEF SealedLogIsTheLog, LogInv, SealedFits

-----------------------------------------------------------------------------
(* The activity ledger and its subscribers *)

\* An increasing sequence followed by a later one.
LEMMA ConcatInOrder ==
    ASSUME NEW u \in Seq(Nat), NEW v \in Seq(Nat), NEW c \in Nat, Increasing(u), Increasing(v),
           \A x \in ValuesOf(u) : x <= c, \A x \in ValuesOf(v) : c < x
    PROVE  /\ u \o v \in Seq(Nat) /\ Increasing(u \o v)
           /\ ValuesOf(u \o v) = ValuesOf(u) \cup ValuesOf(v)
<1>1. PICK m \in Nat : m = Len(u)
  BY LenProperties
<1>2. PICK n \in Nat : n = Len(v)
  BY LenProperties
<1>3. PICK w \in Seq(Nat) : w = u \o v
  BY ConcatProperties
<1>4. /\ Len(w) = m + n /\ \A i \in 1 .. m : w[i] = u[i] /\ u[i] \in Nat
      /\ \A i \in 1 .. n : w[m + i] = v[i] /\ v[i] \in Nat
  <2>1. /\ Len(w) = m + n /\ \A i \in 1 .. m + n : w[i] = IF i <= m THEN u[i] ELSE v[i - m]
    BY <1>1, <1>2, <1>3, ConcatProperties
  <2>2. \A i \in 1 .. m : w[i] = u[i]
    BY <2>1
  <2>3. \A i \in 1 .. n : m + i \in 1 .. m + n /\ ~(m + i <= m) /\ (m + i) - m = i
    OBVIOUS
  <2>4. \A i \in 1 .. n : w[m + i] = v[i]
    BY <2>1, <2>3
  <2>5. (\A i \in 1 .. m : u[i] \in Nat) /\ (\A i \in 1 .. n : v[i] \in Nat)
    BY <1>1, <1>2, ElementOfSeq
  <2> QED BY <2>1, <2>2, <2>4, <2>5
<1>5. \A i \in 1 .. m + n : i \in 1 .. m \/ \E k \in 1 .. n : i = m + k
  <2> TAKE i \in 1 .. m + n
  <2>1. CASE i <= m
    BY <2>1
  <2>2. CASE i > m
    <3>1. i - m \in 1 .. n /\ i = m + (i - m)
      BY <2>2
    <3> QED BY <3>1
  <2> QED BY <2>1, <2>2
<1>6. ValuesOf(w) = ValuesOf(u) \cup ValuesOf(v)
  <2>1. ASSUME NEW x \in ValuesOf(w) PROVE x \in ValuesOf(u) \cup ValuesOf(v)
    <3>1. PICK i \in 1 .. m + n : x = w[i]
      BY <1>4 DEF ValuesOf
    <3>2. CASE i \in 1 .. m
      BY <1>1, <1>4, <3>1, <3>2 DEF ValuesOf
    <3>3. CASE \E k \in 1 .. n : i = m + k
      <4>1. PICK k \in 1 .. n : i = m + k
        BY <3>3
      <4>2. x = v[k]
        BY <1>4, <3>1, <4>1
      <4> QED BY <1>2, <4>2 DEF ValuesOf
    <3> QED BY <1>5, <3>2, <3>3
  <2>2. ASSUME NEW x \in ValuesOf(u) PROVE x \in ValuesOf(w)
    <3>1. PICK i \in 1 .. m : x = u[i]
      BY <1>1 DEF ValuesOf
    <3>2. i \in 1 .. m + n
      OBVIOUS
    <3> QED BY <1>4, <3>1, <3>2 DEF ValuesOf
  <2>3. ASSUME NEW x \in ValuesOf(v) PROVE x \in ValuesOf(w)
    <3>1. PICK i \in 1 .. n : x = v[i]
      BY <1>2 DEF ValuesOf
    <3>2. m + i \in 1 .. m + n
      OBVIOUS
    <3> QED BY <1>4, <3>1, <3>2 DEF ValuesOf
  <2> QED BY <2>1, <2>2, <2>3
<1>7. (\A i \in 1 .. m : u[i] <= c) /\ (\A i \in 1 .. n : c < v[i])
  BY <1>1, <1>2 DEF ValuesOf
<1>8. ASSUME NEW j \in 1 .. m + n, NEW k \in 1 .. m + n, j < k PROVE w[j] < w[k]
  <2>1. CASE k <= m
    <3>1. j \in 1 .. m /\ k \in 1 .. m
      BY <1>8, <2>1
    <3>2. u[j] < u[k]
      BY <1>1, <1>8, <3>1 DEF Increasing
    <3> QED BY <1>4, <3>1, <3>2
  <2>2. CASE j <= m /\ m < k
    <3>1. PICK b \in 1 .. n : k = m + b
      BY <1>5, <2>2
    <3>2. w[j] = u[j] /\ u[j] \in Nat /\ w[k] = v[b] /\ v[b] \in Nat /\ u[j] <= c /\ c < v[b]
      BY <1>4, <1>7, <2>2, <3>1, SMTT(30)
    <3> QED BY <3>2, SMTT(30)
  <2>3. CASE m < j
    <3>1. PICK a \in 1 .. n : j = m + a
      BY <1>5, <2>3
    <3>2. PICK b \in 1 .. n : k = m + b
      BY <1>5, <1>8, <2>3
    <3>3. a < b
      BY <1>8, <3>1, <3>2
    <3>4. v[a] < v[b]
      BY <1>2, <3>3 DEF Increasing
    <3> QED BY <1>4, <3>1, <3>2, <3>4
  <2> QED BY <1>8, <2>1, <2>2, <2>3
<1>9. Increasing(w)
  BY <1>4, <1>8 DEF Increasing
<1> QED BY <1>3, <1>6, <1>9

\* There is a page after every cursor, by induction over the rows that are looked at.
LEMMA PageExists ==
    ASSUME ledger \in Seq(Runs), NEW c \in 0 .. Len(ledger)
    PROVE  /\ PageAfter(c) \in Seq(Nat) /\ Len(PageAfter(c)) <= PageSize
           /\ IsPage(PageAfter(c), c, Len(ledger))
<1>1. PICK N \in Nat : N = Len(ledger)
  BY LenProperties
<1>2. c \in Nat /\ c <= N /\ PageSize \in Nat /\ PageSize > 0
  BY <1>1, TrailInputs
<1>3. PICK n \in Nat : n = N - c
  BY <1>2
<1> DEFINE Short(p, end) == Len(p) <= PageSize /\ IsPage(p, c, end)
           S == {k \in 0 .. n : \E p \in Seq(Nat) : Short(p, c + k)}
<1>4. 0 \in S
  <2>1. PICK p \in Seq(Nat) : Len(p) = 0
    <3>1. << >> \in Seq(Nat) /\ Len(<< >>) = 0
      OBVIOUS
    <3> QED BY <3>1
  <2>2. RunRows(c, c + 0) = {}
    BY <1>2 DEF RunRows
  <2>3. ValuesOf(p) = {} /\ Increasing(p)
    BY <2>1 DEF ValuesOf, Increasing
  <2>4. Short(p, c + 0)
    BY <1>2, <2>1, <2>2, <2>3 DEF IsPage
  <2> HIDE DEF Short
  <2> QED BY <2>4
<1>5. ASSUME NEW k \in 0 .. n - 1, k \in S PROVE k + 1 \in S
  <2>1. PICK p \in Seq(Nat) : Short(p, c + k)
    BY <1>5
  <2>2. PICK e \in Nat : e = c + k
    BY <1>2
  <2>3. PICK i \in Nat : i = e + 1
    BY <2>2
  <2>4. c + (k + 1) = i /\ k + 1 \in 0 .. n
    BY <1>2, <2>2, <2>3
  <2>5. RunRows(c, i) = RunRows(c, e) \cup (IF ledger[i] = Watched THEN {i} ELSE {})
    BY <1>2, <2>2, <2>3 DEF RunRows
  <2>6. \A x \in RunRows(c, e) : x \in Nat /\ x < i
    BY <1>2, <2>2, <2>3 DEF RunRows
  <2>7. /\ Len(p) \in Nat /\ Len(p) <= PageSize /\ Increasing(p) /\ ValuesOf(p) \subseteq RunRows(c, e)
        /\ \A x \in RunRows(c, e) : x \in ValuesOf(p) \/ (Len(p) = PageSize /\ p[PageSize] < x)
    BY <2>1, <2>2, LenProperties DEF IsPage
  <2> SUFFICES \E q \in Seq(Nat) : Len(q) <= PageSize /\ IsPage(q, c, i)
    BY <2>4
  <2>8. CASE ledger[i] # Watched
    <3>1. RunRows(c, i) = RunRows(c, e)
      BY <2>5, <2>8
    <3>2. IsPage(p, c, i)
      BY <2>7, <3>1 DEF IsPage
    <3> QED BY <2>7, <3>2
  <2>9. CASE ledger[i] = Watched /\ Len(p) = PageSize
    <3>1. RunRows(c, i) = RunRows(c, e) \cup {i}
      BY <2>5, <2>9
    <3>2. p[PageSize] \in ValuesOf(p)
      BY <1>2, <2>9 DEF ValuesOf
    <3>3. p[PageSize] < i
      BY <2>6, <2>7, <3>2
    <3>4. IsPage(p, c, i)
      BY <2>7, <2>9, <3>1, <3>3 DEF IsPage
    <3> QED BY <2>7, <3>4
  <2>10. CASE ledger[i] = Watched /\ Len(p) # PageSize
    <3>1. RunRows(c, i) = RunRows(c, e) \cup {i}
      BY <2>5, <2>10
    <3>2. PICK m \in Nat : m = Len(p)
      BY LenProperties
    <3>3. PICK q \in Seq(Nat) : q = Append(p, i)
      BY AppendProperties
    <3>4. Len(q) = m + 1 /\ (\A j \in 1 .. m : q[j] = p[j]) /\ q[m + 1] = i
      BY <3>2, <3>3, AppendProperties
    <3>5. \A j \in 1 .. m : p[j] \in Nat /\ p[j] < i
      BY <2>6, <2>7, <3>2 DEF ValuesOf
    <3>6. Len(q) = Len(p) + 1
      BY <3>2, <3>4
    <3>7. Increasing(q) /\ ValuesOf(q) = ValuesOf(p) \cup {i}
      <4>1. ASSUME NEW j \in 1 .. m + 1, NEW l \in 1 .. m + 1, j < l PROVE q[j] < q[l]
        <5>1. j \in 1 .. m
          BY <4>1
        <5>2. CASE l = m + 1
          BY <3>4, <3>5, <5>1, <5>2
        <5>3. CASE l # m + 1
          <6>1. l \in 1 .. m
            BY <5>3
          <6>2. p[j] < p[l]
            BY <2>7, <3>2, <4>1, <5>1, <6>1 DEF Increasing
          <6> QED BY <3>4, <5>1, <6>1, <6>2
        <5> QED BY <5>2, <5>3
      <4>2. 1 .. m + 1 = (1 .. m) \cup {m + 1}
        OBVIOUS
      <4>3. ValuesOf(q) = {q[j] : j \in 1 .. m} \cup {i}
        BY <3>4, <4>2 DEF ValuesOf
      <4>4. {q[j] : j \in 1 .. m} = ValuesOf(p)
        BY <3>2, <3>4 DEF ValuesOf
      <4> QED BY <3>4, <4>1, <4>3, <4>4 DEF Increasing
    <3>8. IsPage(q, c, i)
      BY <2>7, <2>10, <3>1, <3>7 DEF IsPage
    <3>9. Len(q) <= PageSize
      BY <1>2, <2>7, <2>10, <3>6
    <3> QED BY <3>8, <3>9
  <2> QED BY <2>8, <2>9, <2>10
<1>6. n \in S
  <2>1. \A k \in 0 .. n - 1 : k \in S => k + 1 \in S
    BY <1>5
  <2>2. \A k \in 0 .. n : k \in S
    <3> HIDE DEF S
    <3> QED BY <1>4, <2>1, InductionUpTo
  <2> QED BY <1>3, <2>2
<1>7. PICK p \in Seq(Nat) : Len(p) <= PageSize /\ IsPage(p, c, Len(ledger))
  <2>1. c + n = Len(ledger)
    BY <1>1, <1>2, <1>3
  <2> QED BY <1>6, <2>1
<1> DEFINE Choices == UNION {[1 .. m -> (c + 1) .. Len(ledger)] : m \in 0 .. PageSize}
<1>8. p \in Choices
  <2>1. PICK m \in 0 .. PageSize : m = Len(p)
    BY <1>2, <1>7, LenProperties
  <2>2. \A j \in 1 .. m : p[j] \in (c + 1) .. Len(ledger)
    BY <1>7, <2>1 DEF IsPage, ValuesOf, RunRows
  <2>3. p \in [1 .. m -> (c + 1) .. Len(ledger)]
    BY <2>1, <2>2, LenProperties
  <2> QED BY <2>3
<1>9. PageAfter(c) \in Choices /\ IsPage(PageAfter(c), c, Len(ledger))
  <2> HIDE DEF Choices
  <2>1. PageAfter(c) = CHOOSE q \in Choices : IsPage(q, c, Len(ledger))
    BY DEF PageAfter, Choices
  <2> QED BY <1>7, <1>8, <2>1
<1>10. PICK m \in 0 .. PageSize : PageAfter(c) \in [1 .. m -> (c + 1) .. Len(ledger)]
  BY <1>9
<1>11. PageAfter(c) \in [1 .. m -> Nat] /\ m \in Nat
  <2>1. (c + 1) .. Len(ledger) \subseteq Nat
    BY <1>1, <1>2
  <2> QED BY <1>2, <1>10, <2>1
<1>12. PageAfter(c) \in Seq(Nat) /\ Len(PageAfter(c)) = m
  <2>1. PICK q : q = PageAfter(c)
    OBVIOUS
  <2>2. q \in Seq(Nat) /\ Len(q) = m
    BY <1>11, <2>1
  <2> QED BY <2>1, <2>2
<1> QED BY <1>2, <1>9, <1>12

\* The frames of a subscriber, sent and about to be sent, are the run's rows up to where
\* the ledger has been looked through.
Sent(s) == received[s] \o (IF streams[s] = NoTrail THEN << >> ELSE streams[s].page)
Scanned(s) == IF streams[s] = NoTrail THEN LastReceived(s) ELSE streams[s].cursor
RowsUpTo(u, c) == c \in 0 .. Len(ledger) /\ Increasing(u) /\ ValuesOf(u) = RunRows(0, c)
OpenStreams == {s \in Subscribers : streams[s] # NoTrail}
StreamInv ==
    /\ StreamTypeOK /\ Len(ledger) <= MaxEvents
    /\ slots = MaxSubscriptions - Cardinality(OpenStreams)
    /\ \A s \in Subscribers : RowsUpTo(Sent(s), Scanned(s))

\* Reading a page after the cursor extends the rows a subscriber has been given.
LEMMA PageExtends ==
    ASSUME ledger \in Seq(Runs), NEW u \in Seq(Nat), NEW c, RowsUpTo(u, c), NEW d,
           d = IF ScannedThrough(c) > c THEN ScannedThrough(c) ELSE c
    PROVE  u \o PageAfter(c) \in Seq(Nat) /\ RowsUpTo(u \o PageAfter(c), d)
<1>1. PICK N \in Nat : N = Len(ledger)
  BY LenProperties
<1>2. c \in 0 .. Len(ledger) /\ c \in Nat /\ c <= N /\ PageSize \in Nat /\ PageSize > 0
  BY <1>1, TrailInputs DEF RowsUpTo
<1>3. PICK p \in Seq(Nat) : p = PageAfter(c) /\ Len(p) <= PageSize /\ IsPage(p, c, N)
  BY <1>1, <1>2, PageExists
<1>4. Len(p) \in Nat /\ Increasing(p) /\ Increasing(u) /\ ValuesOf(u) = RunRows(0, c)
  BY <1>3, LenProperties DEF IsPage, RowsUpTo
<1>5. d \in c .. N /\ ValuesOf(p) = RunRows(c, d)
  <2>1. CASE Len(p) = PageSize
    <3>1. PICK t : t = p[PageSize]
      OBVIOUS
    <3>2. t \in ValuesOf(p)
      BY <1>2, <2>1, <3>1 DEF ValuesOf
    <3>3. t \in (c + 1) .. N
      BY <1>3, <3>2 DEF IsPage, RunRows
    <3>4. d = t
      BY <1>2, <1>3, <2>1, <3>1, <3>3 DEF ScannedThrough
    <3>5. ASSUME NEW x \in ValuesOf(p) PROVE x \in RunRows(c, t)
      <4>1. PICK k \in 1 .. PageSize : x = p[k]
        BY <2>1 DEF ValuesOf
      <4>2. x \in (c + 1) .. N /\ ledger[x] = Watched
        BY <1>3 DEF IsPage, RunRows
      <4>3. k = PageSize \/ p[k] < p[PageSize]
        BY <1>2, <1>4, <2>1 DEF Increasing
      <4>4. x <= t
        BY <3>1, <3>3, <4>1, <4>2, <4>3
      <4> QED BY <1>2, <3>3, <4>2, <4>4 DEF RunRows
    <3>6. ASSUME NEW x \in RunRows(c, t) PROVE x \in ValuesOf(p)
      <4>1. x \in (c + 1) .. N /\ x <= t /\ ledger[x] = Watched
        BY <1>2, <3>3, <3>6 DEF RunRows
      <4>2. x \in ValuesOf(p) \/ t < x
        BY <1>3, <3>1, <4>1 DEF IsPage, RunRows
      <4> QED BY <1>2, <3>3, <4>1, <4>2
    <3> QED BY <1>2, <3>3, <3>4, <3>5, <3>6
  <2>2. CASE Len(p) # PageSize
    <3>1. d = N
      BY <1>1, <1>2, <1>3, <2>2 DEF ScannedThrough
    <3>2. ValuesOf(p) = RunRows(c, N)
      BY <1>3, <2>2 DEF IsPage
    <3> QED BY <1>2, <3>1, <3>2
  <2> QED BY <2>1, <2>2
<1>6. (\A x \in ValuesOf(u) : x <= c) /\ (\A x \in ValuesOf(p) : c < x)
  BY <1>2, <1>4, <1>5 DEF RunRows
<1>7. PICK w \in Seq(Nat) : w = u \o p
  BY ConcatProperties
<1>8. Increasing(w) /\ ValuesOf(w) = RunRows(0, c) \cup RunRows(c, d)
  BY <1>2, <1>4, <1>5, <1>6, <1>7, ConcatInOrder
<1>9. RunRows(0, c) \cup RunRows(c, d) = RunRows(0, d)
  BY <1>2, <1>5 DEF RunRows
<1>10. d \in 0 .. Len(ledger)
  BY <1>1, <1>2, <1>5
<1> QED BY <1>3, <1>7, <1>8, <1>9, <1>10 DEF RowsUpTo

\* What was received before the connection was lost is the rows up to the last of it.
LEMMA ReceivedFits ==
    ASSUME ledger \in Seq(Runs), NEW u \in Seq(Nat), NEW v \in Seq(Nat), NEW c, RowsUpTo(u \o v, c),
           NEW d, d = IF u = << >> THEN 0 ELSE u[Len(u)]
    PROVE  RowsUpTo(u, d)
<1>1. PICK N \in Nat : N = Len(ledger)
  BY LenProperties
<1>2. PICK m \in Nat, n \in Nat : m = Len(u) /\ n = Len(v)
  BY LenProperties
<1>3. PICK w \in Seq(Nat) : w = u \o v
  BY ConcatProperties
<1>4. Len(w) = m + n /\ \A i \in 1 .. m : w[i] = u[i]
  <2>1. Len(w) = m + n /\ \A i \in 1 .. m + n : w[i] = IF i <= m THEN u[i] ELSE v[i - m]
    BY <1>2, <1>3, ConcatProperties
  <2> QED BY <2>1
<1>5. c \in 0 .. N /\ Increasing(w) /\ ValuesOf(w) = RunRows(0, c)
  BY <1>1, <1>3 DEF RowsUpTo
<1>6. Increasing(u)
  <2>1. ASSUME NEW j \in 1 .. m, NEW k \in 1 .. m, j < k PROVE u[j] < u[k]
    <3>1. j \in 1 .. m + n /\ k \in 1 .. m + n
      OBVIOUS
    <3>2. w[j] < w[k]
      BY <1>4, <1>5, <2>1, <3>1 DEF Increasing
    <3> QED BY <1>4, <3>2
  <2> QED BY <1>2, <2>1 DEF Increasing
<1>7. CASE m = 0
  <2>1. u = << >>
    BY <1>2, <1>7, EmptySeq
  <2>2. d = 0 /\ RunRows(0, 0) = {}
    BY <2>1 DEF RunRows
  <2>3. ValuesOf(u) = {}
    BY <1>2, <1>7 DEF ValuesOf
  <2> QED BY <1>1, <1>6, <2>2, <2>3 DEF RowsUpTo
<1>8. CASE m # 0
  <2>1. u # << >>
    BY <1>2, <1>8
  <2>2. m \in 1 .. m /\ m \in 1 .. m + n
    BY <1>8
  <2>3. d = w[m]
    BY <1>2, <1>4, <2>1, <2>2
  <2>4. d \in RunRows(0, c)
    BY <1>4, <1>5, <2>2, <2>3 DEF ValuesOf
  <2>5. d \in 1 .. c
    BY <1>5, <2>4 DEF RunRows
  <2>6. ASSUME NEW x \in ValuesOf(u) PROVE x \in RunRows(0, d)
    <3>1. PICK k \in 1 .. m : x = w[k]
      BY <1>2, <1>4 DEF ValuesOf
    <3>2. k \in 1 .. m + n
      OBVIOUS
    <3>3. x \in 1 .. c /\ ledger[x] = Watched
      <4>1. x \in RunRows(0, c)
        BY <1>4, <1>5, <3>1, <3>2 DEF ValuesOf
      <4> QED BY <1>5, <4>1 DEF RunRows
    <3>4. k = m \/ w[k] < w[m]
      BY <1>4, <1>5, <2>2, <3>2 DEF Increasing
    <3>5. x <= d
      BY <1>5, <2>3, <2>5, <3>1, <3>3, <3>4
    <3> QED BY <1>5, <2>5, <3>3, <3>5 DEF RunRows
  <2>7. ASSUME NEW x \in RunRows(0, d) PROVE x \in ValuesOf(u)
    <3>1. x \in 1 .. c /\ x <= d /\ ledger[x] = Watched
      BY <1>5, <2>5, <2>7 DEF RunRows
    <3>2. PICK k \in 1 .. m + n : x = w[k]
      <4>1. x \in ValuesOf(w)
        BY <1>5, <3>1 DEF RunRows
      <4> QED BY <1>4, <4>1 DEF ValuesOf
    <3>3. m < k => w[m] < w[k]
      BY <1>4, <1>5, <2>2 DEF Increasing
    <3>4. k \in 1 .. m
      BY <1>5, <2>3, <2>5, <3>1, <3>2, <3>3
    <3> QED BY <1>2, <1>4, <3>2, <3>4 DEF ValuesOf
  <2>8. d \in 0 .. Len(ledger)
    BY <1>1, <1>5, <2>5
  <2> QED BY <1>6, <2>6, <2>7, <2>8 DEF RowsUpTo
<1> QED BY <1>7, <1>8

\* A step of one subscriber leaves the others alone.
LEMMA SubscriberMoves ==
    ASSUME StreamInv, NEW s \in Subscribers, UNCHANGED <<ledger, retained>>,
           streams' \in [Subscribers -> StreamRow \cup {NoTrail}], received' \in [Subscribers -> Seq(Nat)],
           \A q \in Subscribers \ {s} : streams'[q] = streams[q] /\ received'[q] = received[q],
           slots' \in 0 .. MaxSubscriptions,
           slots' = MaxSubscriptions - Cardinality({q \in Subscribers : streams'[q] # NoTrail}),
           RowsUpTo(Sent(s)', Scanned(s)')
    PROVE  StreamInv'
<1>1. StreamTypeOK' /\ Len(ledger') <= MaxEvents
  BY DEF StreamInv, StreamTypeOK
<1>2. slots' = MaxSubscriptions - Cardinality(OpenStreams')
  BY DEF OpenStreams
<1>3. ASSUME NEW q \in Subscribers PROVE RowsUpTo(Sent(q), Scanned(q))'
  <2>1. CASE q = s
    BY <2>1 DEF RowsUpTo, RunRows
  <2>2. CASE q # s
    <3>1. q \in Subscribers \ {s}
      BY <2>2
    <3>2. streams'[q] = streams[q] /\ received'[q] = received[q]
      BY <3>1
    <3>3. Sent(q)' = Sent(q) /\ Scanned(q)' = Scanned(q)
      BY <3>2 DEF Sent, Scanned, LastReceived
    <3>4. RowsUpTo(Sent(q), Scanned(q))
      BY DEF StreamInv
    <3> QED BY <3>3, <3>4 DEF RowsUpTo, RunRows
  <2> QED BY <2>1, <2>2
<1> QED BY <1>1, <1>2, <1>3 DEF StreamInv

\* A row that is written goes behind every cursor that has been looked through.
LEMMA AppendActivityStep == ASSUME StreamInv, NEW r \in Runs, AppendActivity(r) PROVE StreamInv'
<1>1. /\ ledger \in Seq(Runs) /\ Len(ledger) < MaxEvents /\ ledger' = Append(ledger, r)
      /\ UNCHANGED <<retained, streams, slots, received>> /\ MaxEvents \in Nat
  BY TrailInputs DEF StreamInv, StreamTypeOK, AppendActivity
<1>2. PICK N \in Nat : N = Len(ledger)
  BY <1>1, LenProperties
<1>3. ledger' \in Seq(Runs) /\ Len(ledger') = N + 1 /\ \A i \in 1 .. N : ledger'[i] = ledger[i]
  BY <1>1, <1>2, AppendProperties
<1>4. StreamTypeOK' /\ Len(ledger') <= MaxEvents
  BY <1>1, <1>2, <1>3 DEF StreamInv, StreamTypeOK
<1>5. slots' = MaxSubscriptions - Cardinality(OpenStreams')
  BY <1>1 DEF OpenStreams, StreamInv
<1>6. ASSUME NEW q \in Subscribers PROVE RowsUpTo(Sent(q), Scanned(q))'
  <2>1. PICK u, c : u = Sent(q) /\ c = Scanned(q)
    OBVIOUS
  <2>2. Sent(q)' = u /\ Scanned(q)' = c
    BY <1>1, <2>1 DEF Sent, Scanned, LastReceived
  <2>3. c \in 0 .. N /\ Increasing(u) /\ ValuesOf(u) = RunRows(0, c)
    BY <1>2, <2>1 DEF StreamInv, RowsUpTo
  <2>4. {i \in (0 + 1) .. c : ledger'[i] = Watched} = RunRows(0, c)
    BY <1>3, <2>3 DEF RunRows
  <2>5. c \in 0 .. Len(ledger')
    BY <1>3, <2>3
  <2> QED BY <2>2, <2>3, <2>4, <2>5 DEF RowsUpTo, RunRows
<1> QED BY <1>4, <1>5, <1>6 DEF StreamInv

\* The watermark moves; no subscriber does.
LEMMA RetainStep == ASSUME StreamInv, Retain PROVE StreamInv'
<1>1. /\ Len(ledger) \in Nat /\ Len(ledger) <= MaxEvents /\ retained \in Nat /\ retained >= 1 /\ MaxEvents \in Nat
      /\ retained < Len(ledger) /\ retained' = retained + 1
  BY LenProperties, TrailInputs DEF StreamInv, StreamTypeOK, Retain
<1>2. retained' \in 1 .. (MaxEvents + 1)
  BY <1>1
<1>3. UNCHANGED <<ledger, streams, slots, received>>
  BY DEF Retain
<1>4. StreamTypeOK'
  BY <1>2, <1>3 DEF StreamInv, StreamTypeOK
<1>5. ASSUME NEW q \in Subscribers PROVE RowsUpTo(Sent(q), Scanned(q))'
  BY <1>3 DEF StreamInv, RowsUpTo, RunRows, Sent, Scanned, LastReceived
<1> QED BY <1>3, <1>4, <1>5 DEF StreamInv, OpenStreams

\* A connection takes its place and gives it back; frames of the page that were not sent are read again.
LEMMA SubscriptionStep ==
    ASSUME StreamInv, NEW s \in Subscribers, Subscribe(s) \/ Unsubscribe(s)
    PROVE  StreamInv'
<1>1. /\ ledger \in Seq(Runs) /\ received[s] \in Seq(Nat) /\ MaxSubscriptions \in Nat
      /\ IsFiniteSet(OpenStreams) /\ OpenStreams \subseteq Subscribers
      /\ slots \in Nat /\ slots <= MaxSubscriptions /\ RowsUpTo(Sent(s), Scanned(s))
  <2>1. IsFiniteSet(OpenStreams) /\ OpenStreams \subseteq Subscribers
    BY FS_Subset, TrailInputs DEF OpenStreams
  <2> QED BY <2>1, TrailInputs DEF StreamInv, StreamTypeOK
<1>2. PICK n \in Nat : n = Cardinality(OpenStreams) /\ slots = MaxSubscriptions - n
  BY <1>1, FS_CardinalityType DEF StreamInv
<1>3. received[s] \o << >> = received[s]
  BY <1>1, ConcatEmptySeq
<1>4. << >> \in Seq(Nat)
  OBVIOUS
<1>5. PICK d : d = LastReceived(s)
  OBVIOUS
<1>6. RowsUpTo(received[s], d) /\ d \in Nat
  <2>1. RowsUpTo(received[s], d)
    <3>1. CASE streams[s] = NoTrail
      BY <1>1, <1>3, <1>5, <3>1 DEF Sent, Scanned
    <3>2. CASE streams[s] # NoTrail
      <4>1. streams[s] \in StreamRow
        BY <3>2 DEF StreamInv, StreamTypeOK
      <4>2. PICK v \in Seq(Nat), c \in Nat : v = streams[s].page /\ c = streams[s].cursor
        BY <4>1 DEF StreamRow
      <4>3. RowsUpTo(received[s] \o v, c)
        BY <1>1, <3>2, <4>2 DEF Sent, Scanned
      <4> QED BY <1>1, <1>5, <4>3, ReceivedFits DEF LastReceived
    <3> QED BY <3>1, <3>2
  <2>2. Len(ledger) \in Nat
    BY <1>1, LenProperties
  <2> QED BY <2>1, <2>2 DEF RowsUpTo
<1>7. CASE Subscribe(s)
  <2>1. PICK row : row = [cursor |-> d, page |-> << >>]
    OBVIOUS
  <2>2. row \in StreamRow /\ row # NoTrail /\ row.cursor = d /\ row.page = << >>
    <3>1. PICK e \in Seq(Nat) : e = << >>
      BY <1>4
    <3>2. row = [cursor |-> d, page |-> e]
      BY <2>1, <3>1
    <3>3. row \in StreamRow /\ row.cursor = d /\ row.page = e
      BY <1>6, <3>2 DEF StreamRow
    <3> QED BY <3>1, <3>3, TrailInputs
  <2>3. /\ streams[s] = NoTrail /\ slots > 0 /\ slots' = slots - 1 /\ streams' = [streams EXCEPT ![s] = row]
        /\ UNCHANGED <<ledger, retained, received>>
    BY <1>5, <1>7, <2>1 DEF Subscribe, FreePlace
  <2>4. /\ streams' \in [Subscribers -> StreamRow \cup {NoTrail}] /\ streams'[s] = row
        /\ \A q \in Subscribers \ {s} : streams'[q] = streams[q]
    BY <2>2, <2>3 DEF StreamInv, StreamTypeOK
  <2>5. {q \in Subscribers : streams'[q] # NoTrail} = OpenStreams \cup {s} /\ s \notin OpenStreams
    BY <2>2, <2>3, <2>4 DEF OpenStreams
  <2>6. Cardinality(OpenStreams \cup {s}) = n + 1
    BY <1>1, <1>2, <2>5, FS_AddElement
  <2>7. slots' \in 0 .. MaxSubscriptions /\ slots' = MaxSubscriptions - Cardinality({q \in Subscribers : streams'[q] # NoTrail})
    <3>1. Cardinality({q \in Subscribers : streams'[q] # NoTrail}) = n + 1
      BY <2>5, <2>6
    <3>2. MaxSubscriptions \in Nat /\ slots = MaxSubscriptions - n /\ slots \in Nat /\ slots > 0 /\ slots' = slots - 1
      BY <1>1, <1>2, <2>3, <2>6
    <3>3. slots' \in 0 .. MaxSubscriptions /\ slots' = MaxSubscriptions - (n + 1)
      BY <3>2
    <3> QED BY <3>1, <3>3
  <2>8. Sent(s)' = received[s] /\ Scanned(s)' = d
    BY <1>3, <2>2, <2>3, <2>4 DEF Sent, Scanned
  <2>9. received' \in [Subscribers -> Seq(Nat)] /\ \A q \in Subscribers : received'[q] = received[q]
    BY <2>3 DEF StreamInv, StreamTypeOK
  <2> QED BY <1>6, <2>3, <2>4, <2>7, <2>8, <2>9, SubscriberMoves
<1>8. CASE Unsubscribe(s)
  <2>3. /\ streams[s] # NoTrail /\ slots' = slots + 1 /\ streams' = [streams EXCEPT ![s] = NoTrail]
        /\ UNCHANGED <<ledger, retained, received>>
    BY <1>8 DEF Unsubscribe
  <2>4. /\ streams' \in [Subscribers -> StreamRow \cup {NoTrail}] /\ streams'[s] = NoTrail
        /\ \A q \in Subscribers \ {s} : streams'[q] = streams[q]
    BY <2>3 DEF StreamInv, StreamTypeOK
  <2>5. {q \in Subscribers : streams'[q] # NoTrail} = OpenStreams \ {s} /\ s \in OpenStreams
    BY <2>3, <2>4 DEF OpenStreams
  <2>6. Cardinality(OpenStreams \ {s}) = n - 1 /\ n > 0
    <3>1. Cardinality(OpenStreams \ {s}) = n - 1
      BY <1>1, <1>2, <2>5, FS_RemoveElement
    <3>2. Cardinality(OpenStreams \ {s}) \in Nat
      BY <1>1, FS_Subset, FS_CardinalityType
    <3> QED BY <3>1, <3>2
  <2>7. slots' \in 0 .. MaxSubscriptions /\ slots' = MaxSubscriptions - Cardinality({q \in Subscribers : streams'[q] # NoTrail})
    <3>1. Cardinality({q \in Subscribers : streams'[q] # NoTrail}) = n - 1
      BY <2>5, <2>6
    <3>2. MaxSubscriptions \in Nat /\ slots = MaxSubscriptions - n /\ slots \in Nat /\ n > 0 /\ slots' = slots + 1
      BY <1>1, <1>2, <2>3, <2>6
    <3>3. slots' \in 0 .. MaxSubscriptions /\ slots' = MaxSubscriptions - (n - 1)
      BY <3>2
    <3> QED BY <3>1, <3>3
  <2>8. Sent(s)' = received[s] /\ Scanned(s)' = d
    BY <1>3, <1>5, <2>3, <2>4 DEF Sent, Scanned, LastReceived
  <2>9. received' \in [Subscribers -> Seq(Nat)] /\ \A q \in Subscribers : received'[q] = received[q]
    BY <2>3 DEF StreamInv, StreamTypeOK
  <2> QED BY <1>6, <2>3, <2>4, <2>7, <2>8, <2>9, SubscriberMoves
<1> QED BY <1>7, <1>8

\* One snapshot of the ledger extends what a subscriber is sent.
LEMMA DrainBacklogStep == ASSUME StreamInv, NEW s \in Subscribers, DrainBacklog(s) PROVE StreamInv'
<1>1. /\ ledger \in Seq(Runs) /\ received[s] \in Seq(Nat) /\ streams[s] \in StreamRow /\ streams[s] # NoTrail
      /\ streams[s].page = << >> /\ UNCHANGED <<ledger, retained, slots, received>>
  BY DEF StreamInv, StreamTypeOK, DrainBacklog
<1>2. PICK c : c = streams[s].cursor
  OBVIOUS
<1>3. PICK d : d = IF ScannedThrough(c) > c THEN ScannedThrough(c) ELSE c
  OBVIOUS
<1>4. RowsUpTo(received[s], c)
  <2>1. received[s] \o << >> = received[s]
    BY <1>1, ConcatEmptySeq
  <2> QED BY <1>1, <1>2, <2>1 DEF StreamInv, Sent, Scanned
<1>5. PICK p \in Seq(Nat) : p = PageAfter(c)
  BY <1>1, <1>4, PageExists DEF RowsUpTo
<1>6. RowsUpTo(received[s] \o p, d)
  BY <1>1, <1>3, <1>4, <1>5, PageExtends
<1>7. d \in Nat
  <2>1. Len(ledger) \in Nat
    BY <1>1, LenProperties
  <2> QED BY <1>6, <2>1 DEF RowsUpTo
<1>8. PICK row : row = [cursor |-> d, page |-> p]
  OBVIOUS
<1>9. row \in StreamRow /\ row # NoTrail /\ row.cursor = d /\ row.page = p
  BY <1>5, <1>7, <1>8, TrailInputs DEF StreamRow
<1>10. streams' = [streams EXCEPT ![s] = row]
  BY <1>2, <1>3, <1>5, <1>8 DEF DrainBacklog
<1>11. /\ streams' \in [Subscribers -> StreamRow \cup {NoTrail}] /\ streams'[s] = row
       /\ \A q \in Subscribers \ {s} : streams'[q] = streams[q]
  BY <1>9, <1>10 DEF StreamInv, StreamTypeOK
<1>12. {q \in Subscribers : streams'[q] # NoTrail} = OpenStreams
  BY <1>1, <1>9, <1>11 DEF OpenStreams
<1>13. slots' \in 0 .. MaxSubscriptions /\ slots' = MaxSubscriptions - Cardinality({q \in Subscribers : streams'[q] # NoTrail})
  BY <1>1, <1>12 DEF StreamInv, StreamTypeOK
<1>14. Sent(s)' = received[s] \o p /\ Scanned(s)' = d
  BY <1>1, <1>9, <1>11 DEF Sent, Scanned
<1>15. received' \in [Subscribers -> Seq(Nat)] /\ \A q \in Subscribers : received'[q] = received[q]
  BY <1>1 DEF StreamInv, StreamTypeOK
<1> QED BY <1>1, <1>6, <1>11, <1>13, <1>14, <1>15, SubscriberMoves

\* The frame that is sent moves from the page to what was received.
LEMMA FrameMoves ==
    ASSUME NEW u \in Seq(Nat), NEW v \in Seq(Nat), v # << >>
    PROVE  /\ Append(u, Head(v)) \in Seq(Nat) /\ Tail(v) \in Seq(Nat)
           /\ Append(u, Head(v)) \o Tail(v) = u \o v
<1>1. PICK h \in Nat : h = Head(v)
  BY HeadTailProperties
<1>2. PICK t \in Seq(Nat) : t = Tail(v)
  BY HeadTailProperties
<1>3. PICK o \in Seq(Nat) : o = << h >>
  <2>1. << h >> \in Seq(Nat)
    BY <1>1
  <2> QED BY <2>1
<1>4. Append(u, h) = u \o o /\ Append(u, h) \in Seq(Nat)
  BY <1>3, AppendIsConcat, AppendProperties
<1>5. o \o t = v
  <2>1. PICK n \in Nat : n = Len(t) /\ Len(v) = n + 1
    <3>1. Len(t) = Len(v) - 1 /\ Len(v) \in Nat /\ Len(t) \in Nat
      BY <1>2, HeadTailProperties, LenProperties
    <3> QED BY <3>1
  <2>2. Len(o) = 1 /\ o[1] = h
    BY <1>3
  <2>3. PICK w \in Seq(Nat) : w = o \o t
    BY ConcatProperties
  <2>4. Len(w) = n + 1 /\ \A i \in 1 .. n + 1 : w[i] = IF i <= 1 THEN o[i] ELSE t[i - 1]
    <3>1. \A i \in 1 .. Len(o) + Len(t) : w[i] = IF i <= Len(o) THEN o[i] ELSE t[i - Len(o)]
      BY <2>3, ConcatProperties
    <3>2. Len(w) = Len(o) + Len(t)
      BY <2>3, ConcatProperties
    <3>3. Len(o) + Len(t) = n + 1
      BY <2>1, <2>2
    <3> QED BY <2>2, <3>1, <3>2, <3>3
  <2>5. v[1] = h
    BY <1>1
  <2>6. \A i \in 1 .. n : t[i] = v[i + 1]
    BY <1>2, <2>1, HeadTailProperties
  <2>7. ASSUME NEW i \in 1 .. n + 1 PROVE w[i] = v[i]
    <3>1. CASE i = 1
      BY <2>2, <2>4, <2>5, <3>1
    <3>2. CASE i # 1
      <4>1. i - 1 \in 1 .. n /\ (i - 1) + 1 = i /\ ~(i <= 1)
        BY <3>2
      <4>2. w[i] = t[i - 1]
        BY <2>4, <4>1
      <4>3. t[i - 1] = v[(i - 1) + 1]
        BY <2>6, <4>1
      <4> QED BY <4>1, <4>2, <4>3
    <3> QED BY <3>1, <3>2
  <2> QED BY <2>1, <2>3, <2>4, <2>7, SeqEqual
<1>6. (u \o o) \o t = u \o (o \o t)
  BY ConcatAssociative, SMTT(30)
<1> QED BY <1>1, <1>2, <1>4, <1>5, <1>6

\* A frame that is sent is in the page or received, never both.
LEMMA SendFrameStep == ASSUME StreamInv, NEW s \in Subscribers, SendFrame(s) PROVE StreamInv'
<1>1. /\ received[s] \in Seq(Nat) /\ streams[s] \in StreamRow /\ streams[s] # NoTrail
      /\ streams[s].page # << >> /\ UNCHANGED <<ledger, retained, slots>>
  BY DEF StreamInv, StreamTypeOK, SendFrame
<1>2. PICK u \in Seq(Nat), v \in Seq(Nat), c \in Nat :
         u = received[s] /\ v = streams[s].page /\ c = streams[s].cursor /\ v # << >>
  BY <1>1 DEF StreamRow
<1>3. PICK e \in Seq(Nat), t \in Seq(Nat) : e = Append(u, Head(v)) /\ t = Tail(v) /\ e \o t = u \o v
  <2>1. Append(u, Head(v)) \in Seq(Nat) /\ Tail(v) \in Seq(Nat) /\ Append(u, Head(v)) \o Tail(v) = u \o v
    BY <1>2, FrameMoves
  <2> QED BY <2>1, Zenon
<1>4. RowsUpTo(e \o t, c)
  BY <1>1, <1>2, <1>3 DEF StreamInv, Sent, Scanned
<1>5. PICK row : row = [streams[s] EXCEPT !.page = t]
  OBVIOUS
<1>6. row \in StreamRow /\ row # NoTrail /\ row.cursor = c /\ row.page = t
  BY <1>1, <1>2, <1>5, TrailInputs DEF StreamRow
<1>7. received' = [received EXCEPT ![s] = e] /\ streams' = [streams EXCEPT ![s] = row]
  BY <1>2, <1>3, <1>5 DEF SendFrame, StreamInv, StreamTypeOK
<1>8. /\ streams' \in [Subscribers -> StreamRow \cup {NoTrail}] /\ streams'[s] = row
      /\ \A q \in Subscribers \ {s} : streams'[q] = streams[q]
  BY <1>6, <1>7 DEF StreamInv, StreamTypeOK
<1>9. /\ received' \in [Subscribers -> Seq(Nat)] /\ received'[s] = e
      /\ \A q \in Subscribers \ {s} : received'[q] = received[q]
  BY <1>7 DEF StreamInv, StreamTypeOK
<1>10. {q \in Subscribers : streams'[q] # NoTrail} = OpenStreams
  BY <1>1, <1>6, <1>8 DEF OpenStreams
<1>11. slots' \in 0 .. MaxSubscriptions /\ slots' = MaxSubscriptions - Cardinality({q \in Subscribers : streams'[q] # NoTrail})
  BY <1>1, <1>10 DEF StreamInv, StreamTypeOK
<1>12. Sent(s)' = e \o t /\ Scanned(s)' = c
  BY <1>6, <1>8, <1>9 DEF Sent, Scanned
<1> QED BY <1>1, <1>4, <1>8, <1>9, <1>11, <1>12, SubscriberMoves

\* Every step of the ledger and its subscribers keeps the invariant.
LEMMA StreamStep == StreamInv /\ [StreamNext]_streamVars => StreamInv'
<1> SUFFICES ASSUME StreamInv, [StreamNext]_streamVars PROVE StreamInv'
  OBVIOUS
<1>1. CASE UNCHANGED streamVars
  BY <1>1 DEF streamVars, StreamInv, StreamTypeOK, OpenStreams, RowsUpTo, RunRows, Sent, Scanned, LastReceived
<1>2. CASE StreamNext
  BY <1>2, AppendActivityStep, RetainStep, SubscriptionStep, DrainBacklogStep, SendFrameStep DEF StreamNext
<1> QED BY <1>1, <1>2

\* Over any number of lost connections a subscriber is sent every row of its run once and in
\* order, and a sealed log is the text its chunks held (activity_stream.py subscribe,
\* log_tail.py append and seal).
THEOREM ReadersAlwaysMissNothing == TrailSpec => []ReadersMissNothing
<1>1. TrailInit => StreamInv /\ LogInv
  <2> SUFFICES ASSUME TrailInit PROVE StreamInv /\ LogInv
    OBVIOUS
  <2>1. LogInv
    BY DEF TrailInit, LogInv, LogTypeOK, ChunksFit, SealedFits, SealerFits, SealerAt
  <2>2. OpenStreams = {} /\ Cardinality({}) = 0 /\ MaxSubscriptions \in Nat /\ MaxEvents \in Nat
    BY FS_EmptySet, TrailInputs DEF TrailInit, OpenStreams
  <2>3. << >> \in Seq(Nat) /\ << >> \in Seq(Runs) /\ Len(<< >>) = 0
    OBVIOUS
  <2>4. ledger = << >> /\ Len(ledger) = 0 /\ ledger \in Seq(Runs)
    BY <2>3 DEF TrailInit
  <2>5. received \in [Subscribers -> Seq(Nat)] /\ \A s \in Subscribers : received[s] = << >> /\ streams[s] = NoTrail
    BY <2>3 DEF TrailInit
  <2>6. StreamTypeOK /\ Len(ledger) <= MaxEvents /\ slots = MaxSubscriptions - Cardinality(OpenStreams)
    BY <2>2, <2>4, <2>5 DEF TrailInit, StreamTypeOK
  <2>7. ASSUME NEW s \in Subscribers PROVE RowsUpTo(Sent(s), Scanned(s))
    <3>1. PICK u \in Seq(Nat) : u = << >> /\ Len(u) = 0
      BY <2>3
    <3>2. u \o u = u
      BY <3>1, ConcatEmptySeq
    <3>3. Sent(s) = u /\ Scanned(s) = 0
      BY <2>5, <3>1, <3>2 DEF Sent, Scanned, LastReceived
    <3>4. Increasing(u) /\ ValuesOf(u) = {} /\ RunRows(0, 0) = {}
      BY <3>1 DEF Increasing, ValuesOf, RunRows
    <3> QED BY <2>4, <3>3, <3>4 DEF RowsUpTo
  <2> QED BY <2>1, <2>6, <2>7 DEF StreamInv
<1>2. StreamInv /\ LogInv /\ [TrailNext]_trailVars => (StreamInv /\ LogInv)'
  <2>1. [TrailNext]_trailVars => [StreamNext]_streamVars
    BY DEF TrailNext, trailVars, WorkNext, LogNext, CreateWorkItem, AssignWorker, SetWorkerState, BeginAttempt,
           FinishAttempt, CreateLog, AppendLog, BeginSeal, Materialize, RegisterLog, BindSealed, SealerDies
  <2>2. [TrailNext]_trailVars => [LogNext]_logVars
    BY DEF TrailNext, trailVars, WorkNext, StreamNext, CreateWorkItem, AssignWorker, SetWorkerState, BeginAttempt,
           FinishAttempt, AppendActivity, Retain, Subscribe, DrainBacklog, SendFrame, Unsubscribe
  <2> QED BY <2>1, <2>2, StreamStep, LogStep
<1>3. StreamInv /\ LogInv => ReadersMissNothing
  <2>1. StreamInv => SubscriberMissesNothing
    BY DEF StreamInv, SubscriberMissesNothing, OpenStreams, RowsUpTo, Sent, Scanned
  <2> QED BY <2>1, LogInvImplies DEF ReadersMissNothing
<1> QED BY <1>1, <1>2, <1>3, PTL DEF TrailSpec

-----------------------------------------------------------------------------
(* The daemon *)

\* The process that the service receipt names is the daemon that was started, and a shell
\* that waits has written the receipt.
ReceiptFits ==
    /\ stateFile # NoDeployment /\ stateFile.pid # NoDeployment =>
          /\ stateFile.marker \in Markers
          /\ \/ processes[stateFile.pid] = NoDeployment
             \/ processes[stateFile.pid].marker # stateFile.marker
             \/ processes[stateFile.pid].kind = "daemon"
    /\ shell # NoDeployment => /\ stateFile # NoDeployment /\ stateFile.pid = shell.pid
                               /\ stateFile.marker = shell.marker

ServiceInv == ServiceTypeOK /\ ReceiptFits /\ OnlyTheDaemonIsSignalled

\* A receipt that the current process answers to is the daemon's.
LEMMA SameProcessIsDaemon ==
    ASSUME ServiceInv, stateFile # NoDeployment, stateFile.pid # NoDeployment,
           Marker(stateFile.pid) = stateFile.marker
    PROVE  stateFile.pid \in Pids /\ processes[stateFile.pid].kind = "daemon"
<1>1. stateFile.pid \in Pids /\ stateFile.marker \in Markers /\ stateFile.marker # NoDeployment
  BY MaintenanceInputs DEF ServiceInv, ServiceTypeOK, ReceiptFits, ServiceReceipt
<1>2. processes[stateFile.pid] # NoDeployment /\ processes[stateFile.pid].marker = stateFile.marker
  BY <1>1 DEF Marker
<1> QED BY <1>1, <1>2 DEF ServiceInv, ReceiptFits

\* A receipt without a process.
LEMMA EmptyReceipt ==
    ASSUME NEW s \in {"STARTING", "RUNNING", "FAILED", "STOPPED"}
    PROVE  /\ Receipt(s, NoDeployment, NoDeployment) \in ServiceReceipt
           /\ Receipt(s, NoDeployment, NoDeployment).pid = NoDeployment
BY DEF Receipt, ServiceReceipt

\* The receipt of a started process.
LEMMA FilledReceipt ==
    ASSUME NEW s \in {"STARTING", "RUNNING", "FAILED", "STOPPED"}, NEW p \in Pids, NEW m \in Markers
    PROVE  /\ Receipt(s, p, m) \in ServiceReceipt /\ Receipt(s, p, m) # NoDeployment
           /\ Receipt(s, p, m).pid = p /\ Receipt(s, p, m).marker = m
<1>1. /\ Receipt(s, p, m) \in ServiceReceipt
      /\ Receipt(s, p, m).pid = p /\ Receipt(s, p, m).marker = m
  BY DEF Receipt, ServiceReceipt
<1> QED BY <1>1, MaintenanceInputs

\* StartService
LEMMA StartServiceStep ==
    ASSUME ServiceInv, NEW p \in Pids, NEW m \in Markers, StartService(p, m)
    PROVE  ServiceInv'
<1>1. PICK d : d = [kind |-> "daemon", marker |-> m]
  OBVIOUS
<1>2. d \in Process /\ d.kind = "daemon" /\ d.marker = m
  BY <1>1 DEF Process
<1>3. PICK c : c = [pid |-> p, marker |-> m]
  OBVIOUS
<1>4. c \in ShellCall /\ c.pid = p /\ c.marker = m
  BY <1>3 DEF ShellCall
<1>5. PICK f : f = Receipt("STARTING", p, m)
  OBVIOUS
<1>6. f \in ServiceReceipt /\ f # NoDeployment /\ f.pid = p /\ f.marker = m
  BY <1>5, FilledReceipt
<1>7. /\ processes' = [processes EXCEPT ![p] = d] /\ stateFile' = f /\ shell' = c /\ signalled' = signalled
  BY <1>1, <1>3, <1>5 DEF StartService
<1>8. processes'[p] = d
  BY <1>7 DEF ServiceInv, ServiceTypeOK
<1>9. ServiceTypeOK'
  BY <1>2, <1>4, <1>6, <1>7 DEF ServiceInv, ServiceTypeOK
<1>10. ReceiptFits'
  BY <1>2, <1>4, <1>6, <1>7, <1>8 DEF ReceiptFits
<1> QED BY <1>7, <1>9, <1>10 DEF ServiceInv, OnlyTheDaemonIsSignalled

\* OtherProcess: a new process never has the marker of the receipt.
LEMMA OtherProcessStep ==
    ASSUME ServiceInv, NEW p \in Pids, NEW m \in Markers, OtherProcess(p, m)
    PROVE  ServiceInv'
<1>1. PICK d : d = [kind |-> "other", marker |-> m]
  OBVIOUS
<1>2. d \in Process /\ d.marker = m
  BY <1>1 DEF Process
<1>3. /\ processes' = [processes EXCEPT ![p] = d] /\ UNCHANGED <<stateFile, signalled, shell>>
      /\ stateFile # NoDeployment => m # stateFile.marker
  BY <1>1 DEF OtherProcess
<1>4. processes'[p] = d /\ \A x \in Pids \ {p} : processes'[x] = processes[x]
  BY <1>3 DEF ServiceInv, ServiceTypeOK
<1>5. ServiceTypeOK'
  BY <1>2, <1>3 DEF ServiceInv, ServiceTypeOK
<1>6. ReceiptFits'
  <2>1. stateFile # NoDeployment /\ stateFile.pid # NoDeployment => stateFile.pid \in Pids
    BY DEF ServiceInv, ServiceTypeOK, ServiceReceipt
  <2>2. CASE stateFile # NoDeployment /\ stateFile.pid = p
    BY <1>2, <1>3, <1>4, <2>2 DEF ServiceInv, ReceiptFits
  <2>3. CASE ~(stateFile # NoDeployment /\ stateFile.pid = p)
    BY <1>3, <1>4, <2>1, <2>3 DEF ServiceInv, ReceiptFits
  <2> QED BY <2>2, <2>3
<1> QED BY <1>3, <1>5, <1>6 DEF ServiceInv, OnlyTheDaemonIsSignalled

\* A process ends; the receipt and the shell may stay as they are.
LEMMA ProcessGone ==
    ASSUME ServiceInv, NEW p \in Pids, processes' = [processes EXCEPT ![p] = NoDeployment],
           UNCHANGED <<stateFile, shell>>
    PROVE  ReceiptFits'
<1>1. processes'[p] = NoDeployment /\ \A x \in Pids \ {p} : processes'[x] = processes[x]
  BY DEF ServiceInv, ServiceTypeOK
<1>2. stateFile # NoDeployment /\ stateFile.pid # NoDeployment => stateFile.pid \in Pids
  BY DEF ServiceInv, ServiceTypeOK, ServiceReceipt
<1> QED BY <1>1, <1>2 DEF ServiceInv, ReceiptFits

\* The steps of the shell and of StopService.
LEMMA ShellStep ==
    ASSUME ServiceInv, ServiceHealthy \/ ServiceUnhealthy \/ ShellDies \/ StopService
    PROVE  ServiceInv'
<1>1. CASE ServiceHealthy
  <2>1. shell \in ShellCall /\ shell.pid \in Pids /\ shell.marker \in Markers
    BY <1>1 DEF ServiceHealthy, ServiceInv, ServiceTypeOK, ShellCall
  <2>2. stateFile # NoDeployment /\ stateFile.pid = shell.pid /\ stateFile.marker = shell.marker
    BY <1>1 DEF ServiceHealthy, ServiceInv, ReceiptFits
  <2>3. stateFile.pid # NoDeployment
    BY <2>1, <2>2, MaintenanceInputs
  <2>4. PICK f : f = Receipt("RUNNING", shell.pid, shell.marker)
    OBVIOUS
  <2>5. f \in ServiceReceipt /\ f # NoDeployment /\ f.pid = shell.pid /\ f.marker = shell.marker
    BY <2>1, <2>4, FilledReceipt
  <2>6. stateFile' = f /\ shell' = NoDeployment /\ UNCHANGED <<processes, signalled>>
    BY <1>1, <2>4 DEF ServiceHealthy
  <2>7. ServiceTypeOK'
    BY <2>5, <2>6 DEF ServiceInv, ServiceTypeOK
  <2>8. ReceiptFits'
    BY <2>1, <2>2, <2>3, <2>5, <2>6 DEF ServiceInv, ReceiptFits
  <2> QED BY <2>6, <2>7, <2>8 DEF ServiceInv, OnlyTheDaemonIsSignalled
<1>2. CASE ServiceUnhealthy
  <2>1. PICK f : f = Receipt("FAILED", NoDeployment, NoDeployment)
    OBVIOUS
  <2>2. f \in ServiceReceipt /\ f.pid = NoDeployment
    BY <2>1, EmptyReceipt
  <2>3. stateFile' = f /\ shell' = NoDeployment
    BY <1>2, <2>1 DEF ServiceUnhealthy
  <2>4. ReceiptFits'
    BY <2>2, <2>3 DEF ReceiptFits
  <2>5. CASE Marker(shell.pid) = shell.marker
    <3>1. shell \in ShellCall /\ shell.pid \in Pids /\ shell.marker \in Markers
      BY <1>2 DEF ServiceUnhealthy, ServiceInv, ServiceTypeOK, ShellCall
    <3>2. stateFile # NoDeployment /\ stateFile.pid = shell.pid /\ stateFile.marker = shell.marker
      BY <1>2 DEF ServiceUnhealthy, ServiceInv, ReceiptFits
    <3>3. processes[shell.pid].kind = "daemon"
      BY <2>5, <3>1, <3>2, SameProcessIsDaemon, MaintenanceInputs
    <3>4. signalled' = signalled \cup {"daemon"} /\ processes' = [processes EXCEPT ![shell.pid] = NoDeployment]
      BY <1>2, <2>5, <3>3 DEF ServiceUnhealthy
    <3>5. ServiceTypeOK'
      BY <2>2, <2>3, <3>1, <3>4 DEF ServiceInv, ServiceTypeOK
    <3> QED BY <2>4, <3>4, <3>5 DEF ServiceInv, OnlyTheDaemonIsSignalled
  <2>6. CASE Marker(shell.pid) # shell.marker
    <3>1. UNCHANGED <<signalled, processes>>
      BY <1>2, <2>6 DEF ServiceUnhealthy
    <3>2. ServiceTypeOK'
      BY <2>2, <2>3, <3>1 DEF ServiceInv, ServiceTypeOK
    <3> QED BY <2>4, <3>1, <3>2 DEF ServiceInv, OnlyTheDaemonIsSignalled
  <2> QED BY <2>5, <2>6
<1>3. CASE ShellDies
  <2>1. shell' = NoDeployment /\ UNCHANGED <<processes, stateFile, signalled>>
    BY <1>3 DEF ShellDies
  <2> QED BY <2>1 DEF ServiceInv, ServiceTypeOK, ReceiptFits, OnlyTheDaemonIsSignalled
<1>4. CASE StopService
  <2>1. PICK f : f = Receipt("STOPPED", NoDeployment, NoDeployment)
    OBVIOUS
  <2>2. f \in ServiceReceipt /\ f.pid = NoDeployment
    BY <2>1, EmptyReceipt
  <2>3. stateFile.pid \in Pids /\ processes[stateFile.pid].kind = "daemon"
    BY <1>4, SameProcessIsDaemon DEF StopService, SameProcess
  <2>4. /\ stateFile' = f /\ shell' = shell /\ shell = NoDeployment
        /\ signalled' = signalled \cup {"daemon"}
        /\ processes' = [processes EXCEPT ![stateFile.pid] = NoDeployment]
    BY <1>4, <2>1, <2>3 DEF StopService
  <2>5. ServiceTypeOK'
    BY <2>2, <2>3, <2>4 DEF ServiceInv, ServiceTypeOK
  <2>6. ReceiptFits'
    BY <2>2, <2>4 DEF ReceiptFits
  <2> QED BY <2>4, <2>5, <2>6 DEF ServiceInv, OnlyTheDaemonIsSignalled
<1> QED BY <1>1, <1>2, <1>3, <1>4

\* Every step of the service keeps the invariant.
LEMMA ServiceStep == ServiceInv /\ [ServiceNext]_serviceVars => ServiceInv'
<1> SUFFICES ASSUME ServiceInv, [ServiceNext]_serviceVars PROVE ServiceInv'
  OBVIOUS
<1>1. CASE \E p \in Pids, m \in Markers : StartService(p, m) \/ OtherProcess(p, m)
  BY <1>1, StartServiceStep, OtherProcessStep
<1>2. ASSUME NEW p \in Pids, ProcessEnds(p) PROVE ServiceInv'
  <2>1. /\ processes' = [processes EXCEPT ![p] = NoDeployment] /\ UNCHANGED <<stateFile, signalled, shell>>
    BY <1>2 DEF ProcessEnds
  <2>2. ServiceTypeOK'
    BY <2>1 DEF ServiceInv, ServiceTypeOK
  <2> QED BY <2>1, <2>2, ProcessGone DEF ServiceInv, OnlyTheDaemonIsSignalled
<1>3. CASE ServiceHealthy \/ ServiceUnhealthy \/ ShellDies \/ StopService
  BY <1>3, ShellStep
<1>4. CASE UNCHANGED serviceVars
  BY <1>4 DEF serviceVars, ServiceInv, ServiceTypeOK, ReceiptFits, OnlyTheDaemonIsSignalled
<1> QED BY <1>1, <1>2, <1>3, <1>4 DEF ServiceNext

\* Nothing runs yet.
LEMMA ServiceStarts == ASSUME NEW held, MaintenanceInit(held) PROVE ServiceInv
BY DEF MaintenanceInit, ServiceInv, ServiceTypeOK, ReceiptFits, OnlyTheDaemonIsSignalled

\* OnlyTheDaemonIsSignalled, for every number of processes: whatever id a new process is
\* given, the service commands only reach the daemon their receipt is of.
THEOREM OnlyTheDaemonIsEverSignalled == MaintenanceSpec => []OnlyTheDaemonIsSignalled
<1>1. (\E held \in SUBSET BackupRequests : MaintenanceInit(held)) => ServiceInv
  BY ServiceStarts
<1>2. ServiceInv /\ [MaintenanceNext]_maintenanceVars => ServiceInv'
  <2>1. [MaintenanceNext]_maintenanceVars => [ServiceNext]_serviceVars
    BY DEF MaintenanceNext, maintenanceVars
  <2> QED BY <2>1, ServiceStep
<1>3. ServiceInv => OnlyTheDaemonIsSignalled
  BY DEF ServiceInv
<1> QED BY <1>1, <1>2, <1>3, PTL DEF MaintenanceSpec

-----------------------------------------------------------------------------
(* Kernel migrations and the product schema *)

\* A process has the versions 1..k, k at most n, and between its two commits the next one
\* has run.
MigratorFits(m, n) ==
    migrators[m] # NoDeployment =>
       \E k \in 0 .. n : /\ migrators[m].applied = 1 .. k
                         /\ migrators[m].pc = "ledger" => k < MigrationCount /\ schemaRuns[k + 1] > 0

\* The ledger has the versions 1..n; all of them have run, and none after the next one.
LedgerAt(n) ==
    /\ n \in 0 .. MigrationCount /\ ledgerRows = 1 .. n
    /\ \A v \in 1 .. n : schemaRuns[v] > 0
    /\ \A v \in 1 .. MigrationCount : schemaRuns[v] > 0 => v <= n + 1
    /\ \A m \in Migrators : MigratorFits(m, n)

UpgradesFit ==
    \A u \in UpgradeRequests : upgraders[u] = "record" \/ upgrades[u] = "SUCCEEDED" => installed

SchemaInv == SchemaTypeOK /\ UpgradesFit /\ \E n \in Nat : LedgerAt(n)

\* A process that has 1..k goes on with k + 1.
LEMMA NextIsSuccessor ==
    ASSUME NEW m, NEW k \in Nat, k < MigrationCount, migrators[m].applied = 1 .. k
    PROVE  NextMigration(m) = k + 1
<1> DEFINE Least(v) == /\ v \notin migrators[m].applied
                       /\ \A w \in 1 .. MigrationCount : w \notin migrators[m].applied => v <= w
<1>1. k + 1 \in 1 .. MigrationCount
  BY MaintenanceInputs
<1>2. Least(k + 1)
  BY MaintenanceInputs
<1>3. \A v \in 1 .. MigrationCount : Least(v) => v = k + 1
  BY <1>1, MaintenanceInputs
<1>4. Least(CHOOSE v \in 1 .. MigrationCount : Least(v)) /\ (CHOOSE v \in 1 .. MigrationCount : Least(v)) \in 1 .. MigrationCount
  <2> HIDE DEF Least
  <2> QED BY <1>1, <1>2
<1> HIDE DEF Least
<1>5. (CHOOSE v \in 1 .. MigrationCount : Least(v)) = k + 1
  BY <1>3, <1>4
<1> QED BY <1>5 DEF NextMigration, Least

\* Of the first n versions there are n.
LEMMA IntervalSize == ASSUME NEW n \in Nat PROVE Cardinality(1 .. n) = n
<1>1. 1 \in Int /\ n \in Int
  OBVIOUS
<1>2. Cardinality(1 .. n) = IF 1 > n THEN 0 ELSE n - 1 + 1
  BY <1>1, FS_Interval
<1> QED BY <1>2

\* ReadLedger
LEMMA ReadLedgerStep ==
    ASSUME SchemaInv, NEW m \in Migrators, ReadLedger(m) PROVE SchemaInv'
<1>1. PICK n \in Nat : LedgerAt(n)
  BY DEF SchemaInv
<1>2. PICK c : c = [pc |-> "apply", applied |-> ledgerRows]
  OBVIOUS
<1>3. c \in MigratorCall /\ c.pc = "apply" /\ c.applied = ledgerRows
  BY <1>2 DEF SchemaInv, SchemaTypeOK, MigratorCall
<1>4. /\ migrators' = [migrators EXCEPT ![m] = c]
      /\ UNCHANGED <<schemaRuns, ledgerRows, installed, upgrades, upgraders>>
  BY <1>2 DEF ReadLedger
<1>5. migrators'[m] = c /\ \A x \in Migrators \ {m} : migrators'[x] = migrators[x]
  BY <1>4 DEF SchemaInv, SchemaTypeOK
<1>6. SchemaTypeOK' /\ UpgradesFit'
  BY <1>3, <1>4 DEF SchemaInv, SchemaTypeOK, UpgradesFit
<1>7. MigratorFits(m, n)'
  BY <1>1, <1>3, <1>5 DEF MigratorFits, LedgerAt
<1>8. \A x \in Migrators \ {m} : MigratorFits(x, n)'
  BY <1>1, <1>4, <1>5 DEF MigratorFits, LedgerAt
<1>9. LedgerAt(n)'
  BY <1>1, <1>4, <1>7, <1>8 DEF LedgerAt
<1> QED BY <1>6, <1>9 DEF SchemaInv

\* A process that ends, for whatever reason.
LEMMA MigratorGone ==
    ASSUME SchemaInv, NEW m \in Migrators, migrators' = [migrators EXCEPT ![m] = NoDeployment],
           UNCHANGED <<schemaRuns, ledgerRows, installed, upgrades, upgraders>>
    PROVE  SchemaInv'
<1>1. PICK n \in Nat : LedgerAt(n)
  BY DEF SchemaInv
<1>2. migrators'[m] = NoDeployment /\ \A x \in Migrators \ {m} : migrators'[x] = migrators[x]
  BY DEF SchemaInv, SchemaTypeOK
<1>3. SchemaTypeOK' /\ UpgradesFit'
  BY DEF SchemaInv, SchemaTypeOK, UpgradesFit
<1>4. \A x \in Migrators : MigratorFits(x, n)'
  BY <1>1, <1>2 DEF MigratorFits, LedgerAt
<1>5. LedgerAt(n)'
  BY <1>1, <1>4 DEF LedgerAt
<1> QED BY <1>3, <1>5 DEF SchemaInv

\* ApplySql: the next version of a process is at most one ahead of the ledger.
LEMMA ApplySqlStep ==
    ASSUME SchemaInv, NEW m \in Migrators, ApplySql(m) PROVE SchemaInv'
<1>1. PICK n \in Nat : LedgerAt(n)
  BY DEF SchemaInv
<1>2. n <= MigrationCount /\ MigrationCount \in Nat
  BY <1>1, MaintenanceInputs DEF LedgerAt
<1>3. migrators[m] # NoDeployment /\ migrators[m] \in MigratorCall /\ migrators[m].applied # 1 .. MigrationCount
  BY DEF ApplySql, MigratorAt, SchemaInv, SchemaTypeOK
<1>4. PICK k \in 0 .. n : migrators[m].applied = 1 .. k
  BY <1>1, <1>3 DEF LedgerAt, MigratorFits
<1>5. k \in Nat /\ k < MigrationCount
  BY <1>2, <1>3, <1>4
<1>6. PICK v \in 1 .. MigrationCount : v = k + 1
  BY <1>2, <1>5
<1>7. NextMigration(m) = v
  BY <1>4, <1>5, <1>6, NextIsSuccessor
<1>8. CASE migrators' = [migrators EXCEPT ![m] = NoDeployment] /\ UNCHANGED schemaRuns
  BY <1>8, MigratorGone DEF ApplySql
<1>9. CASE /\ schemaRuns[v] < 2 /\ schemaRuns' = [schemaRuns EXCEPT ![v] = @ + 1]
           /\ migrators' = [migrators EXCEPT ![m].pc = "ledger"]
  <2>1. PICK c : c = [migrators[m] EXCEPT !.pc = "ledger"]
    OBVIOUS
  <2>2. c \in MigratorCall /\ c.pc = "ledger" /\ c.applied = 1 .. k
    BY <1>3, <1>4, <2>1 DEF MigratorCall
  <2>3. /\ migrators' = [migrators EXCEPT ![m] = c] /\ UNCHANGED <<ledgerRows, installed, upgrades, upgraders>>
    BY <1>9, <2>1 DEF ApplySql
  <2>4. migrators'[m] = c /\ \A x \in Migrators \ {m} : migrators'[x] = migrators[x]
    BY <2>3 DEF SchemaInv, SchemaTypeOK
  <2>5. PICK r \in 1 .. 2 : r = schemaRuns[v] + 1
    <3>1. schemaRuns[v] \in 0 .. 2
      BY DEF SchemaInv, SchemaTypeOK
    <3>2. schemaRuns[v] + 1 \in 1 .. 2
      BY <1>9, <3>1
    <3> QED BY <3>2
  <2>6. schemaRuns' = [schemaRuns EXCEPT ![v] = r]
    BY <1>9, <2>5
  <2>7. schemaRuns'[v] > 0 /\ \A w \in (1 .. MigrationCount) \ {v} : schemaRuns'[w] = schemaRuns[w]
    BY <2>5, <2>6 DEF SchemaInv, SchemaTypeOK
  <2>8. \A w \in 1 .. MigrationCount : schemaRuns[w] > 0 => schemaRuns'[w] > 0
    BY <2>7
  <2>9. SchemaTypeOK'
    BY <2>2, <2>3, <2>5, <2>6 DEF SchemaInv, SchemaTypeOK
  <2>10. UpgradesFit'
    BY <2>3 DEF SchemaInv, UpgradesFit
  <2>11. MigratorFits(m, n)'
    BY <1>4, <1>5, <1>6, <2>2, <2>4, <2>7 DEF MigratorFits
  <2>12. \A x \in Migrators \ {m} : MigratorFits(x, n)'
    <3> SUFFICES ASSUME NEW x \in Migrators \ {m}, migrators[x] # NoDeployment PROVE MigratorFits(x, n)'
      BY <2>4 DEF MigratorFits
    <3>1. PICK j \in 0 .. n :
            /\ migrators[x].applied = 1 .. j
            /\ migrators[x].pc = "ledger" => j < MigrationCount /\ schemaRuns[j + 1] > 0
      BY <1>1 DEF LedgerAt, MigratorFits
    <3>2. migrators[x].pc = "ledger" => j < MigrationCount /\ schemaRuns'[j + 1] > 0
      BY <1>2, <2>8, <3>1
    <3> QED BY <2>4, <3>1, <3>2 DEF MigratorFits
  <2>13. \A w \in 1 .. n : schemaRuns'[w] > 0
    BY <1>1, <1>2, <2>8 DEF LedgerAt
  <2>14. \A w \in 1 .. MigrationCount : schemaRuns'[w] > 0 => w <= n + 1
    <3>1. v <= n + 1
      BY <1>6
    <3> QED BY <1>1, <2>7, <3>1 DEF LedgerAt
  <2>15. LedgerAt(n)'
    BY <1>1, <2>3, <2>11, <2>12, <2>13, <2>14 DEF LedgerAt
  <2> QED BY <2>9, <2>10, <2>15 DEF SchemaInv
<1> QED BY <1>7, <1>8, <1>9 DEF ApplySql

\* WriteLedger: a row that is there fails the process, a new one is the next of the ledger.
LEMMA WriteLedgerStep ==
    ASSUME SchemaInv, NEW m \in Migrators, WriteLedger(m) PROVE SchemaInv'
<1>1. PICK n \in Nat : LedgerAt(n)
  BY DEF SchemaInv
<1>2. n <= MigrationCount /\ MigrationCount \in Nat /\ ledgerRows = 1 .. n
  BY <1>1, MaintenanceInputs DEF LedgerAt
<1>3. migrators[m] # NoDeployment /\ migrators[m] \in MigratorCall /\ migrators[m].pc = "ledger"
  BY DEF WriteLedger, MigratorAt, SchemaInv, SchemaTypeOK
<1>4. PICK k \in 0 .. n : migrators[m].applied = 1 .. k /\ k < MigrationCount /\ schemaRuns[k + 1] > 0
  BY <1>1, <1>3 DEF LedgerAt, MigratorFits
<1>5. k \in Nat /\ k < MigrationCount
  BY <1>4
<1>6. PICK v \in 1 .. MigrationCount : v = k + 1
  BY <1>2, <1>5
<1>7. NextMigration(m) = v
  BY <1>4, <1>5, <1>6, NextIsSuccessor
<1>8. /\ ledgerRows' = ledgerRows \cup {v}
      /\ migrators' = [migrators EXCEPT ![m] =
             IF v \in ledgerRows THEN NoDeployment ELSE [pc |-> "apply", applied |-> @.applied \cup {v}]]
      /\ UNCHANGED <<schemaRuns, installed, upgrades, upgraders>>
  BY <1>7 DEF WriteLedger
<1>9. CASE v \in ledgerRows
  <2>1. ledgerRows' = ledgerRows
    BY <1>8, <1>9
  <2>2. migrators' = [migrators EXCEPT ![m] = NoDeployment]
    BY <1>8, <1>9
  <2> QED BY <1>8, <2>1, <2>2, MigratorGone
<1>10. CASE v \notin ledgerRows
  <2>1. k = n /\ v = n + 1
    BY <1>2, <1>4, <1>6, <1>10
  <2>2. 1 .. n + 1 = (1 .. n) \cup {v}
    BY <2>1
  <2>3. PICK c : c = [pc |-> "apply", applied |-> 1 .. n + 1]
    OBVIOUS
  <2>4. c \in MigratorCall /\ c.pc = "apply" /\ c.applied = 1 .. n + 1
    <3>1. 1 .. n + 1 \in SUBSET (1 .. MigrationCount)
      BY <1>2, <1>5, <2>1
    <3> QED BY <2>3, <3>1 DEF MigratorCall
  <2>5. migrators' = [migrators EXCEPT ![m] = c]
    BY <1>4, <1>8, <1>10, <2>1, <2>2, <2>3
  <2>6. migrators'[m] = c /\ \A x \in Migrators \ {m} : migrators'[x] = migrators[x]
    BY <2>5 DEF SchemaInv, SchemaTypeOK
  <2>7. ledgerRows' = 1 .. n + 1 /\ n + 1 \in 0 .. MigrationCount
    BY <1>2, <1>5, <1>8, <2>1, <2>2
  <2>8. SchemaTypeOK' /\ UpgradesFit'
    <3>1. ledgerRows' \subseteq 1 .. MigrationCount
      BY <1>8 DEF SchemaInv, SchemaTypeOK
    <3> QED BY <1>8, <2>4, <2>5, <3>1 DEF SchemaInv, SchemaTypeOK, UpgradesFit
  <2>9. MigratorFits(m, n + 1)'
    BY <2>4, <2>6 DEF MigratorFits
  <2>10. \A x \in Migrators \ {m} : MigratorFits(x, n + 1)'
    <3> SUFFICES ASSUME NEW x \in Migrators \ {m}, migrators[x] # NoDeployment PROVE MigratorFits(x, n + 1)'
      BY <2>6 DEF MigratorFits
    <3>1. PICK j \in 0 .. n :
            /\ migrators[x].applied = 1 .. j
            /\ migrators[x].pc = "ledger" => j < MigrationCount /\ schemaRuns[j + 1] > 0
      BY <1>1 DEF LedgerAt, MigratorFits
    <3>2. j \in 0 .. n + 1
      OBVIOUS
    <3> QED BY <1>8, <2>6, <3>1, <3>2 DEF MigratorFits
  <2>11. \A w \in 1 .. n + 1 : schemaRuns'[w] > 0
    BY <1>1, <1>4, <1>8, <2>1 DEF LedgerAt
  <2>12. \A w \in 1 .. MigrationCount : schemaRuns'[w] > 0 => w <= (n + 1) + 1
    BY <1>1, <1>8 DEF LedgerAt
  <2>13. LedgerAt(n + 1)'
    BY <2>7, <2>9, <2>10, <2>11, <2>12 DEF LedgerAt
  <2>14. n + 1 \in Nat
    OBVIOUS
  <2> QED BY <2>8, <2>13, <2>14 DEF SchemaInv
<1> QED BY <1>9, <1>10

\* The ledger and the migrations stay as they are while an upgrade moves.
LEMMA UpgradeMoves ==
    ASSUME SchemaInv, UNCHANGED <<schemaRuns, ledgerRows, migrators>>
    PROVE  \E n \in Nat : LedgerAt(n)'
<1>1. PICK n \in Nat : LedgerAt(n)
  BY DEF SchemaInv
<1>2. LedgerAt(n)'
  BY <1>1 DEF LedgerAt, MigratorFits
<1> QED BY <1>2

\* The steps of an upgrade: its success is recorded only after the release was installed.
LEMMA UpgradeStep ==
    ASSUME SchemaInv, NEW u \in UpgradeRequests,
           UpgradeStarts(u) \/ ReleaseApplied(u) \/ ReleaseFailed(u) \/ RecordUpgrade(u) \/ UpgradeDies(u)
    PROVE  SchemaInv'
<1>1. UNCHANGED <<schemaRuns, ledgerRows, migrators>>
  BY DEF UpgradeStarts, ReleaseApplied, ReleaseFailed, RecordUpgrade, UpgradeDies
<1>2. \E n \in Nat : LedgerAt(n)'
  BY <1>1, UpgradeMoves
<1>3. SchemaTypeOK'
  BY <1>1 DEF UpgradeStarts, ReleaseApplied, ReleaseFailed, RecordUpgrade, UpgradeDies, SchemaInv, SchemaTypeOK
<1>4. UpgradesFit'
  <2>1. /\ \A x \in UpgradeRequests \ {u} : upgraders'[x] = upgraders[x] /\ upgrades'[x] = upgrades[x]
        /\ installed => installed'
    BY DEF UpgradeStarts, ReleaseApplied, ReleaseFailed, RecordUpgrade, UpgradeDies, SchemaInv, SchemaTypeOK
  <2>2. upgraders'[u] = "record" => installed'
    BY MaintenanceInputs DEF UpgradeStarts, ReleaseApplied, ReleaseFailed, RecordUpgrade, UpgradeDies, SchemaInv, SchemaTypeOK
  <2>3. upgrades'[u] = "SUCCEEDED" => installed'
    BY DEF UpgradeStarts, ReleaseApplied, ReleaseFailed, RecordUpgrade, UpgradeDies, SchemaInv, SchemaTypeOK, UpgradesFit
  <2> QED BY <2>1, <2>2, <2>3 DEF SchemaInv, UpgradesFit
<1> QED BY <1>2, <1>3, <1>4 DEF SchemaInv

\* Every step keeps the invariant.
LEMMA SchemaStep == SchemaInv /\ [SchemaNext]_schemaVars => SchemaInv'
<1> SUFFICES ASSUME SchemaInv, [SchemaNext]_schemaVars PROVE SchemaInv'
  OBVIOUS
<1>1. ASSUME NEW m \in Migrators, ReadLedger(m) \/ ApplySql(m) \/ WriteLedger(m) \/ MigratorEnds(m)
      PROVE  SchemaInv'
  BY <1>1, ReadLedgerStep, ApplySqlStep, WriteLedgerStep, MigratorGone DEF MigratorEnds
<1>2. ASSUME NEW u \in UpgradeRequests,
             UpgradeStarts(u) \/ ReleaseApplied(u) \/ ReleaseFailed(u) \/ RecordUpgrade(u) \/ UpgradeDies(u)
      PROVE  SchemaInv'
  BY <1>2, UpgradeStep
<1>3. CASE UNCHANGED schemaVars
  <2>1. \E n \in Nat : LedgerAt(n)'
    BY <1>3, UpgradeMoves DEF schemaVars
  <2> QED BY <1>3, <2>1 DEF schemaVars, SchemaInv, SchemaTypeOK, UpgradesFit
<1> QED BY <1>1, <1>2, <1>3 DEF SchemaNext

\* No migration has run yet.
LEMMA SchemaStarts == ASSUME NEW held, MaintenanceInit(held) PROVE SchemaInv
<1>1. SchemaTypeOK /\ UpgradesFit
  <2>1. NoDeployment # "record"
    BY MaintenanceInputs
  <2>2. UpgradesFit
    BY <2>1 DEF MaintenanceInit, UpgradesFit
  <2>3. schemaRuns \in [1 .. MigrationCount -> 0 .. 2]
    BY DEF MaintenanceInit
  <2>4. SchemaTypeOK
    BY <2>3 DEF MaintenanceInit, SchemaTypeOK
  <2> QED BY <2>2, <2>4
<1>2. LedgerAt(0)
  BY MaintenanceInputs DEF MaintenanceInit, LedgerAt, MigratorFits
<1> QED BY <1>1, <1>2 DEF SchemaInv

\* LedgerFollowsSchema, for every number of migrations and of processes that run them.
THEOREM LedgerAlwaysFollowsSchema == MaintenanceSpec => []LedgerFollowsSchema
<1>1. (\E held \in SUBSET BackupRequests : MaintenanceInit(held)) => SchemaInv
  BY SchemaStarts
<1>2. SchemaInv /\ [MaintenanceNext]_maintenanceVars => SchemaInv'
  <2>1. [MaintenanceNext]_maintenanceVars => [SchemaNext]_schemaVars
    BY DEF MaintenanceNext, maintenanceVars
  <2> QED BY <2>1, SchemaStep
<1>3. SchemaInv => LedgerFollowsSchema
  <2> SUFFICES ASSUME SchemaInv PROVE LedgerFollowsSchema
    OBVIOUS
  <2>1. PICK n \in Nat : LedgerAt(n)
    BY DEF SchemaInv
  <2>2. Cardinality(ledgerRows) = n /\ ledgerRows = 1 .. n
    BY <2>1, IntervalSize DEF LedgerAt
  <2>3. ledgerRows \subseteq Schema /\ Schema \subseteq 1 .. (n + 1)
    BY <2>1, MaintenanceInputs DEF LedgerAt, Schema
  <2> QED BY <2>2, <2>3 DEF SchemaInv, UpgradesFit, LedgerFollowsSchema
<1> QED BY <1>1, <1>2, <1>3, PTL DEF MaintenanceSpec

-----------------------------------------------------------------------------
(* Backup and restore *)

\* The bundle holds the files its database refers to.
Whole(b) == b.objects = IF b.cas THEN b.rows \ BackupRequests ELSE {}

BackupsFit ==
    /\ \A b \in backups : Whole(b)
    /\ \A b, c \in backups : b.request = c.request => b = c

CallFits(c) ==
    backupCalls[c] # NoDeployment /\ backupCalls[c].pc \in {"register", "record"} => Whole(backupCalls[c])

\* A staging directory, or the root, is what one backup holds.
FromBackup(s) == \E b \in backups : s.rows = b.rows /\ s.objects = b.objects

RestorerFits(q) ==
    restorers[q] # NoDeployment =>
       /\ restorers[q].pc = "extract" => restorers[q].backup \in backups
       /\ restorers[q].pc # "extract" => /\ restorers[q].staging # NoDeployment
                                         /\ restorers[q].staging.by = q /\ FromBackup(restorers[q].staging)
       /\ restorers[q].pc \in {"publish", "finish"} => restorers[q].staging.upgraded
       /\ restorers[q].pc = "finish" => dataRoot # NoDeployment /\ dataRoot.by = q

RootFits ==
    /\ dataRoot # NoDeployment => dataRoot.upgraded /\ FromBackup(dataRoot)
    /\ \A q \in RestoreRequests : restores[q] = "SUCCEEDED" => dataRoot # NoDeployment /\ dataRoot.by = q

BackupInv ==
    /\ BackupTypeOK /\ BackupsFit /\ RootFits
    /\ \A c \in BackupCallers : CallFits(c)
    /\ \A q \in RestoreRequests : RestorerFits(q)

\* What restores know of the backups stays true as backups are added.
LEMMA RestoresStay ==
    ASSUME BackupInv, backups \subseteq backups', UNCHANGED <<restores, restorers, dataRoot>>
    PROVE  RootFits' /\ \A q \in RestoreRequests : RestorerFits(q)'
<1>1. \A s : FromBackup(s) => \E b \in backups' : s.rows = b.rows /\ s.objects = b.objects
  BY DEF FromBackup
<1>2. RootFits'
  BY <1>1 DEF BackupInv, RootFits, FromBackup
<1>3. ASSUME NEW q \in RestoreRequests PROVE RestorerFits(q)'
  <2>1. RestorerFits(q)
    BY DEF BackupInv
  <2>2. FromBackup(restorers[q].staging) => FromBackup(restorers[q].staging)'
    BY <1>1 DEF FromBackup
  <2> QED BY <2>1, <2>2 DEF RestorerFits
<1> QED BY <1>2, <1>3

\* A step of one backup call that records nothing.
LEMMA CallMoves ==
    ASSUME BackupInv, NEW c \in BackupCallers, NEW r \in BackupCall \cup {NoDeployment},
           backupCalls' = [backupCalls EXCEPT ![c] = r],
           r # NoDeployment /\ r.pc \in {"register", "record"} => Whole(r),
           registered' \subseteq casFiles', casFiles' \subseteq Artifacts,
           UNCHANGED <<backups, restores, restorers, dataRoot>>
    PROVE  BackupInv'
<1>1. backupCalls'[c] = r /\ \A x \in BackupCallers \ {c} : backupCalls'[x] = backupCalls[x]
  BY DEF BackupInv, BackupTypeOK
<1>2. BackupTypeOK'
  BY DEF BackupInv, BackupTypeOK
<1>3. CallFits(c)'
  BY <1>1 DEF CallFits, Whole
<1>4. \A x \in BackupCallers \ {c} : CallFits(x)'
  BY <1>1 DEF BackupInv, CallFits, Whole
<1>5. BackupsFit'
  BY DEF BackupInv, BackupsFit, Whole
<1> QED BY <1>2, <1>3, <1>4, <1>5, RestoresStay DEF BackupInv

\* StoreArtifact
LEMMA StoreArtifactStep ==
    ASSUME BackupInv, NEW x \in StoredArtifacts, StoreArtifact(x) PROVE BackupInv'
<1>1. UNCHANGED <<backups, backupCalls, restores, restorers, dataRoot>>
  BY DEF StoreArtifact
<1>2. registered' \subseteq casFiles' /\ casFiles' \subseteq Artifacts
  BY DEF StoreArtifact, BackupInv, BackupTypeOK, Artifacts
<1>3. BackupTypeOK'
  BY <1>1, <1>2 DEF BackupInv, BackupTypeOK
<1>4. BackupsFit' /\ \A c \in BackupCallers : CallFits(c)'
  BY <1>1 DEF BackupInv, BackupsFit, CallFits, Whole
<1> QED BY <1>1, <1>3, <1>4, RestoresStay DEF BackupInv

\* OnlineSnapshot
LEMMA OnlineSnapshotStep ==
    ASSUME BackupInv, NEW c \in BackupCallers, NEW r \in BackupRequests, OnlineSnapshot(c, r)
    PROVE  BackupInv'
<1>1. PICK d : d = [pc |-> "copy", request |-> r, cas |-> r \in CasRequests, rows |-> registered, objects |-> {}]
  OBVIOUS
<1>2. registered \subseteq Artifacts /\ registered \subseteq casFiles /\ casFiles \subseteq Artifacts
  BY DEF BackupInv, BackupTypeOK
<1>3. d \in BackupCall /\ d.pc = "copy"
  BY <1>1, <1>2 DEF BackupCall
<1>4. /\ backupCalls' = [backupCalls EXCEPT ![c] = d]
      /\ UNCHANGED <<casFiles, registered, backups, restores, restorers, dataRoot>>
  BY <1>1 DEF OnlineSnapshot
<1> QED BY <1>2, <1>3, <1>4, CallMoves

\* A call that is under way has the fields of one.
LEMMA CallRow ==
    ASSUME BackupInv, NEW c \in BackupCallers, backupCalls[c] # NoDeployment
    PROVE  /\ backupCalls[c] \in BackupCall /\ backupCalls[c].request \in BackupRequests
           /\ backupCalls[c].rows \subseteq Artifacts /\ backupCalls[c].objects \subseteq Artifacts
           /\ backupCalls[c].cas \in BOOLEAN
<1>1. backupCalls[c] \in BackupCall
  BY DEF BackupInv, BackupTypeOK
<1> QED BY <1>1 DEF BackupCall

\* CopyObjects: what is copied is what the snapshot refers to.
LEMMA CopyObjectsStep ==
    ASSUME BackupInv, NEW c \in BackupCallers, CopyObjects(c) PROVE BackupInv'
<1>1. PICK b : b = backupCalls[c]
  OBVIOUS
<1>2. b \in BackupCall /\ b.rows \subseteq Artifacts
  BY <1>1, CallRow DEF CopyObjects
<1>3. PICK o : o = IF b.cas THEN b.rows \ BackupRequests ELSE {}
  OBVIOUS
<1>4. PICK d : d = [b EXCEPT !.pc = "register", !.objects = o]
  OBVIOUS
<1>5. o \subseteq Artifacts
  BY <1>2, <1>3
<1>6. d \in BackupCall /\ d.cas = b.cas /\ d.rows = b.rows /\ d.objects = o
  BY <1>2, <1>4, <1>5 DEF BackupCall
<1>7. Whole(d)
  BY <1>3, <1>6 DEF Whole
<1>8. /\ backupCalls' = [backupCalls EXCEPT ![c] = d]
      /\ UNCHANGED <<casFiles, registered, backups, restores, restorers, dataRoot>>
  BY <1>1, <1>3, <1>4 DEF CopyObjects, CasEntries
<1>9. registered' \subseteq casFiles' /\ casFiles' \subseteq Artifacts
  BY <1>8 DEF BackupInv, BackupTypeOK
<1> QED BY <1>6, <1>7, <1>8, <1>9, CallMoves

\* RegisterBundle
LEMMA RegisterBundleStep ==
    ASSUME BackupInv, NEW c \in BackupCallers, RegisterBundle(c) PROVE BackupInv'
<1>1. PICK b : b = backupCalls[c]
  OBVIOUS
<1>2. b \in BackupCall /\ b.request \in BackupRequests /\ b # NoDeployment /\ b.pc = "register"
  BY <1>1, CallRow DEF RegisterBundle
<1>3. PICK d : d = [b EXCEPT !.pc = "record"]
  OBVIOUS
<1>4. d \in BackupCall /\ d.cas = b.cas /\ d.rows = b.rows /\ d.objects = b.objects
  BY <1>2, <1>3 DEF BackupCall
<1>5. CallFits(c)
  BY DEF BackupInv
<1>6. Whole(d)
  BY <1>1, <1>2, <1>4, <1>5 DEF Whole, CallFits
<1>7. /\ backupCalls' = [backupCalls EXCEPT ![c] = d]
      /\ casFiles' = casFiles \cup {b.request} /\ registered' = registered \cup {b.request}
      /\ UNCHANGED <<backups, restores, restorers, dataRoot>>
  BY <1>1, <1>3 DEF RegisterBundle
<1>8. registered' \subseteq casFiles' /\ casFiles' \subseteq Artifacts
  BY <1>2, <1>7 DEF BackupInv, BackupTypeOK, Artifacts
<1> QED BY <1>4, <1>6, <1>7, <1>8, CallMoves

\* RecordBackup: a request is recorded once.
LEMMA RecordBackupStep ==
    ASSUME BackupInv, NEW c \in BackupCallers, RecordBackup(c) PROVE BackupInv'
<1>1. PICK b : b = backupCalls[c]
  OBVIOUS
<1>2. /\ b \in BackupCall /\ b.request \in BackupRequests /\ b # NoDeployment /\ b.pc = "record"
      /\ b.rows \subseteq Artifacts /\ b.objects \subseteq Artifacts /\ b.cas \in BOOLEAN
  BY <1>1, CallRow DEF RecordBackup
<1>3. PICK d : d = [request |-> b.request, cas |-> b.cas, rows |-> b.rows, objects |-> b.objects]
  OBVIOUS
<1>4. d \in BackupRow /\ d.request = b.request /\ d.cas = b.cas /\ d.rows = b.rows /\ d.objects = b.objects
  BY <1>2, <1>3 DEF BackupRow
<1>5. CallFits(c)
  BY DEF BackupInv
<1>6. Whole(d)
  BY <1>1, <1>2, <1>4, <1>5 DEF Whole, CallFits
<1>7. /\ backupCalls' = [backupCalls EXCEPT ![c] = NoDeployment]
      /\ backups' = IF BackedUp(b.request) THEN backups ELSE backups \cup {d}
      /\ UNCHANGED <<casFiles, registered, restores, restorers, dataRoot>>
  BY <1>1, <1>3 DEF RecordBackup
<1>8. CASE BackedUp(b.request)
  <2>1. registered' \subseteq casFiles' /\ casFiles' \subseteq Artifacts
    BY <1>7 DEF BackupInv, BackupTypeOK
  <2> QED BY <1>7, <1>8, <2>1, CallMoves
<1>9. CASE ~BackedUp(b.request)
  <2>1. backups' = backups \cup {d}
    BY <1>7, <1>9
  <2>2. \A x \in backups : x.request # d.request
    BY <1>4, <1>9 DEF BackedUp
  <2>3. BackupsFit'
    BY <1>6, <2>1, <2>2 DEF BackupInv, BackupsFit, Whole
  <2>4. backupCalls'[c] = NoDeployment /\ \A x \in BackupCallers \ {c} : backupCalls'[x] = backupCalls[x]
    BY <1>7 DEF BackupInv, BackupTypeOK
  <2>5. \A x \in BackupCallers : CallFits(x)'
    BY <2>4 DEF BackupInv, CallFits, Whole
  <2>6. BackupTypeOK'
    BY <1>4, <1>7, <2>1 DEF BackupInv, BackupTypeOK
  <2> QED BY <1>7, <2>1, <2>3, <2>5, <2>6, RestoresStay DEF BackupInv
<1> QED BY <1>8, <1>9

\* A step of one restore: the backups stay, and what the others know of the root too.
LEMMA RestoreMoves ==
    ASSUME BackupInv, NEW q \in RestoreRequests, NEW r \in RestoreCall \cup {NoDeployment},
           restorers' = [restorers EXCEPT ![q] = r],
           NEW s \in {"RUNNING", "SUCCEEDED", "FAILED"},
           UNCHANGED restores \/ restores' = [restores EXCEPT ![q] = s],
           restores' # restores /\ s = "SUCCEEDED" => dataRoot # NoDeployment /\ dataRoot.by = q,
           RestorerFits(q)', dataRoot' \in Root \cup {NoDeployment},
           dataRoot # NoDeployment => dataRoot' = dataRoot,
           dataRoot' # NoDeployment => dataRoot'.upgraded /\ FromBackup(dataRoot'),
           UNCHANGED <<casFiles, registered, backups, backupCalls>>
    PROVE  BackupInv'
<1>1. restorers'[q] = r /\ \A x \in RestoreRequests \ {q} : restorers'[x] = restorers[x]
  BY DEF BackupInv, BackupTypeOK
<1>2. BackupTypeOK'
  BY DEF BackupInv, BackupTypeOK
<1>3. ASSUME NEW x \in RestoreRequests \ {q} PROVE RestorerFits(x)'
  <2>1. RestorerFits(x) /\ restorers'[x] = restorers[x]
    BY <1>1 DEF BackupInv
  <2>2. FromBackup(restorers[x].staging) => FromBackup(restorers[x].staging)'
    BY <2>1 DEF FromBackup
  <2> QED BY <2>1, <2>2 DEF RestorerFits
<1>4. \A x \in RestoreRequests : restores'[x] = "SUCCEEDED" => dataRoot # NoDeployment /\ dataRoot.by = x
  <2> SUFFICES ASSUME NEW x \in RestoreRequests, restores'[x] = "SUCCEEDED"
               PROVE  dataRoot # NoDeployment /\ dataRoot.by = x
    OBVIOUS
  <2>1. CASE restores[x] = "SUCCEEDED"
    BY <2>1 DEF BackupInv, RootFits
  <2>2. CASE restores[x] # "SUCCEEDED"
    <3>1. restores' # restores /\ restores' = [restores EXCEPT ![q] = s]
      BY <2>2
    <3>2. x = q /\ s = "SUCCEEDED"
      BY <2>2, <3>1 DEF BackupInv, BackupTypeOK
    <3> QED BY <3>1, <3>2
  <2> QED BY <2>1, <2>2
<1>5. RootFits'
  <2>1. dataRoot' # NoDeployment => dataRoot'.upgraded /\ FromBackup(dataRoot)'
    BY DEF FromBackup
  <2> QED BY <1>4, <2>1 DEF RootFits
<1>6. BackupsFit' /\ \A c \in BackupCallers : CallFits(c)'
  BY DEF BackupInv, BackupsFit, CallFits, Whole
<1> QED BY <1>2, <1>3, <1>5, <1>6 DEF BackupInv

\* A restore that is under way has the fields of one.
LEMMA RestoreRow ==
    ASSUME BackupInv, NEW q \in RestoreRequests, restorers[q] # NoDeployment
    PROVE  /\ restorers[q] \in RestoreCall /\ RestorerFits(q)
           /\ restorers[q].staging \in Root \cup {NoDeployment}
<1>1. restorers[q] \in RestoreCall /\ RestorerFits(q)
  BY DEF BackupInv, BackupTypeOK
<1> QED BY <1>1 DEF RestoreCall

\* The root as it is fits.
LEMMA RootKept ==
    ASSUME BackupInv, UNCHANGED dataRoot
    PROVE  /\ dataRoot' \in Root \cup {NoDeployment}
           /\ dataRoot # NoDeployment => dataRoot' = dataRoot
           /\ dataRoot' # NoDeployment => dataRoot'.upgraded /\ FromBackup(dataRoot')
<1>1. dataRoot \in Root \cup {NoDeployment} /\ (dataRoot # NoDeployment => dataRoot.upgraded /\ FromBackup(dataRoot))
  BY DEF BackupInv, BackupTypeOK, RootFits
<1> QED BY <1>1

\* RestoreStarts
LEMMA RestoreStartsStep ==
    ASSUME BackupInv, NEW q \in RestoreRequests, NEW b \in backups, RestoreStarts(q, b) PROVE BackupInv'
<1>1. PICK r : r = [pc |-> "extract", backup |-> b, staging |-> NoDeployment]
  OBVIOUS
<1>2. b \in BackupRow
  BY DEF BackupInv, BackupTypeOK
<1>3. r \in RestoreCall /\ r.pc = "extract" /\ r.backup = b
  BY <1>1, <1>2 DEF RestoreCall
<1>4. /\ restorers' = [restorers EXCEPT ![q] = r] /\ restores' = [restores EXCEPT ![q] = "RUNNING"]
      /\ UNCHANGED <<casFiles, registered, backups, backupCalls, dataRoot>>
  BY <1>1 DEF RestoreStarts
<1>5. restorers'[q] = r
  BY <1>4 DEF BackupInv, BackupTypeOK
<1>6. RestorerFits(q)'
  BY <1>3, <1>4, <1>5 DEF RestorerFits
<1> QED BY <1>3, <1>4, <1>6, RestoreMoves, RootKept

\* ExtractVerified
LEMMA ExtractVerifiedStep ==
    ASSUME BackupInv, NEW q \in RestoreRequests, ExtractVerified(q) PROVE BackupInv'
<1>1. restorers[q] # NoDeployment /\ restorers[q].pc = "extract"
  BY DEF ExtractVerified, RestorerAt
<1>2. PICK b : b = restorers[q].backup
  OBVIOUS
<1>3. b \in backups /\ b \in BackupRow /\ b.rows \subseteq Artifacts /\ b.objects \subseteq Artifacts
  <2>1. b \in backups
    BY <1>1, <1>2, RestoreRow DEF RestorerFits
  <2>2. b \in BackupRow
    BY <2>1 DEF BackupInv, BackupTypeOK
  <2> QED BY <2>1, <2>2 DEF BackupRow
<1>4. PICK s : s = [by |-> q, rows |-> b.rows, objects |-> b.objects, upgraded |-> FALSE]
  OBVIOUS
<1>5. s \in Root /\ s.by = q /\ s.rows = b.rows /\ s.objects = b.objects
  BY <1>3, <1>4 DEF Root
<1>6. PICK r : r = [pc |-> "upgrade", backup |-> NoDeployment, staging |-> s]
  OBVIOUS
<1>7. r \in RestoreCall /\ r.pc = "upgrade" /\ r.staging = s
  BY <1>5, <1>6 DEF RestoreCall
<1>8. /\ restorers' = [restorers EXCEPT ![q] = r]
      /\ UNCHANGED <<casFiles, registered, backups, backupCalls, restores, dataRoot>>
  BY <1>2, <1>4, <1>6 DEF ExtractVerified
<1>9. restorers'[q] = r
  BY <1>8 DEF BackupInv, BackupTypeOK
<1>10. s # NoDeployment
  BY <1>5, MaintenanceInputs
<1>11. RestorerFits(q)'
  BY <1>3, <1>5, <1>7, <1>8, <1>9, <1>10 DEF RestorerFits, FromBackup
<1> QED BY <1>7, <1>8, <1>11, RestoreMoves, RootKept

\* UpgradeAndRebuild
LEMMA UpgradeAndRebuildStep ==
    ASSUME BackupInv, NEW q \in RestoreRequests, UpgradeAndRebuild(q) PROVE BackupInv'
<1>1. restorers[q] # NoDeployment /\ restorers[q].pc = "upgrade"
  BY DEF UpgradeAndRebuild, RestorerAt
<1>2. PICK c : c = restorers[q]
  OBVIOUS
<1>3. PICK s : s = c.staging
  OBVIOUS
<1>4. c \in RestoreCall /\ s \in Root /\ s.by = q /\ FromBackup(s)
  BY <1>1, <1>2, <1>3, RestoreRow DEF RestorerFits
<1>5. PICK u : u = [s EXCEPT !.upgraded = TRUE]
  OBVIOUS
<1>6. u \in Root /\ u.by = q /\ u.rows = s.rows /\ u.objects = s.objects /\ u.upgraded
  BY <1>4, <1>5 DEF Root
<1>7. PICK r : r = [c EXCEPT !.pc = "publish", !.staging = u]
  OBVIOUS
<1>8. r \in RestoreCall /\ r.pc = "publish" /\ r.staging = u
  BY <1>4, <1>6, <1>7 DEF RestoreCall
<1>9. /\ restorers' = [restorers EXCEPT ![q] = r]
      /\ UNCHANGED <<casFiles, registered, backups, backupCalls, restores, dataRoot>>
  BY <1>2, <1>3, <1>5, <1>7 DEF UpgradeAndRebuild
<1>10. restorers'[q] = r
  BY <1>9 DEF BackupInv, BackupTypeOK
<1>11. u # NoDeployment /\ FromBackup(u)
  BY <1>4, <1>6, MaintenanceInputs DEF FromBackup
<1>12. RestorerFits(q)'
  BY <1>6, <1>8, <1>9, <1>10, <1>11 DEF RestorerFits, FromBackup
<1> QED BY <1>8, <1>9, <1>12, RestoreMoves, RootKept

\* PublishRoot: nothing was published before.
LEMMA PublishRootStep ==
    ASSUME BackupInv, NEW q \in RestoreRequests, PublishRoot(q) PROVE BackupInv'
<1>1. restorers[q] # NoDeployment /\ restorers[q].pc = "publish" /\ dataRoot = NoDeployment
  BY DEF PublishRoot, RestorerAt
<1>2. PICK c : c = restorers[q]
  OBVIOUS
<1>3. PICK s : s = c.staging
  OBVIOUS
<1>4. c \in RestoreCall /\ s \in Root /\ s.by = q /\ FromBackup(s) /\ s.upgraded /\ s # NoDeployment
  BY <1>1, <1>2, <1>3, RestoreRow DEF RestorerFits
<1>5. PICK r : r = [c EXCEPT !.pc = "finish"]
  OBVIOUS
<1>6. r \in RestoreCall /\ r.pc = "finish" /\ r.staging = s
  BY <1>3, <1>4, <1>5 DEF RestoreCall
<1>7. /\ restorers' = [restorers EXCEPT ![q] = r] /\ dataRoot' = s
      /\ UNCHANGED <<casFiles, registered, backups, backupCalls, restores>>
  BY <1>2, <1>3, <1>5 DEF PublishRoot
<1>8. restorers'[q] = r
  BY <1>7 DEF BackupInv, BackupTypeOK
<1>9. RestorerFits(q)'
  BY <1>4, <1>6, <1>7, <1>8 DEF RestorerFits, FromBackup
<1> QED BY <1>1, <1>4, <1>6, <1>7, <1>9, RestoreMoves

\* A restore that ends, with the state of its row: only the one that published succeeds.
LEMMA RestoreEnds ==
    ASSUME BackupInv, NEW q \in RestoreRequests, RestoreFails(q) \/ FinishSuccess(q) \/ RestoreDies(q)
    PROVE  BackupInv'
<1>1. /\ restorers' = [restorers EXCEPT ![q] = NoDeployment]
      /\ UNCHANGED <<casFiles, registered, backups, backupCalls, dataRoot>>
  BY DEF RestoreFails, FinishSuccess, RestoreDies
<1>2. restorers'[q] = NoDeployment
  BY <1>1 DEF BackupInv, BackupTypeOK
<1>3. RestorerFits(q)'
  BY <1>2 DEF RestorerFits
<1>4. CASE RestoreFails(q)
  <2>1. restores' = [restores EXCEPT ![q] = "FAILED"]
    BY <1>4 DEF RestoreFails
  <2> QED BY <1>1, <1>3, <2>1, RestoreMoves, RootKept
<1>5. CASE FinishSuccess(q)
  <2>1. restores' = [restores EXCEPT ![q] = "SUCCEEDED"]
    BY <1>5 DEF FinishSuccess
  <2>2. dataRoot # NoDeployment /\ dataRoot.by = q
    BY <1>5, RestoreRow DEF FinishSuccess, RestorerAt, RestorerFits
  <2> QED BY <1>1, <1>3, <2>1, <2>2, RestoreMoves, RootKept
<1>6. CASE RestoreDies(q)
  <2>1. UNCHANGED restores
    BY <1>6 DEF RestoreDies
  <2> QED BY <1>1, <1>3, <2>1, RestoreMoves, RootKept
<1> QED BY <1>4, <1>5, <1>6

\* Every step keeps the invariant.
LEMMA BackupStep == BackupInv /\ [BackupNext]_backupVars => BackupInv'
<1> SUFFICES ASSUME BackupInv, [BackupNext]_backupVars PROVE BackupInv'
  OBVIOUS
<1>1. CASE \E x \in StoredArtifacts : StoreArtifact(x)
  BY <1>1, StoreArtifactStep
<1>2. CASE \E c \in BackupCallers, r \in BackupRequests : OnlineSnapshot(c, r)
  BY <1>2, OnlineSnapshotStep
<1>3. ASSUME NEW c \in BackupCallers, CopyObjects(c) \/ RegisterBundle(c) \/ RecordBackup(c) \/ BackupDies(c)
      PROVE  BackupInv'
  <2>1. CASE BackupDies(c)
    <3>1. /\ backupCalls' = [backupCalls EXCEPT ![c] = NoDeployment]
          /\ UNCHANGED <<casFiles, registered, backups, restores, restorers, dataRoot>>
      BY <2>1 DEF BackupDies
    <3>2. registered' \subseteq casFiles' /\ casFiles' \subseteq Artifacts
      BY <3>1 DEF BackupInv, BackupTypeOK
    <3> QED BY <3>1, <3>2, CallMoves
  <2> QED BY <1>3, <2>1, CopyObjectsStep, RegisterBundleStep, RecordBackupStep
<1>4. CASE \E q \in RestoreRequests, b \in backups : RestoreStarts(q, b)
  BY <1>4, RestoreStartsStep
<1>5. ASSUME NEW q \in RestoreRequests,
             \/ ExtractVerified(q) \/ UpgradeAndRebuild(q) \/ RestoreFails(q) \/ PublishRoot(q)
             \/ FinishSuccess(q) \/ RestoreDies(q)
      PROVE  BackupInv'
  BY <1>5, ExtractVerifiedStep, UpgradeAndRebuildStep, PublishRootStep, RestoreEnds
<1>6. CASE UNCHANGED backupVars
  <2>1. BackupTypeOK'
    BY <1>6 DEF backupVars, BackupInv, BackupTypeOK
  <2>2. BackupsFit' /\ \A c \in BackupCallers : CallFits(c)'
    BY <1>6 DEF backupVars, BackupInv, BackupsFit, CallFits, Whole
  <2> QED BY <1>6, <2>1, <2>2, RestoresStay DEF backupVars, BackupInv
<1> QED BY <1>1, <1>2, <1>3, <1>4, <1>5, <1>6 DEF BackupNext

\* RestoredRootIsOneBackup, for every number of artifacts, requests and callers.
THEOREM RestoredRootAlwaysOneBackup == MaintenanceSpec => []RestoredRootIsOneBackup
<1> DEFINE Inv == BackupInv /\ SchemaInv /\ ServiceInv
<1>1. (\E held \in SUBSET BackupRequests : MaintenanceInit(held)) => Inv
  <2> SUFFICES ASSUME NEW held \in SUBSET BackupRequests, MaintenanceInit(held) PROVE Inv
    OBVIOUS
  <2>1. SchemaInv /\ ServiceInv
    BY SchemaStarts, ServiceStarts
  <2>2. backups = [request : held, cas : {FALSE}, rows : {{}}, objects : {{}}] /\ dataRoot = NoDeployment
    BY DEF MaintenanceInit
  <2>3. \A b \in backups : b \in BackupRow /\ b.cas = FALSE /\ b.rows = {} /\ b.objects = {}
    BY <2>2 DEF BackupRow
  <2>4. \A b, c \in backups : b.request = c.request => b = c
    <3> SUFFICES ASSUME NEW b \in backups, NEW c \in backups, b.request = c.request PROVE b = c
      OBVIOUS
    <3>1. b \in BackupRow /\ c \in BackupRow
      BY <2>3
    <3>2. b.cas = c.cas /\ b.rows = c.rows /\ b.objects = c.objects
      BY <2>3
    <3> QED BY <3>1, <3>2 DEF BackupRow
  <2>5. BackupsFit
    BY <2>3, <2>4 DEF BackupsFit, Whole
  <2>6. BackupTypeOK
    BY <2>3 DEF MaintenanceInit, BackupTypeOK, Artifacts
  <2>7. RootFits /\ (\A c \in BackupCallers : CallFits(c)) /\ (\A q \in RestoreRequests : RestorerFits(q))
    BY DEF MaintenanceInit, RootFits, CallFits, RestorerFits
  <2> QED BY <2>1, <2>5, <2>6, <2>7 DEF BackupInv
<1>2. Inv /\ [MaintenanceNext]_maintenanceVars => Inv'
  <2>1. [MaintenanceNext]_maintenanceVars => [BackupNext]_backupVars /\ [SchemaNext]_schemaVars /\ [ServiceNext]_serviceVars
    BY DEF MaintenanceNext, maintenanceVars
  <2> QED BY <2>1, BackupStep, SchemaStep, ServiceStep
<1>3. Inv => RestoredRootIsOneBackup
  <2> SUFFICES ASSUME Inv PROVE RestoredRootIsOneBackup
    OBVIOUS
  <2>1. MaintenanceTypeOK
    BY DEF BackupInv, SchemaInv, ServiceInv, MaintenanceTypeOK
  <2> QED BY <2>1 DEF RestoredRootIsOneBackup, BackupInv, BackupsFit, Whole, RootFits, FromBackup
<1> QED BY <1>1, <1>2, <1>3, PTL DEF MaintenanceSpec

-----------------------------------------------------------------------------
(* Schedules                                                                *)

\* The sets that claim_ready goes through exist: the recursion has a solution.
LEMMA TakenExists ==
    ASSUME NEW p, NEW n \in Nat
    PROVE  \E f : f = [k \in 0 .. n |-> IF k = 0 THEN {} ELSE TakeNext(p, f[k - 1], WorkOf[p][k])]
<1> DEFINE Step(k, b) == TakeNext(p, b, WorkOf[p][k])
           Solved(m) == \E f : f = [k \in 0 .. m |-> IF k = 0 THEN {} ELSE Step(k, f[k - 1])]
           S == {m \in 0 .. n : Solved(m)}
<1>1. Solved(0)
  <2> DEFINE f == [k \in 0 .. 0 |-> {}]
  <2>1. f = [k \in 0 .. 0 |-> IF k = 0 THEN {} ELSE Step(k, f[k - 1])]
    <3> HIDE DEF Step
    <3> QED OBVIOUS
  <2> QED BY <2>1
<1>2. ASSUME NEW m \in 0 .. n - 1, Solved(m) PROVE Solved(m + 1)
  <2>1. PICK f : f = [k \in 0 .. m |-> IF k = 0 THEN {} ELSE Step(k, f[k - 1])]
    BY <1>2
  <2> DEFINE g == [k \in 0 .. m + 1 |-> IF k = m + 1 THEN Step(k, f[m]) ELSE f[k]]
  <2> HIDE DEF Step
  <2>2. \A k \in 0 .. m : g[k] = f[k]
    OBVIOUS
  <2>3. \A k \in 0 .. m + 1 : g[k] = IF k = 0 THEN {} ELSE Step(k, g[k - 1])
    <3> TAKE k \in 0 .. m + 1
    <3>1. CASE k = m + 1
      <4>1. g[k] = Step(k, f[m]) /\ k # 0 /\ k - 1 = m
        BY <3>1
      <4>2. g[m] = f[m]
        BY <2>2
      <4> HIDE DEF g
      <4> QED BY <4>1, <4>2
    <3>2. CASE k # m + 1
      <4>1. k \in 0 .. m /\ (k # 0 => k - 1 \in 0 .. m)
        BY <3>2
      <4>2. g[k] = f[k] /\ (k # 0 => g[k - 1] = f[k - 1])
        BY <2>2, <4>1
      <4>3. f[k] = IF k = 0 THEN {} ELSE Step(k, f[k - 1])
        BY <2>1, <4>1
      <4> HIDE DEF g
      <4> QED BY <4>2, <4>3
    <3> QED BY <3>1, <3>2
  <2>4. g = [k \in 0 .. m + 1 |-> IF k = 0 THEN {} ELSE Step(k, g[k - 1])]
    BY <2>3
  <2> HIDE DEF g
  <2> QED BY <2>4
<1>3. Solved(n)
  <2>1. 0 \in S /\ \A k \in 0 .. n - 1 : k \in S => k + 1 \in S
    <3> HIDE DEF Solved
    <3> QED BY <1>1, <1>2
  <2>2. \A k \in 0 .. n : k \in S
    <3> HIDE DEF S
    <3> QED BY <2>1, InductionUpTo
  <2> HIDE DEF Solved
  <2> QED BY <2>2
<1> QED BY <1>3

\* What claim_ready takes is the last of those sets.
LEMMA TakenIsClaimable ==
    ASSUME NEW p, Len(WorkOf[p]) \in Nat
    PROVE  \E f : /\ f[0] = {} /\ ClaimableUpTo(p) = f[Len(WorkOf[p])]
                  /\ \A k \in 1 .. Len(WorkOf[p]) : f[k] = TakeNext(p, f[k - 1], WorkOf[p][k])
<1> DEFINE n == Len(WorkOf[p])
           IsTaken(f) == f = [k \in 0 .. n |-> IF k = 0 THEN {} ELSE TakeNext(p, f[k - 1], WorkOf[p][k])]
<1>1. \E f : IsTaken(f)
  BY TakenExists
<1>2. PICK f : f = CHOOSE h : IsTaken(h)
  OBVIOUS
<1>3. IsTaken(f)
  <2> HIDE DEF IsTaken
  <2> QED BY <1>1, <1>2
<1>4. ClaimableUpTo(p) = f[n]
  BY <1>2 DEF ClaimableUpTo
<1>5. f[0] = {} /\ \A k \in 1 .. n : f[k] = TakeNext(p, f[k - 1], WorkOf[p][k])
  <2>1. 0 \in 0 .. n /\ \A k \in 1 .. n : k \in 0 .. n /\ k # 0
    OBVIOUS
  <2> QED BY <1>3, <2>1
<1> QED BY <1>4, <1>5

\* The rows of a plan before it is created, when it is ready and while it is paused or runs.
ScheduleFits(p) ==
    /\ planState[p] = "NONE" => \A w \in ItemsOf(p) : work[w] = "NONE" /\ promotion[w] = "NONE"
    /\ planState[p] # "NONE" => \A w \in ItemsOf(p) : /\ work[w] # "NONE" /\ promotion[w] # "NONE"
                                                     /\ placed[w] \in Targets
    /\ planState[p] = "READY" => \A w \in ItemsOf(p) : work[w] = "QUEUED"
    /\ planState[p] = "BUDGET_PAUSED" => \A w \in ItemsOf(p) : work[w] # "QUEUED"
    /\ planState[p] = "RUNNING" => \A w \in ItemsOf(p) : work[w] # "BUDGET_PAUSED"

\* What the promotion of an item says of its work.
ItemFits(w) ==
    /\ work[w] \in {"QUEUED", "RUNNING", "BUDGET_PAUSED"} => promotion[w] = "WAITING"
    /\ promotion[w] = "NOT_ELIGIBLE" => work[w] = "FAILED"
    /\ promotion[w] \in {"CLAIMED", "PROMOTED"} => work[w] = "SUCCEEDED"

OrderFits(p) ==
    \A k \in DOMAIN WorkOf[p] : promotion[WorkOf[p][k]] \in {"CLAIMED", "PROMOTED"} =>
        \A j \in 1 .. k - 1 : promotion[WorkOf[p][j]] \in {"PROMOTED", "NOT_ELIGIBLE"}

GroupsFit(p) ==
    \A t \in Targets : \E u \in Targets :
        GroupOf[u] = GroupOf[t] /\ Cardinality(GroupRunning(p, GroupOf[t])) <= CapacityOf[u]

PlacementInv ==
    /\ PlacementTypeOK /\ \A w \in WorkItems : ItemFits(w)
    /\ \A p \in SchedulePlans : ScheduleFits(p) /\ OrderFits(p) /\ GroupsFit(p)

\* The items of a plan.
LEMMA PlanItems ==
    ASSUME NEW p \in SchedulePlans
    PROVE  /\ Len(WorkOf[p]) \in Nat /\ DOMAIN WorkOf[p] = 1 .. Len(WorkOf[p])
           /\ \A k \in 1 .. Len(WorkOf[p]) : WorkOf[p][k] \in ItemsOf(p)
           /\ ItemsOf(p) \subseteq WorkItems /\ IsFiniteSet(ItemsOf(p))
           /\ \A q \in SchedulePlans : \A w \in ItemsOf(p) : w \in ItemsOf(q) => p = q
<1>1. WorkOf[p] \in Seq(WorkItems)
  BY PlacementInputs
<1>2. Len(WorkOf[p]) \in Nat /\ DOMAIN WorkOf[p] = 1 .. Len(WorkOf[p])
  BY <1>1, LenProperties
<1>3. \A k \in 1 .. Len(WorkOf[p]) : WorkOf[p][k] \in ItemsOf(p)
  BY <1>2 DEF ItemsOf
<1>4. ItemsOf(p) \subseteq WorkItems
  BY DEF ItemsOf, WorkItems
<1>5. IsFiniteSet(ItemsOf(p))
  <2> DEFINE n == Len(WorkOf[p])
             f == [k \in 1 .. n |-> WorkOf[p][k]]
  <2>1. IsFiniteSet(1 .. n)
    BY <1>2, FS_Interval
  <2>2. f \in Surjection(1 .. n, ItemsOf(p))
    BY <1>2 DEF Surjection, ItemsOf
  <2> HIDE DEF f, n
  <2> QED BY <2>1, <2>2, FS_Surjection
<1>6. \A q \in SchedulePlans : \A w \in ItemsOf(p) : w \in ItemsOf(q) => p = q
  BY PlacementInputs DEF ItemsOf
<1> QED BY <1>2, <1>3, <1>4, <1>5, <1>6

\* Fewer items running.
LEMMA GroupsShrink ==
    ASSUME NEW p \in SchedulePlans, GroupsFit(p), \A g : GroupRunning(p, g)' \subseteq GroupRunning(p, g)
    PROVE  GroupsFit(p)'
<1> SUFFICES ASSUME NEW t \in Targets
             PROVE  \E u \in Targets : GroupOf[u] = GroupOf[t]
                       /\ Cardinality(GroupRunning(p, GroupOf[t])') <= CapacityOf[u]
  BY DEF GroupsFit
<1>1. PICK u \in Targets : GroupOf[u] = GroupOf[t] /\ Cardinality(GroupRunning(p, GroupOf[t])) <= CapacityOf[u]
  BY DEF GroupsFit
<1>2. PICK A : A = GroupRunning(p, GroupOf[t])
  OBVIOUS
<1>3. PICK B : B = GroupRunning(p, GroupOf[t])'
  OBVIOUS
<1>4. IsFiniteSet(A)
  <2>1. A \subseteq ItemsOf(p)
    BY <1>2 DEF GroupRunning
  <2> QED BY <2>1, PlanItems, FS_Subset
<1>5. IsFiniteSet(B) /\ Cardinality(B) <= Cardinality(A) /\ Cardinality(B) \in Nat /\ Cardinality(A) \in Nat
  BY <1>2, <1>3, <1>4, FS_Subset, FS_CardinalityType
<1>6. CapacityOf[u] \in Nat
  BY PlacementInputs
<1> QED BY <1>1, <1>2, <1>3, <1>5, <1>6

\* A step that moves neither work nor placement nor promotion of a plan's items.
LEMMA ScheduleStays ==
    ASSUME NEW p \in SchedulePlans, ScheduleFits(p), OrderFits(p), GroupsFit(p), planState'[p] = planState[p],
           \A w \in ItemsOf(p) : work'[w] = work[w] /\ promotion'[w] = promotion[w] /\ placed'[w] = placed[w]
    PROVE  ScheduleFits(p)' /\ OrderFits(p)' /\ GroupsFit(p)'
<1>1. ItemsOf(p)' = ItemsOf(p)
  BY DEF ItemsOf
<1>2. ScheduleFits(p)'
  BY <1>1 DEF ScheduleFits
<1>3. OrderFits(p)'
  BY PlanItems DEF OrderFits
<1>4. \A g : GroupRunning(p, g)' = GroupRunning(p, g)
  BY <1>1 DEF GroupRunning
<1> QED BY <1>2, <1>3, <1>4, GroupsShrink

\* Only probes, the budget or a decision move.
LEMMA PlacementKeeps ==
    ASSUME PlacementInv, PlacementTypeOK', UNCHANGED <<planState, work, promotion, placed>>
    PROVE  PlacementInv'
<1>1. \A p \in SchedulePlans : ScheduleFits(p)' /\ OrderFits(p)' /\ GroupsFit(p)'
  BY ScheduleStays DEF PlacementInv
<1>2. \A w \in WorkItems : ItemFits(w)'
  BY DEF PlacementInv, ItemFits
<1> QED BY <1>1, <1>2 DEF PlacementInv

\* CreateSchedule: every item has a target.
LEMMA CreateScheduleStep ==
    ASSUME PlacementInv, NEW p \in SchedulePlans, CreateSchedule(p)
    PROVE  PlacementInv'
<1>1. \A w \in ItemsOf(p) : w \in WorkItems /\ Place(w) \in Targets
  <2> TAKE w \in ItemsOf(p)
  <2>1. w \in WorkItems /\ Acceptable[w] \in Seq(Targets)
    BY PlanItems, PlacementInputs
  <2>2. DOMAIN Acceptable[w] = 1 .. Len(Acceptable[w]) /\ Len(Acceptable[w]) \in Nat
    BY <2>1, LenProperties
  <2>3. TargetChoices(w) # {} /\ TargetChoices(w) \subseteq 1 .. Len(Acceptable[w])
    BY <2>2 DEF CreateSchedule, TargetChoices
  <2>4. TargetChoices(w) \subseteq Nat
    BY <2>3
  <2>5. \E k \in TargetChoices(w) : \A j \in TargetChoices(w) : k <= j
    BY <2>3, <2>4, LeastNatural
  <2>6. (CHOOSE k \in TargetChoices(w) : \A j \in TargetChoices(w) : k <= j) \in 1 .. Len(Acceptable[w])
    BY <2>3, <2>5
  <2> QED BY <2>1, <2>6, ElementOfSeq DEF Place
<1>2. /\ planState[p] = "NONE" /\ planState' = [planState EXCEPT ![p] = "READY"]
      /\ work' = [w \in WorkItems |-> IF w \in ItemsOf(p) THEN "QUEUED" ELSE work[w]]
      /\ promotion' = [w \in WorkItems |-> IF w \in ItemsOf(p) THEN "WAITING" ELSE promotion[w]]
      /\ placed' = [w \in WorkItems |-> IF w \in ItemsOf(p) THEN Place(w) ELSE placed[w]]
      /\ UNCHANGED <<report, budget, decision>>
  BY DEF CreateSchedule
<1>3. PlacementTypeOK'
  BY <1>1, <1>2 DEF PlacementInv, PlacementTypeOK
<1>4. \A w \in WorkItems : ItemFits(w)'
  BY <1>2 DEF PlacementInv, ItemFits
<1>5. \A q \in SchedulePlans \ {p} : ScheduleFits(q)' /\ OrderFits(q)' /\ GroupsFit(q)'
  <2> TAKE q \in SchedulePlans \ {p}
  <2>1. \A w \in ItemsOf(q) : w \in WorkItems /\ w \notin ItemsOf(p)
    BY PlanItems
  <2>2. planState'[q] = planState[q]
    BY <1>2 DEF PlacementInv, PlacementTypeOK
  <2> QED BY <1>2, <2>1, <2>2, ScheduleStays DEF PlacementInv
<1>6. ScheduleFits(p)' /\ OrderFits(p)' /\ GroupsFit(p)'
  <2>1. planState'[p] = "READY"
    BY <1>2 DEF PlacementInv, PlacementTypeOK
  <2>2. \A w \in ItemsOf(p) : /\ work'[w] = "QUEUED" /\ promotion'[w] = "WAITING" /\ placed'[w] \in Targets
    BY <1>1, <1>2
  <2>3. ItemsOf(p)' = ItemsOf(p)
    BY DEF ItemsOf
  <2>4. \A g : GroupRunning(p, g)' \subseteq GroupRunning(p, g)
    BY <2>2, <2>3 DEF GroupRunning
  <2>5. ScheduleFits(p)'
    BY <2>1, <2>2, <2>3 DEF ScheduleFits
  <2>6. OrderFits(p)'
    BY <2>2, PlanItems DEF OrderFits
  <2> QED BY <2>4, <2>5, <2>6, GroupsShrink DEF PlacementInv
<1> QED BY <1>3, <1>4, <1>5, <1>6 DEF PlacementInv

\* A plan's state and the queue of its items move together.
LEMMA QueueMoves ==
    ASSUME PlacementInv, NEW p \in SchedulePlans, planState[p] # "NONE",
           NEW s \in {"READY", "RUNNING", "BUDGET_PAUSED"}, planState' = [planState EXCEPT ![p] = s],
           NEW from \in {"QUEUED", "BUDGET_PAUSED"}, NEW to \in {"QUEUED", "BUDGET_PAUSED"},
           work' = [w \in WorkItems |-> IF w \in ItemsOf(p) /\ work[w] = from THEN to ELSE work[w]],
           \A w \in ItemsOf(p) : /\ s = "READY" => work'[w] = "QUEUED"
                                 /\ s = "BUDGET_PAUSED" => work'[w] # "QUEUED"
                                 /\ s = "RUNNING" => work'[w] # "BUDGET_PAUSED",
           decision' \in [SchedulePlans -> {"NONE", "ALLOWED", "DENIED"}],
           UNCHANGED <<report, promotion, placed, budget>>
    PROVE  PlacementInv'
<1>1. \A w \in WorkItems : /\ work'[w] \in {"NONE", "QUEUED", "RUNNING", "BUDGET_PAUSED", "SUCCEEDED", "FAILED"}
                           /\ (work'[w] = "RUNNING") <=> (work[w] = "RUNNING")
                           /\ (work'[w] = "SUCCEEDED") <=> (work[w] = "SUCCEEDED")
                           /\ (work'[w] = "FAILED") <=> (work[w] = "FAILED")
                           /\ (work'[w] = "NONE") <=> (work[w] = "NONE")
                           /\ w \notin ItemsOf(p) => work'[w] = work[w]
  BY DEF PlacementInv, PlacementTypeOK
<1>2. /\ planState' \in [SchedulePlans -> {"NONE", "READY", "RUNNING", "BUDGET_PAUSED"}] /\ planState'[p] = s
      /\ \A q \in SchedulePlans \ {p} : planState'[q] = planState[q]
  BY DEF PlacementInv, PlacementTypeOK
<1>3. PlacementTypeOK'
  BY <1>1, <1>2 DEF PlacementInv, PlacementTypeOK
<1>4. \A w \in WorkItems : ItemFits(w)'
  BY <1>1 DEF PlacementInv, PlacementTypeOK, ItemFits
<1>5. \A q \in SchedulePlans \ {p} : ScheduleFits(q)' /\ OrderFits(q)' /\ GroupsFit(q)'
  <2> TAKE q \in SchedulePlans \ {p}
  <2>1. \A w \in ItemsOf(q) : w \in WorkItems /\ w \notin ItemsOf(p)
    BY PlanItems
  <2> QED BY <1>1, <1>2, <2>1, ScheduleStays DEF PlacementInv
<1>6. ScheduleFits(p)' /\ OrderFits(p)' /\ GroupsFit(p)'
  <2>1. ItemsOf(p)' = ItemsOf(p) /\ ItemsOf(p) \subseteq WorkItems
    BY PlanItems DEF ItemsOf
  <2>2. \A g : GroupRunning(p, g)' \subseteq GroupRunning(p, g)
    BY <1>1, <2>1 DEF GroupRunning
  <2>3. ScheduleFits(p)'
    BY <1>1, <1>2, <2>1 DEF PlacementInv, ScheduleFits
  <2>4. OrderFits(p)'
    BY DEF PlacementInv, OrderFits
  <2> QED BY <2>2, <2>3, <2>4, GroupsShrink DEF PlacementInv
<1> QED BY <1>3, <1>4, <1>5, <1>6 DEF PlacementInv

\* ApplyBackpressure: plan and queue change together.
LEMMA BackpressureStep ==
    ASSUME PlacementInv, NEW p \in SchedulePlans, ApplyBackpressure(p)
    PROVE  PlacementInv'
<1>1. /\ decision' \in [SchedulePlans -> {"NONE", "ALLOWED", "DENIED"}]
      /\ UNCHANGED <<report, promotion, placed, budget>>
  BY DEF ApplyBackpressure, PlacementInv, PlacementTypeOK
<1>2. ItemsOf(p) \subseteq WorkItems
  BY PlanItems
<1>3. CASE /\ planState[p] = "BUDGET_PAUSED" /\ planState' = [planState EXCEPT ![p] = "RUNNING"]
           /\ work' = [w \in WorkItems |->
                         IF w \in ItemsOf(p) /\ work[w] = "BUDGET_PAUSED" THEN "QUEUED" ELSE work[w]]
  <2>1. \A w \in ItemsOf(p) : work'[w] # "BUDGET_PAUSED"
    BY <1>2, <1>3
  <2> QED BY <1>1, <1>3, <2>1, QueueMoves
<1>4. CASE /\ planState[p] = "RUNNING" /\ planState' = [planState EXCEPT ![p] = "BUDGET_PAUSED"]
           /\ work' = [w \in WorkItems |->
                         IF w \in ItemsOf(p) /\ work[w] = "QUEUED" THEN "BUDGET_PAUSED" ELSE work[w]]
  <2>1. \A w \in ItemsOf(p) : work'[w] # "QUEUED"
    BY <1>2, <1>4
  <2> QED BY <1>1, <1>4, <2>1, QueueMoves
<1>5. CASE UNCHANGED <<planState, work>>
  <2>1. PlacementTypeOK'
    BY <1>1, <1>5 DEF PlacementInv, PlacementTypeOK
  <2> QED BY <1>1, <1>5, <2>1, PlacementKeeps
<1> QED BY <1>3, <1>4, <1>5 DEF ApplyBackpressure

\* StartSchedule: nothing of a ready plan is paused.
LEMMA StartScheduleStep ==
    ASSUME PlacementInv, NEW p \in SchedulePlans, StartSchedule(p)
    PROVE  PlacementInv'
<1>1. \A w \in ItemsOf(p) : work'[w] = "QUEUED"
  BY DEF StartSchedule, PlacementInv, ScheduleFits
<1>2. work' = [w \in WorkItems |-> IF w \in ItemsOf(p) /\ work[w] = "QUEUED" THEN "QUEUED" ELSE work[w]]
  BY DEF StartSchedule, PlacementInv, PlacementTypeOK
<1>3. decision' \in [SchedulePlans -> {"NONE", "ALLOWED", "DENIED"}]
  BY DEF StartSchedule, PlacementInv, PlacementTypeOK
<1> QED BY <1>1, <1>2, <1>3, QueueMoves DEF StartSchedule

\* How far a group is filled when `before' has been taken.
GroupFilled(p, before, g) ==
    \/ OfGroup(before, g) = {}
    \/ \E u \in Targets : /\ GroupOf[u] = g
                          /\ Cardinality(GroupRunning(p, g)) + Cardinality(OfGroup(before, g)) <= CapacityOf[u]

\* One more item is taken only where a target of its group admits it.
LEMMA TakeNextFits ==
    ASSUME PlacementInv, NEW p \in SchedulePlans, planState[p] = "RUNNING", NEW w \in ItemsOf(p), NEW before,
           before \subseteq {x \in ItemsOf(p) : work[x] = "QUEUED"}, \A g : GroupFilled(p, before, g)
    PROVE  LET after == TakeNext(p, before, w) IN
           /\ after \subseteq {x \in ItemsOf(p) : work[x] = "QUEUED"}
           /\ \A g : GroupFilled(p, after, g)
<1> DEFINE h == GroupOf[placed[w]]
           after == TakeNext(p, before, w)
<1>1. placed[w] \in Targets
  BY DEF PlacementInv, ScheduleFits
<1>2. CapacityOf[placed[w]] \in Nat
  BY <1>1, PlacementInputs
<1>3. CASE after = before
  BY <1>3
<1>4. CASE /\ after = before \cup {w} /\ work[w] = "QUEUED"
           /\ Cardinality(GroupRunning(p, h)) + Cardinality(OfGroup(before, h)) < CapacityOf[placed[w]]
  <2>1. after \subseteq {x \in ItemsOf(p) : work[x] = "QUEUED"}
    BY <1>4
  <2>2. \A g : g # h => OfGroup(after, g) = OfGroup(before, g)
    BY <1>4 DEF OfGroup
  <2>3. \A g : g # h => GroupFilled(p, after, g)
    BY <2>2 DEF GroupFilled
  <2>4. /\ IsFiniteSet(OfGroup(before, h)) /\ IsFiniteSet(GroupRunning(p, h))
    <3>1. OfGroup(before, h) \subseteq ItemsOf(p) /\ GroupRunning(p, h) \subseteq ItemsOf(p)
      BY DEF OfGroup, GroupRunning
    <3> QED BY <3>1, PlanItems, FS_Subset
  <2>5. OfGroup(after, h) = OfGroup(before, h) \cup {w}
    BY <1>4 DEF OfGroup
  <2>6. PICK A : A = OfGroup(before, h)
    OBVIOUS
  <2>7. /\ Cardinality(A \cup {w}) <= Cardinality(A) + 1 /\ Cardinality(A \cup {w}) \in Nat
        /\ Cardinality(A) \in Nat
    <3>1. IsFiniteSet(A)
      BY <2>4, <2>6
    <3>2. /\ IsFiniteSet(A \cup {w})
          /\ Cardinality(A \cup {w}) = IF w \in A THEN Cardinality(A) ELSE Cardinality(A) + 1
      BY <3>1, FS_AddElement
    <3>3. Cardinality(A) \in Nat /\ Cardinality(A \cup {w}) \in Nat
      BY <3>1, <3>2, FS_CardinalityType
    <3> QED BY <3>2, <3>3
  <2>8. Cardinality(GroupRunning(p, h)) \in Nat
    BY <2>4, FS_CardinalityType
  <2>9. Cardinality(GroupRunning(p, h)) + Cardinality(OfGroup(after, h)) <= CapacityOf[placed[w]]
    <3>1. PICK m : m = Cardinality(GroupRunning(p, h))
      OBVIOUS
    <3>2. PICK c : c = CapacityOf[placed[w]]
      OBVIOUS
    <3>3. PICK B : B = OfGroup(after, h)
      OBVIOUS
    <3>4. B = A \cup {w} /\ m \in Nat /\ c \in Nat
      BY <1>2, <2>5, <2>6, <2>8, <3>1, <3>2, <3>3
    <3>5. m + Cardinality(A) < c
      BY <1>4, <2>6, <3>1, <3>2
    <3>6. m + Cardinality(B) <= c
      <4> HIDE DEF h, after
      <4> QED BY <2>7, <3>4, <3>5
    <3> QED BY <3>1, <3>2, <3>3, <3>6
  <2>10. GroupFilled(p, after, h)
    BY <1>1, <2>9 DEF GroupFilled
  <2> HIDE DEF after, h
  <2>11. \A g : GroupFilled(p, after, g)
    BY <2>3, <2>10
  <2> QED BY <2>1, <2>11 DEF after
<1> QED BY <1>3, <1>4 DEF TakeNext

\* What claim_ready takes is queued, and no group takes more than a target of it admits.
LEMMA ClaimableFits ==
    ASSUME PlacementInv, NEW p \in SchedulePlans, planState[p] = "RUNNING"
    PROVE  /\ ClaimableUpTo(p) \subseteq {x \in ItemsOf(p) : work[x] = "QUEUED"}
           /\ \A g : GroupFilled(p, ClaimableUpTo(p), g)
<1>1. Len(WorkOf[p]) \in Nat
  BY PlanItems
<1>2. PICK n \in Nat : n = Len(WorkOf[p])
  BY <1>1
<1>3. PICK f : /\ f[0] = {} /\ ClaimableUpTo(p) = f[n]
               /\ \A k \in 1 .. n : f[k] = TakeNext(p, f[k - 1], WorkOf[p][k])
  BY <1>1, <1>2, TakenIsClaimable
<1> DEFINE Fits(b) == b \subseteq {x \in ItemsOf(p) : work[x] = "QUEUED"} /\ \A g : GroupFilled(p, b, g)
           S == {k \in 0 .. n : Fits(f[k])}
<1>4. 0 \in S
  <2>1. Fits({})
    BY DEF GroupFilled, OfGroup
  <2> HIDE DEF Fits
  <2> QED BY <1>3, <2>1
<1>5. ASSUME NEW k \in 0 .. n - 1, k \in S PROVE k + 1 \in S
  <2>1. k + 1 \in 1 .. n /\ (k + 1) - 1 = k /\ k + 1 \in 0 .. n
    OBVIOUS
  <2>2. f[k + 1] = TakeNext(p, f[k], WorkOf[p][k + 1])
    BY <1>3, <2>1
  <2>3. WorkOf[p][k + 1] \in ItemsOf(p)
    BY <1>2, <2>1, PlanItems
  <2>4. Fits(f[k])
    BY <1>5
  <2>5. Fits(f[k + 1])
    BY <2>2, <2>3, <2>4, TakeNextFits
  <2> HIDE DEF Fits
  <2> QED BY <2>1, <2>5
<1>6. n \in S
  <2> HIDE DEF S
  <2> QED BY <1>4, <1>5, InductionUpTo
<1> QED BY <1>3, <1>6

\* ClaimReady fills the groups of one plan.
LEMMA ClaimReadyStep ==
    ASSUME PlacementInv, NEW p \in SchedulePlans, ClaimReady(p)
    PROVE  PlacementInv'
<1>1. PICK C : C = ClaimableUpTo(p)
  OBVIOUS
<1>2. /\ planState[p] = "RUNNING" /\ UNCHANGED <<report, planState, promotion, placed, budget, decision>>
      /\ work' = [w \in WorkItems |-> IF w \in C THEN "RUNNING" ELSE work[w]]
  BY <1>1 DEF ClaimReady
<1>3. C \subseteq {x \in ItemsOf(p) : work[x] = "QUEUED"} /\ \A g : GroupFilled(p, C, g)
  BY <1>1, <1>2, ClaimableFits
<1>4. C \subseteq WorkItems /\ ItemsOf(p) \subseteq WorkItems
  BY <1>3, PlanItems
<1>5. /\ \A w \in C : work'[w] = "RUNNING" /\ work[w] = "QUEUED"
      /\ \A w \in WorkItems \ C : work'[w] = work[w]
  BY <1>2, <1>3, <1>4
<1>6. PlacementTypeOK'
  BY <1>2 DEF PlacementInv, PlacementTypeOK
<1>7. \A w \in WorkItems : ItemFits(w)'
  <2> TAKE w \in WorkItems
  <2>1. ItemFits(w) /\ promotion'[w] = promotion[w]
    BY <1>2 DEF PlacementInv
  <2>2. CASE w \in C
    <3>1. promotion'[w] = "WAITING" /\ work'[w] = "RUNNING"
      BY <1>5, <2>1, <2>2 DEF ItemFits
    <3> QED BY <3>1 DEF ItemFits
  <2>3. CASE w \notin C
    BY <1>5, <2>1, <2>3 DEF ItemFits
  <2> QED BY <2>2, <2>3
<1>8. \A q \in SchedulePlans \ {p} : ScheduleFits(q)' /\ OrderFits(q)' /\ GroupsFit(q)'
  <2> TAKE q \in SchedulePlans \ {p}
  <2>1. \A w \in ItemsOf(q) : w \in WorkItems /\ w \notin C
    BY <1>3, PlanItems
  <2> QED BY <1>2, <1>5, <2>1, ScheduleStays DEF PlacementInv
<1>9. ScheduleFits(p)' /\ OrderFits(p)'
  <2>1. ItemsOf(p)' = ItemsOf(p)
    BY DEF ItemsOf
  <2>2. ScheduleFits(p)'
    BY <1>2, <1>4, <1>5, <2>1 DEF PlacementInv, ScheduleFits
  <2>3. OrderFits(p)'
    BY <1>2 DEF PlacementInv, OrderFits
  <2> QED BY <2>2, <2>3
<1>10. GroupsFit(p)'
  <2> SUFFICES ASSUME NEW t \in Targets
               PROVE  \E u \in Targets : GroupOf[u] = GroupOf[t]
                         /\ Cardinality(GroupRunning(p, GroupOf[t])') <= CapacityOf[u]
    BY DEF GroupsFit
  <2>1. PICK g : g = GroupOf[t]
    OBVIOUS
  <2>2. PICK A : A = GroupRunning(p, g)
    OBVIOUS
  <2>3. PICK B : B = OfGroup(C, g)
    OBVIOUS
  <2>4. GroupRunning(p, GroupOf[t])' = A \cup B
    <3>1. ItemsOf(p)' = ItemsOf(p)
      BY DEF ItemsOf
    <3>2. GroupRunning(p, GroupOf[t])' = {w \in ItemsOf(p) : work'[w] = "RUNNING" /\ GroupOf[placed[w]] = g}
      BY <1>2, <2>1, <3>1 DEF GroupRunning
    <3>3. \A w \in ItemsOf(p) : work'[w] = "RUNNING" <=> (work[w] = "RUNNING" \/ w \in C)
      <4> TAKE w \in ItemsOf(p)
      <4>1. CASE w \in C
        BY <1>5, <4>1
      <4>2. CASE w \notin C
        BY <1>4, <1>5, <4>2
      <4> QED BY <4>1, <4>2
    <3>4. A = {w \in ItemsOf(p) : work[w] = "RUNNING" /\ GroupOf[placed[w]] = g}
      BY <2>2 DEF GroupRunning
    <3>5. B = {w \in C : GroupOf[placed[w]] = g} /\ C \subseteq ItemsOf(p)
      BY <1>3, <2>3 DEF OfGroup
    <3> HIDE DEF ItemsOf
    <3> QED BY <3>2, <3>3, <3>4, <3>5, Zenon
  <2>5. IsFiniteSet(A) /\ IsFiniteSet(B)
    <3>1. A \subseteq ItemsOf(p) /\ B \subseteq ItemsOf(p)
      BY <1>3, <2>2, <2>3 DEF GroupRunning, OfGroup
    <3> QED BY <3>1, PlanItems, FS_Subset
  <2>6. /\ Cardinality(A \cup B) <= Cardinality(A) + Cardinality(B) /\ Cardinality(A \cup B) \in Nat
        /\ Cardinality(A) \in Nat /\ Cardinality(B) \in Nat
    <3>1. Cardinality(A \cup B) = Cardinality(A) + Cardinality(B) - Cardinality(A \cap B)
      BY <2>5, FS_Union
    <3>2. IsFiniteSet(A \cup B) /\ IsFiniteSet(A \cap B)
      BY <2>5, FS_Union, FS_Intersection
    <3>3. /\ Cardinality(A) \in Nat /\ Cardinality(B) \in Nat /\ Cardinality(A \cup B) \in Nat
          /\ Cardinality(A \cap B) \in Nat
      BY <2>5, <3>2, FS_CardinalityType
    <3> QED BY <3>1, <3>3
  <2>7. CASE B = {}
    <3>1. A \cup B = A
      BY <2>7
    <3>2. PICK u \in Targets : GroupOf[u] = GroupOf[t]
                               /\ Cardinality(GroupRunning(p, GroupOf[t])) <= CapacityOf[u]
      BY DEF PlacementInv, GroupsFit
    <3>3. Cardinality(GroupRunning(p, GroupOf[t])') <= CapacityOf[u]
      BY <2>1, <2>2, <2>4, <3>1, <3>2
    <3> QED BY <3>2, <3>3
  <2>8. CASE B # {}
    <3>1. PICK u \in Targets : GroupOf[u] = g /\ Cardinality(A) + Cardinality(B) <= CapacityOf[u]
      BY <1>3, <2>2, <2>3, <2>8 DEF GroupFilled
    <3>2. CapacityOf[u] \in Nat
      BY PlacementInputs
    <3>3. Cardinality(A \cup B) <= CapacityOf[u]
      BY <2>6, <3>1, <3>2
    <3> QED BY <2>1, <2>4, <3>1, <3>3
  <2> QED BY <2>7, <2>8
<1> QED BY <1>6, <1>7, <1>8, <1>9, <1>10 DEF PlacementInv

\* One item's work or promotion moves; nothing before a promoted item is taken back.
LEMMA ItemMoves ==
    ASSUME PlacementInv, NEW w \in WorkItems,
           NEW s \in {"RUNNING", "SUCCEEDED", "FAILED"}, work' = [work EXCEPT ![w] = s], work[w] \notin {"NONE", "QUEUED", "BUDGET_PAUSED"},
           work[w] # "RUNNING" => s # "RUNNING",
           NEW c \in {"WAITING", "CLAIMED", "PROMOTED", "NOT_ELIGIBLE"}, promotion' = [promotion EXCEPT ![w] = c],
           promotion[w] \in {"PROMOTED", "NOT_ELIGIBLE"} => c = promotion[w], ItemFits(w)',
           \A p \in SchedulePlans, k \in Nat :
               k \in DOMAIN WorkOf[p] /\ WorkOf[p][k] = w /\ c \in {"CLAIMED", "PROMOTED"} =>
                   \A j \in 1 .. k - 1 : promotion[WorkOf[p][j]] \in {"PROMOTED", "NOT_ELIGIBLE"},
           UNCHANGED <<report, planState, placed, budget, decision>>
    PROVE  PlacementInv'
<1>1. /\ work'[w] = s /\ promotion'[w] = c
      /\ \A x \in WorkItems \ {w} : work'[x] = work[x] /\ promotion'[x] = promotion[x]
  BY DEF PlacementInv, PlacementTypeOK
<1>2. PlacementTypeOK'
  BY DEF PlacementInv, PlacementTypeOK
<1>3. \A x \in WorkItems \ {w} : ItemFits(x)'
  BY <1>1 DEF PlacementInv, ItemFits
<1>4. ASSUME NEW p \in SchedulePlans PROVE ScheduleFits(p)' /\ OrderFits(p)' /\ GroupsFit(p)'
  <2>1. /\ ItemsOf(p)' = ItemsOf(p) /\ ItemsOf(p) \subseteq WorkItems
        /\ DOMAIN WorkOf[p] = 1 .. Len(WorkOf[p]) /\ Len(WorkOf[p]) \in Nat
        /\ \A k \in 1 .. Len(WorkOf[p]) : WorkOf[p][k] \in WorkItems
    BY PlanItems DEF ItemsOf
  <2>2. \A g : GroupRunning(p, g)' \subseteq GroupRunning(p, g)
    BY <1>1, <2>1 DEF GroupRunning
  <2>3. ScheduleFits(p)'
    <3>1. w \in ItemsOf(p) => planState[p] \notin {"NONE", "READY"}
      BY DEF PlacementInv, ScheduleFits
    <3>2. \A x \in ItemsOf(p) :
             \/ (work'[x] = work[x] /\ promotion'[x] = promotion[x])
             \/ (x = w /\ work'[x] \in {"RUNNING", "SUCCEEDED", "FAILED"} /\ promotion'[x] # "NONE")
      <4> TAKE x \in ItemsOf(p)
      <4>1. CASE x = w
        BY <1>1, <4>1
      <4>2. CASE x # w
        <5>1. x \in WorkItems \ {w}
          BY <2>1, <4>2
        <5>2. work'[x] = work[x] /\ promotion'[x] = promotion[x]
          BY <1>1, <5>1
        <5> QED BY <5>2
      <4> QED BY <4>1, <4>2
    <3> QED BY <2>1, <3>1, <3>2 DEF PlacementInv, ScheduleFits
  <2>4. OrderFits(p)'
    <3> SUFFICES ASSUME NEW k \in DOMAIN WorkOf[p], promotion'[WorkOf[p][k]] \in {"CLAIMED", "PROMOTED"},
                        NEW j \in 1 .. k - 1
                 PROVE  promotion'[WorkOf[p][j]] \in {"PROMOTED", "NOT_ELIGIBLE"}
      BY DEF OrderFits
    <3>1. k \in Nat /\ k \in 1 .. Len(WorkOf[p]) /\ j \in 1 .. Len(WorkOf[p])
      BY <2>1
    <3>2. promotion[WorkOf[p][j]] \in {"PROMOTED", "NOT_ELIGIBLE"}
      <4>1. CASE WorkOf[p][k] = w
        BY <1>1, <3>1, <4>1
      <4>2. CASE WorkOf[p][k] # w
        <5>1. promotion[WorkOf[p][k]] \in {"CLAIMED", "PROMOTED"}
          BY <1>1, <2>1, <3>1, <4>2
        <5> QED BY <5>1 DEF PlacementInv, OrderFits
      <4> QED BY <4>1, <4>2
    <3>3. CASE WorkOf[p][j] = w
      BY <1>1, <3>2, <3>3
    <3>4. CASE WorkOf[p][j] # w
      BY <1>1, <2>1, <3>1, <3>2, <3>4
    <3> QED BY <3>3, <3>4
  <2> QED BY <2>2, <2>3, <2>4, GroupsShrink DEF PlacementInv
<1> QED BY <1>2, <1>3, <1>4 DEF PlacementInv

\* FinishWork: the item was running, so it waited for its promotion.
LEMMA FinishWorkStep ==
    ASSUME PlacementInv, NEW w \in WorkItems, NEW t \in Targets, NEW o \in {"SUCCEEDED", "FAILED"},
           FinishWork(w, t, o)
    PROVE  PlacementInv'
<1> DEFINE c == IF o = "SUCCEEDED" THEN "WAITING" ELSE "NOT_ELIGIBLE"
<1>1. /\ work[w] = "RUNNING" /\ work' = [work EXCEPT ![w] = o] /\ promotion' = [promotion EXCEPT ![w] = c]
      /\ UNCHANGED <<report, planState, placed, budget, decision>>
  BY DEF FinishWork
<1>2. promotion[w] = "WAITING"
  BY <1>1 DEF PlacementInv, ItemFits
<1>3. work'[w] = o /\ promotion'[w] = c
  BY <1>1 DEF PlacementInv, PlacementTypeOK
<1>4. ItemFits(w)'
  BY <1>3 DEF ItemFits
<1>5. c \in {"WAITING", "NOT_ELIGIBLE"}
  OBVIOUS
<1> HIDE DEF c
<1> QED BY <1>1, <1>2, <1>4, <1>5, ItemMoves

\* ClaimNextPromotion: only the first item that is not promoted yet.
LEMMA ClaimPromotionStep ==
    ASSUME PlacementInv, NEW p \in SchedulePlans, ClaimNextPromotion(p)
    PROVE  PlacementInv'
<1>1. /\ Len(WorkOf[p]) \in Nat /\ DOMAIN WorkOf[p] = 1 .. Len(WorkOf[p])
      /\ \A k \in 1 .. Len(WorkOf[p]) : WorkOf[p][k] \in ItemsOf(p) /\ WorkOf[p][k] \in WorkItems
  BY PlanItems
<1>2. Unpromoted(p) # {} /\ Unpromoted(p) \subseteq 1 .. Len(WorkOf[p]) /\ Unpromoted(p) \subseteq Nat
  BY <1>1 DEF Unpromoted, ClaimNextPromotion
<1>3. \E k \in Unpromoted(p) : \A j \in Unpromoted(p) : k <= j
  BY <1>2, LeastNatural
<1>4. PICK f \in 1 .. Len(WorkOf[p]) : f = FirstOf(Unpromoted(p)) /\ \A j \in Unpromoted(p) : f <= j
  BY <1>2, <1>3 DEF FirstOf
<1>5. PICK w \in WorkItems : w = WorkOf[p][f]
  BY <1>1
<1>6. /\ work[w] = "SUCCEEDED" /\ promotion[w] = "WAITING" /\ promotion' = [promotion EXCEPT ![w] = "CLAIMED"]
      /\ UNCHANGED <<report, planState, work, placed, budget, decision>>
  BY <1>4, <1>5 DEF ClaimNextPromotion
<1>7. planState[p] # "NONE"
  BY <1>1, <1>5, <1>6 DEF PlacementInv, ScheduleFits
<1>8. \A j \in 1 .. f - 1 : promotion[WorkOf[p][j]] \in {"PROMOTED", "NOT_ELIGIBLE"}
  <2> TAKE j \in 1 .. f - 1
  <2>1. j \in 1 .. Len(WorkOf[p]) /\ ~(f <= j)
    BY <1>1
  <2>2. j \notin Unpromoted(p)
    BY <1>4, <2>1
  <2>3. promotion[WorkOf[p][j]] # "NONE"
    BY <1>1, <1>7, <2>1 DEF PlacementInv, ScheduleFits
  <2>4. promotion[WorkOf[p][j]] \in {"NONE", "WAITING", "CLAIMED", "PROMOTED", "NOT_ELIGIBLE"}
    BY <1>1, <2>1 DEF PlacementInv, PlacementTypeOK
  <2> QED BY <1>1, <2>1, <2>2, <2>3, <2>4 DEF Unpromoted
<1>9. \A q \in SchedulePlans, k \in Nat : k \in DOMAIN WorkOf[q] /\ WorkOf[q][k] = w => q = p /\ k = f
  BY <1>1, <1>5, PlacementInputs
<1>10. work' = [work EXCEPT ![w] = "SUCCEEDED"] /\ promotion'[w] = "CLAIMED" /\ work'[w] = "SUCCEEDED"
  BY <1>6 DEF PlacementInv, PlacementTypeOK
<1>11. ItemFits(w)'
  BY <1>10 DEF ItemFits
<1> QED BY <1>6, <1>8, <1>9, <1>10, <1>11, ItemMoves

\* MarkPromoted: what was claimed is promoted.
LEMMA MarkPromotedStep ==
    ASSUME PlacementInv, NEW w \in WorkItems, MarkPromoted(w)
    PROVE  PlacementInv'
<1>1. /\ promotion[w] = "CLAIMED" /\ promotion' = [promotion EXCEPT ![w] = "PROMOTED"]
      /\ UNCHANGED <<report, planState, work, placed, budget, decision>>
  BY DEF MarkPromoted
<1>2. work[w] = "SUCCEEDED"
  BY <1>1 DEF PlacementInv, ItemFits
<1>3. work' = [work EXCEPT ![w] = "SUCCEEDED"] /\ promotion'[w] = "PROMOTED" /\ work'[w] = "SUCCEEDED"
  BY <1>1, <1>2 DEF PlacementInv, PlacementTypeOK
<1>4. ItemFits(w)'
  BY <1>3 DEF ItemFits
<1>5. \A p \in SchedulePlans, k \in Nat : k \in DOMAIN WorkOf[p] /\ WorkOf[p][k] = w =>
         \A j \in 1 .. k - 1 : promotion[WorkOf[p][j]] \in {"PROMOTED", "NOT_ELIGIBLE"}
  BY <1>1 DEF PlacementInv, OrderFits
<1> QED BY <1>1, <1>2, <1>3, <1>4, <1>5, ItemMoves

\* Probe, SubmitBudget and ReadBackpressure write rows of their own.
LEMMA ProbeStep ==
    ASSUME PlacementInv, NEW r \in [Capabilities -> ProbeStatuses], Probe(r)
    PROVE  PlacementInv'
<1>1. Aggregate(r) \in ProbeStatuses
  BY DEF Aggregate, ProbeStatuses
<1>2. PlacementTypeOK'
  BY <1>1 DEF Probe, PersistProbe, PlacementInv, PlacementTypeOK
<1> QED BY <1>2, PlacementKeeps DEF Probe

\* The budget stays between nothing and its limit.
LEMMA BudgetStep ==
    ASSUME PlacementInv, NEW kind, NEW h, SubmitBudget(kind, h)
    PROVE  PlacementInv'
<1>1. budget \in [left : 0..MaxBudget, fuse : BOOLEAN, unknown : BOOLEAN] /\ MaxBudget \in Nat
  BY PlacementInputs DEF PlacementInv, PlacementTypeOK
<1>2. budget' \in [left : 0..MaxBudget, fuse : BOOLEAN, unknown : BOOLEAN]
  <2>1. CASE budget.left > 0 /\ budget' = [budget EXCEPT !.left = @ - 1]
    <3>1. PICK n \in 0 .. MaxBudget : n = budget.left - 1
      BY <1>1, <2>1
    <3>2. budget' = [budget EXCEPT !.left = n]
      BY <2>1, <3>1
    <3> QED BY <1>1, <3>2
  <2>2. CASE budget.left < MaxBudget /\ budget' = [budget EXCEPT !.left = @ + 1]
    <3>1. PICK n \in 0 .. MaxBudget : n = budget.left + 1
      BY <1>1, <2>2
    <3>2. budget' = [budget EXCEPT !.left = n]
      BY <2>2, <3>1
    <3> QED BY <1>1, <3>2
  <2>3. CASE budget' = [budget EXCEPT !.unknown = TRUE]
    BY <1>1, <2>3
  <2>4. CASE budget' = [budget EXCEPT !.fuse = TRUE]
    BY <1>1, <2>4
  <2> QED BY <2>1, <2>2, <2>3, <2>4 DEF SubmitBudget
<1>3. PlacementTypeOK'
  BY <1>2 DEF SubmitBudget, PlacementInv, PlacementTypeOK
<1> QED BY <1>3, PlacementKeeps DEF SubmitBudget

\* One step of the planner, a worker, the budget or a promoter.
LEMMA PlacementStep == ASSUME PlacementInv, [PlacementNext]_placementVars PROVE PlacementInv'
<1>1. ASSUME NEW r \in [Capabilities -> ProbeStatuses], Probe(r) PROVE PlacementInv'
  BY <1>1, ProbeStep
<1>2. ASSUME NEW p \in SchedulePlans, CreateSchedule(p) \/ StartSchedule(p) \/ ApplyBackpressure(p)
                                      \/ ClaimReady(p) \/ ClaimNextPromotion(p)
      PROVE  PlacementInv'
  BY <1>2, CreateScheduleStep, StartScheduleStep, BackpressureStep, ClaimReadyStep, ClaimPromotionStep
<1>3. ASSUME NEW p \in SchedulePlans, NEW known \in BOOLEAN, ReadBackpressure(p, known) PROVE PlacementInv'
  <2>1. Evaluate(budget, known) \in {"NONE", "ALLOWED", "DENIED"}
    BY DEF Evaluate
  <2>2. PlacementTypeOK'
    BY <1>3, <2>1 DEF ReadBackpressure, PlacementInv, PlacementTypeOK
  <2> QED BY <1>3, <2>2, PlacementKeeps DEF ReadBackpressure
<1>4. ASSUME NEW kind \in BudgetEvents, NEW h \in BOOLEAN, SubmitBudget(kind, h) PROVE PlacementInv'
  BY <1>4, BudgetStep
<1>5. ASSUME NEW w \in WorkItems, MarkPromoted(w) PROVE PlacementInv'
  BY <1>5, MarkPromotedStep
<1>6. ASSUME NEW w \in WorkItems, NEW t \in Targets, NEW o \in {"SUCCEEDED", "FAILED"}, FinishWork(w, t, o)
      PROVE  PlacementInv'
  BY <1>6, FinishWorkStep
<1>7. CASE UNCHANGED placementVars
  <2>1. PlacementTypeOK'
    BY <1>7 DEF PlacementInv, PlacementTypeOK, placementVars
  <2> QED BY <1>7, <2>1, PlacementKeeps DEF placementVars
<1> QED BY <1>1, <1>2, <1>3, <1>4, <1>5, <1>6, <1>7 DEF PlacementNext

\* No plan yet.
LEMMA PlacementStarts == PlacementInit => PlacementInv
<1> SUFFICES ASSUME PlacementInit PROVE PlacementInv
  OBVIOUS
<1>1. PlacementTypeOK
  BY PlacementInputs DEF PlacementInit, PlacementTypeOK
<1>2. \A w \in WorkItems : ItemFits(w)
  BY DEF PlacementInit, ItemFits
<1>3. ASSUME NEW p \in SchedulePlans PROVE ScheduleFits(p) /\ OrderFits(p) /\ GroupsFit(p)
  <2>1. /\ ItemsOf(p) \subseteq WorkItems
        /\ \A k \in DOMAIN WorkOf[p] : WorkOf[p][k] \in WorkItems
    BY PlanItems
  <2>2. ScheduleFits(p) /\ OrderFits(p)
    BY <2>1 DEF PlacementInit, ScheduleFits, OrderFits
  <2>3. \A g : GroupRunning(p, g) = {}
    BY <2>1 DEF PlacementInit, GroupRunning
  <2>4. Cardinality({}) = 0
    BY FS_EmptySet
  <2>5. GroupsFit(p)
    <3> SUFFICES ASSUME NEW t \in Targets
                 PROVE  GroupOf[t] = GroupOf[t] /\ Cardinality(GroupRunning(p, GroupOf[t])) <= CapacityOf[t]
      BY DEF GroupsFit
    <3>1. CapacityOf[t] \in Nat
      BY PlacementInputs
    <3>2. Cardinality(GroupRunning(p, GroupOf[t])) = 0
      BY <2>3, <2>4
    <3> QED BY <3>1, <3>2
  <2> QED BY <2>2, <2>5
<1> QED BY <1>1, <1>2, <1>3 DEF PlacementInv

\* The invariant of the proof says what the property says.
LEMMA PlacementInvImplies == PlacementInv => SchedulesKeepTheirOrder
<1> SUFFICES ASSUME PlacementInv PROVE SchedulesKeepTheirOrder
  OBVIOUS
<1>1. ASSUME NEW p \in SchedulePlans
      PROVE  /\ \A k \in DOMAIN WorkOf[p] :
                  promotion[WorkOf[p][k]] \in {"CLAIMED", "PROMOTED"}
                    => /\ work[WorkOf[p][k]] = "SUCCEEDED"
                       /\ \A j \in 1..(k - 1) : promotion[WorkOf[p][j]] \in {"PROMOTED", "NOT_ELIGIBLE"}
             /\ \A t \in {placed[w] : w \in ItemsOf(p)} \ {NoPlacement} :
                  \E u \in Targets : /\ GroupOf[u] = GroupOf[t]
                                      /\ Cardinality(GroupRunning(p, GroupOf[t])) <= CapacityOf[u]
             /\ planState[p] = "BUDGET_PAUSED" => \A w \in ItemsOf(p) : work[w] # "QUEUED"
             /\ planState[p] = "RUNNING" => \A w \in ItemsOf(p) : work[w] # "BUDGET_PAUSED"
  <2>1. /\ ItemsOf(p) \subseteq WorkItems
        /\ \A k \in DOMAIN WorkOf[p] : WorkOf[p][k] \in WorkItems
    BY PlanItems
  <2>2. \A k \in DOMAIN WorkOf[p] :
          promotion[WorkOf[p][k]] \in {"CLAIMED", "PROMOTED"} => work[WorkOf[p][k]] = "SUCCEEDED"
    BY <2>1 DEF PlacementInv, ItemFits
  <2>3. \A t \in {placed[w] : w \in ItemsOf(p)} \ {NoPlacement} : t \in Targets
    BY <2>1 DEF PlacementInv, PlacementTypeOK
  <2>4. ScheduleFits(p) /\ OrderFits(p) /\ GroupsFit(p)
    BY DEF PlacementInv
  <2> QED BY <2>2, <2>3, <2>4 DEF ScheduleFits, OrderFits, GroupsFit
<1>2. PlacementTypeOK
  BY DEF PlacementInv
<1> QED BY <1>1, <1>2 DEF SchedulesKeepTheirOrder

\* SchedulesKeepTheirOrder, for every plan, hardware and capacity: results are promoted in the
\* plan's order, no group takes more than a target of it admits (by induction along the queue
\* that claim_ready goes through), and a pause and its queue stay together.
THEOREM SchedulesAlwaysKeepOrder == PlacementSpec => []SchedulesKeepTheirOrder
<1>1. PlacementInit => PlacementInv
  BY PlacementStarts
<1>2. PlacementInv /\ [PlacementNext]_placementVars => PlacementInv'
  BY PlacementStep
<1>3. PlacementInv => SchedulesKeepTheirOrder
  BY PlacementInvImplies
<1> QED BY <1>1, <1>2, <1>3, PTL DEF PlacementSpec

-----------------------------------------------------------------------------
(* Historical cases                                                         *)

Verdicts == UNION {[I -> {"ACCEPTED", "REJECTED"}] : I \in SUBSET SourceIds}
CallerRow == [at : {"idle", "outcome", "materials", "claims", "lineage"},
              lineage : Lineages \cup {NoCase}, manifest : DOMAIN Manifests \cup {NoCase},
              outcome : CaseOutcomes \cup {NoCase}, stamp : Stamps \cup {NoCase}, done : {0}]

CaseRowsTyped ==
    /\ sources \in [SourceIds -> SourceRows \cup {NoCase}]
    /\ lineages \in [Lineages -> LineageRow \cup {NoCase}]
    /\ outcomes \in [Lineages -> CaseOutcomes \cup {NoCase}]
    /\ verdicts \in [Lineages -> Verdicts \cup {NoCase}]
    /\ candidates \in [Lineages -> SUBSET HistoricalInputs]
    /\ ingested \in [SourceIds -> Stamps \cup {NoCase}]
    /\ claimOf \in [HistoricalInputs -> {"NONE", "PENDING_VERIFICATION", "VERIFIED", "REJECTED"}]
    /\ caller \in [CaseCallers -> CallerRow]

\* The status of a case says which of its rows are written.
CaseFits(l) ==
    /\ lineages[l] = NoCase => outcomes[l] = NoCase
    /\ lineages[l] # NoCase =>
         LET m == Manifests[lineages[l].manifest]
             row == lineages[l]
         IN  /\ row.mode = "CLEAN_ROOM_REDISCOVERY" =>
                  /\ \A s \in m.inputs : sources[s] # NoCase /\ sources[s].class \in CleanClasses
                  /\ row.status = IF outcomes[l] = NoCase THEN "RUNNING" ELSE StatusOf(outcomes[l])
             /\ row.mode # "CLEAN_ROOM_REDISCOVERY" =>
                  /\ outcomes[l] = NoCase
                  /\ row.status \in {"CERTIFICATES_PENDING", "CERTIFICATES_CHECKED", "HISTORY_MIGRATED_CANDIDATE_ONLY"}
             /\ row.status = "CERTIFICATES_CHECKED" => DOMAIN verdicts[l] = m.inputs
             /\ row.status = "HISTORY_MIGRATED_CANDIDATE_ONLY"
                  => /\ candidates[l] = m.claims /\ \A h \in m.claims : claimOf[h] # "NONE"
                     /\ \A s \in m.inputs : ingested[s] # NoCase

RunsDiffer ==
    \A l, k \in Lineages : l # k /\ lineages[l] # NoCase /\ lineages[k] # NoCase
        => Manifests[lineages[k].manifest].run # Manifests[lineages[l].manifest].run

\* What a caller has read and committed is there when it goes on.
CallerFits(c) ==
    /\ caller[c].at = "outcome" => /\ caller[c].lineage \in Lineages /\ caller[c].outcome \in CaseOutcomes
                                   /\ lineages[caller[c].lineage] # NoCase
                                   /\ lineages[caller[c].lineage].mode = "CLEAN_ROOM_REDISCOVERY"
    /\ caller[c].at \in {"materials", "claims", "lineage"} =>
          /\ caller[c].lineage \in Lineages /\ caller[c].manifest \in DOMAIN Manifests
          /\ caller[c].stamp \in Stamps
    /\ caller[c].at \in {"claims", "lineage"} =>
          \A s \in Manifests[caller[c].manifest].inputs : ingested[s] # NoCase
    /\ caller[c].at = "lineage" => \A h \in Manifests[caller[c].manifest].claims : claimOf[h] # "NONE"

CaseInv ==
    /\ CaseRowsTyped /\ RunsDiffer
    /\ \A l \in Lineages : CaseFits(l)
    /\ \A c \in CaseCallers : CallerFits(c)

\* Nothing that was registered, started, ingested or submitted is taken back.
CaseGrows ==
    /\ \A s \in SourceIds : /\ sources[s] # NoCase => sources'[s] = sources[s]
                            /\ ingested[s] # NoCase => ingested'[s] # NoCase
    /\ \A h \in HistoricalInputs : claimOf[h] # "NONE" => claimOf'[h] # "NONE"
    /\ \A l \in Lineages : lineages[l] # NoCase => /\ lineages'[l] # NoCase /\ lineages'[l].mode = lineages[l].mode
                                                  /\ lineages'[l].manifest = lineages[l].manifest

\* The parts of a manifest.
LEMMA ManifestParts ==
    \A m \in DOMAIN Manifests : Manifests[m].inputs \subseteq SourceIds /\ Manifests[m].claims \subseteq HistoricalInputs
  BY CaseInputs DEF HistoricalInputs

\* The idle caller is a row.
LEMMA IdleCaller == Idle \in CallerRow /\ Idle.at = "idle"
  BY DEF Idle, CallerRow

\* A case whose rows are as they were still fits.
LEMMA CaseStays ==
    ASSUME CaseInv, CaseGrows, NEW l \in Lineages, lineages'[l] = lineages[l], outcomes'[l] = outcomes[l],
           verdicts'[l] = verdicts[l], candidates'[l] = candidates[l]
    PROVE  CaseFits(l)'
<1>1. CaseFits(l)
  BY DEF CaseInv
<1>2. CASE lineages[l] = NoCase
  BY <1>1, <1>2 DEF CaseFits
<1>3. CASE lineages[l] # NoCase
  <2>1. PICK m \in DOMAIN Manifests : m = lineages[l].manifest
    BY <1>3 DEF CaseInv, CaseRowsTyped, LineageRow
  <2>2. Manifests[m].inputs \subseteq SourceIds /\ Manifests[m].claims \subseteq HistoricalInputs
    BY ManifestParts
  <2>3. /\ (\A s \in Manifests[m].inputs : sources[s] # NoCase /\ sources[s].class \in CleanClasses)
             => (\A s \in Manifests[m].inputs : sources'[s] # NoCase /\ sources'[s].class \in CleanClasses)
        /\ (\A s \in Manifests[m].inputs : ingested[s] # NoCase) => (\A s \in Manifests[m].inputs : ingested'[s] # NoCase)
        /\ (\A h \in Manifests[m].claims : claimOf[h] # "NONE") => (\A h \in Manifests[m].claims : claimOf'[h] # "NONE")
    BY <2>2 DEF CaseGrows
  <2> QED BY <1>1, <1>3, <2>1, <2>3 DEF CaseFits
<1> QED BY <1>2, <1>3

\* A caller that is as it was still fits, and an idle one always does.
LEMMA CallerStays ==
    ASSUME CaseInv, CaseGrows, NEW c \in CaseCallers, caller'[c] = caller[c] \/ caller'[c] = Idle
    PROVE  CallerFits(c)'
<1>1. CASE caller'[c] = Idle
  BY <1>1, IdleCaller DEF CallerFits
<1>2. CASE caller'[c] = caller[c]
  <2>1. CallerFits(c)
    BY DEF CaseInv
  <2>2. CASE caller[c].at \in {"materials", "claims", "lineage"}
    <3>1. PICK m \in DOMAIN Manifests : m = caller[c].manifest
      BY <2>1, <2>2 DEF CallerFits
    <3>2. Manifests[m].inputs \subseteq SourceIds /\ Manifests[m].claims \subseteq HistoricalInputs
      BY ManifestParts
    <3>3. /\ (\A s \in Manifests[m].inputs : ingested[s] # NoCase) => (\A s \in Manifests[m].inputs : ingested'[s] # NoCase)
          /\ (\A h \in Manifests[m].claims : claimOf[h] # "NONE") => (\A h \in Manifests[m].claims : claimOf'[h] # "NONE")
      BY <3>2 DEF CaseGrows
    <3> QED BY <1>2, <2>1, <2>2, <3>1, <3>3 DEF CallerFits
  <2>3. CASE caller[c].at \notin {"materials", "claims", "lineage"}
    BY <1>2, <2>1, <2>3 DEF CallerFits, CaseGrows
  <2> QED BY <2>2, <2>3
<1> QED BY <1>1, <1>2

\* A step that leaves the case rows alone.
LEMMA CasesKeep ==
    ASSUME CaseInv, CaseGrows, CaseRowsTyped', UNCHANGED <<lineages, outcomes, verdicts, candidates>>,
           \A c \in CaseCallers : CallerFits(c)'
    PROVE  CaseInv'
<1>1. \A l \in Lineages : CaseFits(l)'
  BY CaseStays
<1>2. RunsDiffer'
  BY DEF CaseInv, RunsDiffer
<1> QED BY <1>1, <1>2 DEF CaseInv

\* A source is registered, a material ingested, a candidate submitted or decided.
LEMMA RowSteps ==
    ASSUME CaseInv, CaseRowsTyped', CaseGrows, UNCHANGED <<lineages, outcomes, verdicts, candidates, caller>>
    PROVE  CaseInv'
<1>1. \A c \in CaseCallers : CallerFits(c)'
  BY CallerStays
<1> QED BY <1>1, CasesKeep

\* A caller takes a step of its own.
LEMMA CallerMoves ==
    ASSUME CaseInv, NEW c \in CaseCallers, NEW row \in CallerRow, caller' = [caller EXCEPT ![c] = row],
           UNCHANGED <<sources, lineages, outcomes, verdicts, candidates, ingested, claimOf>>,
           CallerFits(c)' \/ row = Idle
    PROVE  CaseInv'
<1>1. /\ caller' \in [CaseCallers -> CallerRow] /\ caller'[c] = row
      /\ \A d \in CaseCallers \ {c} : caller'[d] = caller[d]
  BY DEF CaseInv, CaseRowsTyped
<1>2. CaseGrows /\ CaseRowsTyped'
  BY <1>1 DEF CaseGrows, CaseInv, CaseRowsTyped
<1>3. \A d \in CaseCallers \ {c} : CallerFits(d)'
  BY <1>1, <1>2, CallerStays
<1>4. CallerFits(c)'
  BY <1>1, <1>2, CallerStays
<1> QED BY <1>2, <1>3, <1>4, CasesKeep

\* A case begins under a run of its own.
LEMMA CaseBegins ==
    ASSUME CaseInv, NEW l \in Lineages, lineages[l] = NoCase, NEW row \in LineageRow,
           RunAndRootAreFree(row.manifest), lineages' = [lineages EXCEPT ![l] = row],
           UNCHANGED <<sources, outcomes, verdicts, ingested, claimOf>>,
           CaseRowsTyped', CaseFits(l)',
           \A k \in Lineages \ {l} : candidates'[k] = candidates[k],
           \A c \in CaseCallers : caller'[c] = caller[c] \/ caller'[c] = Idle
    PROVE  CaseInv'
<1>1. /\ lineages'[l] = row /\ \A k \in Lineages \ {l} : lineages'[k] = lineages[k]
  BY DEF CaseInv, CaseRowsTyped
<1>2. CaseGrows
  BY <1>1 DEF CaseGrows
<1>3. \A k \in Lineages \ {l} : CaseFits(k)'
  BY <1>1, <1>2, CaseStays
<1>4. \A c \in CaseCallers : CallerFits(c)'
  BY <1>2, CallerStays
<1>5. RunsDiffer'
  <2>1. \A k \in Lineages : lineages[k] # NoCase =>
           Manifests[lineages[k].manifest].run # Manifests[row.manifest].run
    BY DEF RunAndRootAreFree
  <2> QED BY <1>1, <2>1 DEF CaseInv, RunsDiffer
<1> QED BY <1>3, <1>4, <1>5 DEF CaseInv

\* StartZhao: the content classes of a clean-room case were looked at.
LEMMA StartZhaoStep ==
    ASSUME CaseInv, NEW l \in Lineages, NEW m \in DOMAIN Manifests, StartZhao(l, m)
    PROVE  CaseInv'
<1> DEFINE row == [mode |-> Manifests[m].mode, manifest |-> m,
                   status |-> IF Manifests[m].mode = "CLEAN_ROOM_REDISCOVERY" THEN "RUNNING" ELSE "CERTIFICATES_PENDING"]
<1>1. row \in LineageRow /\ row # NoCase
  BY CaseInputs DEF LineageRow
<1>2. /\ row.manifest = m /\ row.mode = Manifests[m].mode
      /\ row.status = IF Manifests[m].mode = "CLEAN_ROOM_REDISCOVERY" THEN "RUNNING" ELSE "CERTIFICATES_PENDING"
  OBVIOUS
<1>3. /\ lineages[l] = NoCase /\ RunAndRootAreFree(m) /\ lineages' = [lineages EXCEPT ![l] = row]
      /\ UNCHANGED <<sources, outcomes, verdicts, candidates, ingested, claimOf, caller>>
  BY DEF StartZhao
<1> HIDE DEF row
<1>4. lineages'[l] = row /\ lineages' \in [Lineages -> LineageRow \cup {NoCase}]
  BY <1>1, <1>3 DEF CaseInv, CaseRowsTyped
<1>5. CaseRowsTyped'
  BY <1>3, <1>4 DEF CaseInv, CaseRowsTyped
<1>6. outcomes[l] = NoCase
  BY <1>3 DEF CaseInv, CaseFits
<1>7. row.mode = "CLEAN_ROOM_REDISCOVERY" =>
        \A s \in Manifests[m].inputs : sources[s] # NoCase /\ sources[s].class \in CleanClasses
  BY <1>2 DEF StartZhao, SourcesFit, ClassesFor
<1>8. CaseFits(l)'
  BY <1>1, <1>2, <1>3, <1>4, <1>6, <1>7 DEF CaseFits
<1> QED BY <1>1, <1>2, <1>3, <1>5, <1>8, CaseBegins

\* One case's status moves, its mode and manifest stay.
LEMMA StatusMoves ==
    ASSUME CaseInv, NEW l \in Lineages, lineages[l] # NoCase, NEW row \in LineageRow,
           row.mode = lineages[l].mode, row.manifest = lineages[l].manifest,
           lineages' = [lineages EXCEPT ![l] = row],
           UNCHANGED <<sources, candidates, ingested, claimOf>>,
           CaseRowsTyped', CaseFits(l)',
           \A k \in Lineages \ {l} : outcomes'[k] = outcomes[k] /\ verdicts'[k] = verdicts[k],
           \A c \in CaseCallers : caller'[c] = caller[c] \/ caller'[c] = Idle
    PROVE  CaseInv'
<1>1. /\ lineages'[l] = row /\ \A k \in Lineages \ {l} : lineages'[k] = lineages[k]
  BY DEF CaseInv, CaseRowsTyped
<1>2. CaseGrows
  BY <1>1, CaseInputs DEF CaseGrows
<1>3. \A k \in Lineages \ {l} : CaseFits(k)'
  BY <1>1, <1>2, CaseStays
<1>4. \A c \in CaseCallers : CallerFits(c)'
  BY <1>2, CallerStays
<1>5. \A k \in Lineages : /\ lineages'[k] # NoCase => lineages[k] # NoCase
                         /\ lineages[k] # NoCase => lineages'[k].manifest = lineages[k].manifest
  BY <1>1
<1>6. RunsDiffer'
  BY <1>5 DEF CaseInv, RunsDiffer
<1> QED BY <1>3, <1>4, <1>6 DEF CaseInv

\* RecordOutcome: the row's key settles who was first.
LEMMA RecordOutcomeStep ==
    ASSUME CaseInv, NEW c \in CaseCallers, RecordOutcome(c)
    PROVE  CaseInv'
<1>1. PICK l \in Lineages : l = caller[c].lineage
  BY DEF RecordOutcome, CaseInv, CallerFits
<1>2. PICK o \in CaseOutcomes : o = caller[c].outcome
  BY DEF RecordOutcome, CaseInv, CallerFits
<1>3. lineages[l] # NoCase /\ lineages[l].mode = "CLEAN_ROOM_REDISCOVERY" /\ lineages[l] \in LineageRow
  BY <1>1 DEF RecordOutcome, CaseInv, CallerFits, CaseRowsTyped
<1>4. /\ caller' = [caller EXCEPT ![c] = Idle]
      /\ UNCHANGED <<sources, verdicts, candidates, ingested, claimOf>>
  BY DEF RecordOutcome
<1>5. /\ caller' \in [CaseCallers -> CallerRow]
      /\ \A d \in CaseCallers : caller'[d] = caller[d] \/ caller'[d] = Idle
  BY <1>4, IdleCaller DEF CaseInv, CaseRowsTyped
<1>6. CASE outcomes[l] # NoCase
  <2>1. UNCHANGED <<outcomes, lineages>>
    BY <1>1, <1>6 DEF RecordOutcome
  <2> QED BY <1>4, <2>1, IdleCaller, CallerMoves
<1>7. CASE outcomes[l] = NoCase
  <2> DEFINE row == [lineages[l] EXCEPT !.status = StatusOf(o)]
  <2>1. lineages[l].status = "RUNNING"
    BY <1>3, <1>7 DEF CaseInv, CaseFits
  <2>2. /\ row \in LineageRow /\ row # NoCase /\ row.mode = lineages[l].mode /\ row.manifest = lineages[l].manifest
        /\ row.status = StatusOf(o)
    BY <1>3, CaseInputs DEF LineageRow, StatusOf
  <2>3. lineages' = [lineages EXCEPT ![l] = row] /\ outcomes' = [outcomes EXCEPT ![l] = o]
    BY <1>1, <1>2, <1>7, <2>1 DEF RecordOutcome
  <2> HIDE DEF row
  <2>4. /\ lineages' \in [Lineages -> LineageRow \cup {NoCase}] /\ lineages'[l] = row
        /\ outcomes' \in [Lineages -> CaseOutcomes \cup {NoCase}] /\ outcomes'[l] = o /\ o # NoCase
        /\ \A k \in Lineages \ {l} : outcomes'[k] = outcomes[k]
    BY <2>2, <2>3, CaseInputs DEF CaseInv, CaseRowsTyped
  <2>5. CaseRowsTyped'
    BY <1>4, <1>5, <2>4 DEF CaseInv, CaseRowsTyped
  <2>6. StatusOf(o) \in {"COMPLETED_NO_REDISCOVERY", "REDISCOVERED_CANDIDATE_ONLY"}
    BY DEF StatusOf
  <2>7. \A s \in Manifests[lineages[l].manifest].inputs : sources[s] # NoCase /\ sources[s].class \in CleanClasses
    BY <1>3 DEF CaseInv, CaseFits
  <2>8. StatusOf(outcomes'[l]) = StatusOf(o)
    BY <2>4
  <2>9. CaseFits(l)'
    BY <1>3, <1>4, <2>2, <2>4, <2>6, <2>7, <2>8 DEF CaseFits, StatusOf
  <2> QED BY <1>3, <1>4, <1>5, <2>2, <2>3, <2>4, <2>5, <2>9, StatusMoves
<1> QED BY <1>6, <1>7

\* RecordCertificates: a verdict for every certificate, and the status that says so.
LEMMA RecordCertificatesStep ==
    ASSUME CaseInv, NEW l \in Lineages, NEW v \in Verdicts, RecordCertificates(l, v)
    PROVE  CaseInv'
<1>1. /\ lineages[l] # NoCase /\ lineages[l] \in LineageRow /\ lineages[l].status = "CERTIFICATES_PENDING"
      /\ DOMAIN v = Manifests[lineages[l].manifest].inputs
      /\ UNCHANGED <<sources, outcomes, candidates, ingested, claimOf, caller>>
  BY DEF RecordCertificates, CaseInv, CaseRowsTyped
<1> DEFINE row == [lineages[l] EXCEPT !.status = "CERTIFICATES_CHECKED"]
<1>2. /\ row \in LineageRow /\ row # NoCase /\ row.mode = lineages[l].mode /\ row.manifest = lineages[l].manifest
      /\ row.status = "CERTIFICATES_CHECKED"
  BY <1>1, CaseInputs DEF LineageRow
<1>3. lineages' = [lineages EXCEPT ![l] = row] /\ verdicts' = [verdicts EXCEPT ![l] = v]
  BY DEF RecordCertificates
<1> HIDE DEF row
<1>4. /\ lineages' \in [Lineages -> LineageRow \cup {NoCase}] /\ lineages'[l] = row
      /\ verdicts' \in [Lineages -> Verdicts \cup {NoCase}] /\ verdicts'[l] = v
      /\ \A k \in Lineages \ {l} : verdicts'[k] = verdicts[k]
  BY <1>2, <1>3 DEF CaseInv, CaseRowsTyped
<1>5. CaseRowsTyped'
  BY <1>1, <1>4 DEF CaseInv, CaseRowsTyped
<1>6. lineages[l].mode # "CLEAN_ROOM_REDISCOVERY" /\ outcomes[l] = NoCase
  BY <1>1 DEF CaseInv, CaseFits, StatusOf
<1>7. CaseFits(l)'
  BY <1>1, <1>2, <1>4, <1>6 DEF CaseFits
<1> QED BY <1>1, <1>2, <1>3, <1>4, <1>5, <1>7, StatusMoves

\* RecordMigration: materials and claims are there before the case is.
LEMMA RecordMigrationStep ==
    ASSUME CaseInv, NEW c \in CaseCallers, RecordMigration(c)
    PROVE  CaseInv'
<1>1. PICK l \in Lineages : l = caller[c].lineage
  BY DEF RecordMigration, CaseInv, CallerFits
<1>2. PICK m \in DOMAIN Manifests : m = caller[c].manifest
  BY DEF RecordMigration, CaseInv, CallerFits
<1>3. /\ \A s \in Manifests[m].inputs : ingested[s] # NoCase
      /\ \A h \in Manifests[m].claims : claimOf[h] # "NONE"
  BY <1>2 DEF RecordMigration, CaseInv, CallerFits
<1>4. /\ caller' = [caller EXCEPT ![c] = Idle]
      /\ UNCHANGED <<sources, outcomes, verdicts, ingested, claimOf>>
  BY DEF RecordMigration
<1>5. /\ caller' \in [CaseCallers -> CallerRow]
      /\ \A d \in CaseCallers : caller'[d] = caller[d] \/ caller'[d] = Idle
  BY <1>4, IdleCaller DEF CaseInv, CaseRowsTyped
<1>6. CASE ~(lineages[l] = NoCase /\ RunAndRootAreFree(m))
  <2>1. UNCHANGED <<lineages, candidates>>
    BY <1>1, <1>2, <1>6 DEF RecordMigration
  <2> QED BY <1>4, <2>1, IdleCaller, CallerMoves
<1>7. CASE lineages[l] = NoCase /\ RunAndRootAreFree(m)
  <2> DEFINE row == [mode |-> "HISTORICAL_CANDIDATE_MIGRATION", manifest |-> m,
                     status |-> "HISTORY_MIGRATED_CANDIDATE_ONLY"]
  <2>1. /\ row \in LineageRow /\ row.mode = "HISTORICAL_CANDIDATE_MIGRATION" /\ row.manifest = m
        /\ row.status = "HISTORY_MIGRATED_CANDIDATE_ONLY"
    BY DEF LineageRow, CaseModes
  <2>2. row # NoCase
    BY <2>1, CaseInputs
  <2>3. lineages' = [lineages EXCEPT ![l] = row] /\ candidates' = [candidates EXCEPT ![l] = Manifests[m].claims]
    BY <1>1, <1>2, <1>7 DEF RecordMigration
  <2> HIDE DEF row
  <2>4. /\ lineages' \in [Lineages -> LineageRow \cup {NoCase}] /\ lineages'[l] = row
        /\ candidates' \in [Lineages -> SUBSET HistoricalInputs] /\ candidates'[l] = Manifests[m].claims
        /\ \A k \in Lineages \ {l} : candidates'[k] = candidates[k]
    BY <2>1, <2>3, ManifestParts DEF CaseInv, CaseRowsTyped
  <2>5. CaseRowsTyped'
    BY <1>4, <1>5, <2>4 DEF CaseInv, CaseRowsTyped
  <2>6. outcomes[l] = NoCase
    BY <1>7 DEF CaseInv, CaseFits
  <2>7. CaseFits(l)'
    BY <1>3, <1>4, <2>1, <2>2, <2>4, <2>6 DEF CaseFits
  <2> QED BY <1>4, <1>5, <1>7, <2>1, <2>3, <2>4, <2>5, <2>7, CaseBegins
<1> QED BY <1>6, <1>7

\* BeginOutcome reads the status.
LEMMA BeginOutcomeStep ==
    ASSUME CaseInv, NEW c \in CaseCallers, NEW l \in Lineages, NEW o \in CaseOutcomes, NEW r \in BOOLEAN,
           BeginOutcome(c, l, o, r)
    PROVE  CaseInv'
<1> DEFINE row == [Idle EXCEPT !.at = "outcome", !.lineage = l, !.outcome = o]
<1>1. row \in CallerRow /\ row.at = "outcome" /\ row.lineage = l /\ row.outcome = o
  BY DEF Idle, CallerRow
<1>2. caller' = [caller EXCEPT ![c] = row]
  BY DEF BeginOutcome
<1> HIDE DEF row
<1>3. caller'[c] = row
  BY <1>2 DEF CaseInv, CaseRowsTyped
<1>4. CallerFits(c)'
  BY <1>1, <1>3 DEF CallerFits, BeginOutcome
<1> QED BY <1>1, <1>2, <1>4, CallerMoves DEF BeginOutcome

\* BeginMigration checks everything before anything is written.
LEMMA BeginMigrationStep ==
    ASSUME CaseInv, NEW c \in CaseCallers, NEW l \in Lineages, NEW m \in DOMAIN Manifests, NEW stamp \in Stamps,
           BeginMigration(c, l, m, stamp)
    PROVE  CaseInv'
<1> DEFINE row == [Idle EXCEPT !.at = "materials", !.lineage = l, !.manifest = m, !.stamp = stamp]
<1>1. row \in CallerRow /\ row.at = "materials" /\ row.lineage = l /\ row.manifest = m /\ row.stamp = stamp
  BY DEF Idle, CallerRow
<1>2. caller' = [caller EXCEPT ![c] = row]
  BY DEF BeginMigration
<1> HIDE DEF row
<1>3. caller'[c] = row
  BY <1>2 DEF CaseInv, CaseRowsTyped
<1>4. CallerFits(c)'
  BY <1>1, <1>3 DEF CallerFits
<1> QED BY <1>1, <1>2, <1>4, CallerMoves DEF BeginMigration

\* MaterialsDone and CandidatesDone: what the caller wrote, or found, is there.
LEMMA DoneSteps ==
    ASSUME CaseInv, NEW c \in CaseCallers, MaterialsDone(c) \/ CandidatesDone(c)
    PROVE  CaseInv'
<1>1. CallerFits(c) /\ caller[c] \in CallerRow
  BY DEF CaseInv, CaseRowsTyped
<1>2. CASE MaterialsDone(c)
  <2> DEFINE row == [caller[c] EXCEPT !.at = "claims"]
  <2>1. /\ row \in CallerRow /\ row.at = "claims" /\ row.lineage = caller[c].lineage
        /\ row.manifest = caller[c].manifest /\ row.stamp = caller[c].stamp
    BY <1>1 DEF CallerRow
  <2>2. caller' = [caller EXCEPT ![c] = row]
    BY <1>2 DEF MaterialsDone
  <2> HIDE DEF row
  <2>3. caller'[c] = row
    BY <2>2 DEF CaseInv, CaseRowsTyped
  <2>4. \A s \in Manifests[caller[c].manifest].inputs : ingested[s] # NoCase
    BY <1>1, <1>2, CaseInputs DEF MaterialsDone, CallerFits
  <2>5. CallerFits(c)'
    BY <1>1, <1>2, <2>1, <2>3, <2>4 DEF CallerFits, MaterialsDone
  <2> QED BY <1>2, <2>1, <2>2, <2>5, CallerMoves DEF MaterialsDone
<1>3. CASE CandidatesDone(c)
  <2> DEFINE row == [caller[c] EXCEPT !.at = "lineage"]
  <2>1. /\ row \in CallerRow /\ row.at = "lineage" /\ row.lineage = caller[c].lineage
        /\ row.manifest = caller[c].manifest /\ row.stamp = caller[c].stamp
    BY <1>1 DEF CallerRow
  <2>2. caller' = [caller EXCEPT ![c] = row]
    BY <1>3 DEF CandidatesDone
  <2> HIDE DEF row
  <2>3. caller'[c] = row
    BY <2>2 DEF CaseInv, CaseRowsTyped
  <2>4. \A h \in Manifests[caller[c].manifest].claims : claimOf[h] # "NONE"
    BY <1>3 DEF CandidatesDone
  <2>5. CallerFits(c)'
    BY <1>1, <1>3, <2>1, <2>3, <2>4 DEF CallerFits, CandidatesDone
  <2> QED BY <1>3, <2>1, <2>2, <2>5, CallerMoves DEF CandidatesDone
<1> QED BY <1>2, <1>3

\* One step of the registry, of a case or of a caller.
LEMMA CaseStep == ASSUME CaseInv, [CaseNext]_caseVars PROVE CaseInv'
<1>1. ASSUME NEW s \in SourceIds, NEW row \in SourceRows, RegisterSource(s, row) PROVE CaseInv'
  <2>1. CaseRowsTyped' /\ CaseGrows
    BY <1>1 DEF RegisterSource, CaseInv, CaseRowsTyped, CaseGrows
  <2> QED BY <1>1, <2>1, RowSteps DEF RegisterSource
<1>2. ASSUME NEW c \in CaseCallers, NEW s \in SourceIds, IngestMaterial(c, s) PROVE CaseInv'
  <2>1. caller[c].stamp \in Stamps
    BY <1>2 DEF IngestMaterial, CaseInv, CallerFits
  <2>2. CaseRowsTyped' /\ CaseGrows
    BY <1>2, <2>1 DEF IngestMaterial, CaseInv, CaseRowsTyped, CaseGrows
  <2> QED BY <1>2, <2>2, RowSteps DEF IngestMaterial
<1>3. ASSUME NEW c \in CaseCallers, NEW h \in HistoricalInputs, SubmitCandidate(c, h) PROVE CaseInv'
  <2>1. CaseRowsTyped' /\ CaseGrows
    BY <1>3 DEF SubmitCandidate, CaseInv, CaseRowsTyped, CaseGrows
  <2> QED BY <1>3, <2>1, RowSteps DEF SubmitCandidate
<1>4. ASSUME NEW h \in HistoricalInputs, NEW v \in {"VERIFIED", "REJECTED"}, DecideCandidate(h, v) PROVE CaseInv'
  <2>1. CaseRowsTyped' /\ CaseGrows
    BY <1>4 DEF DecideCandidate, CaseInv, CaseRowsTyped, CaseGrows
  <2> QED BY <1>4, <2>1, RowSteps DEF DecideCandidate
<1>5. ASSUME NEW l \in Lineages, NEW m \in DOMAIN Manifests, StartZhao(l, m) PROVE CaseInv'
  BY <1>5, StartZhaoStep
<1>6. ASSUME NEW l \in Lineages, NEW m \in DOMAIN Manifests, NEW c \in CaseCallers, NEW stamp \in Stamps,
             BeginMigration(c, l, m, stamp)
      PROVE  CaseInv'
  BY <1>6, BeginMigrationStep
<1>7. ASSUME NEW c \in CaseCallers, NEW l \in Lineages, NEW o \in CaseOutcomes, NEW r \in BOOLEAN,
             BeginOutcome(c, l, o, r)
      PROVE  CaseInv'
  BY <1>7, BeginOutcomeStep
<1>8. ASSUME NEW l \in Lineages, NEW I \in SUBSET SourceIds, NEW v \in [I -> {"ACCEPTED", "REJECTED"}],
             RecordCertificates(l, v)
      PROVE  CaseInv'
  <2>1. v \in Verdicts
    BY DEF Verdicts
  <2> QED BY <1>8, <2>1, RecordCertificatesStep
<1>9. ASSUME NEW c \in CaseCallers, RecordOutcome(c) \/ RecordMigration(c) PROVE CaseInv'
  BY <1>9, RecordOutcomeStep, RecordMigrationStep
<1>10. ASSUME NEW c \in CaseCallers, MaterialsDone(c) \/ CandidatesDone(c) PROVE CaseInv'
  BY <1>10, DoneSteps
<1>11. ASSUME NEW c \in CaseCallers, CallerStops(c) PROVE CaseInv'
  BY <1>11, IdleCaller, CallerMoves DEF CallerStops
<1>12. CASE UNCHANGED caseVars
  <2>1. CaseRowsTyped' /\ CaseGrows
    BY <1>12 DEF CaseInv, CaseRowsTyped, CaseGrows, caseVars
  <2> QED BY <1>12, <2>1, RowSteps DEF caseVars
<1> QED BY <1>1, <1>2, <1>3, <1>4, <1>5, <1>6, <1>7, <1>8, <1>9, <1>10, <1>11, <1>12 DEF CaseNext

\* Nothing is registered and nobody calls.
LEMMA CaseStarts == CaseInit => CaseInv
<1> SUFFICES ASSUME CaseInit PROVE CaseInv
  OBVIOUS
<1>1. CaseRowsTyped
  BY IdleCaller DEF CaseInit, CaseRowsTyped
<1>2. (\A l \in Lineages : CaseFits(l)) /\ RunsDiffer
  BY DEF CaseInit, CaseFits, RunsDiffer
<1>3. \A c \in CaseCallers : CallerFits(c)
  BY IdleCaller DEF CaseInit, CallerFits
<1> QED BY <1>1, <1>2, <1>3 DEF CaseInv

\* The invariant of the proof says what the property says.
LEMMA CaseInvImplies == CaseInv => CasesRestOnTheirSources
<1> SUFFICES ASSUME CaseInv PROVE CasesRestOnTheirSources
  OBVIOUS
<1>1. CaseTypeOK
  <2>1. \A l \in Lineages : lineages[l] = NoCase \/ lineages[l].manifest \in DOMAIN Manifests
    BY DEF CaseInv, CaseRowsTyped, LineageRow
  <2>2. \A c \in CaseCallers : caller[c].at \in {"idle", "outcome", "materials", "claims", "lineage"}
    BY DEF CaseInv, CaseRowsTyped, CallerRow
  <2> QED BY <2>1, <2>2 DEF CaseTypeOK, CaseInv, CaseRowsTyped
<1>2. ASSUME NEW l \in Lineages, lineages[l] # NoCase
      PROVE  LET m == Manifests[lineages[l].manifest]
                 status == lineages[l].status
             IN  /\ lineages[l].mode = "CLEAN_ROOM_REDISCOVERY"
                      => \A s \in m.inputs : sources[s].class \in CleanClasses
                 /\ \A k \in Lineages \ {l} : lineages[k] # NoCase => Manifests[lineages[k].manifest].run # m.run
                 /\ outcomes[l] # NoCase => status = StatusOf(outcomes[l])
                 /\ status = "CERTIFICATES_CHECKED" => DOMAIN verdicts[l] = m.inputs
                 /\ status = "HISTORY_MIGRATED_CANDIDATE_ONLY"
                      => /\ candidates[l] = m.claims /\ \A h \in m.claims : claimOf[h] # "NONE"
                         /\ \A s \in m.inputs : ingested[s] # NoCase
  <2>1. CaseFits(l)
    BY DEF CaseInv
  <2>2. \A k \in Lineages \ {l} : lineages[k] # NoCase =>
          Manifests[lineages[k].manifest].run # Manifests[lineages[l].manifest].run
    BY <1>2 DEF CaseInv, RunsDiffer
  <2> QED BY <1>2, <2>1, <2>2 DEF CaseFits
<1> QED BY <1>1, <1>2 DEF CasesRestOnTheirSources

\* CasesRestOnTheirSources, for every set of manifests and callers, wherever a caller stops.
THEOREM CasesAlwaysRestOnSources == CaseSpec => []CasesRestOnTheirSources
<1>1. CaseInit => CaseInv
  BY CaseStarts
<1>2. CaseInv /\ [CaseNext]_caseVars => CaseInv'
  BY CaseStep
<1>3. CaseInv => CasesRestOnTheirSources
  BY CaseInvImplies
<1> QED BY <1>1, <1>2, <1>3, PTL DEF CaseSpec

-----------------------------------------------------------------------------
(* The graph index: lists in order *)

\* Every part of a set that is not empty has a first member.
WellOrdered(S, before) ==
    \A T \in SUBSET S : T # {} => \E x \in T : \A y \in T : y # x => <<x, y>> \in before

\* s lists a set in order.
Lists(s, S, before) ==
    /\ s \in Bijection(1..Cardinality(S), S)
    /\ \A i, j \in 1..Cardinality(S) : i < j => <<s[i], s[j]>> \in before

\* The first member goes in front of the others.
LEMMA FirstInFront ==
    ASSUME NEW S, IsFiniteSet(S), NEW before, NEW x \in S, \A y \in S : y # x => <<x, y>> \in before,
           NEW t, Lists(t, S \ {x}, before)
    PROVE  \E s : Lists(s, S, before)
<1>1. PICK n \in Nat : n = Cardinality(S \ {x})
  <2>1. IsFiniteSet(S \ {x})
    BY FS_RemoveElement
  <2> QED BY <2>1, FS_CardinalityType
<1>2. Cardinality(S) = n + 1
  <2>1. Cardinality(S \ {x}) = Cardinality(S) - 1 /\ Cardinality(S) \in Nat
    BY FS_RemoveElement, FS_CardinalityType
  <2> QED BY <1>1, <2>1
<1>3. /\ t \in [1..n -> S \ {x}] /\ (\A i, j \in 1..n : t[i] = t[j] => i = j)
      /\ (\A y \in S \ {x} : \E i \in 1..n : t[i] = y)
      /\ \A i, j \in 1..n : i < j => <<t[i], t[j]>> \in before
  BY <1>1 DEF Lists, Bijection, Injection, IsInjective, Surjection
<1>4. PICK s : s = [i \in 1..(n + 1) |-> IF i = 1 THEN x ELSE t[i - 1]]
  OBVIOUS
<1>5. s[1] = x /\ \A i \in 1..(n + 1) : i # 1 => s[i] = t[i - 1] /\ i - 1 \in 1..n
  BY <1>4
<1>6. \A i \in 1..(n + 1) : i # 1 => s[i] \in S \ {x}
  BY <1>3, <1>5
<1>7. s \in [1..(n + 1) -> S]
  BY <1>4, <1>5, <1>6
<1>8. ASSUME NEW i \in 1..(n + 1), NEW j \in 1..(n + 1), s[i] = s[j] PROVE i = j
  <2>1. CASE i = 1 \/ j = 1
    BY <1>5, <1>6, <1>8, <2>1
  <2>2. CASE i # 1 /\ j # 1
    <3>1. i - 1 = j - 1
      BY <1>3, <1>5, <1>8, <2>2
    <3> QED BY <3>1
  <2> QED BY <2>1, <2>2
<1>9. ASSUME NEW y \in S PROVE \E i \in 1..(n + 1) : s[i] = y
  <2>1. CASE y = x
    BY <1>5, <2>1
  <2>2. CASE y # x
    <3>1. PICK i \in 1..n : t[i] = y
      BY <1>3, <2>2
    <3>2. i + 1 \in 1..(n + 1) /\ i + 1 # 1 /\ (i + 1) - 1 = i
      OBVIOUS
    <3> QED BY <1>5, <3>1, <3>2
  <2> QED BY <2>1, <2>2
<1>10. s \in Bijection(1..(n + 1), S)
  BY <1>7, <1>8, <1>9 DEF Bijection, Injection, IsInjective, Surjection
<1>11. ASSUME NEW i \in 1..(n + 1), NEW j \in 1..(n + 1), i < j PROVE <<s[i], s[j]>> \in before
  <2>1. j # 1
    BY <1>11
  <2>2. CASE i = 1
    BY <1>5, <1>6, <2>1, <2>2
  <2>3. CASE i # 1
    <3>1. i - 1 < j - 1
      BY <1>11
    <3> QED BY <1>3, <1>5, <2>1, <2>3, <3>1
  <2> QED BY <2>2, <2>3
<1> QED BY <1>2, <1>10, <1>11 DEF Lists

\* A finite, well ordered set can be listed in its order.
LEMMA ListExists ==
    ASSUME NEW S, IsFiniteSet(S), NEW before, WellOrdered(S, before)
    PROVE  \E s : Lists(s, S, before)
<1>1. PICK m \in Nat : m = Cardinality(S)
  BY FS_CardinalityType
<1> DEFINE P(n) == \A U \in SUBSET S : IsFiniteSet(U) /\ Cardinality(U) = n => \E s : Lists(s, U, before)
           G == {n \in 0..m : P(n)}
<1>2. P(0)
  <2>1. ASSUME NEW U \in SUBSET S, IsFiniteSet(U), Cardinality(U) = 0 PROVE \E s : Lists(s, U, before)
    <3>1. U = {} /\ 1..0 = {}
      BY <2>1, FS_EmptySet
    <3>2. PICK s : s = [i \in {} |-> i]
      OBVIOUS
    <3>3. s \in Bijection({}, {})
      BY <3>2 DEF Bijection, Injection, IsInjective, Surjection
    <3> QED BY <2>1, <3>1, <3>3 DEF Lists
  <2> QED BY <2>1
<1>3. ASSUME NEW n \in 0..(m - 1), P(n) PROVE P(n + 1)
  <2>1. ASSUME NEW U \in SUBSET S, IsFiniteSet(U), Cardinality(U) = n + 1 PROVE \E s : Lists(s, U, before)
    <3>1. U # {}
      BY <2>1, FS_EmptySet
    <3>2. PICK x \in U : \A y \in U : y # x => <<x, y>> \in before
      BY <3>1 DEF WellOrdered
    <3>3. IsFiniteSet(U \ {x}) /\ Cardinality(U \ {x}) = Cardinality(U) - 1
      BY <2>1, FS_RemoveElement
    <3>4. Cardinality(U \ {x}) = n
      BY <2>1, <3>3
    <3>5. U \ {x} \in SUBSET S
      OBVIOUS
    <3>6. \E t : Lists(t, U \ {x}, before)
      BY <1>3, <3>3, <3>4, <3>5
    <3> HIDE DEF P
    <3> QED BY <2>1, <3>2, <3>6, FirstInFront
  <2> QED BY <2>1
<1>4. \A n \in 0..m : n \in G
  <2>1. 0 \in G /\ \A n \in 0..(m - 1) : n \in G => n + 1 \in G
    <3>1. 0 \in 0..m /\ \A n \in 0..(m - 1) : n \in 0..m /\ n + 1 \in 0..m
      BY <1>1
    <3> HIDE DEF P
    <3> QED BY <1>2, <1>3, <3>1
  <2> HIDE DEF G
  <2> QED BY <1>1, <2>1, InductionUpTo
<1>5. P(m)
  BY <1>1, <1>4
<1> QED BY <1>1, <1>5

Enumerates(s, n, S) ==
    /\ s \in [1..n -> S] /\ (\A i, j \in 1..n : s[i] = s[j] => i = j)
    /\ (\A y \in S : \E i \in 1..n : s[i] = y)

\* What Sorted returns lists every member once.
LEMMA SortedFits ==
    ASSUME NEW S, IsFiniteSet(S), NEW before, WellOrdered(S, before), NEW s, s = Sorted(S, before)
    PROVE  \E n \in Nat : Enumerates(s, n, S)
<1>1. \E t : Lists(t, S, before)
  BY ListExists
<1>2. PICK n \in Nat : n = Cardinality(S)
  BY FS_CardinalityType
<1>3. Lists(s, S, before)
  BY <1>1 DEF Lists, Sorted
<1> QED BY <1>2, <1>3 DEF Enumerates, Lists, Bijection, Injection, IsInjective, Surjection

\* Identities are well ordered.
LEMMA IdsWellOrdered ==
    ASSUME NEW S, S \subseteq Nat
    PROVE  WellOrdered(S, IdOrder)
<1>1. ASSUME NEW T \in SUBSET S, T # {} PROVE \E x \in T : \A y \in T : y # x => <<x, y>> \in IdOrder
  <2>1. T \subseteq Nat
    OBVIOUS
  <2>2. PICK x \in T : \A y \in T : x <= y
    BY <1>1, <2>1, LeastNatural
  <2>3. ASSUME NEW y \in T, y # x PROVE <<x, y>> \in IdOrder
    <3>1. x \in Nat /\ y \in Nat /\ x < y
      BY <2>1, <2>2, <2>3
    <3> QED BY <3>1 DEF IdOrder
  <2> QED BY <2>3
<1> QED BY <1>1 DEF WellOrdered

\* The pairs of a frontier node and a neighbour are well ordered.
LEMMA PairsWellOrdered ==
    ASSUME NEW S, S \subseteq Nat \X Nat
    PROVE  WellOrdered(S, PairOrder)
<1>1. ASSUME NEW T \in SUBSET S, T # {} PROVE \E x \in T : \A y \in T : y # x => <<x, y>> \in PairOrder
  <2>1. \A x \in T : x \in Nat \X Nat /\ x = <<x[1], x[2]>> /\ x[1] \in Nat /\ x[2] \in Nat
    OBVIOUS
  <2>2. PICK A : A = {x[1] : x \in T}
    OBVIOUS
  <2>3. PICK a \in A : \A b \in A : a <= b
    <3>1. A \subseteq Nat /\ A # {}
      BY <1>1, <2>1, <2>2
    <3> QED BY <3>1, LeastNatural
  <2>4. PICK B : B = {x[2] : x \in {z \in T : z[1] = a}}
    OBVIOUS
  <2>5. PICK b \in B : \A c \in B : b <= c
    <3>1. B \subseteq Nat /\ B # {}
      BY <2>1, <2>2, <2>3, <2>4
    <3> QED BY <3>1, LeastNatural
  <2>6. PICK x \in T : x[1] = a /\ x[2] = b
    BY <2>4, <2>5
  <2>7. ASSUME NEW y \in T, y # x PROVE <<x, y>> \in PairOrder
    <3>1. x[1] <= y[1]
      BY <2>2, <2>3, <2>6
    <3>2. y[1] = a => x[2] <= y[2]
      BY <2>4, <2>5, <2>6
    <3>3. x[1] < y[1] \/ (x[1] = y[1] /\ x[2] < y[2])
      BY <2>1, <2>6, <2>7, <3>1, <3>2
    <3> QED BY <2>1, <3>3 DEF PairOrder
  <2> QED BY <2>7
<1> QED BY <1>1 DEF WellOrdered

-----------------------------------------------------------------------------
(* The graph index: replaying events *)

\* f[k] is the graph after the events up to k, from g on.
Replay(f, act, g, from, to) ==
    f = [k \in from..to |-> IF k = from THEN g ELSE ApplyActivity(f[k - 1], act[k])]

Replayed(act, g, from, to) ==
    LET f[k \in from..to] == IF k = from THEN g ELSE ApplyActivity(f[k - 1], act[k]) IN f[to]

\* One more event can be replayed.
LEMMA ReplayExtends ==
    ASSUME NEW act, NEW g, NEW from \in Nat, NEW j \in Nat, from <= j, NEW f, Replay(f, act, g, from, j)
    PROVE  \E h : Replay(h, act, g, from, j + 1)
<1>1. \A k \in from..j : f[k] = IF k = from THEN g ELSE ApplyActivity(f[k - 1], act[k])
  BY DEF Replay
<1>2. PICK h : h = [k \in from..(j + 1) |-> IF k = j + 1 THEN ApplyActivity(f[j], act[j + 1]) ELSE f[k]]
  OBVIOUS
<1>3. ASSUME NEW k \in from..(j + 1)
      PROVE  h[k] = IF k = from THEN g ELSE ApplyActivity(h[k - 1], act[k])
  <2>1. CASE k = from
    <3>1. k # j + 1 /\ k \in from..j
      BY <2>1
    <3> QED BY <1>1, <1>2, <2>1, <3>1
  <2>2. CASE k # from
    <3>1. k - 1 \in from..j /\ k - 1 # j + 1 /\ k - 1 \in from..(j + 1)
      BY <2>2
    <3>2. h[k - 1] = f[k - 1]
      BY <1>2, <3>1
    <3>3. CASE k = j + 1
      <4>1. k - 1 = j
        BY <3>3
      <4>2. h[k] = ApplyActivity(f[j], act[j + 1])
        BY <1>2, <3>3
      <4> QED BY <2>2, <3>2, <3>3, <4>1, <4>2
    <3>4. CASE k # j + 1
      <4>1. k \in from..j
        BY <3>4
      <4>2. h[k] = f[k]
        BY <1>2, <3>4
      <4>3. f[k] = ApplyActivity(f[k - 1], act[k])
        BY <1>1, <2>2, <4>1
      <4> QED BY <2>2, <3>2, <4>2, <4>3
    <3> QED BY <3>3, <3>4
  <2> QED BY <2>1, <2>2
<1>4. h = [k \in from..(j + 1) |-> IF k = from THEN g ELSE ApplyActivity(h[k - 1], act[k])]
  BY <1>2, <1>3
<1> QED BY <1>4 DEF Replay

\* Any number of events can be replayed.
LEMMA ReplayExists ==
    ASSUME NEW act, NEW g, NEW from \in Nat, NEW n \in Nat
    PROVE  \E f : Replay(f, act, g, from, from + n)
<1> DEFINE P(k) == \E f : Replay(f, act, g, from, from + k)
           G == {k \in 0..n : P(k)}
<1>1. P(0)
  <2>1. from + 0 = from
    OBVIOUS
  <2>2. PICK f : f = [k \in from..from |-> g]
    OBVIOUS
  <2>3. f = [k \in from..from |-> IF k = from THEN g ELSE ApplyActivity(f[k - 1], act[k])]
    <3>1. \A k \in from..from : k = from
      OBVIOUS
    <3> QED BY <2>2, <3>1
  <2>4. Replay(f, act, g, from, from)
    BY <2>3 DEF Replay
  <2> QED BY <2>1, <2>4
<1>2. ASSUME NEW k \in 0..(n - 1), P(k) PROVE P(k + 1)
  <2>1. PICK j \in Nat : j = from + k /\ from <= j /\ j + 1 = from + (k + 1)
    OBVIOUS
  <2>2. PICK f : Replay(f, act, g, from, j)
    BY <1>2, <2>1
  <2>3. \E h : Replay(h, act, g, from, j + 1)
    BY <2>1, <2>2, ReplayExtends
  <2> QED BY <2>1, <2>3
<1>3. \A k \in 0..n : k \in G
  <2>1. 0 \in G /\ \A k \in 0..(n - 1) : k \in G => k + 1 \in G
    <3>1. 0 \in 0..n /\ \A k \in 0..(n - 1) : k \in 0..n /\ k + 1 \in 0..n
      OBVIOUS
    <3> HIDE DEF P
    <3> QED BY <1>1, <1>2, <3>1
  <2> HIDE DEF G
  <2> QED BY <2>1, InductionUpTo
<1>4. P(n)
  BY <1>3
<1> QED BY <1>4

SameEvents(act, bct, from, to) == \A k \in (from + 1)..to : act[k] = bct[k]

\* Replays of the same events agree.
LEMMA ReplaysAgree ==
    ASSUME NEW act, NEW bct, NEW g, NEW from \in Nat, NEW to \in Nat, NEW end \in Nat, from <= to, to <= end,
           SameEvents(act, bct, from, to),
           NEW f, Replay(f, act, g, from, to), NEW h, Replay(h, bct, g, from, end)
    PROVE  f[to] = h[to]
<1>1. /\ \A k \in from..to : f[k] = IF k = from THEN g ELSE ApplyActivity(f[k - 1], act[k])
      /\ \A k \in from..end : h[k] = IF k = from THEN g ELSE ApplyActivity(h[k - 1], bct[k])
  BY DEF Replay
<1>2. PICK n \in Nat : n = to - from /\ from + n = to
  OBVIOUS
<1> DEFINE G == {k \in 0..n : f[from + k] = h[from + k]}
<1>3. 0 \in G
  BY <1>1
<1>4. ASSUME NEW k \in 0..(n - 1), k \in G PROVE k + 1 \in G
  <2>1. PICK j \in Nat : j = from + (k + 1) /\ j \in (from + 1)..to /\ j \in from..to /\ j # from
                         /\ j \in from..end /\ j - 1 = from + k /\ k + 1 \in 0..n
    BY <1>2
  <2>2. f[j] = ApplyActivity(f[j - 1], act[j]) /\ h[j] = ApplyActivity(h[j - 1], bct[j])
    BY <1>1, <2>1
  <2>3. f[j - 1] = h[j - 1] /\ act[j] = bct[j]
    BY <1>4, <2>1 DEF SameEvents
  <2> QED BY <2>1, <2>2, <2>3
<1>5. \A k \in 0..n : k \in G
  <2> HIDE DEF G
  <2> QED BY <1>3, <1>4, InductionUpTo
<1>6. n \in G
  <2> HIDE DEF G
  <2> QED BY <1>5
<1> QED BY <1>2, <1>6

\* The definition names such a replay.
LEMMA ReplayedIs ==
    ASSUME NEW act, NEW g, NEW from \in Nat, NEW to \in Nat, from <= to
    PROVE  \E f : Replay(f, act, g, from, to) /\ Replayed(act, g, from, to) = f[to]
<1>1. PICK n \in Nat : to = from + n
  <2>1. to - from \in Nat /\ to = from + (to - from)
    OBVIOUS
  <2> QED BY <2>1
<1>2. PICK f : f = (CHOOSE h : h = [k \in from..to |-> IF k = from THEN g ELSE ApplyActivity(h[k - 1], act[k])])
  OBVIOUS
<1>3. \E h : Replay(h, act, g, from, to)
  BY <1>1, ReplayExists
<1>4. Replay(f, act, g, from, to)
  BY <1>2, <1>3 DEF Replay
<1>5. Replayed(act, g, from, to) = f[to]
  BY <1>2 DEF Replayed
<1> QED BY <1>4, <1>5

\* Nothing replayed leaves the graph; one more event is applied to what the earlier ones leave.
LEMMA ReplayedStep ==
    ASSUME NEW act, NEW g, NEW from \in Nat, NEW to \in Nat, from <= to, NEW next \in Nat, next = to + 1
    PROVE  /\ Replayed(act, g, from, from) = g
           /\ Replayed(act, g, from, next) = ApplyActivity(Replayed(act, g, from, to), act[next])
<1>1. Replayed(act, g, from, from) = g
  <2>1. PICK f : Replay(f, act, g, from, from) /\ Replayed(act, g, from, from) = f[from]
    BY ReplayedIs
  <2>2. f[from] = g
    BY <2>1 DEF Replay
  <2> QED BY <2>1, <2>2
<1>2. from <= next /\ to <= next
  OBVIOUS
<1>3. PICK f : Replay(f, act, g, from, to) /\ Replayed(act, g, from, to) = f[to]
  BY ReplayedIs
<1>4. PICK h : Replay(h, act, g, from, next) /\ Replayed(act, g, from, next) = h[next]
  BY <1>2, ReplayedIs
<1>5. f[to] = h[to]
  <2>1. SameEvents(act, act, from, to)
    BY DEF SameEvents
  <2> QED BY <1>2, <1>3, <1>4, <2>1, ReplaysAgree
<1>6. h[next] = ApplyActivity(h[to], act[next])
  <2>1. next \in from..next /\ next # from /\ next - 1 = to
    OBVIOUS
  <2> QED BY <1>4, <2>1 DEF Replay
<1> QED BY <1>1, <1>3, <1>4, <1>5, <1>6

\* What is replayed depends on the events up to its end only.
LEMMA ReplayedSame ==
    ASSUME NEW act, NEW bct, NEW g, NEW n \in Nat, \A k \in 1..n : act[k] = bct[k]
    PROVE  Replayed(act, g, 0, n) = Replayed(bct, g, 0, n)
<1>1. PICK from \in Nat : from = 0 /\ from <= n /\ from + 1 = 1 /\ n <= n
  OBVIOUS
<1>2. PICK f : Replay(f, act, g, from, n) /\ Replayed(act, g, from, n) = f[n]
  BY <1>1, ReplayedIs
<1>3. PICK h : Replay(h, bct, g, from, n) /\ Replayed(bct, g, from, n) = h[n]
  BY <1>1, ReplayedIs
<1>4. SameEvents(act, bct, from, n)
  BY <1>1 DEF SameEvents
<1>5. f[n] = h[n]
  BY <1>1, <1>2, <1>3, <1>4, ReplaysAgree
<1> QED BY <1>1, <1>2, <1>3, <1>5

\* The kernel's graph is what all its deltas leave; the index replays the deltas behind its watermark.
LEMMA GraphsAreReplays ==
    /\ \A c : Authority(c) = Replayed(activity, EmptyGraph, 0, c)
    /\ \A g, from, to : GraphAfter(g, from, to) = Replayed(activity, g, from, to)
  BY DEF Authority, GraphAfter, Replayed, ApplyActivity

\* The kernel's graph, event by event.
LEMMA AuthorityStep ==
    ASSUME NEW c \in Nat, NEW d \in Nat, d = c + 1
    PROVE  Authority(0) = EmptyGraph /\ Authority(d) = ApplyActivity(Authority(c), activity[d])
<1>1. PICK from \in Nat : from = 0 /\ from <= c
  OBVIOUS
<1>2. /\ Replayed(activity, EmptyGraph, from, from) = EmptyGraph
      /\ Replayed(activity, EmptyGraph, from, d) = ApplyActivity(Replayed(activity, EmptyGraph, from, c), activity[d])
  BY <1>1, ReplayedStep
<1> QED BY <1>1, <1>2, GraphsAreReplays

\* Replaying from the kernel's graph at one event gives the kernel's graph at a later one.
LEMMA CaughtUp ==
    ASSUME NEW from \in Nat, NEW to \in Nat, from <= to
    PROVE  GraphAfter(Authority(from), from, to) = Authority(to)
<1>1. PICK n \in Nat : n = to - from /\ from + n = to
  OBVIOUS
<1>2. PICK g : g = Authority(from)
  OBVIOUS
<1> DEFINE G == {k \in 0..n : Replayed(activity, g, from, from + k) = Authority(from + k)}
<1>3. 0 \in G
  <2>1. Replayed(activity, g, from, from) = g
    <3>1. from <= from /\ from + 1 \in Nat
      OBVIOUS
    <3> QED BY <3>1, ReplayedStep
  <2> QED BY <1>2, <2>1
<1>4. ASSUME NEW k \in 0..(n - 1), k \in G PROVE k + 1 \in G
  <2>1. PICK c \in Nat : c = from + k /\ from <= c
    OBVIOUS
  <2>2. PICK d \in Nat : d = c + 1 /\ d = from + (k + 1) /\ k + 1 \in 0..n
    BY <2>1
  <2>3. Replayed(activity, g, from, d) = ApplyActivity(Replayed(activity, g, from, c), activity[d])
    <3>1. from <= c /\ d = c + 1
      BY <2>1, <2>2
    <3>2. /\ Replayed(activity, g, from, from) = g
          /\ Replayed(activity, g, from, d) = ApplyActivity(Replayed(activity, g, from, c), activity[d])
      BY ONLY from \in Nat, c \in Nat, d \in Nat, <3>1, ReplayedStep
    <3> QED BY <3>2
  <2>4. Authority(d) = ApplyActivity(Authority(c), activity[d])
    BY <2>1, <2>2, AuthorityStep
  <2>5. Replayed(activity, g, from, c) = Authority(c)
    BY <1>4, <2>1
  <2>6. Replayed(activity, g, from, d) = Authority(d)
    BY <2>3, <2>4, <2>5
  <2> QED BY <2>2, <2>6
<1>5. \A k \in 0..n : k \in G
  <2> HIDE DEF G
  <2> QED BY <1>3, <1>4, InductionUpTo
<1>6. Replayed(activity, g, from, from + n) = Authority(from + n)
  BY <1>5
<1> QED BY <1>1, <1>2, <1>6, GraphsAreReplays

-----------------------------------------------------------------------------
(* The graph index: graphs and frontiers *)

\* The nodes of a graph: finitely many, one per identity; its edges join nodes that are present.
NodesFine(g) ==
    /\ IsFiniteSet(g.nodes) /\ Ids(g.nodes) \subseteq Nat
    /\ \A m, n \in g.nodes : m.id = n.id => m = n
EdgesFine(g) == \A e \in g.edges : {e.from, e.to} \subseteq Ids(g.nodes)

\* A delta keeps one node per identity.
LEMMA DeltaFine ==
    ASSUME NEW g, NodesFine(g), NEW d \in Deltas
    PROVE  NodesFine(ApplyDelta(g, d))
<1>1. PICK kept : kept = {n \in g.nodes : n.id \notin d.deleteNodes}
  OBVIOUS
<1>2. PICK left : left = {n \in kept : n.id \notin Ids(d.nodes)}
  OBVIOUS
<1>3. PICK b : b = Deletes(g, d)
  OBVIOUS
<1>4. b.nodes = kept /\ b = [nodes |-> b.nodes, edges |-> b.edges]
  BY <1>1, <1>3 DEF Deletes
<1>5. PICK a : a = UpsertNodes(b, d)
  OBVIOUS
<1>6. a.nodes = left \cup d.nodes /\ a = [nodes |-> a.nodes, edges |-> a.edges]
  BY <1>2, <1>4, <1>5 DEF UpsertNodes
<1>7. UpsertEdges(a, d).nodes = left \cup d.nodes
  BY <1>6 DEF UpsertEdges
<1>8. ApplyDelta(g, d).nodes = left \cup d.nodes
  BY <1>3, <1>5, <1>7 DEF ApplyDelta
<1>9. /\ IsFiniteSet(d.nodes) /\ Ids(d.nodes) \subseteq Nat
      /\ \A m, n \in d.nodes : m.id = n.id => m = n
  BY GraphInputs
<1>10. left \subseteq g.nodes
  BY <1>1, <1>2
<1>11. IsFiniteSet(left \cup d.nodes)
  <2>1. IsFiniteSet(g.nodes)
    BY DEF NodesFine
  <2>2. IsFiniteSet(left)
    BY <1>10, <2>1, FS_Subset
  <2> QED BY <1>9, <2>2, FS_Union
<1>12. Ids(left \cup d.nodes) \subseteq Nat
  BY <1>9, <1>10 DEF NodesFine, Ids
<1>13. \A m, n \in left \cup d.nodes : m.id = n.id => m = n
  <2>1. \A m \in left, n \in d.nodes : m.id # n.id
    BY <1>2 DEF Ids
  <2>2. \A m, n \in left : m.id = n.id => m = n
    BY <1>10 DEF NodesFine
  <2> QED BY <1>9, <2>1, <2>2
<1> QED BY <1>8, <1>11, <1>12, <1>13 DEF NodesFine

\* Finitely many nodes have finitely many identities.
LEMMA IdsFinite ==
    ASSUME NEW g, NodesFine(g)
    PROVE  IsFiniteSet(Ids(g.nodes))
<1>1. IsFiniteSet(g.nodes)
  BY DEF NodesFine
<1>2. PICK f : f = [n \in g.nodes |-> n.id]
  OBVIOUS
<1>3. f \in Surjection(g.nodes, Ids(g.nodes))
  BY <1>2 DEF Surjection, Ids
<1> QED BY <1>1, <1>3, FS_Surjection

\* An identity names its node.
LEMMA NodeIs ==
    ASSUME NEW g, NodesFine(g)
    PROVE  /\ \A n \in g.nodes : n.id \in Ids(g.nodes) /\ Node(g, n.id) = n
           /\ \A id \in Ids(g.nodes) : Node(g, id) \in g.nodes /\ Node(g, id).id = id
<1>1. ASSUME NEW id \in Ids(g.nodes) PROVE Node(g, id) \in g.nodes /\ Node(g, id).id = id
  <2>1. \E n \in g.nodes : n.id = id
    BY DEF Ids
  <2> QED BY <2>1 DEF Node
<1>2. ASSUME NEW n \in g.nodes PROVE n.id \in Ids(g.nodes) /\ Node(g, n.id) = n
  <2>1. n.id \in Ids(g.nodes)
    BY DEF Ids
  <2>2. Node(g, n.id) \in g.nodes /\ Node(g, n.id).id = n.id
    BY <1>1, <2>1
  <2> QED BY <2>1, <2>2 DEF NodesFine
<1> QED BY <1>1, <1>2

\* Matching nodes next to some of C.
Nearby(g, q, C) ==
    {id \in Ids(g.nodes) : Matches(Node(g, id), q) /\ \E c \in C : id \in EdgeTransitions(g, c, q.direction)}

Firsts(met) == {p \in met : \A o \in met : o[2] = p[2] => p[1] <= o[1]}

\* Every neighbour is met first from one node.
LEMMA FirstMet ==
    ASSUME NEW met, met \subseteq Nat \X Nat, NEW first, first = Firsts(met)
    PROVE  /\ \A p, o \in first : p[2] = o[2] => p = o
           /\ \A p \in met : \E o \in first : o[2] = p[2]
<1> USE DEF Firsts
<1>1. \A p \in met : p = <<p[1], p[2]>> /\ p[1] \in Nat /\ p[2] \in Nat
  OBVIOUS
<1>2. ASSUME NEW p \in first, NEW o \in first, p[2] = o[2] PROVE p = o
  <2>1. p \in met /\ o \in met
    OBVIOUS
  <2>2. p[1] <= o[1] /\ o[1] <= p[1]
    BY <1>2, <2>1
  <2>3. p[1] = o[1]
    BY <1>1, <2>1, <2>2
  <2> QED BY <1>1, <1>2, <2>1, <2>3
<1>3. ASSUME NEW p \in met PROVE \E o \in first : o[2] = p[2]
  <2>1. PICK A : A = {o[1] : o \in {z \in met : z[2] = p[2]}}
    OBVIOUS
  <2>2. A \subseteq Nat /\ A # {}
    BY <1>1, <2>1
  <2>3. PICK a \in A : \A b \in A : a <= b
    BY <2>2, LeastNatural
  <2>4. PICK o \in met : o[2] = p[2] /\ o[1] = a
    BY <2>1, <2>3
  <2>5. \A z \in met : z[2] = o[2] => o[1] <= z[1]
    BY <2>1, <2>3, <2>4
  <2> QED BY <2>4, <2>5
<1> QED BY <1>2, <1>3

\* s lists identities, each once.
Distinct(s) == s \in Seq(Nat) /\ \A i, j \in DOMAIN s : s[i] = s[j] => i = j

\* The neighbours of a frontier.
Seconds(new) == [i \in DOMAIN new |-> new[i][2]]
SecondsOf(new) == {new[i][2] : i \in DOMAIN new}

FrontierIs(g, q, frontier, visited, new, t) ==
    /\ Distinct(t) /\ Range(t) = Nearby(g, q, frontier) \ visited
    /\ SecondsOf(new) = Range(t) /\ IsFiniteSet(Range(t))

\* The next frontier is what is nearby and not visited, each once.
LEMMA FrontierFits ==
    ASSUME NEW g, NodesFine(g), NEW q, NEW frontier, frontier \subseteq Nat, IsFiniteSet(frontier), NEW visited,
           NEW new, new = NextFrontier(g, q, frontier, visited), NEW t, t = Seconds(new)
    PROVE  FrontierIs(g, q, frontier, visited, new, t)
<1>1. PICK met : met = {p \in UNION {{c} \X EdgeTransitions(g, c, q.direction) : c \in frontier} :
                          p[2] \notin visited /\ p[2] \in Ids(g.nodes) /\ Matches(Node(g, p[2]), q)}
  OBVIOUS
<1>2. PICK first : first = Firsts(met)
  OBVIOUS
<1>3. new = Sorted(first, PairOrder)
  BY <1>1, <1>2 DEF NextFrontier, Firsts
<1>4. ASSUME NEW p \in met
      PROVE  /\ p[1] \in frontier /\ p[2] \in EdgeTransitions(g, p[1], q.direction) /\ p = <<p[1], p[2]>>
             /\ p[2] \notin visited /\ p[2] \in Ids(g.nodes) /\ Matches(Node(g, p[2]), q)
  <2>1. PICK c \in frontier : p \in {c} \X EdgeTransitions(g, c, q.direction)
    BY <1>1
  <2> QED BY <1>1, <2>1
<1>5. ASSUME NEW c \in frontier, NEW id \in EdgeTransitions(g, c, q.direction), id \notin visited,
             id \in Ids(g.nodes), Matches(Node(g, id), q)
      PROVE  <<c, id>> \in met
  <2>1. <<c, id>> \in UNION {{e} \X EdgeTransitions(g, e, q.direction) : e \in frontier}
    OBVIOUS
  <2> QED BY <1>1, <1>5, <2>1
<1>6. met \subseteq frontier \X Ids(g.nodes) /\ met \subseteq Nat \X Nat
  <2>1. met \subseteq frontier \X Ids(g.nodes)
    BY <1>4
  <2> QED BY <2>1 DEF NodesFine
<1>7. IsFiniteSet(first) /\ first \subseteq met /\ first \subseteq Nat \X Nat
  <2>1. IsFiniteSet(frontier \X Ids(g.nodes))
    BY IdsFinite, FS_Product
  <2>2. first \subseteq met /\ first \subseteq frontier \X Ids(g.nodes)
    BY <1>2, <1>6 DEF Firsts
  <2> QED BY <1>6, <2>1, <2>2, FS_Subset
<1>8. PICK n \in Nat : /\ new \in [1..n -> first] /\ (\A i, j \in 1..n : new[i] = new[j] => i = j)
                       /\ (\A y \in first : \E i \in 1..n : new[i] = y)
  <2>1. WellOrdered(first, PairOrder) /\ IsFiniteSet(first)
    BY <1>7, PairsWellOrdered
  <2>2. \E n \in Nat : Enumerates(new, n, first)
    BY ONLY <1>3, <2>1, SortedFits
  <2> QED BY <2>2 DEF Enumerates
<1>9. /\ \A p, o \in first : p[2] = o[2] => p = o
      /\ \A p \in met : \E o \in first : o[2] = p[2]
  BY <1>2, <1>6, FirstMet
<1>10. DOMAIN new = 1..n /\ t = [i \in 1..n |-> new[i][2]] /\ \A i \in 1..n : new[i] \in first /\ new[i][2] \in Nat
  BY <1>7, <1>8 DEF Seconds
<1>11. t \in Seq(Nat) /\ DOMAIN t = 1..n /\ \A i \in 1..n : t[i] = new[i][2]
  BY <1>10
<1>12. ASSUME NEW i \in 1..n, NEW j \in 1..n, t[i] = t[j] PROVE i = j
  <2>1. new[i] = new[j]
    BY <1>9, <1>10, <1>11, <1>12
  <2> QED BY <1>8, <2>1
<1>13. Distinct(t)
  BY <1>11, <1>12 DEF Distinct
<1>14. Range(t) = Nearby(g, q, frontier) \ visited
  <2>1. ASSUME NEW i \in 1..n PROVE t[i] \in Nearby(g, q, frontier) \ visited
    BY <1>4, <1>7, <1>10, <1>11 DEF Nearby
  <2>2. ASSUME NEW id \in Nearby(g, q, frontier) \ visited PROVE \E i \in 1..n : t[i] = id
    <3>1. PICK c \in frontier : id \in EdgeTransitions(g, c, q.direction) /\ id \in Ids(g.nodes) /\ Matches(Node(g, id), q)
      BY DEF Nearby
    <3>2. <<c, id>> \in met
      BY <1>5, <3>1
    <3>3. PICK o \in first : o[2] = id
      BY <1>9, <3>2
    <3> QED BY <1>8, <1>11, <3>3
  <2>3. Range(t) = {t[i] : i \in 1..n}
    BY <1>11 DEF Range
  <2> QED BY <2>1, <2>2, <2>3
<1>15. SecondsOf(new) = Range(t)
  BY <1>10, <1>11 DEF Range, SecondsOf
<1>16. IsFiniteSet(Range(t))
  <2>1. Range(t) \subseteq Ids(g.nodes)
    BY <1>14 DEF Nearby
  <2> QED BY <2>1, IdsFinite, FS_Subset
<1> QED BY <1>13, <1>14, <1>15, <1>16 DEF FrontierIs

Stepwise(f, m, a, step, D) ==
    f \in [0..m -> D] /\ f[0] = a /\ \A k \in 1..m : f[k] = step[f[k - 1]]

\* A step that stays in a set can be taken any number of times.
LEMMA StepsExist ==
    ASSUME NEW D, NEW a \in D, NEW step \in [D -> D], NEW m \in Nat
    PROVE  \E f : Stepwise(f, m, a, step, D)
<1> DEFINE P(n) == \E f \in [0..n -> D] : f[0] = a /\ \A k \in 1..n : f[k] = step[f[k - 1]]
           G == {n \in 0..m : P(n)}
<1>1. P(0)
  <2>1. PICK f : f = [k \in 0..0 |-> a]
    OBVIOUS
  <2>2. f \in [0..0 -> D] /\ f[0] = a /\ \A k \in 1..0 : f[k] = step[f[k - 1]]
    BY <2>1
  <2> QED BY <2>2
<1>2. ASSUME NEW n \in 0..(m - 1), P(n) PROVE P(n + 1)
  <2>1. PICK f \in [0..n -> D] : f[0] = a /\ \A k \in 1..n : f[k] = step[f[k - 1]]
    BY <1>2
  <2>2. f[n] \in D /\ step[f[n]] \in D
    OBVIOUS
  <2>3. PICK h : h = [k \in 0..(n + 1) |-> IF k = n + 1 THEN step[f[n]] ELSE f[k]]
    OBVIOUS
  <2>4. \A k \in 0..(n + 1) : k # n + 1 => k \in 0..n /\ h[k] = f[k]
    BY <2>3
  <2>5. h[n + 1] = step[f[n]]
    BY <2>3
  <2>6. h \in [0..(n + 1) -> D]
    BY <2>2, <2>3, <2>4
  <2>7. ASSUME NEW k \in 1..(n + 1) PROVE h[k] = step[h[k - 1]]
    <3>1. k - 1 \in 0..(n + 1) /\ k - 1 # n + 1 /\ h[k - 1] = f[k - 1]
      BY <2>4
    <3>2. CASE k = n + 1
      <4>1. k - 1 = n
        BY <3>2
      <4> QED BY <2>5, <3>1, <3>2, <4>1
    <3>3. CASE k # n + 1
      <4>1. k \in 1..n /\ k \in 0..(n + 1)
        BY <3>3
      <4> QED BY <2>1, <2>4, <3>1, <3>3, <4>1
    <3> QED BY <3>2, <3>3
  <2>8. h[0] = a
    BY <2>1, <2>4
  <2> QED BY <2>6, <2>7, <2>8
<1>3. \A n \in 0..m : n \in G
  <2>1. 0 \in G /\ \A n \in 0..(m - 1) : n \in G => n + 1 \in G
    <3>1. 0 \in 0..m /\ \A n \in 0..(m - 1) : n \in 0..m /\ n + 1 \in 0..m
      OBVIOUS
    <3> HIDE DEF P
    <3> QED BY <1>1, <1>2, <3>1
  <2> HIDE DEF G
  <2> QED BY <2>1, InductionUpTo
<1>4. P(m)
  BY <1>3
<1> QED BY <1>4 DEF Stepwise

\* Two lists without a common member make one list.
LEMMA DistinctJoin ==
    ASSUME NEW s, Distinct(s), NEW t, Distinct(t), Range(s) \cap Range(t) = {}
    PROVE  Distinct(s \o t) /\ Range(s \o t) = Range(s) \cup Range(t)
<1>1. PICK a \in Nat : a = Len(s) /\ DOMAIN s = 1..a /\ s \in Seq(Nat)
  BY DEF Distinct
<1>2. PICK b \in Nat : b = Len(t) /\ DOMAIN t = 1..b /\ t \in Seq(Nat)
  BY DEF Distinct
<1>3. PICK u : u = s \o t
  OBVIOUS
<1>4. /\ u \in Seq(Nat) /\ DOMAIN u = 1..(a + b)
      /\ \A i \in 1..(a + b) : u[i] = IF i <= a THEN s[i] ELSE t[i - a]
  BY <1>1, <1>2, <1>3
<1>5. \A i \in 1..(a + b) : i <= a => i \in 1..a /\ u[i] = s[i] /\ u[i] \in Range(s)
  BY <1>1, <1>4 DEF Range
<1>6. \A i \in 1..(a + b) : ~(i <= a) => i - a \in 1..b /\ u[i] = t[i - a] /\ u[i] \in Range(t)
  <2>1. \A i \in 1..(a + b) : ~(i <= a) => i - a \in 1..b /\ u[i] = t[i - a]
    BY <1>4
  <2>2. \A k \in 1..b : t[k] \in Range(t)
    BY <1>2 DEF Range
  <2> QED BY <2>1, <2>2
<1>7. ASSUME NEW i \in 1..(a + b), NEW j \in 1..(a + b), u[i] = u[j] PROVE i = j
  <2>1. CASE i <= a /\ j <= a
    BY <1>1, <1>5, <1>7, <2>1 DEF Distinct
  <2>2. CASE ~(i <= a) /\ ~(j <= a)
    <3>1. i - a = j - a
      BY <1>2, <1>6, <1>7, <2>2 DEF Distinct
    <3> QED BY <3>1
  <2>3. CASE ~(i <= a) /\ j <= a
    BY <1>5, <1>6, <1>7, <2>3
  <2>4. CASE i <= a /\ ~(j <= a)
    BY <1>5, <1>6, <1>7, <2>4
  <2> QED BY <2>1, <2>2, <2>3, <2>4
<1>8. Distinct(u)
  BY <1>4, <1>7 DEF Distinct
<1>9. ASSUME NEW x \in Range(s) PROVE x \in Range(u)
  <2>1. PICK i \in 1..a : s[i] = x
    BY <1>1 DEF Range
  <2>2. i \in 1..(a + b) /\ i <= a
    OBVIOUS
  <2> QED BY <1>4, <2>1, <2>2 DEF Range
<1>10. ASSUME NEW x \in Range(t) PROVE x \in Range(u)
  <2>1. PICK i \in 1..b : t[i] = x
    BY <1>2 DEF Range
  <2>2. i + a \in 1..(a + b) /\ ~(i + a <= a) /\ (i + a) - a = i
    OBVIOUS
  <2>3. u[i + a] = x
    BY <1>4, <2>1, <2>2
  <2> QED BY <1>4, <2>2, <2>3 DEF Range
<1>11. Range(u) \subseteq Range(s) \cup Range(t)
  <2>1. Range(u) = {u[i] : i \in 1..(a + b)}
    BY <1>4 DEF Range
  <2> QED BY <1>5, <1>6, <2>1
<1> QED BY <1>3, <1>8, <1>9, <1>10, <1>11

-----------------------------------------------------------------------------
(* The graph index: the traversal *)

\* One level of the traversal, and of the nodes a slice must show.
NextLevel(g, q, l) ==
    LET new == NextFrontier(g, q, l.frontier, Range(l.ordered))
    IN  [ordered |-> l.ordered \o Seconds(new), frontier |-> SecondsOf(new)]
Beside(g, q, C) ==
    {n.id : n \in {m \in g.nodes : Matches(m, q) /\ \E c \in C : m.id \in EdgeTransitions(g, c, q.direction)}}

\* A level lists the nodes R that are reached so far; what is next to those behind the frontier is reached.
LevelFits(g, q, l, R) ==
    /\ Distinct(l.ordered) /\ Range(l.ordered) = R
    /\ l.frontier \subseteq R /\ IsFiniteSet(l.frontier)
    /\ Nearby(g, q, R \ l.frontier) \subseteq R
    /\ SeedsPresent(g, q) => \A id \in R : id \in Ids(g.nodes) /\ Matches(Node(g, id), q)

\* The nodes beside some are the matching ones nearby.
LEMMA BesideIsNearby ==
    ASSUME NEW g, NodesFine(g), NEW q, NEW C
    PROVE  Beside(g, q, C) = Nearby(g, q, C)
<1>1. ASSUME NEW id \in Beside(g, q, C) PROVE id \in Nearby(g, q, C)
  <2>1. PICK n \in g.nodes : n.id = id /\ Matches(n, q) /\ \E c \in C : n.id \in EdgeTransitions(g, c, q.direction)
    BY DEF Beside
  <2>2. id \in Ids(g.nodes) /\ Node(g, id) = n
    BY <2>1, NodeIs
  <2> QED BY <2>1, <2>2 DEF Nearby
<1>2. ASSUME NEW id \in Nearby(g, q, C) PROVE id \in Beside(g, q, C)
  <2>1. id \in Ids(g.nodes) /\ Matches(Node(g, id), q) /\ \E c \in C : id \in EdgeTransitions(g, c, q.direction)
    BY DEF Nearby
  <2>2. PICK n \in g.nodes : n = Node(g, id) /\ n.id = id
    BY <2>1, NodeIs
  <2> QED BY <2>1, <2>2 DEF Beside
<1> QED BY <1>1, <1>2

\* Ranges of lists of naturals.
LEMMA DistinctRange ==
    ASSUME NEW s, Distinct(s)
    PROVE  Range(s) \subseteq Nat
  BY DEF Distinct, Range

\* From one level to the next.
LEMMA LevelStep ==
    ASSUME NEW g, NodesFine(g), NEW q, NEW l, NEW R, LevelFits(g, q, l, R)
    PROVE  LevelFits(g, q, NextLevel(g, q, l), R \cup Nearby(g, q, R))
<1>1. PICK s, F : s = l.ordered /\ F = l.frontier
  OBVIOUS
<1>2. Distinct(s) /\ Range(s) = R /\ F \subseteq R /\ IsFiniteSet(F) /\ Nearby(g, q, R \ F) \subseteq R
  BY <1>1 DEF LevelFits
<1>3. F \subseteq Nat
  BY <1>2, DistinctRange
<1>4. PICK new : new = NextFrontier(g, q, F, R)
  OBVIOUS
<1>5. PICK t : t = Seconds(new)
  OBVIOUS
<1>6. /\ Distinct(t) /\ Range(t) = Nearby(g, q, F) \ R
      /\ SecondsOf(new) = Range(t) /\ IsFiniteSet(Range(t))
  <2>1. IsFiniteSet(F)
    BY <1>2
  <2>2. FrontierIs(g, q, F, R, new, t)
    BY <1>3, <1>4, <1>5, <2>1, FrontierFits
  <2> QED BY <2>2 DEF FrontierIs
<1>7. PICK n : n = NextLevel(g, q, l)
  OBVIOUS
<1>8. n = [ordered |-> s \o t, frontier |-> Range(t)]
  BY <1>1, <1>2, <1>4, <1>5, <1>6, <1>7 DEF NextLevel
<1>9. Distinct(s \o t) /\ Range(s \o t) = R \cup Range(t)
  <2>1. Range(s) \cap Range(t) = {}
    BY <1>2, <1>6
  <2> QED BY <1>2, <1>6, <2>1, DistinctJoin
<1>10. PICK N : N = R \cup Nearby(g, q, R)
  OBVIOUS
<1>11. R \cup Range(t) = N
  <2>1. Nearby(g, q, R) \subseteq Nearby(g, q, R \ F) \cup Nearby(g, q, F)
    BY DEF Nearby
  <2>2. Nearby(g, q, F) \subseteq Nearby(g, q, R)
    BY <1>2 DEF Nearby
  <2> QED BY <1>2, <1>6, <1>10, <2>1, <2>2
<1>12. Nearby(g, q, N \ Range(t)) \subseteq N
  <2>1. N \ Range(t) = R
    BY <1>6, <1>11
  <2> QED BY <1>10, <2>1
<1>13. SeedsPresent(g, q) => \A id \in N : id \in Ids(g.nodes) /\ Matches(Node(g, id), q)
  BY <1>10 DEF LevelFits, Nearby
<1>14. Range(t) \subseteq N
  BY <1>11
<1>15. LevelFits(g, q, n, N)
  BY <1>6, <1>8, <1>9, <1>11, <1>12, <1>13, <1>14 DEF LevelFits
<1> QED BY <1>7, <1>10, <1>15

\* The first level.
LEMMA FirstLevel ==
    ASSUME NEW g, NodesFine(g), NEW q, IsFiniteSet(q.seeds), q.seeds \subseteq Nat,
           NEW l, l = [ordered |-> Sorted(q.seeds, IdOrder), frontier |-> q.seeds]
    PROVE  LevelFits(g, q, l, q.seeds)
<1>1. PICK S, s : S = q.seeds /\ s = Sorted(S, IdOrder) /\ IsFiniteSet(S) /\ S \subseteq Nat
  OBVIOUS
<1>2. WellOrdered(S, IdOrder)
  BY <1>1, IdsWellOrdered
<1>3. PICK n \in Nat : Enumerates(s, n, S)
  BY <1>1, <1>2, SortedFits
<1>4. s \in Seq(Nat) /\ DOMAIN s = 1..n
  BY <1>1, <1>3 DEF Enumerates
<1>5. Distinct(s) /\ Range(s) = S
  BY <1>3, <1>4 DEF Distinct, Enumerates, Range
<1>6. Nearby(g, q, S \ S) \subseteq S
  BY DEF Nearby
<1>7. SeedsPresent(g, q) => \A id \in S : id \in Ids(g.nodes) /\ Matches(Node(g, id), q)
  BY <1>1 DEF SeedsPresent
<1> QED BY <1>1, <1>5, <1>6, <1>7 DEF LevelFits

SeedLevel(q) == [ordered |-> Sorted(q.seeds, IdOrder), frontier |-> q.seeds]
LevelsOf(f, g, q) == f = [k \in 0..q.depth |-> IF k = 0 THEN SeedLevel(q) ELSE NextLevel(g, q, f[k - 1])]
ReachOf(h, g, q) == h = [k \in 0..q.depth |-> IF k = 0 THEN q.seeds ELSE h[k - 1] \cup Beside(g, q, h[k - 1])]
QueryFine(q) == IsFiniteSet(q.seeds) /\ q.seeds \subseteq Nat /\ q.depth \in Nat

\* The levels of a traversal exist.
LEMMA LevelsExist ==
    ASSUME NEW g, NodesFine(g), NEW q, QueryFine(q)
    PROVE  \E f : LevelsOf(f, g, q)
<1> DEFINE D == {l \in [ordered : Seq(Nat), frontier : SUBSET Nat] : \E R : LevelFits(g, q, l, R)}
<1>1. ASSUME NEW l, NEW R, LevelFits(g, q, l, R), l = [ordered |-> l.ordered, frontier |-> l.frontier] PROVE l \in D
  <2>1. l.ordered \in Seq(Nat) /\ l.frontier \subseteq Range(l.ordered) /\ Distinct(l.ordered)
    BY <1>1 DEF LevelFits, Distinct
  <2>2. l.frontier \in SUBSET Nat
    BY <2>1, DistinctRange
  <2> QED BY <1>1, <2>1, <2>2
<1>2. SeedLevel(q) \in D
  <2>1. LevelFits(g, q, SeedLevel(q), q.seeds)
    BY FirstLevel DEF SeedLevel, QueryFine
  <2>2. SeedLevel(q) = [ordered |-> SeedLevel(q).ordered, frontier |-> SeedLevel(q).frontier]
    BY DEF SeedLevel
  <2> HIDE DEF D
  <2> QED BY <1>1, <2>1, <2>2
<1>3. PICK step : step = [l \in D |-> NextLevel(g, q, l)]
  OBVIOUS
<1>4. step \in [D -> D]
  <2>1. ASSUME NEW l \in D PROVE NextLevel(g, q, l) \in D
    <3>1. PICK R : LevelFits(g, q, l, R)
      OBVIOUS
    <3>2. PICK n : n = NextLevel(g, q, l)
      OBVIOUS
    <3>3. LevelFits(g, q, n, R \cup Nearby(g, q, R))
      BY <3>1, <3>2, LevelStep
    <3>4. n = [ordered |-> n.ordered, frontier |-> n.frontier]
      BY <3>2 DEF NextLevel
    <3> HIDE DEF D
    <3> QED BY <1>1, <3>2, <3>3, <3>4
  <2> HIDE DEF D
  <2> QED BY <1>3, <2>1
<1>5. PICK m \in Nat : m = q.depth
  BY DEF QueryFine
<1>6. PICK f \in [0..m -> D] : f[0] = SeedLevel(q) /\ \A k \in 1..m : f[k] = step[f[k - 1]]
  <2> HIDE DEF D
  <2>1. \E f : Stepwise(f, m, SeedLevel(q), step, D)
    BY <1>2, <1>4, StepsExist
  <2> QED BY <2>1 DEF Stepwise
<1>7. ASSUME NEW k \in 0..m PROVE f[k] = IF k = 0 THEN SeedLevel(q) ELSE NextLevel(g, q, f[k - 1])
  <2>1. CASE k = 0
    BY <1>6, <2>1
  <2>2. CASE k # 0
    <3>1. k \in 1..m /\ k - 1 \in 0..m
      BY <2>2
    <3>2. f[k - 1] \in D /\ f[k] = step[f[k - 1]]
      BY <1>6, <3>1
    <3> HIDE DEF D
    <3> QED BY <1>3, <2>2, <3>2
  <2> QED BY <2>1, <2>2
<1>8. f = [k \in 0..m |-> IF k = 0 THEN SeedLevel(q) ELSE NextLevel(g, q, f[k - 1])]
  BY <1>6, <1>7
<1> QED BY <1>5, <1>8 DEF LevelsOf

\* So do the sets of nodes a slice must show.
LEMMA ReachExists ==
    ASSUME NEW g, NodesFine(g), NEW q, QueryFine(q)
    PROVE  \E h : ReachOf(h, g, q)
<1>1. PICK step : step = [R \in SUBSET Nat |-> R \cup Beside(g, q, R)]
  OBVIOUS
<1>2. step \in [SUBSET Nat -> SUBSET Nat]
  <2>1. ASSUME NEW R \in SUBSET Nat PROVE R \cup Beside(g, q, R) \in SUBSET Nat
    <3>1. Beside(g, q, R) \subseteq Ids(g.nodes)
      BY DEF Beside, Ids
    <3> QED BY <3>1 DEF NodesFine
  <2> QED BY <1>1, <2>1
<1>3. PICK m \in Nat : m = q.depth /\ q.seeds \in SUBSET Nat
  BY DEF QueryFine
<1>4. PICK h \in [0..m -> SUBSET Nat] : h[0] = q.seeds /\ \A k \in 1..m : h[k] = step[h[k - 1]]
  <2>1. \E h : Stepwise(h, m, q.seeds, step, SUBSET Nat)
    BY <1>2, <1>3, StepsExist
  <2> QED BY <2>1 DEF Stepwise
<1>5. ASSUME NEW k \in 0..m PROVE h[k] = IF k = 0 THEN q.seeds ELSE h[k - 1] \cup Beside(g, q, h[k - 1])
  <2>1. CASE k = 0
    BY <1>4, <2>1
  <2>2. CASE k # 0
    <3>1. k \in 1..m /\ k - 1 \in 0..m
      BY <2>2
    <3>2. h[k - 1] \in SUBSET Nat /\ h[k] = step[h[k - 1]]
      BY <1>4, <3>1
    <3> QED BY <1>1, <2>2, <3>2
  <2> QED BY <2>1, <2>2
<1>6. h = [k \in 0..m |-> IF k = 0 THEN q.seeds ELSE h[k - 1] \cup Beside(g, q, h[k - 1])]
  BY <1>4, <1>5
<1> QED BY <1>3, <1>6 DEF ReachOf

\* The definitions name them.
LEMMA TraverseIs ==
    ASSUME NEW g, NodesFine(g), NEW q, QueryFine(q)
    PROVE  /\ \E f : LevelsOf(f, g, q) /\ Traverse(g, q) = f[q.depth].ordered
           /\ \E h : ReachOf(h, g, q) /\ Within(g, q) = h[q.depth]
<1>1. PICK f : f = CHOOSE x : LevelsOf(x, g, q)
  OBVIOUS
<1>2. LevelsOf(f, g, q)
  BY <1>1, LevelsExist
<1>3. Traverse(g, q) = f[q.depth].ordered
  BY <1>1 DEF Traverse, LevelsOf, SeedLevel, NextLevel, Seconds, SecondsOf
<1>4. PICK h : h = CHOOSE x : ReachOf(x, g, q)
  OBVIOUS
<1>5. ReachOf(h, g, q)
  BY <1>4, ReachExists
<1>6. Within(g, q) = h[q.depth]
  BY <1>4 DEF Within, ReachOf, Beside
<1> QED BY <1>2, <1>3, <1>5, <1>6

\* The traversal lists the nodes a slice must show, each once, and only nodes that match.
LEMMA TraverseFits ==
    ASSUME NEW g, NodesFine(g), NEW q, QueryFine(q)
    PROVE  /\ Distinct(Traverse(g, q)) /\ Range(Traverse(g, q)) = Within(g, q)
           /\ SeedsPresent(g, q) => \A id \in Within(g, q) : id \in Ids(g.nodes) /\ Matches(Node(g, id), q)
<1>1. PICK f : LevelsOf(f, g, q) /\ Traverse(g, q) = f[q.depth].ordered
  BY TraverseIs
<1>2. PICK h : ReachOf(h, g, q) /\ Within(g, q) = h[q.depth]
  BY TraverseIs
<1>3. PICK m \in Nat : m = q.depth
  BY DEF QueryFine
<1>4. \A k \in 0..m : f[k] = IF k = 0 THEN SeedLevel(q) ELSE NextLevel(g, q, f[k - 1])
  BY <1>1, <1>3 DEF LevelsOf
<1>5. \A k \in 0..m : h[k] = IF k = 0 THEN q.seeds ELSE h[k - 1] \cup Beside(g, q, h[k - 1])
  BY <1>2, <1>3 DEF ReachOf
<1> DEFINE G == {k \in 0..m : LevelFits(g, q, f[k], h[k])}
<1>6. 0 \in G
  <2>1. LevelFits(g, q, SeedLevel(q), q.seeds)
    BY FirstLevel DEF SeedLevel, QueryFine
  <2>2. 0 \in 0..m
    OBVIOUS
  <2>3. f[0] = SeedLevel(q)
    BY <1>4, <2>2
  <2>4. h[0] = q.seeds
    BY <1>5, <2>2
  <2> QED BY <2>1, <2>2, <2>3, <2>4
<1>7. ASSUME NEW k \in 0..(m - 1), k \in G PROVE k + 1 \in G
  <2>1. PICK j : j = k + 1 /\ j \in 0..m /\ j # 0 /\ j - 1 = k
    OBVIOUS
  <2>2. PICK l, R : l = f[k] /\ R = h[k] /\ LevelFits(g, q, l, R)
    BY <1>7
  <2>3. f[j] = NextLevel(g, q, l)
    BY <1>4, <2>1, <2>2
  <2>4. h[j] = R \cup Nearby(g, q, R)
    <3>1. h[j] = R \cup Beside(g, q, R)
      BY <1>5, <2>1, <2>2
    <3>2. Beside(g, q, R) = Nearby(g, q, R)
      BY BesideIsNearby
    <3> QED BY <3>1, <3>2
  <2>5. LevelFits(g, q, NextLevel(g, q, l), R \cup Nearby(g, q, R))
    BY <2>2, LevelStep
  <2> QED BY <2>1, <2>3, <2>4, <2>5
<1>8. \A k \in 0..m : k \in G
  <2> HIDE DEF G
  <2> QED BY <1>6, <1>7, InductionUpTo
<1>9. LevelFits(g, q, f[m], h[m])
  BY <1>8
<1> QED BY <1>1, <1>2, <1>3, <1>9 DEF LevelFits

-----------------------------------------------------------------------------
(* The graph index: what a request shows *)

\* The nodes a search shows.
Hits(g, q) == {n.id : n \in {m \in g.nodes : m.id \in Matching /\ ModeMatches(m, q.mode)}}

\* What a reader is to see of a graph.
Shown(g, q) == IF q.kind = "SLICE" THEN Within(g, q) ELSE Hits(g, q)

\* A search lists the matching nodes, each once.
LEMMA HitsFit ==
    ASSUME NEW g, NodesFine(g), NEW q
    PROVE  Distinct(SearchHits(g, q)) /\ Range(SearchHits(g, q)) = Hits(g, q)
<1>1. PICK S : S = Hits(g, q)
  OBVIOUS
<1>2. PICK s : s = Sorted(S, IdOrder)
  OBVIOUS
<1>3. SearchHits(g, q) = s
  BY <1>1, <1>2 DEF SearchHits, Hits
<1>4. S \subseteq Ids(g.nodes)
  BY <1>1 DEF Hits, Ids
<1>5. S \subseteq Nat
  BY <1>4 DEF NodesFine
<1>6. IsFiniteSet(S)
  BY <1>4, IdsFinite, FS_Subset
<1>7. WellOrdered(S, IdOrder)
  BY <1>5, IdsWellOrdered
<1>8. PICK n \in Nat : Enumerates(s, n, S)
  BY <1>2, <1>6, <1>7, SortedFits
<1>9. s \in Seq(Nat) /\ DOMAIN s = 1..n
  <2>1. s \in [1..n -> Nat]
    BY <1>5, <1>8 DEF Enumerates
  <2> QED BY <2>1
<1>10. Distinct(s) /\ Range(s) = S
  BY <1>8, <1>9 DEF Distinct, Enumerates, Range
<1> QED BY <1>1, <1>3, <1>10

\* The result of a request lists what its reader is to see, each once.
LEMMA ResultFits ==
    ASSUME NEW g, NodesFine(g), NEW q \in Queries
    PROVE  /\ Distinct(ResultOf(g, q)) /\ Range(ResultOf(g, q)) = Shown(g, q)
           /\ (q.kind = "SLICE" /\ SeedsPresent(g, q)) => CrossRouteBoundaries(g, q) \cap Shown(g, q) = {}
<1>1. QueryFine(q)
  BY GraphInputs DEF QueryFine
<1>2. /\ Distinct(Traverse(g, q)) /\ Range(Traverse(g, q)) = Within(g, q)
      /\ SeedsPresent(g, q) => \A id \in Within(g, q) : id \in Ids(g.nodes) /\ Matches(Node(g, id), q)
  BY <1>1, TraverseFits
<1>3. Distinct(SearchHits(g, q)) /\ Range(SearchHits(g, q)) = Hits(g, q)
  BY HitsFit
<1>4. ASSUME q.kind = "SLICE", SeedsPresent(g, q) PROVE CrossRouteBoundaries(g, q) \cap Shown(g, q) = {}
  <2>1. \A id \in CrossRouteBoundaries(g, q) : RouteOnlyMismatch(Node(g, id), q.routes)
    BY DEF CrossRouteBoundaries
  <2>2. \A id \in Shown(g, q) : ~RouteOnlyMismatch(Node(g, id), q.routes)
    BY <1>2, <1>4 DEF Shown, Matches
  <2> QED BY <2>1, <2>2
<1> QED BY <1>2, <1>3, <1>4 DEF ResultOf, Shown

-----------------------------------------------------------------------------
(* The graph index: the invariant *)

\* The kernel's graph and revision after c events.
Kernel(act, c) == Replayed(act, EmptyGraph, 0, c)
RevisionOf(act, c) == IF c = 0 THEN 0 ELSE act[c].revision

Events == [delta : Deltas \cup {OtherEvent}, revision : Nat]

\* Revisions grow by one at most; every graph the kernel went through is one.
ActivityFits(act) ==
    /\ act \in Seq(Events) /\ Len(act) <= MaxActivity
    /\ \A k \in 1..Len(act) : act[k].revision <= k
GraphsFine(act) == \A c \in 0..Len(act) : NodesFine(Kernel(act, c)) /\ EdgesFine(Kernel(act, c))

\* A projection is the kernel's graph at its watermark.
MarkFits(act, m) ==
    /\ m.cursor \in 0..Len(act) /\ m.revision \in 0..MaxActivity
    /\ m.graph = Kernel(act, m.cursor)

\* The pages a reader was given are the beginning of the result at its fence.
ResultAt(act, s) == ResultOf(Kernel(act, s.cursor), s.ask)
Begun(act, s) ==
    /\ s.ask \in Queries /\ s.cursor \in 0..Len(act) /\ s.revision = RevisionOf(act, s.cursor)
    /\ s.token \in 0..Len(ResultAt(act, s)) /\ s.given = SubSeq(ResultAt(act, s), 1, s.token)
Finished(act, s) ==
    /\ s.token = Len(ResultAt(act, s))
    /\ s.ask.kind = "SLICE" => SeedsPresent(Kernel(act, s.cursor), s.ask)
ReaderFits(act, s) ==
    /\ s.at \in {"idle", "asking", "done"}
    /\ s.at # "idle" => Begun(act, s)
    /\ s.at = "done" => Finished(act, s)

\* The inductive invariant of the graph index.
GraphInv ==
    /\ ActivityFits(activity) /\ GraphsFine(activity)
    /\ MarkFits(activity, index)
    /\ snapshot # NoSnapshot => MarkFits(activity, snapshot)
    /\ query = [r \in GraphReaders |-> query[r]] /\ \A r \in GraphReaders : ReaderFits(activity, query[r])

\* The kernel's graph and revision are these.
LEMMA AuthorityIs ==
    ASSUME NEW c
    PROVE  Authority(c) = Kernel(activity, c) /\ RevisionAt(c) = RevisionOf(activity, c)
  BY GraphsAreReplays DEF Kernel, RevisionAt, RevisionOf

\* The history of a kernel stays what it was.
Longer(act, bct) == \A c \in 0..Len(act) : c \in 0..Len(bct) /\ Kernel(bct, c) = Kernel(act, c)
                                                              /\ RevisionOf(bct, c) = RevisionOf(act, c)

\* One more event: its graph follows from the last one.
LEMMA EventFits ==
    ASSUME NEW act, ActivityFits(act), GraphsFine(act), Len(act) < MaxActivity,
           NEW d \in Deltas \cup {OtherEvent}, NEW v \in Nat, v <= RevisionOf(act, Len(act)) + 1,
           NEW g, g = Kernel(act, Len(act)), NEW h, h = IF d = OtherEvent THEN g ELSE ApplyDelta(g, d),
           EdgesFine(h), NEW bct, bct = Append(act, [delta |-> d, revision |-> v])
    PROVE  ActivityFits(bct) /\ GraphsFine(bct) /\ Longer(act, bct)
<1>1. PICK n \in Nat : n = Len(act)
  BY DEF ActivityFits
<1>2. PICK m \in Nat : m = n + 1
  BY <1>1
<1>3. PICK e \in Events : e = [delta |-> d, revision |-> v]
  BY DEF Events
<1>4. /\ bct \in Seq(Events) /\ Len(bct) = m /\ bct[m] = e
      /\ \A k \in 1..n : bct[k] = act[k]
  BY <1>1, <1>2, <1>3 DEF ActivityFits
<1>5. ASSUME NEW c \in 0..n PROVE c \in 0..m /\ Kernel(bct, c) = Kernel(act, c) /\ RevisionOf(bct, c) = RevisionOf(act, c)
  <2>1. c \in Nat /\ \A k \in 1..c : bct[k] = act[k]
    <3>1. c \in Nat /\ \A k \in 1..c : k \in 1..n
      OBVIOUS
    <3> QED BY <1>4, <3>1
  <2>2. Kernel(bct, c) = Kernel(act, c)
    <3>1. Replayed(bct, EmptyGraph, 0, c) = Replayed(act, EmptyGraph, 0, c)
      BY ONLY <2>1, ReplayedSame
    <3> QED BY <3>1 DEF Kernel
  <2>3. RevisionOf(bct, c) = RevisionOf(act, c)
    <3>1. c # 0 => c \in 1..n
      OBVIOUS
    <3> QED BY <1>4, <3>1 DEF RevisionOf
  <2> QED BY <1>2, <2>2, <2>3
<1>6. Longer(act, bct)
  BY <1>1, <1>4, <1>5 DEF Longer
<1>7. RevisionOf(act, n) <= n /\ RevisionOf(act, n) \in Nat
  <2>1. CASE n = 0
    BY <2>1 DEF RevisionOf
  <2>2. CASE n # 0
    <3>1. n \in 1..n
      BY <2>2
    <3>2. act[n] \in Events /\ act[n].revision <= n
      BY <1>1, <3>1 DEF ActivityFits
    <3>3. act[n].revision \in Nat
      BY <3>2 DEF Events
    <3> QED BY <2>2, <3>2, <3>3 DEF RevisionOf
  <2> QED BY <2>1, <2>2
<1>8. ActivityFits(bct)
  <2>1. m <= MaxActivity
    BY <1>1, <1>2, GraphInputs
  <2>2. ASSUME NEW k \in 1..m PROVE bct[k].revision <= k
    <3>1. CASE k = m
      BY <1>1, <1>2, <1>3, <1>4, <1>7, <3>1
    <3>2. CASE k # m
      <4>1. k \in 1..n
        BY <1>2, <3>2
      <4> QED BY <1>1, <1>4, <4>1 DEF ActivityFits
    <3> QED BY <3>1, <3>2
  <2> QED BY <1>4, <2>1, <2>2 DEF ActivityFits
<1>9. Kernel(bct, m) = h
  <2>1. PICK z \in Nat : z = 0 /\ z <= n
    OBVIOUS
  <2>2. /\ Replayed(bct, EmptyGraph, z, z) = EmptyGraph
        /\ Replayed(bct, EmptyGraph, z, m) = ApplyActivity(Replayed(bct, EmptyGraph, z, n), bct[m])
    BY ONLY n \in Nat, m \in Nat, z \in Nat, <1>2, <2>1, ReplayedStep
  <2>3. Kernel(bct, m) = ApplyActivity(Kernel(bct, n), e)
    BY <1>4, <2>1, <2>2 DEF Kernel
  <2>4. Kernel(bct, n) = g
    BY <1>1, <1>5
  <2>5. e.delta = d
    BY <1>3
  <2> QED BY <2>3, <2>4, <2>5 DEF ApplyActivity
<1>10. NodesFine(h)
  <2>1. NodesFine(g)
    BY <1>1 DEF GraphsFine
  <2> QED BY <2>1, DeltaFine
<1>11. ASSUME NEW c \in 0..m PROVE NodesFine(Kernel(bct, c)) /\ EdgesFine(Kernel(bct, c))
  <2>1. CASE c = m
    BY <1>9, <1>10, <2>1
  <2>2. CASE c # m
    <3>1. c \in 0..n
      BY <1>2, <2>2
    <3> QED BY <1>1, <1>5, <3>1 DEF GraphsFine
  <2> QED BY <2>1, <2>2
<1>12. GraphsFine(bct)
  BY <1>4, <1>11 DEF GraphsFine
<1> QED BY <1>6, <1>8, <1>12

\* What fits a history fits a longer one.
LEMMA FitsLonger ==
    ASSUME NEW act, NEW bct, Longer(act, bct)
    PROVE  /\ \A m : MarkFits(act, m) => MarkFits(bct, m)
           /\ \A s : ReaderFits(act, s) => ReaderFits(bct, s)
<1>1. ASSUME NEW m, MarkFits(act, m) PROVE MarkFits(bct, m)
  BY <1>1 DEF Longer, MarkFits
<1>2. ASSUME NEW s, ReaderFits(act, s) PROVE ReaderFits(bct, s)
  <2>1. CASE s.at = "idle"
    BY <1>2, <2>1 DEF ReaderFits
  <2>2. CASE s.at # "idle"
    <3>1. s.cursor \in 0..Len(act) /\ Begun(act, s)
      BY <1>2, <2>2 DEF ReaderFits, Begun
    <3>2. /\ s.cursor \in 0..Len(bct) /\ Kernel(bct, s.cursor) = Kernel(act, s.cursor)
          /\ RevisionOf(bct, s.cursor) = RevisionOf(act, s.cursor)
      BY <3>1 DEF Longer
    <3>3. ResultAt(bct, s) = ResultAt(act, s)
      BY <3>2 DEF ResultAt
    <3>4. Begun(bct, s)
      BY <3>1, <3>2, <3>3 DEF Begun
    <3>5. Finished(act, s) => Finished(bct, s)
      BY <3>2, <3>3 DEF Finished
    <3> QED BY <1>2, <3>4, <3>5 DEF ReaderFits
  <2> QED BY <2>1, <2>2
<1> QED BY <1>1, <1>2

\* A sequence is its first part and what follows it.
LEMMA PartsJoin ==
    ASSUME NEW T, NEW s \in Seq(T), NEW a \in Nat, NEW b \in Nat, a <= b, b <= Len(s)
    PROVE  SubSeq(s, 1, a) \o SubSeq(s, a + 1, b) = SubSeq(s, 1, b)
<1>0. PICK n \in Nat : n = Len(s) /\ \A i \in 1..n : s[i] \in T
  OBVIOUS
<1>1. PICK x : x = SubSeq(s, 1, a)
  OBVIOUS
<1>2. PICK y : y = SubSeq(s, a + 1, b)
  OBVIOUS
<1>3. PICK z : z = SubSeq(s, 1, b)
  OBVIOUS
<1>4. PICK m \in Nat : m = b - a
  OBVIOUS
<1>5. x \in Seq(T) /\ Len(x) = a /\ \A i \in 1..a : x[i] = s[i]
  <2>1. \A i \in 1..a : s[i] \in T
    BY <1>0
  <2> QED BY <1>1, <2>1
<1>6. z \in Seq(T) /\ Len(z) = b /\ \A i \in 1..b : z[i] = s[i]
  <2>1. \A i \in 1..b : s[i] \in T
    BY <1>0
  <2> QED BY <1>3, <2>1
<1>7. y \in Seq(T) /\ Len(y) = m /\ \A i \in 1..m : y[i] = s[a + i]
  <2>1. \A i \in (a + 1)..b : s[i] \in T
    BY <1>0
  <2> QED BY <1>2, <1>4, <2>1
<1>8. PICK u : u = x \o y
  OBVIOUS
<1>9. /\ u \in Seq(T) /\ Len(u) = b
      /\ \A i \in 1..b : u[i] = IF i <= a THEN x[i] ELSE y[i - a]
  <2>1. a + m = b
    BY <1>4
  <2>2. /\ u \in Seq(T) /\ Len(u) = a + m
        /\ \A i \in 1..(a + m) : u[i] = IF i <= a THEN x[i] ELSE y[i - a]
    BY ONLY a \in Nat, m \in Nat, <1>5, <1>7, <1>8, ConcatProperties
  <2> QED BY <2>1, <2>2
<1>10. ASSUME NEW i \in 1..b PROVE u[i] = z[i]
  <2>1. CASE i <= a
    <3>1. i \in 1..a
      BY <2>1
    <3> QED BY <1>5, <1>6, <1>9, <2>1, <3>1
  <2>2. CASE ~(i <= a)
    <3>1. i - a \in 1..m /\ a + (i - a) = i
      BY <1>4, <2>2
    <3>2. y[i - a] = s[i]
      BY <1>7, <3>1
    <3> QED BY <1>6, <1>9, <2>2, <3>2
  <2> QED BY <2>1, <2>2
<1>11. u = z
  BY <1>6, <1>9, <1>10, SeqEqual
<1> QED BY <1>1, <1>2, <1>3, <1>8, <1>11

\* A page read at the fence goes on where the one before it ended.
LEMMA PageFits ==
    ASSUME NEW act, NEW s, Begun(act, s), NodesFine(Kernel(act, s.cursor)), NEW items, items = ResultAt(act, s),
           s.ask.kind = "SLICE" => SeedsPresent(Kernel(act, s.cursor), s.ask),
           NEW end, end = IF s.token + s.ask.limit < Len(items) THEN s.token + s.ask.limit ELSE Len(items),
           NEW t, t = [at |-> IF end < Len(items) THEN "asking" ELSE "done",
                       ask |-> s.ask, cursor |-> s.cursor, revision |-> s.revision,
                       token |-> end, last |-> IF end = 0 THEN 0 ELSE items[end],
                       given |-> s.given \o SubSeq(items, s.token + 1, end)]
    PROVE  ReaderFits(act, t)
<1>1. items \in Seq(Nat)
  <2>1. s.ask \in Queries
    BY DEF Begun
  <2>2. Distinct(items)
    BY <2>1, ResultFits DEF ResultAt
  <2> QED BY <2>2 DEF Distinct
<1>2. PICK n \in Nat : n = Len(items)
  BY <1>1
<1>3. PICK a \in Nat : a = s.token /\ a <= n /\ s.given = SubSeq(items, 1, a)
  <2>1. s.token \in 0..Len(items) /\ s.given = SubSeq(items, 1, s.token)
    BY DEF Begun
  <2>2. s.token \in Nat /\ s.token <= n
    BY <1>2, <2>1
  <2> QED BY <2>1, <2>2
<1>4. PICK l \in Nat : l = s.ask.limit
  BY GraphInputs DEF Begun
<1>5. end \in Nat /\ a <= end /\ end <= n
  BY <1>2, <1>3, <1>4
<1>6. t.given = SubSeq(items, 1, end)
  <2>1. t.given = SubSeq(items, 1, a) \o SubSeq(items, a + 1, end)
    BY <1>3
  <2>2. end <= Len(items)
    BY <1>2, <1>5
  <2>3. SubSeq(items, 1, a) \o SubSeq(items, a + 1, end) = SubSeq(items, 1, end)
    BY ONLY <1>1, <1>5, a \in Nat, <2>2, PartsJoin
  <2> QED BY <2>1, <2>3
<1>7. ResultAt(act, t) = items /\ t.ask = s.ask /\ t.cursor = s.cursor /\ t.revision = s.revision /\ t.token = end
  BY DEF ResultAt
<1>8. Begun(act, t)
  <2>1. end \in 0..Len(items)
    BY <1>2, <1>5
  <2> QED BY <1>6, <1>7, <2>1 DEF Begun
<1>9. t.at \in {"asking", "done"} /\ (t.at = "done" => end = Len(items))
  <2>1. end < n \/ end = n
    BY <1>5
  <2> QED BY <1>2, <2>1
<1>10. t.at = "done" => Finished(act, t)
  BY <1>7, <1>9 DEF Finished
<1> QED BY <1>8, <1>9, <1>10 DEF ReaderFits

-----------------------------------------------------------------------------
(* The graph index: its steps *)

\* At first nothing is read and the graph is empty.
LEMMA GraphInitFits ==
    ASSUME GraphInit
    PROVE  GraphInv
<1>1. activity = <<>> /\ Len(activity) = 0 /\ 0..Len(activity) = {0}
  BY DEF GraphInit
<1>2. Kernel(activity, 0) = EmptyGraph
  BY AuthorityIs, AuthorityStep
<1>3. ActivityFits(activity)
  BY <1>1, GraphInputs DEF ActivityFits
<1>4. NodesFine(EmptyGraph) /\ EdgesFine(EmptyGraph)
  <2>1. IsFiniteSet({})
    BY FS_EmptySet
  <2> QED BY <2>1 DEF EmptyGraph, NodesFine, EdgesFine, Ids
<1>5. GraphsFine(activity)
  BY <1>1, <1>2, <1>4 DEF GraphsFine
<1>6. MarkFits(activity, index)
  BY <1>1, <1>2, GraphInputs DEF GraphInit, MarkFits
<1>7. query = [r \in GraphReaders |-> query[r]] /\ \A r \in GraphReaders : ReaderFits(activity, query[r])
  BY DEF GraphInit, IdleReader0, ReaderFits
<1> QED BY <1>3, <1>5, <1>6, <1>7 DEF GraphInv, GraphInit

\* The kernel publishes an event.
LEMMA PublishFits ==
    ASSUME GraphInv, NEW d \in Deltas \cup {OtherEvent}, Publish(d)
    PROVE  GraphInv'
<1>1. PICK act, bct : act = activity /\ bct = activity'
  OBVIOUS
<1>2. ActivityFits(act) /\ GraphsFine(act)
  BY <1>1 DEF GraphInv
<1>3. PICK n \in Nat : n = Len(act)
  BY <1>2 DEF ActivityFits
<1>4. PICK g, h : g = Kernel(act, Len(act)) /\ h = IF d = OtherEvent THEN g ELSE ApplyDelta(g, d)
  OBVIOUS
<1>5. Authority(Len(activity)) = g /\ RevisionAt(Len(activity)) = RevisionOf(act, Len(act))
  BY <1>1, <1>4, AuthorityIs
<1>6. EdgesFine(h)
  BY <1>4, <1>5 DEF Publish, EdgesFine
<1>7. PICK w \in Nat : w = RevisionOf(act, Len(act))
  <2>1. CASE n = 0
    BY <1>3, <2>1 DEF RevisionOf
  <2>2. CASE n # 0
    <3>1. act[n] \in Events
      BY <1>2, <1>3, <2>2 DEF ActivityFits
    <3> QED BY <1>3, <2>2, <3>1 DEF RevisionOf, Events
  <2> QED BY <2>1, <2>2
<1>8. PICK v \in Nat : v = w + (IF d = OtherEvent THEN 0 ELSE 1) /\ v <= w + 1
  OBVIOUS
<1>9. bct = Append(act, [delta |-> d, revision |-> v]) /\ Len(act) < MaxActivity
  BY <1>1, <1>5, <1>7, <1>8 DEF Publish
<1>10. ActivityFits(bct) /\ GraphsFine(bct) /\ Longer(act, bct)
  BY <1>2, <1>4, <1>6, <1>7, <1>8, <1>9, EventFits
<1>11. /\ \A m : MarkFits(act, m) => MarkFits(bct, m)
       /\ \A s : ReaderFits(act, s) => ReaderFits(bct, s)
  BY <1>10, FitsLonger
<1>12. index' = index /\ snapshot' = snapshot /\ query' = query
  BY DEF Publish
<1> QED BY <1>1, <1>10, <1>11, <1>12 DEF GraphInv

\* The index replays the events behind its watermark.
LEMMA CatchUpFits ==
    ASSUME GraphInv, NEW c, NEW v \in 0..MaxActivity, CatchUp(c, v), c \in Nat
    PROVE  GraphInv'
<1>1. PICK n \in Nat : n = Len(activity)
  BY DEF GraphInv, ActivityFits
<1>2. PICK from \in Nat : from = index.cursor
  BY <1>1 DEF GraphInv, MarkFits
<1>3. index.graph = Authority(from)
  BY <1>2, AuthorityIs DEF GraphInv, MarkFits
<1>4. from <= c /\ c \in 0..n
  BY <1>1, <1>2 DEF CatchUp, RequireForward, RequireReachable
<1>5. GraphAfter(index.graph, from, c) = Kernel(activity, c)
  BY <1>3, <1>4, CaughtUp, AuthorityIs
<1>6. index' = [graph |-> Kernel(activity, c), cursor |-> c, revision |-> v]
  BY <1>2, <1>5 DEF CatchUp
<1>7. MarkFits(activity, index')
  BY <1>1, <1>4, <1>6 DEF MarkFits
<1>8. activity' = activity /\ snapshot' = snapshot /\ query' = query
  BY DEF CatchUp
<1> QED BY <1>7, <1>8 DEF GraphInv

\* The revision of an event is within the bound on events.
LEMMA RevisionBound ==
    ASSUME NEW act, ActivityFits(act), NEW c \in 0..Len(act)
    PROVE  RevisionOf(act, c) \in 0..MaxActivity
<1>1. PICK n \in Nat : n = Len(act) /\ n <= MaxActivity /\ MaxActivity \in Nat
  BY GraphInputs DEF ActivityFits
<1>2. CASE c = 0
  BY <1>1, <1>2 DEF RevisionOf
<1>3. CASE c # 0
  <2>1. c \in 1..n
    BY <1>1, <1>3
  <2>2. act[c] \in Events /\ act[c].revision <= c
    BY <1>1, <2>1 DEF ActivityFits
  <2>3. act[c].revision \in Nat
    BY <2>2 DEF Events
  <2> QED BY <1>1, <1>3, <2>1, <2>2, <2>3 DEF RevisionOf
<1> QED BY <1>2, <1>3

\* A snapshot is the kernel's graph at an event; the index may be rebuilt from it.
LEMMA SnapshotFits ==
    ASSUME GraphInv, (\E c \in 0..MaxActivity : CaptureSnapshot(c)) \/ Rebuild
    PROVE  GraphInv'
<1>1. CASE \E c \in 0..MaxActivity : CaptureSnapshot(c)
  <2>1. PICK c : CaptureSnapshot(c)
    BY <1>1
  <2>2. c \in 0..Len(activity) /\ ActivityFits(activity)
    BY <2>1 DEF CaptureSnapshot, GraphInv
  <2>3. snapshot' = [graph |-> Kernel(activity, c), cursor |-> c, revision |-> RevisionOf(activity, c)]
    BY <2>1, AuthorityIs DEF CaptureSnapshot
  <2>4. RevisionOf(activity, c) \in 0..MaxActivity
    BY <2>2, RevisionBound
  <2>5. MarkFits(activity, snapshot')
    BY <2>2, <2>3, <2>4 DEF MarkFits
  <2>6. activity' = activity /\ index' = index /\ query' = query
    BY <2>1 DEF CaptureSnapshot
  <2> QED BY <2>5, <2>6 DEF GraphInv
<1>2. CASE Rebuild
  BY <1>2 DEF Rebuild, GraphInv
<1> QED BY <1>1, <1>2

\* One reader moves.
LEMMA ReaderMoves ==
    ASSUME GraphInv, NEW r \in GraphReaders, NEW t, ReaderFits(activity, t), query' = [query EXCEPT ![r] = t],
           UNCHANGED <<activity, index, snapshot>>
    PROVE  GraphInv'
<1>1. query = [x \in GraphReaders |-> query[x]]
  BY DEF GraphInv
<1>2. query' = [x \in GraphReaders |-> query'[x]] /\ \A x \in GraphReaders : query'[x] = IF x = r THEN t ELSE query[x]
  BY <1>1
<1>3. \A x \in GraphReaders : ReaderFits(activity, query'[x])
  BY <1>2 DEF GraphInv
<1> QED BY <1>2, <1>3 DEF GraphInv

\* A reader that is idle fits.
LEMMA IdleFits ==
    ASSUME NEW act
    PROVE  ReaderFits(act, IdleReader0)
  BY DEF ReaderFits, IdleReader0

\* A reader asks.
LEMMA AskFits ==
    ASSUME GraphInv, NEW r \in GraphReaders, NEW q \in Queries, NEW c, Ask(r, q, c)
    PROVE  GraphInv'
<1>1. PICK t : t = [IdleReader0 EXCEPT !.at = "asking", !.ask = q, !.cursor = c, !.revision = RevisionOf(activity, c)]
  OBVIOUS
<1>2. query' = [query EXCEPT ![r] = t] /\ UNCHANGED <<activity, index, snapshot>> /\ c \in 0..Len(activity)
  BY <1>1, AuthorityIs DEF Ask
<1>3. /\ t.at = "asking" /\ t.ask = q /\ t.cursor = c /\ t.revision = RevisionOf(activity, c)
      /\ t.token = 0 /\ t.given = <<>>
  BY <1>1 DEF IdleReader0
<1>4. NodesFine(Kernel(activity, c))
  BY <1>2 DEF GraphInv, GraphsFine
<1>5. PICK items : items = ResultAt(activity, t)
  OBVIOUS
<1>6. items \in Seq(Nat)
  <2>1. Distinct(items)
    BY <1>3, <1>4, <1>5, ResultFits DEF ResultAt
  <2> QED BY <2>1 DEF Distinct
<1>7. 0 \in 0..Len(items) /\ SubSeq(items, 1, 0) = <<>>
  BY <1>6
<1>8. Begun(activity, t)
  BY <1>2, <1>3, <1>5, <1>7 DEF Begun
<1>9. ReaderFits(activity, t)
  BY <1>3, <1>8 DEF ReaderFits
<1> QED BY <1>2, <1>9, ReaderMoves

\* A reader reads a page at its fence.
LEMMA ReadPageFits ==
    ASSUME GraphInv, NEW r \in GraphReaders, ReadPage(r)
    PROVE  GraphInv'
<1>1. PICK s : s = query[r]
  OBVIOUS
<1>2. s.at = "asking" /\ Begun(activity, s)
  BY <1>1 DEF ReadPage, GraphInv, ReaderFits
<1>3. index.graph = Kernel(activity, s.cursor)
  BY <1>1 DEF ReadPage, Aligned, GraphInv, MarkFits
<1>4. NodesFine(Kernel(activity, s.cursor))
  BY <1>2 DEF Begun, GraphInv, GraphsFine
<1>5. PICK items : items = ResultAt(activity, s)
  OBVIOUS
<1>6. ResultOf(index.graph, query[r].ask) = items
  BY <1>1, <1>3, <1>5 DEF ResultAt
<1>7. s.ask.kind = "SLICE" => SeedsPresent(Kernel(activity, s.cursor), s.ask)
  BY <1>1, <1>3 DEF ReadPage
<1>8. PICK end : end = IF s.token + s.ask.limit < Len(items) THEN s.token + s.ask.limit ELSE Len(items)
  OBVIOUS
<1>9. PICK t : t = [at |-> IF end < Len(items) THEN "asking" ELSE "done",
                    ask |-> s.ask, cursor |-> s.cursor, revision |-> s.revision,
                    token |-> end, last |-> IF end = 0 THEN 0 ELSE items[end],
                    given |-> s.given \o SubSeq(items, s.token + 1, end)]
  OBVIOUS
<1>10. Pages(r, items) = t
  BY <1>1, <1>8, <1>9 DEF Pages
<1>11. ReaderFits(activity, t)
  BY <1>2, <1>4, <1>5, <1>7, <1>8, <1>9, PageFits
<1>12. query' = [query EXCEPT ![r] = t] /\ UNCHANGED <<activity, index, snapshot>>
  BY <1>6, <1>10 DEF ReadPage
<1> QED BY <1>11, <1>12, ReaderMoves

\* A request is refused or closed.
LEMMA ReaderLeaves ==
    ASSUME GraphInv, NEW r \in GraphReaders, RefusePage(r) \/ CloseQuery(r)
    PROVE  GraphInv'
<1>1. PICK t : t = IdleReader0
  OBVIOUS
<1>2. query' = [query EXCEPT ![r] = t] /\ UNCHANGED <<activity, index, snapshot>>
  BY <1>1 DEF RefusePage, CloseQuery
<1>3. ReaderFits(activity, t)
  BY <1>1, IdleFits
<1> QED BY <1>2, <1>3, ReaderMoves

\* A read brings the index to its fence.
LEMMA ReadCatchesUpFits ==
    ASSUME GraphInv, NEW r \in GraphReaders, ReadCatchesUp(r)
    PROVE  GraphInv'
<1>1. PICK c, v : c = query[r].cursor /\ v = query[r].revision /\ CatchUp(c, v)
  BY DEF ReadCatchesUp
<1>2. c \in 0..Len(activity) /\ v = RevisionOf(activity, c) /\ ActivityFits(activity)
  BY <1>1 DEF ReadCatchesUp, GraphInv, ReaderFits, Begun
<1>3. v \in 0..MaxActivity /\ c \in Nat
  <2>1. Len(activity) \in Nat
    BY <1>2 DEF ActivityFits
  <2> QED BY <1>2, <2>1, RevisionBound
<1> QED BY <1>1, <1>3, CatchUpFits

\* What the invariant says of the index and of a reader that came to its last page.
LEMMA GraphInvSuffices ==
    ASSUME GraphInv
    PROVE  PagesAreOneGraph
<1>1. GraphTypeOK /\ index.graph = Authority(index.cursor)
  <2>1. index.graph = Authority(index.cursor) /\ index.cursor \in 0..Len(activity) /\ index.revision \in 0..MaxActivity
    BY AuthorityIs DEF GraphInv, MarkFits
  <2>2. EdgesFine(index.graph)
    BY DEF GraphInv, GraphsFine, MarkFits
  <2> QED BY <2>1, <2>2 DEF GraphInv, ActivityFits, GraphTypeOK, EdgesFine, ReaderFits
<1>2. ASSUME NEW r \in GraphReaders, query[r].at = "done", NEW g, g = Authority(query[r].cursor),
             NEW q, q = query[r].ask
      PROVE  /\ \A i, j \in DOMAIN query[r].given : i # j => query[r].given[i] # query[r].given[j]
             /\ Range(query[r].given) = Shown(g, q)
             /\ q.kind = "SLICE" => CrossRouteBoundaries(g, q) \cap Range(query[r].given) = {}
  <2>1. PICK s : s = query[r]
    OBVIOUS
  <2>2. Begun(activity, s) /\ Finished(activity, s)
    BY <1>2, <2>1 DEF GraphInv, ReaderFits
  <2>3. g = Kernel(activity, s.cursor) /\ q \in Queries
    BY <1>2, <2>1, <2>2, AuthorityIs DEF Begun
  <2>4. NodesFine(g)
    BY <2>2, <2>3 DEF Begun, GraphInv, GraphsFine
  <2>5. PICK items : items = ResultOf(g, q)
    OBVIOUS
  <2>6. /\ Distinct(items) /\ Range(items) = Shown(g, q)
        /\ (q.kind = "SLICE" /\ SeedsPresent(g, q)) => CrossRouteBoundaries(g, q) \cap Shown(g, q) = {}
    BY <2>3, <2>4, <2>5, ResultFits
  <2>7. items = ResultAt(activity, s)
    BY <1>2, <2>1, <2>3, <2>5 DEF ResultAt
  <2>8. s.given = items
    <3>1. s.given = SubSeq(items, 1, Len(items)) /\ items \in Seq(Nat)
      BY <2>2, <2>6, <2>7 DEF Begun, Finished, Distinct
    <3>2. SubSeq(items, 1, Len(items)) = items
      BY <3>1
    <3> QED BY <3>1, <3>2
  <2>9. q.kind = "SLICE" => SeedsPresent(g, q)
    BY <1>2, <2>1, <2>2, <2>3 DEF Finished
  <2> QED BY <2>1, <2>6, <2>8, <2>9 DEF Distinct
<1> QED BY <1>1, <1>2 DEF PagesAreOneGraph, Shown, Hits

\* The index is the kernel's graph at its watermark however it came there, and a reader whose pages
\* were read at different times was given the nodes of the one graph at its fence, each once
\* (GraphIndex.catch_up and rebuild, GraphQueryService._aligned_read).
THEOREM PagesAreAlwaysOneGraph == GraphSpec => []PagesAreOneGraph
<1>1. GraphInit => GraphInv
  BY GraphInitFits
<1>2. GraphInv /\ [GraphNext]_graphVars => GraphInv'
  <2> SUFFICES ASSUME GraphInv, [GraphNext]_graphVars PROVE GraphInv'
    OBVIOUS
  <2>1. CASE \E d \in Deltas \cup {OtherEvent} : Publish(d)
    BY <2>1, PublishFits
  <2>2. CASE \E c \in 0..MaxActivity, v \in 0..MaxActivity : CatchUp(c, v)
    <3>1. PICK c \in 0..MaxActivity, v \in 0..MaxActivity : CatchUp(c, v)
      BY <2>2
    <3>2. c \in Nat
      BY GraphInputs
    <3> QED BY <3>1, <3>2, CatchUpFits
  <2>3. CASE (\E c \in 0..MaxActivity : CaptureSnapshot(c)) \/ Rebuild
    BY <2>3, SnapshotFits
  <2>4. CASE \E r \in GraphReaders : ReadPage(r)
    BY <2>4, ReadPageFits
  <2>5. CASE \E r \in GraphReaders : RefusePage(r) \/ CloseQuery(r)
    BY <2>5, ReaderLeaves
  <2>6. CASE \E r \in GraphReaders : ReadCatchesUp(r)
    BY <2>6, ReadCatchesUpFits
  <2>7. CASE \E r \in GraphReaders, q \in Queries, c \in 0..MaxActivity : Ask(r, q, c)
    BY <2>7, AskFits
  <2>8. CASE UNCHANGED graphVars
    BY <2>8 DEF graphVars, GraphInv
  <2> QED BY <2>1, <2>2, <2>3, <2>4, <2>5, <2>6, <2>7, <2>8 DEF GraphNext
<1>3. GraphInv => PagesAreOneGraph
  BY GraphInvSuffices
<1> QED BY <1>1, <1>2, <1>3, PTL DEF GraphSpec
=============================================================================
