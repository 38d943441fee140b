------------------------ MODULE RunExecutionProofs ------------------------
(* Proofs about RunExecution, for every set of claims, routes, attempts and  *)
(* hosts and every bound.                                                    *)
EXTENDS RunExecution, FiniteSetTheorems, TLAPS

\* Rows refer to rows: a route that exists has a target, an attempt that exists a route,
\* and a host that has read a scope an attempt.
RowsRefer ==
    /\ \A r \in Routes : route[r].status # "ABSENT" => route[r].target \in Claims
    /\ \A a \in Attempts : attempt[a].status # "ABSENT" =>
          attempt[a].route \in Routes /\ route[attempt[a].route].status # "ABSENT"
    /\ \A h \in Hosts : host[h].pc \in {"scoped", "claimed", "calling"} =>
          host[h].attempt \in Attempts /\ host[h].version \in Versions
                                       /\ attempt[host[h].attempt].status # "ABSENT"

Busy(h, a) == host[h].pc \in {"claimed", "calling"} /\ host[h].attempt = a

\* The execution right: a host that has it took it from the attempt, no other host has
\* it, and it pays for one call.
RightIsBurnt ==
    /\ \A a \in Attempts, h, g \in Hosts : Busy(h, a) /\ Busy(g, a) => h = g
    /\ \A a \in Attempts, h \in Hosts : Busy(h, a) =>
          /\ hostClaim[a].state # "NONE"
          /\ host[h].pc = "claimed" => calls[a] = 0
          /\ host[h].pc = "calling" => calls[a] = 1
    /\ \A a \in Attempts : calls[a] \in {0, 1} /\ (calls[a] = 1 => hostClaim[a].state # "NONE")

\* What a host claim stands for: an attempt that exists, a call when it completed, and
\* authority only when it completed.
ClaimsStandFor ==
    \A a \in Attempts :
        /\ hostClaim[a].state # "NONE" => attempt[a].status # "ABSENT"
        /\ hostClaim[a].state = "COMPLETED" => calls[a] = 1
        /\ receipt[a].eligible => hostClaim[a].state = "COMPLETED"

Earned(c, a) ==
    /\ attempt[a].route # None /\ route[attempt[a].route].target = c
    /\ attempt[a].status # "ABSENT"
    /\ calls[a] = 1 /\ hostClaim[a].state = "COMPLETED"
    /\ receipt[a].count = 1 /\ receipt[a].eligible /\ receipt[a].consumed = 1

VerdictsEarned == \A c \in Claims : claim[c].verified => \E a \in Attempts : Earned(c, a)

IInv ==
    /\ TypeOK /\ ActiveIsCurrent /\ RowsRefer
    /\ RunningIffLeased /\ DisjointWriteSets
    /\ RightIsBurnt /\ ClaimsSettleOneWay /\ ClaimsStandFor /\ VerdictsEarned

-----------------------------------------------------------------------------
(* Commands on the run and its contract                                     *)

executionVars == <<attempt, lease, hostClaim, receipt, calls, host>>

\* What a command on the run may do to the rows the execution refers to: a route keeps
\* its target and does not disappear, no verdict is raised, a fuse is not cleared.
KeepsReferences ==
    /\ \A r \in Routes : route[r].status # "ABSENT" =>
          route'[r].status # "ABSENT" /\ route'[r].target = route[r].target
    /\ \A r \in Routes : route'[r].status # "ABSENT" => route'[r].target \in Claims
    /\ \A c \in Claims : claim'[c].verified => claim[c].verified
    /\ fuse => fuse'

\* A command that keeps references and touches no execution row keeps the invariant.
LEMMA CommandKeeps ==
    ASSUME IInv, UNCHANGED executionVars, KeepsReferences, TypeOK', ActiveIsCurrent'
    PROVE  IInv'
<1>1. RowsRefer'
  BY DEF IInv, RowsRefer, KeepsReferences, executionVars
<1>2. RunningIffLeased' /\ DisjointWriteSets' /\ RightIsBurnt' /\ ClaimsStandFor'
  BY DEF IInv, RunningIffLeased, DisjointWriteSets, RightIsBurnt, Busy, ClaimsStandFor,
         executionVars
<1>3. ClaimsSettleOneWay'
  BY DEF IInv, ClaimsSettleOneWay, KeepsReferences, executionVars
<1>4. ASSUME NEW c \in Claims, claim'[c].verified
      PROVE  \E a \in Attempts : Earned(c, a)'
  <2>1. PICK a \in Attempts : Earned(c, a)
    BY <1>4 DEF IInv, VerdictsEarned, KeepsReferences
  <2>2. attempt[a].route \in Routes /\ route[attempt[a].route].status # "ABSENT"
    BY <2>1 DEF Earned, IInv, RowsRefer
  <2>3. Earned(c, a)'
    BY <2>1, <2>2 DEF Earned, KeepsReferences, executionVars
  <2> QED BY <2>3
<1> QED BY <1>1, <1>2, <1>3, <1>4 DEF IInv, VerdictsEarned

\* Commands that touch one of run, contract and fuse.
LEMMA RunCommands ==
    ASSUME IInv, \/ FreezeContract \/ StartRun \/ Resume \/ Finalize \/ UsageOverrun
                 \/ \E S \in SUBSET Claims : ProposeContractDefect(S)
    PROVE  IInv'
<1>1. /\ UNCHANGED executionVars /\ UNCHANGED <<root, claim, route, crashes, interrupted>>
      /\ run' \in {"OPEN", "RUNNING", "PAUSED", "CLOSED"}
      /\ fuse' \in BOOLEAN /\ (fuse => fuse')
  BY DEF FreezeContract, StartRun, Resume, Finalize, UsageOverrun, ProposeContractDefect,
         executionVars, IInv, TypeOK
<1>2. /\ contract' \in [version : Versions, status : {"DRAFT", "FROZEN", "DEFECT_PROPOSED"},
                        defect : SUBSET Claims]
      /\ contract'.version = contract.version
  BY DEF FreezeContract, StartRun, Resume, Finalize, UsageOverrun, ProposeContractDefect,
         IInv, TypeOK
<1>3. TypeOK'
  BY <1>1, <1>2 DEF IInv, TypeOK, executionVars
<1>4. ActiveIsCurrent'
  BY <1>1, <1>2 DEF IInv, ActiveIsCurrent
<1>5. KeepsReferences
  BY <1>1 DEF IInv, RowsRefer, KeepsReferences
<1> QED BY <1>1, <1>3, <1>4, <1>5, CommandKeeps

ClaimRow == [life : {"ABSENT", "ACTIVE", "SUPERSEDED", "INVALIDATED"},
             version : Versions \cup {0}, text : Versions \cup {0}, verified : BOOLEAN]
RouteRow == [status : {"ABSENT", "ACTIVE", "BLOCKED", "RETIRED"},
             version : Versions \cup {0}, target : Claims \cup {None}]

\* A claim is registered under the current contract, without a verdict.
LEMMA RegisterClaimStep ==
    ASSUME IInv, NEW c \in Claims, RegisterClaim(c)
    PROVE  IInv'
<1> DEFINE q == [life |-> "ACTIVE", version |-> contract.version,
                 text |-> contract.version, verified |-> FALSE]
<1>1. /\ UNCHANGED executionVars /\ UNCHANGED <<run, contract, interrupted, fuse, route, crashes>>
      /\ claim' = [claim EXCEPT ![c] = q] /\ root' = IF c \in Roots THEN c ELSE root
  BY DEF RegisterClaim, executionVars
<1>2. contract.version \in Versions /\ claim \in [Claims -> ClaimRow]
  BY DEF IInv, TypeOK, ClaimRow
<1>3. q \in ClaimRow /\ q.version = contract.version /\ ~q.verified
  BY <1>2 DEF ClaimRow
<1> HIDE DEF q
<1>4. claim'[c] = q /\ \A d \in Claims \ {c} : claim'[d] = claim[d]
  BY <1>1, <1>2
<1>5. claim' \in [Claims -> ClaimRow]
  BY <1>1, <1>2, <1>3
<1>6. TypeOK'
  BY <1>1, <1>5 DEF IInv, TypeOK, executionVars, ClaimRow
<1>7. ActiveIsCurrent'
  BY <1>1, <1>3, <1>4, ConstantsAssumption DEF IInv, TypeOK, ActiveIsCurrent
<1>8. KeepsReferences
  BY <1>1, <1>3, <1>4 DEF IInv, RowsRefer, KeepsReferences
<1> QED BY <1>1, <1>6, <1>7, <1>8, CommandKeeps

\* REVOKE_FACT_CLOSURE only takes claims out of use.
LEMMA RevokeFactStep ==
    ASSUME IInv, NEW c \in Claims, NEW D \in SUBSET Claims, RevokeFact(c, D)
    PROVE  IInv'
<1>1. /\ UNCHANGED executionVars
      /\ UNCHANGED <<run, contract, root, interrupted, fuse, route, crashes>>
      /\ claim' = [d \in Claims |-> IF d \in D THEN [claim[d] EXCEPT !.life = "INVALIDATED"]
                                              ELSE claim[d]]
  BY DEF RevokeFact, executionVars
<1>2. claim \in [Claims -> ClaimRow]
  BY DEF IInv, TypeOK, ClaimRow
<1>3. ASSUME NEW d \in Claims
      PROVE  /\ claim'[d] \in ClaimRow
             /\ claim'[d].version = claim[d].version /\ claim'[d].verified = claim[d].verified
             /\ claim'[d].life = "ACTIVE" => claim[d].life = "ACTIVE"
  BY <1>1, <1>2 DEF ClaimRow
<1>4. claim' \in [Claims -> ClaimRow]
  BY <1>1, <1>3
<1>5. TypeOK'
  BY <1>1, <1>4 DEF IInv, TypeOK, executionVars, ClaimRow
<1>6. ActiveIsCurrent'
  BY <1>1, <1>3, ConstantsAssumption DEF IInv, TypeOK, ActiveIsCurrent
<1>7. KeepsReferences
  BY <1>1, <1>3 DEF IInv, RowsRefer, KeepsReferences
<1> QED BY <1>1, <1>5, <1>6, <1>7, CommandKeeps

\* A tripped fuse blocks a route that keeps its target.
LEMMA TripFuseStep ==
    ASSUME IInv, NEW r \in Routes, TripFuse(r)
    PROVE  IInv'
<1>1. /\ UNCHANGED executionVars
      /\ UNCHANGED <<contract, root, interrupted, claim, crashes>>
      /\ fuse' = TRUE /\ run' = "PAUSED" /\ route[r].status # "ABSENT"
      /\ route' = [route EXCEPT ![r].status = "BLOCKED"]
  BY DEF TripFuse, executionVars
<1>2. route \in [Routes -> RouteRow]
  BY DEF IInv, TypeOK, RouteRow
<1> DEFINE q == [route[r] EXCEPT !.status = "BLOCKED"]
<1>3. /\ q \in RouteRow /\ q.status = "BLOCKED" /\ q.target = route[r].target
      /\ route' = [route EXCEPT ![r] = q]
  BY <1>1, <1>2 DEF RouteRow
<1> HIDE DEF q
<1>4. route'[r] = q /\ \A t \in Routes \ {r} : route'[t] = route[t]
  BY <1>2, <1>3
<1>5. route' \in [Routes -> RouteRow]
  BY <1>2, <1>3
<1>6. TypeOK'
  BY <1>1, <1>5 DEF IInv, TypeOK, executionVars, RouteRow
<1>7. ActiveIsCurrent'
  BY <1>1, <1>3, <1>4 DEF IInv, ActiveIsCurrent
<1>8. KeepsReferences
  BY <1>1, <1>3, <1>4 DEF IInv, RowsRefer, KeepsReferences
<1> QED BY <1>1, <1>6, <1>7, <1>8, CommandKeeps

\* A new route targets a claim of the current contract.
LEMMA RegisterRouteStep ==
    ASSUME IInv, NEW r \in Routes, NEW c \in Claims, RegisterRoute(r, c)
    PROVE  IInv'
<1> DEFINE q == [status |-> "ACTIVE", version |-> contract.version, target |-> c]
<1>1. /\ UNCHANGED executionVars
      /\ UNCHANGED <<run, contract, root, interrupted, fuse, claim, crashes>>
      /\ route[r].status = "ABSENT" /\ route' = [route EXCEPT ![r] = q]
  BY DEF RegisterRoute, executionVars
<1>2. route \in [Routes -> RouteRow] /\ contract.version \in Versions
  BY DEF IInv, TypeOK, RouteRow
<1>3. q \in RouteRow /\ q.version = contract.version /\ q.target = c
  BY <1>2 DEF RouteRow
<1> HIDE DEF q
<1>4. route'[r] = q /\ \A t \in Routes \ {r} : route'[t] = route[t]
  BY <1>1, <1>2
<1>5. route' \in [Routes -> RouteRow]
  BY <1>1, <1>2, <1>3
<1>6. TypeOK'
  BY <1>1, <1>5 DEF IInv, TypeOK, executionVars, RouteRow
<1>7. ActiveIsCurrent'
  BY <1>1, <1>3, <1>4 DEF IInv, ActiveIsCurrent
<1>8. KeepsReferences
  BY <1>1, <1>3, <1>4 DEF IInv, RowsRefer, KeepsReferences
<1> QED BY <1>1, <1>6, <1>7, <1>8, CommandKeeps

AttemptRow == [status : {"ABSENT"} \cup Live \cup Ended, route : Routes \cup {None},
               bound : BOOLEAN]
LeaseRow == [status : {"NONE", "ACTIVE", "RELEASED", "EXPIRED", "REVOKED"},
             ttl : 0 .. LeaseTicks]

\* Pausing attempts and expiring leases: both stay typed and in step, nothing comes to
\* life and nothing ends.
LEMMA PauseEffect ==
    ASSUME IInv, ExpireActiveLeases, PauseActiveAttempts
    PROVE  /\ attempt' \in [Attempts -> AttemptRow] /\ lease' \in [Attempts -> LeaseRow]
           /\ \A a \in Attempts :
                /\ attempt'[a].route = attempt[a].route
                /\ attempt'[a].status = attempt[a].status
                     \/ (attempt[a].status = "RUNNING" /\ attempt'[a].status = "PAUSED")
                /\ attempt'[a].status # "RUNNING" /\ lease'[a].status # "ACTIVE"
<1>1. attempt \in [Attempts -> AttemptRow] /\ lease \in [Attempts -> LeaseRow]
  BY DEF IInv, TypeOK, AttemptRow, LeaseRow
<1>2. ASSUME NEW a \in Attempts
      PROVE  /\ attempt'[a] \in AttemptRow
             /\ attempt'[a].route = attempt[a].route
             /\ attempt'[a].status = attempt[a].status
                  \/ (attempt[a].status = "RUNNING" /\ attempt'[a].status = "PAUSED")
             /\ attempt'[a].status # "RUNNING"
  <2>1. attempt'[a] = IF attempt[a].status = "RUNNING"
                        THEN [attempt[a] EXCEPT !.status = "PAUSED"] ELSE attempt[a]
    BY DEF PauseActiveAttempts
  <2>2. attempt[a] \in AttemptRow
    BY <1>1
  <2> QED BY <2>1, <2>2 DEF AttemptRow, Live
<1>3. ASSUME NEW a \in Attempts
      PROVE  lease'[a] \in LeaseRow /\ lease'[a].status # "ACTIVE"
  BY <1>1 DEF ExpireActiveLeases, LeaseRow
<1>4. attempt' \in [Attempts -> AttemptRow]
  BY <1>2 DEF PauseActiveAttempts
<1>5. lease' \in [Attempts -> LeaseRow]
  BY <1>3 DEF ExpireActiveLeases
<1> QED BY <1>2, <1>3, <1>4, <1>5

\* A command that also pauses every attempt: Interrupt and AmendContract.
LEMMA PausingKeeps ==
    ASSUME IInv, ExpireActiveLeases, PauseActiveAttempts, KeepsReferences,
           UNCHANGED <<hostClaim, receipt, calls, host, crashes>>,
           run' \in {"OPEN", "RUNNING", "PAUSED", "CLOSED"},
           contract' \in [version : Versions, status : {"DRAFT", "FROZEN", "DEFECT_PROPOSED"},
                          defect : SUBSET Claims],
           root' \in Roots \cup {None}, interrupted' \in BOOLEAN, fuse' \in BOOLEAN,
           claim' \in [Claims -> ClaimRow], route' \in [Routes -> RouteRow],
           ActiveIsCurrent'
    PROVE  IInv'
<1>1. /\ attempt' \in [Attempts -> AttemptRow] /\ lease' \in [Attempts -> LeaseRow]
      /\ \A a \in Attempts :
           /\ attempt'[a].route = attempt[a].route
           /\ attempt'[a].status = attempt[a].status
                \/ (attempt[a].status = "RUNNING" /\ attempt'[a].status = "PAUSED")
           /\ attempt'[a].status # "RUNNING" /\ lease'[a].status # "ACTIVE"
  BY PauseEffect
<1>2. TypeOK'
  BY <1>1 DEF IInv, TypeOK, AttemptRow, LeaseRow, ClaimRow, RouteRow
<1>3. RowsRefer'
  BY <1>1 DEF IInv, RowsRefer, KeepsReferences
<1>4. RunningIffLeased'
  BY <1>1 DEF RunningIffLeased
<1>5. DisjointWriteSets'
  BY <1>1 DEF IInv, DisjointWriteSets, Live
<1>6. RightIsBurnt'
  BY DEF IInv, RightIsBurnt, Busy
<1>7. ClaimsStandFor' /\ ClaimsSettleOneWay'
  BY <1>1 DEF IInv, ClaimsStandFor, ClaimsSettleOneWay, KeepsReferences, Ended
<1>8. ASSUME NEW c \in Claims, claim'[c].verified
      PROVE  \E a \in Attempts : Earned(c, a)'
  <2>1. PICK a \in Attempts : Earned(c, a)
    BY <1>8 DEF IInv, VerdictsEarned, KeepsReferences
  <2>2. attempt[a].route \in Routes /\ route[attempt[a].route].status # "ABSENT"
    BY <2>1 DEF Earned, IInv, RowsRefer
  <2>3. Earned(c, a)'
    BY <1>1, <2>1, <2>2 DEF Earned, KeepsReferences
  <2> QED BY <2>3
<1> QED BY <1>2, <1>3, <1>4, <1>5, <1>6, <1>7, <1>8 DEF IInv, VerdictsEarned

\* Interrupt pauses the attempts and expires their leases together.
LEMMA InterruptStep ==
    ASSUME IInv, Interrupt
    PROVE  IInv'
<1>1. /\ ExpireActiveLeases /\ PauseActiveAttempts /\ run' = "PAUSED" /\ interrupted' = TRUE
      /\ UNCHANGED <<contract, root, fuse, claim, route, hostClaim, receipt, calls, host, crashes>>
  BY DEF Interrupt
<1>2. KeepsReferences /\ ActiveIsCurrent'
  BY <1>1 DEF IInv, RowsRefer, KeepsReferences, ActiveIsCurrent
<1>3. /\ contract \in [version : Versions, status : {"DRAFT", "FROZEN", "DEFECT_PROPOSED"},
                       defect : SUBSET Claims]
      /\ root \in Roots \cup {None} /\ fuse \in BOOLEAN
      /\ claim \in [Claims -> ClaimRow] /\ route \in [Routes -> RouteRow]
  BY DEF IInv, TypeOK, ClaimRow, RouteRow
<1> QED BY <1>1, <1>2, <1>3, PausingKeeps

\* The amendment carries claims over and retires routes.
LEMMA AmendContractStep ==
    ASSUME IInv, NEW D \in SUBSET Claims, AmendContract(D)
    PROVE  IInv'
<1>1. /\ ExpireActiveLeases /\ PauseActiveAttempts /\ run' = "OPEN" /\ root' = None
      /\ contract.version < MaxVersion
      /\ contract' = [version |-> contract.version + 1, status |-> "FROZEN", defect |-> {}]
      /\ UNCHANGED <<interrupted, fuse, hostClaim, receipt, calls, host, crashes>>
  BY DEF AmendContract
<1>2. /\ claim \in [Claims -> ClaimRow] /\ route \in [Routes -> RouteRow]
      /\ contract.version \in Versions /\ interrupted \in BOOLEAN /\ fuse \in BOOLEAN
  BY DEF IInv, TypeOK, ClaimRow, RouteRow
<1>3. contract.version + 1 \in Versions
  BY <1>1, <1>2, ConstantsAssumption DEF Versions
<1>4. /\ contract' \in [version : Versions, status : {"DRAFT", "FROZEN", "DEFECT_PROPOSED"},
                        defect : SUBSET Claims]
      /\ contract'.version = contract.version + 1
  BY <1>1, <1>3
<1>5. ASSUME NEW c \in Claims
      PROVE  /\ claim'[c] \in ClaimRow
             /\ claim'[c].verified = claim[c].verified
             /\ claim'[c].life = "ACTIVE" => claim'[c].version = contract.version + 1
  <2>1. claim'[c] = IF c \in D THEN [claim[c] EXCEPT !.life = "SUPERSEDED"]
                    ELSE IF CurrentClaim(c) THEN [claim[c] EXCEPT !.version = @ + 1]
                    ELSE claim[c]
    BY DEF AmendContract, MigrateContractClosure
  <2>2. claim[c] \in ClaimRow
    BY <1>2
  <2>3. CASE c \in D
    BY <2>1, <2>2, <2>3 DEF ClaimRow
  <2>4. CASE c \notin D /\ CurrentClaim(c)
    <3>1. claim[c].version = contract.version
      BY <2>4 DEF CurrentClaim
    <3> QED BY <1>3, <2>1, <2>2, <2>4, <3>1 DEF ClaimRow
  <2>5. CASE c \notin D /\ ~CurrentClaim(c)
    BY <2>1, <2>2, <2>5 DEF CurrentClaim, IInv, ActiveIsCurrent
  <2> QED BY <2>3, <2>4, <2>5
<1>6. claim' \in [Claims -> ClaimRow]
  BY <1>5 DEF AmendContract, MigrateContractClosure
<1>7. ASSUME NEW r \in Routes
      PROVE  /\ route'[r] \in RouteRow /\ route'[r].target = route[r].target
             /\ route'[r].status # "ABSENT" <=> route[r].status # "ABSENT"
             /\ route'[r].status # "ACTIVE"
  <2>1. route'[r] = IF route[r].status # "ABSENT" /\ route[r].version = contract.version
                      THEN [route[r] EXCEPT !.status = "RETIRED"] ELSE route[r]
    BY DEF AmendContract, RetireRoutes
  <2>2. route[r] \in RouteRow
    BY <1>2
  <2>3. route[r].status = "ACTIVE" => route[r].version = contract.version
    BY DEF IInv, ActiveIsCurrent
  <2> QED BY <2>1, <2>2, <2>3 DEF RouteRow
<1>8. route' \in [Routes -> RouteRow]
  BY <1>7 DEF AmendContract, RetireRoutes
<1>9. ActiveIsCurrent'
  BY <1>1, <1>4, <1>5, <1>7 DEF ActiveIsCurrent
<1>10. KeepsReferences
  BY <1>1, <1>5, <1>7 DEF IInv, RowsRefer, KeepsReferences
<1> QED BY <1>1, <1>2, <1>4, <1>6, <1>8, <1>9, <1>10, PausingKeeps

-----------------------------------------------------------------------------
(* Commands on attempts and leases                                          *)

hostVars == <<hostClaim, receipt, calls, host>>

\* A step of one attempt that leaves the host executions alone: it comes to life only by
\* registration, and a settled attempt does not move.
LEMMA AttemptMoves ==
    ASSUME IInv, NEW a \in Attempts, NEW q \in AttemptRow, NEW l \in LeaseRow,
           attempt' = [attempt EXCEPT ![a] = q], lease' = [lease EXCEPT ![a] = l],
           UNCHANGED <<kernelVars, fuse, crashes>>, UNCHANGED hostVars,
           q.status # "ABSENT",
           q.route \in Routes, route[q.route].status # "ABSENT",
           attempt[a].status # "ABSENT" => q.route = attempt[a].route,
           attempt[a].status \notin Ended,
           q.status = "RUNNING" <=> l.status = "ACTIVE",
           q.status \in Live => attempt[a].status \in Live \/ FreeWriteSet(a)
    PROVE  IInv'
<1>1. attempt'[a] = q /\ \A b \in Attempts \ {a} : attempt'[b] = attempt[b]
  BY DEF IInv, TypeOK
<1>2. lease'[a] = l /\ \A b \in Attempts \ {a} : lease'[b] = lease[b]
  BY DEF IInv, TypeOK
<1>3. UNCHANGED <<run, contract, root, interrupted, claim, route, hostClaim, receipt, calls, host>>
  BY DEF kernelVars, hostVars
<1>4. TypeOK'
  <2>1. attempt' \in [Attempts -> AttemptRow] /\ lease' \in [Attempts -> LeaseRow]
    BY DEF IInv, TypeOK, AttemptRow, LeaseRow
  <2> QED BY <1>3, <2>1 DEF IInv, TypeOK, AttemptRow, LeaseRow
<1>5. ActiveIsCurrent' /\ RightIsBurnt'
  BY <1>3 DEF IInv, ActiveIsCurrent, RightIsBurnt, Busy
<1>6. RowsRefer'
  BY <1>1, <1>3 DEF IInv, RowsRefer
<1>7. RunningIffLeased'
  BY <1>1, <1>2 DEF IInv, RunningIffLeased
<1>8. DisjointWriteSets'
  <2> SUFFICES ASSUME NEW b \in Attempts, NEW d \in Attempts, b # d,
                      attempt'[b].status \in Live, attempt'[d].status \in Live
               PROVE  WriteSet[b] \cap WriteSet[d] = {}
    BY DEF DisjointWriteSets
  <2>1. CASE b # a /\ d # a
    BY <1>1, <2>1 DEF IInv, DisjointWriteSets
  <2>2. CASE b = a
    BY <1>1, <2>2 DEF IInv, DisjointWriteSets, FreeWriteSet
  <2>3. CASE d = a
    BY <1>1, <2>3 DEF IInv, DisjointWriteSets, FreeWriteSet
  <2> QED BY <2>1, <2>2, <2>3
<1>9. ClaimsSettleOneWay' /\ ClaimsStandFor'
  BY <1>1, <1>2, <1>3 DEF IInv, ClaimsSettleOneWay, ClaimsStandFor
<1>10. ASSUME NEW c \in Claims, claim'[c].verified
       PROVE  \E b \in Attempts : Earned(c, b)'
  <2>1. PICK b \in Attempts : Earned(c, b)
    BY <1>3, <1>10 DEF IInv, VerdictsEarned
  <2>2. attempt'[b].route = attempt[b].route /\ attempt'[b].status # "ABSENT"
    BY <1>1, <2>1 DEF Earned
  <2>3. Earned(c, b)'
    BY <1>3, <2>1, <2>2 DEF Earned
  <2> QED BY <2>3
<1> QED BY <1>4, <1>5, <1>6, <1>7, <1>8, <1>9, <1>10 DEF IInv, VerdictsEarned

\* The rows of an attempt are typed.
LEMMA AttemptTyped ==
    ASSUME IInv, NEW a \in Attempts
    PROVE  attempt[a] \in AttemptRow /\ lease[a] \in LeaseRow
  BY DEF IInv, TypeOK, AttemptRow, LeaseRow

\* A new attempt is QUEUED without a lease, on a free write set.
LEMMA RegisterAttemptStep ==
    ASSUME IInv, NEW a \in Attempts, NEW r \in Routes, RegisterAttempt(a, r)
    PROVE  IInv'
<1> DEFINE q == [status |-> "QUEUED", route |-> r, bound |-> FALSE]
<1>1. /\ attempt' = [attempt EXCEPT ![a] = q] /\ attempt[a].status = "ABSENT"
      /\ FreeWriteSet(a) /\ route[r].status # "ABSENT"
      /\ UNCHANGED <<kernelVars, fuse, crashes>> /\ UNCHANGED hostVars /\ lease' = lease
  BY DEF RegisterAttempt, hostVars
<1>2. q \in AttemptRow /\ q.status = "QUEUED" /\ q.route = r
  BY DEF AttemptRow, Live
<1>3. lease' = [lease EXCEPT ![a] = lease[a]] /\ lease[a].status # "ACTIVE"
  BY <1>1 DEF IInv, TypeOK, RunningIffLeased
<1>4. "ABSENT" \notin Ended
  BY DEF Ended
<1> HIDE DEF q
<1> QED BY <1>1, <1>2, <1>3, <1>4, AttemptTyped, AttemptMoves

\* Binding an execution leaves the status of the attempt.
LEMMA BindExecutionStep ==
    ASSUME IInv, NEW a \in Attempts, BindExecution(a)
    PROVE  IInv'
<1> DEFINE q == [attempt[a] EXCEPT !.bound = TRUE]
<1>1. /\ attempt' = [attempt EXCEPT ![a] = q] /\ attempt[a].status = "QUEUED"
      /\ UNCHANGED <<kernelVars, fuse, crashes>> /\ UNCHANGED hostVars /\ lease' = lease
  BY DEF BindExecution, hostVars
<1>2. q \in AttemptRow /\ q.status = "QUEUED" /\ q.route = attempt[a].route
  BY <1>1, AttemptTyped DEF AttemptRow
<1>3. lease' = [lease EXCEPT ![a] = lease[a]] /\ lease[a].status # "ACTIVE"
  BY <1>1 DEF IInv, TypeOK, RunningIffLeased
<1>4. attempt[a].route \in Routes /\ route[attempt[a].route].status # "ABSENT"
  BY <1>1 DEF IInv, RowsRefer
<1>5. /\ attempt[a].status \notin Ended /\ attempt[a].status \in Live
      /\ lease[a] \in LeaseRow /\ q.route \in Routes /\ route[q.route].status # "ABSENT"
      /\ q.status # "ABSENT" /\ (q.status = "RUNNING" <=> lease[a].status = "ACTIVE")
  BY <1>1, <1>2, <1>3, <1>4, AttemptTyped DEF Ended, Live
<1> HIDE DEF q
<1> QED BY <1>1, <1>2, <1>3, <1>5, AttemptMoves

\* The lease becomes ACTIVE in the step that makes the attempt RUNNING.
LEMMA AcquireLeaseStep ==
    ASSUME IInv, NEW a \in Attempts, AcquireLease(a)
    PROVE  IInv'
<1> DEFINE q == [attempt[a] EXCEPT !.status = "RUNNING"]
           l == [status |-> "ACTIVE", ttl |-> LeaseTicks]
<1>1. /\ attempt' = [attempt EXCEPT ![a] = q] /\ lease' = [lease EXCEPT ![a] = l]
      /\ attempt[a].status \in {"QUEUED", "PAUSED"}
      /\ UNCHANGED <<kernelVars, fuse, crashes>> /\ UNCHANGED hostVars
  BY DEF AcquireLease, hostVars
<1>2. q \in AttemptRow /\ q.status = "RUNNING" /\ q.route = attempt[a].route
  BY AttemptTyped DEF AttemptRow, Live
<1>3. l \in LeaseRow /\ l.status = "ACTIVE"
  BY ConstantsAssumption DEF LeaseRow
<1>4. attempt[a].route \in Routes /\ route[attempt[a].route].status # "ABSENT"
  BY <1>1 DEF IInv, RowsRefer
<1>5. attempt[a].status \notin Ended /\ attempt[a].status \in Live
  BY <1>1 DEF Ended, Live
<1> HIDE DEF q, l
<1> QED BY <1>1, <1>2, <1>3, <1>4, <1>5, AttemptMoves

\* A release ends or pauses the attempt in the step that ends its lease.
LEMMA ReleaseLeaseStep ==
    ASSUME IInv, NEW a \in Attempts, NEW s \in Released, ReleaseLease(a, s)
    PROVE  IInv'
<1> DEFINE q == [attempt[a] EXCEPT !.status = s]
           l == [lease[a] EXCEPT !.status = "RELEASED"]
<1>1. /\ attempt' = [attempt EXCEPT ![a] = q] /\ lease' = [lease EXCEPT ![a] = l]
      /\ attempt[a].status = "RUNNING"
      /\ UNCHANGED <<kernelVars, fuse, crashes>> /\ UNCHANGED hostVars
  BY DEF ReleaseLease, hostVars
<1>2. s \in {"SUCCEEDED", "FAILED", "ABORTED", "ENVIRONMENT_ERROR", "PAUSED"}
  BY ConstantsAssumption
<1>3. /\ q \in AttemptRow /\ q.status = s /\ q.route = attempt[a].route
      /\ s # "ABSENT" /\ s # "RUNNING"
  BY <1>2, AttemptTyped DEF AttemptRow, Live, Ended
<1>4. l \in LeaseRow /\ l.status = "RELEASED"
  BY AttemptTyped DEF LeaseRow
<1>5. attempt[a].route \in Routes /\ route[attempt[a].route].status # "ABSENT"
  BY <1>1 DEF IInv, RowsRefer
<1>6. attempt[a].status \notin Ended /\ attempt[a].status \in Live
  BY <1>1 DEF Ended, Live
<1> HIDE DEF q, l
<1> QED BY <1>1, <1>3, <1>4, <1>5, <1>6, AttemptMoves

\* A heartbeat moves the deadline of a lease.
LEMMA HeartbeatLeaseStep ==
    ASSUME IInv, NEW a \in Attempts, HeartbeatLease(a)
    PROVE  IInv'
<1> DEFINE l == [lease[a] EXCEPT !.ttl = LeaseTicks]
<1>1. /\ lease' = [lease EXCEPT ![a] = l]
      /\ UNCHANGED <<kernelVars, fuse, attempt, hostClaim, receipt, calls, host, crashes>>
  BY DEF HeartbeatLease
<1>2. l \in LeaseRow /\ l.status = lease[a].status
  BY AttemptTyped, ConstantsAssumption DEF LeaseRow
<1> HIDE DEF l
<1>3. lease' \in [Attempts -> LeaseRow] /\ \A b \in Attempts : lease'[b].status = lease[b].status
  BY <1>1, <1>2 DEF IInv, TypeOK, LeaseRow
<1> QED BY <1>1, <1>3 DEF IInv, TypeOK, LeaseRow, ActiveIsCurrent, RowsRefer, RunningIffLeased,
           DisjointWriteSets, RightIsBurnt, Busy, ClaimsSettleOneWay, ClaimsStandFor, VerdictsEarned,
           Earned, kernelVars

-----------------------------------------------------------------------------
(* Host execution                                                           *)

HostRow == [pc : {"down", "idle", "scoped", "claimed", "calling"},
            attempt : Attempts \cup {None}, version : Versions \cup {0}]
HostClaimRow == [state : {"NONE", "PENDING", "COMPLETED", "UNKNOWN_FUSED"},
                 ttl : 0 .. RecoveryTicks]
ReceiptRow == [count : Nat, eligible : BOOLEAN, version : Versions \cup {0}, consumed : Nat]

\* A host process changes without touching a claim: it reads a scope, ends, or gives up.
LEMMA HostMoves ==
    ASSUME IInv, NEW h \in Hosts, NEW q \in HostRow, host' = [host EXCEPT ![h] = q],
           UNCHANGED <<kernelVars, fuse, attempt, lease, hostClaim, receipt, calls>>,
           crashes' \in 0 .. MaxCrashes,
           q.pc \notin {"claimed", "calling"},
           q.pc = "scoped" => /\ q.attempt \in Attempts /\ q.version \in Versions
                              /\ attempt[q.attempt].status # "ABSENT"
    PROVE  IInv'
<1>1. host'[h] = q /\ \A g \in Hosts \ {h} : host'[g] = host[g]
  BY DEF IInv, TypeOK
<1>2. UNCHANGED <<run, contract, root, interrupted, claim, route, fuse, attempt, lease, hostClaim,
                  receipt, calls>>
  BY DEF kernelVars
<1>3. TypeOK'
  <2>1. host' \in [Hosts -> HostRow]
    BY DEF IInv, TypeOK, HostRow
  <2> QED BY <1>2, <2>1 DEF IInv, TypeOK, HostRow
<1>4. RowsRefer'
  BY <1>1, <1>2 DEF IInv, RowsRefer
<1>5. RightIsBurnt'
  BY <1>1, <1>2 DEF IInv, RightIsBurnt, Busy
<1>6. /\ ActiveIsCurrent' /\ RunningIffLeased' /\ DisjointWriteSets' /\ ClaimsSettleOneWay'
      /\ ClaimsStandFor' /\ VerdictsEarned'
  BY <1>2 DEF IInv, ActiveIsCurrent, RunningIffLeased, DisjointWriteSets, ClaimsSettleOneWay,
              ClaimsStandFor, VerdictsEarned, Earned
<1> QED BY <1>3, <1>4, <1>5, <1>6 DEF IInv

\* The row of a stopped process.
LEMMA DownTyped == Down \in HostRow /\ Down.pc = "down"
  BY DEF Down, HostRow

\* A host reads the scope of an attempt that runs.
LEMMA ReadScopeStep ==
    ASSUME IInv, NEW h \in Hosts, NEW a \in Attempts, ReadScope(h, a)
    PROVE  IInv'
<1> DEFINE q == [pc |-> "scoped", attempt |-> a, version |-> contract.version]
<1>1. /\ host' = [host EXCEPT ![h] = q] /\ attempt[a].status = "RUNNING"
      /\ UNCHANGED <<kernelVars, fuse, attempt, lease, hostClaim, receipt, calls>>
      /\ crashes' = crashes
  BY DEF ReadScope, Executable
<1>2. contract.version \in Versions /\ crashes \in 0 .. MaxCrashes
  BY DEF IInv, TypeOK
<1>3. q \in HostRow /\ q.pc = "scoped" /\ q.attempt = a /\ q.version = contract.version
  BY <1>2 DEF HostRow
<1> HIDE DEF q
<1> QED BY <1>1, <1>2, <1>3, HostMoves

\* A host that stops, by itself or in a crash, leaves its claim row behind.
LEMMA StopStep ==
    ASSUME IInv, NEW h \in Hosts,
           ClaimRefused(h) \/ RecordRefused(h) \/ Exit(h) \/ Crash(h)
    PROVE  IInv'
<1>1. /\ host' = [host EXCEPT ![h] = Down]
      /\ UNCHANGED <<kernelVars, fuse, attempt, lease, hostClaim, receipt, calls>>
      /\ crashes' = crashes \/ (crashes < MaxCrashes /\ crashes' = crashes + 1)
  BY DEF ClaimRefused, RecordRefused, Exit, Crash
<1>2. crashes \in 0 .. MaxCrashes
  BY DEF IInv, TypeOK
<1>3. crashes' \in 0 .. MaxCrashes
  BY <1>1, <1>2, ConstantsAssumption
<1> QED BY <1>1, <1>3, DownTyped, HostMoves

\* claim_host_execution: the right was never taken, so nobody is busy with the attempt.
LEMMA ClaimHostExecutionStep ==
    ASSUME IInv, NEW h \in Hosts, NEW t \in 0 .. RecoveryTicks, ClaimHostExecution(h, t)
    PROVE  IInv'
<1> DEFINE a == host[h].attempt
           q == [host[h] EXCEPT !.pc = "claimed"]
           k == [state |-> "PENDING", ttl |-> t]
<1>1. /\ host' = [host EXCEPT ![h] = q] /\ hostClaim' = [hostClaim EXCEPT ![a] = k]
      /\ host[h].pc = "scoped" /\ hostClaim[a].state = "NONE"
      /\ crashes' = crashes /\ UNCHANGED <<fuse, attempt, lease, receipt, calls>>
      /\ UNCHANGED <<run, contract, root, interrupted, claim, route>>
  BY DEF ClaimHostExecution, Claimable, kernelVars
<1>2. /\ a \in Attempts /\ host[h].version \in Versions /\ attempt[a].status # "ABSENT"
  BY <1>1 DEF IInv, RowsRefer
<1>3. host[h] \in HostRow /\ hostClaim \in [Attempts -> HostClaimRow] /\ host \in [Hosts -> HostRow]
  BY DEF IInv, TypeOK, HostRow, HostClaimRow
<1>4. /\ q \in HostRow /\ q.pc = "claimed" /\ q.attempt = a /\ q.version = host[h].version
      /\ k \in HostClaimRow /\ k.state = "PENDING"
  BY <1>3 DEF HostRow, HostClaimRow
<1> HIDE DEF q, k, a
<1>5. host'[h] = q /\ \A g \in Hosts \ {h} : host'[g] = host[g]
  BY <1>1, <1>3
<1>6. hostClaim'[a] = k /\ \A b \in Attempts \ {a} : hostClaim'[b] = hostClaim[b]
  BY <1>1, <1>2, <1>3
<1>7. TypeOK'
  <2>1. host' \in [Hosts -> HostRow] /\ hostClaim' \in [Attempts -> HostClaimRow]
    BY <1>1, <1>3, <1>4
  <2> QED BY <1>1, <2>1 DEF IInv, TypeOK, HostRow, HostClaimRow
<1>8. RowsRefer'
  BY <1>1, <1>2, <1>4, <1>5 DEF IInv, RowsRefer
<1>9. calls[a] = 0 /\ \A g \in Hosts : ~Busy(g, a)
  BY <1>1, <1>2 DEF IInv, RightIsBurnt
<1>10. \A g \in Hosts, b \in Attempts : Busy(g, b)' <=> (g = h /\ b = a) \/ (g # h /\ Busy(g, b))
  BY <1>1, <1>4, <1>5 DEF Busy
<1>11. RightIsBurnt'
  <2>1. \A b \in Attempts, g, f \in Hosts : Busy(g, b)' /\ Busy(f, b)' => g = f
    BY <1>9, <1>10 DEF IInv, RightIsBurnt
  <2>2. ASSUME NEW b \in Attempts, NEW g \in Hosts, Busy(g, b)'
        PROVE  /\ hostClaim'[b].state # "NONE"
               /\ host'[g].pc = "claimed" => calls'[b] = 0
               /\ host'[g].pc = "calling" => calls'[b] = 1
    <3>1. CASE g = h /\ b = a
      BY <1>1, <1>4, <1>5, <1>6, <1>9, <3>1
    <3>2. CASE g # h /\ Busy(g, b)
      BY <1>1, <1>5, <1>6, <1>9, <3>2 DEF IInv, RightIsBurnt
    <3> QED BY <1>10, <2>2, <3>1, <3>2
  <2>3. \A b \in Attempts : calls'[b] \in {0, 1} /\ (calls'[b] = 1 => hostClaim'[b].state # "NONE")
    BY <1>1, <1>4, <1>6 DEF IInv, RightIsBurnt
  <2> QED BY <2>1, <2>2, <2>3 DEF RightIsBurnt
<1>12. ClaimsSettleOneWay' /\ ClaimsStandFor'
  BY <1>1, <1>2, <1>4, <1>6 DEF IInv, ClaimsSettleOneWay, ClaimsStandFor
<1>13. ActiveIsCurrent' /\ RunningIffLeased' /\ DisjointWriteSets'
  BY <1>1 DEF IInv, ActiveIsCurrent, RunningIffLeased, DisjointWriteSets
<1>14. ASSUME NEW c \in Claims, claim'[c].verified
       PROVE  \E b \in Attempts : Earned(c, b)'
  <2>1. PICK b \in Attempts : Earned(c, b)
    BY <1>1, <1>14 DEF IInv, VerdictsEarned
  <2>2. b # a
    BY <1>1, <2>1 DEF Earned
  <2>3. Earned(c, b)'
    BY <1>1, <1>6, <2>1, <2>2 DEF Earned
  <2> QED BY <2>3
<1> QED BY <1>7, <1>8, <1>11, <1>12, <1>13, <1>14 DEF IInv, VerdictsEarned

\* The provider is called: the host that has the right pays for it.
LEMMA InvokeStep ==
    ASSUME IInv, NEW h \in Hosts, Invoke(h)
    PROVE  IInv'
<1> DEFINE a == host[h].attempt
           q == [host[h] EXCEPT !.pc = "calling"]
<1>1. /\ host' = [host EXCEPT ![h] = q] /\ calls' = [calls EXCEPT ![a] = @ + 1]
      /\ host[h].pc = "claimed"
      /\ crashes' = crashes /\ UNCHANGED <<fuse, attempt, lease, hostClaim, receipt>>
      /\ UNCHANGED <<run, contract, root, interrupted, claim, route>>
  BY DEF Invoke, kernelVars
<1>2. /\ a \in Attempts /\ host[h].version \in Versions /\ attempt[a].status # "ABSENT"
  BY <1>1 DEF IInv, RowsRefer
<1>3. host[h] \in HostRow /\ host \in [Hosts -> HostRow] /\ calls \in [Attempts -> Nat]
  BY DEF IInv, TypeOK, HostRow
<1>4. q \in HostRow /\ q.pc = "calling" /\ q.attempt = a /\ q.version = host[h].version
  BY <1>3 DEF HostRow
<1>5. Busy(h, a) /\ calls[a] = 0 /\ hostClaim[a].state # "NONE"
  BY <1>1, <1>2 DEF Busy, IInv, RightIsBurnt
<1> HIDE DEF q, a
<1>6. host'[h] = q /\ \A g \in Hosts \ {h} : host'[g] = host[g]
  BY <1>1, <1>3
<1>7. calls'[a] = 1 /\ \A b \in Attempts \ {a} : calls'[b] = calls[b]
  BY <1>1, <1>2, <1>3, <1>5
<1>8. TypeOK'
  <2>1. host' \in [Hosts -> HostRow]
    BY <1>1, <1>3, <1>4
  <2>2. calls' \in [Attempts -> Nat]
    BY <1>1, <1>2, <1>3
  <2> QED BY <1>1, <2>1, <2>2 DEF IInv, TypeOK, HostRow
<1>9. RowsRefer'
  BY <1>1, <1>2, <1>4, <1>6 DEF IInv, RowsRefer
<1>10. \A g \in Hosts, b \in Attempts : Busy(g, b)' <=> Busy(g, b)
  BY <1>1, <1>4, <1>5, <1>6 DEF Busy
<1>11. RightIsBurnt'
  <2>1. \A b \in Attempts, g, f \in Hosts : Busy(g, b)' /\ Busy(f, b)' => g = f
    BY <1>10 DEF IInv, RightIsBurnt
  <2>2. ASSUME NEW b \in Attempts, NEW g \in Hosts, Busy(g, b)'
        PROVE  /\ hostClaim'[b].state # "NONE"
               /\ host'[g].pc = "claimed" => calls'[b] = 0
               /\ host'[g].pc = "calling" => calls'[b] = 1
    <3>1. CASE g = h
      <4>1. b = a
        BY <2>2, <3>1, <1>4, <1>6 DEF Busy
      <4> QED BY <1>1, <1>4, <1>5, <1>6, <1>7, <3>1, <4>1
    <3>2. CASE g # h
      <4>1. Busy(g, b) /\ b # a
        BY <1>2, <1>5, <1>10, <2>2, <3>2 DEF IInv, RightIsBurnt
      <4> QED BY <1>1, <1>6, <1>7, <3>2, <4>1 DEF IInv, RightIsBurnt
    <3> QED BY <3>1, <3>2
  <2>3. \A b \in Attempts : calls'[b] \in {0, 1} /\ (calls'[b] = 1 => hostClaim'[b].state # "NONE")
    BY <1>1, <1>5, <1>7 DEF IInv, RightIsBurnt
  <2> QED BY <2>1, <2>2, <2>3 DEF RightIsBurnt
<1>12. ClaimsStandFor'
  BY <1>1, <1>7 DEF IInv, ClaimsStandFor
<1>13. ActiveIsCurrent' /\ RunningIffLeased' /\ DisjointWriteSets' /\ ClaimsSettleOneWay'
  BY <1>1 DEF IInv, ActiveIsCurrent, RunningIffLeased, DisjointWriteSets, ClaimsSettleOneWay
<1>14. VerdictsEarned'
  <2> SUFFICES ASSUME NEW c \in Claims, claim'[c].verified
               PROVE  \E b \in Attempts : Earned(c, b)'
    BY DEF VerdictsEarned
  <2>1. PICK b \in Attempts : Earned(c, b)
    BY <1>1 DEF IInv, VerdictsEarned
  <2>2. Earned(c, b)'
    BY <1>1, <1>7, <2>1 DEF Earned
  <2> QED BY <2>2
<1> QED BY <1>8, <1>9, <1>11, <1>12, <1>13, <1>14 DEF IInv

\* A heartbeat moves the deadline of an open claim.
LEMMA HeartbeatHostStep ==
    ASSUME IInv, NEW h \in Hosts, HeartbeatHost(h)
    PROVE  IInv'
<1> DEFINE a == host[h].attempt
           k == [hostClaim[a] EXCEPT !.ttl = RecoveryTicks]
<1>1. /\ hostClaim' = [hostClaim EXCEPT ![a] = k]
      /\ host[h].pc \in {"claimed", "calling"}
      /\ UNCHANGED <<fuse, attempt, lease, receipt, calls, host, crashes>>
      /\ UNCHANGED <<run, contract, root, interrupted, claim, route>>
  BY DEF HeartbeatHost, kernelVars
<1>2. a \in Attempts
  BY <1>1 DEF IInv, RowsRefer
<1>3. hostClaim \in [Attempts -> HostClaimRow] /\ hostClaim[a] \in HostClaimRow
  BY <1>2 DEF IInv, TypeOK, HostClaimRow
<1>4. k \in HostClaimRow /\ k.state = hostClaim[a].state
  BY <1>3, ConstantsAssumption DEF HostClaimRow
<1> HIDE DEF k, a
<1>5. /\ hostClaim' \in [Attempts -> HostClaimRow]
      /\ \A b \in Attempts : hostClaim'[b].state = hostClaim[b].state
  BY <1>1, <1>2, <1>3, <1>4
<1> QED BY <1>1, <1>5 DEF IInv, TypeOK, HostClaimRow, ActiveIsCurrent, RowsRefer,
           RunningIffLeased, DisjointWriteSets, RightIsBurnt, Busy, ClaimsSettleOneWay,
           ClaimsStandFor, VerdictsEarned, Earned

\* Time passes: only deadlines move.
LEMMA TickStep ==
    ASSUME IInv, Tick
    PROVE  IInv'
<1>1. /\ UNCHANGED <<fuse, attempt, receipt, calls, host, crashes>>
      /\ UNCHANGED <<run, contract, root, interrupted, claim, route>>
  BY DEF Tick, kernelVars
<1>2. /\ lease \in [Attempts -> LeaseRow] /\ hostClaim \in [Attempts -> HostClaimRow]
  BY DEF IInv, TypeOK, HostClaimRow, LeaseRow
<1>3. ASSUME NEW a \in Attempts
      PROVE  lease'[a] \in LeaseRow /\ lease'[a].status = lease[a].status
  <2>1. lease'[a] = IF LeaseLive(a) THEN [lease[a] EXCEPT !.ttl = @ - 1] ELSE lease[a]
    BY DEF Tick
  <2>2. lease[a] \in LeaseRow
    BY <1>2
  <2>3. CASE LeaseLive(a)
    <3>1. lease[a].ttl - 1 \in 0 .. LeaseTicks
      BY <2>2, <2>3, ConstantsAssumption DEF LeaseLive, LeaseRow
    <3> QED BY <2>1, <2>2, <2>3, <3>1 DEF LeaseRow
  <2> QED BY <2>1, <2>2, <2>3
<1>4. ASSUME NEW a \in Attempts
      PROVE  hostClaim'[a] \in HostClaimRow /\ hostClaim'[a].state = hostClaim[a].state
  <2>1. hostClaim'[a] = IF ClaimOpen(a) /\ hostClaim[a].ttl > 0
                          THEN [hostClaim[a] EXCEPT !.ttl = @ - 1] ELSE hostClaim[a]
    BY DEF Tick
  <2>2. hostClaim[a] \in HostClaimRow
    BY <1>2
  <2>3. CASE hostClaim[a].ttl > 0
    <3>1. hostClaim[a].ttl - 1 \in 0 .. RecoveryTicks
      BY <2>2, <2>3, ConstantsAssumption DEF HostClaimRow
    <3> QED BY <2>1, <2>2, <2>3, <3>1 DEF HostClaimRow
  <2> QED BY <2>1, <2>2, <2>3
<1>5. lease' \in [Attempts -> LeaseRow] /\ hostClaim' \in [Attempts -> HostClaimRow]
  BY <1>3, <1>4 DEF Tick
<1> QED BY <1>1, <1>3, <1>4, <1>5 DEF IInv, TypeOK, HostClaimRow, LeaseRow, ActiveIsCurrent,
           RowsRefer, RunningIffLeased, DisjointWriteSets, RightIsBurnt, Busy, ClaimsSettleOneWay,
           ClaimsStandFor, VerdictsEarned, Earned

\* record_host_execution_atomic: the claim is open, so there is no receipt yet.
LEMMA RecordStep ==
    ASSUME IInv, NEW h \in Hosts, NEW ok \in BOOLEAN, NEW overrun \in BOOLEAN,
           RecordHostExecution(h, ok, overrun)
    PROVE  IInv'
<1> DEFINE a == host[h].attempt
           k == [hostClaim[a] EXCEPT !.state = "COMPLETED"]
           e == ok /\ ~overrun /\ NoDrift(h)
           p == [count |-> receipt[a].count + 1, eligible |-> e,
                 version |-> host[h].version, consumed |-> 0]
<1>1. /\ host' = [host EXCEPT ![h] = Down] /\ host[h].pc = "calling"
      /\ hostClaim' = [hostClaim EXCEPT ![a] = k]
      /\ receipt' = [receipt EXCEPT ![a] = p]
      /\ hostClaim[a].state = "PENDING"
      /\ fuse' = (fuse \/ overrun)
      /\ UNCHANGED <<attempt, lease, calls, crashes>>
      /\ UNCHANGED <<run, contract, root, interrupted, claim, route>>
  BY DEF RecordHostExecution, ClaimOpen, kernelVars
<1>2. /\ a \in Attempts /\ host[h].version \in Versions /\ attempt[a].status # "ABSENT"
  BY <1>1 DEF IInv, RowsRefer
<1>3. /\ host \in [Hosts -> HostRow] /\ hostClaim \in [Attempts -> HostClaimRow]
      /\ receipt \in [Attempts -> ReceiptRow] /\ hostClaim[a] \in HostClaimRow
      /\ fuse \in BOOLEAN
  BY <1>2 DEF IInv, TypeOK, HostRow, HostClaimRow, ReceiptRow
<1>4. receipt[a].count = 0 /\ calls[a] = 1
  BY <1>1, <1>2 DEF IInv, ClaimsSettleOneWay, RightIsBurnt, Busy
<1>5. k \in HostClaimRow /\ k.state = "COMPLETED"
  BY <1>3 DEF HostClaimRow
<1>6. e \in BOOLEAN
  BY DEF NoDrift, Executable, LeaseLive
<1> HIDE DEF e
<1>7. p \in ReceiptRow /\ p.count = 1
  BY <1>2, <1>4, <1>6 DEF ReceiptRow
<1> HIDE DEF a, k, p
<1>8. host'[h] = Down /\ \A g \in Hosts \ {h} : host'[g] = host[g]
  BY <1>1, <1>3
<1>9. hostClaim'[a] = k /\ \A b \in Attempts \ {a} : hostClaim'[b] = hostClaim[b]
  BY <1>1, <1>2, <1>3
<1>10. receipt'[a] = p /\ \A b \in Attempts \ {a} : receipt'[b] = receipt[b]
  BY <1>1, <1>2, <1>3
<1>11. TypeOK'
  <2>1. /\ host' \in [Hosts -> HostRow] /\ hostClaim' \in [Attempts -> HostClaimRow]
        /\ receipt' \in [Attempts -> ReceiptRow] /\ fuse' \in BOOLEAN
    BY <1>1, <1>3, <1>5, <1>7, DownTyped
  <2> QED BY <1>1, <2>1 DEF IInv, TypeOK, HostRow, HostClaimRow, ReceiptRow
<1>12. RowsRefer'
  BY <1>1, <1>8, DownTyped DEF IInv, RowsRefer
<1>13. \A g \in Hosts, b \in Attempts : Busy(g, b)' => g # h /\ Busy(g, b)
  BY <1>1, <1>8, DownTyped DEF Busy
<1>14. \A b \in Attempts : hostClaim'[b].state = "NONE" => hostClaim[b].state = "NONE"
  BY <1>5, <1>9
<1>15. RightIsBurnt'
  BY <1>1, <1>8, <1>13, <1>14 DEF IInv, RightIsBurnt
<1>16. ClaimsSettleOneWay'
  <2>1. ASSUME NEW b \in Attempts
        PROVE  /\ receipt'[b].count = (IF hostClaim'[b].state = "COMPLETED" THEN 1 ELSE 0)
               /\ hostClaim'[b].state = "UNKNOWN_FUSED"
                    => attempt'[b].status \in Ended /\ lease'[b].status # "ACTIVE" /\ fuse'
    <3>1. CASE b = a
      BY <1>5, <1>7, <1>9, <1>10, <3>1
    <3>2. CASE b # a
      <4>1. hostClaim'[b] = hostClaim[b] /\ receipt'[b] = receipt[b]
        BY <1>9, <1>10, <3>2
      <4> QED BY <1>1, <4>1 DEF IInv, ClaimsSettleOneWay
    <3> QED BY <3>1, <3>2
  <2> QED BY <2>1 DEF ClaimsSettleOneWay
<1>17. ClaimsStandFor'
  BY <1>1, <1>2, <1>4, <1>5, <1>9, <1>10 DEF IInv, ClaimsStandFor
<1>18. ActiveIsCurrent' /\ RunningIffLeased' /\ DisjointWriteSets'
  BY <1>1 DEF IInv, ActiveIsCurrent, RunningIffLeased, DisjointWriteSets
<1>19. VerdictsEarned'
  <2> SUFFICES ASSUME NEW c \in Claims, claim'[c].verified
               PROVE  \E b \in Attempts : Earned(c, b)'
    BY DEF VerdictsEarned
  <2>1. PICK b \in Attempts : Earned(c, b)
    BY <1>1 DEF IInv, VerdictsEarned
  <2>2. b # a
    BY <1>1, <2>1 DEF Earned
  <2>3. Earned(c, b)'
    BY <1>1, <1>9, <1>10, <2>1, <2>2 DEF Earned
  <2> QED BY <2>3
<1> QED BY <1>11, <1>12, <1>15, <1>16, <1>17, <1>18, <1>19 DEF IInv

\* recover_incomplete_host_claims on open claims S: the attempts of S are over, their
\* leases gone and the fuse tripped; what had completed is left alone.
LEMMA FuseKeeps ==
    ASSUME IInv, NEW S \in SUBSET Attempts, \A a \in S : hostClaim[a].state = "PENDING",
           FuseClaims(S), NEW h \in Hosts, NEW q \in HostRow, q.pc \in {"down", "idle"},
           host' = [host EXCEPT ![h] = q], UNCHANGED <<kernelVars, receipt, calls, crashes>>
    PROVE  IInv'
<1>1. UNCHANGED <<run, contract, root, interrupted, claim, route, receipt, calls, crashes>>
  BY DEF kernelVars
<1>2. /\ host \in [Hosts -> HostRow] /\ hostClaim \in [Attempts -> HostClaimRow]
      /\ attempt \in [Attempts -> AttemptRow] /\ lease \in [Attempts -> LeaseRow] /\ fuse \in BOOLEAN
  BY DEF IInv, TypeOK, HostRow, HostClaimRow, AttemptRow, LeaseRow
<1>3. host'[h] = q /\ \A g \in Hosts \ {h} : host'[g] = host[g]
  BY <1>2
<1>4. fuse' \in BOOLEAN /\ (fuse => fuse') /\ (S # {} => fuse')
  BY <1>2 DEF FuseClaims
<1>5. ASSUME NEW a \in Attempts
      PROVE  hostClaim'[a] \in HostClaimRow /\ attempt'[a] \in AttemptRow /\ lease'[a] \in LeaseRow
  <2>1. hostClaim'[a] \in HostClaimRow
    BY <1>2 DEF FuseClaims, HostClaimRow
  <2>2. attempt'[a] \in AttemptRow
    BY <1>2 DEF FuseClaims, AttemptRow, Ended
  <2>3. lease'[a] \in LeaseRow
    BY <1>2 DEF FuseClaims, LeaseRow
  <2> QED BY <2>1, <2>2, <2>3
<1>6. \A a \in Attempts \ S : hostClaim'[a] = hostClaim[a] /\ attempt'[a] = attempt[a] /\ lease'[a] = lease[a]
  BY DEF FuseClaims
<1>7. ASSUME NEW a \in S
      PROVE  /\ hostClaim'[a].state = "UNKNOWN_FUSED" /\ hostClaim[a].state = "PENDING"
             /\ attempt'[a].route = attempt[a].route
             /\ attempt[a].status # "ABSENT" /\ attempt'[a].status \in Ended
             /\ lease'[a].status # "ACTIVE"
  <2>1. hostClaim[a].state = "PENDING" /\ attempt[a].status # "ABSENT"
    BY DEF IInv, ClaimsStandFor
  <2>2. hostClaim'[a].state = "UNKNOWN_FUSED"
    BY <1>2 DEF FuseClaims, HostClaimRow
  <2>3. attempt'[a].route = attempt[a].route /\ attempt'[a].status \in Ended
    BY <1>2, <2>1 DEF FuseClaims, AttemptRow, Live, Ended
  <2>4. lease'[a].status # "ACTIVE"
    BY <1>2 DEF FuseClaims, LeaseRow
  <2> QED BY <2>1, <2>2, <2>3, <2>4
<1>8. TypeOK'
  <2>1. /\ hostClaim' \in [Attempts -> HostClaimRow] /\ attempt' \in [Attempts -> AttemptRow]
        /\ lease' \in [Attempts -> LeaseRow]
    BY <1>5 DEF FuseClaims
  <2>2. host' \in [Hosts -> HostRow]
    BY <1>2
  <2> QED BY <1>1, <1>4, <2>1, <2>2 DEF IInv, TypeOK, HostRow, HostClaimRow, AttemptRow, LeaseRow
<1>9. \A s \in Ended : s \notin Live /\ s # "RUNNING" /\ s # "ABSENT"
  BY DEF Ended, Live
<1>10. \A a \in Attempts : /\ attempt'[a].status = "ABSENT" <=> attempt[a].status = "ABSENT"
                           /\ attempt'[a].route = attempt[a].route
                           /\ attempt'[a].status \in Live => attempt[a].status \in Live
  BY <1>6, <1>7, <1>9
<1>11. RowsRefer'
  BY <1>1, <1>3, <1>10 DEF IInv, RowsRefer
<1>12. RunningIffLeased' /\ DisjointWriteSets'
  BY <1>6, <1>7, <1>9, <1>10 DEF IInv, RunningIffLeased, DisjointWriteSets
<1>13. \A g \in Hosts, b \in Attempts : Busy(g, b)' => g # h /\ Busy(g, b)
  BY <1>3 DEF Busy
<1>14. \A b \in Attempts : hostClaim'[b].state = "NONE" => hostClaim[b].state = "NONE"
  BY <1>6, <1>7
<1>15. RightIsBurnt'
  BY <1>1, <1>3, <1>13, <1>14 DEF IInv, RightIsBurnt
<1>16. ClaimsSettleOneWay'
  <2> SUFFICES ASSUME NEW a \in Attempts
               PROVE  /\ receipt'[a].count = (IF hostClaim'[a].state = "COMPLETED" THEN 1 ELSE 0)
                      /\ hostClaim'[a].state = "UNKNOWN_FUSED" =>
                           attempt'[a].status \in Ended /\ lease'[a].status # "ACTIVE" /\ fuse'
    BY DEF ClaimsSettleOneWay
  <2>1. CASE a \in S
    BY <1>1, <1>4, <1>7, <2>1 DEF IInv, ClaimsSettleOneWay
  <2>2. CASE a \notin S
    BY <1>1, <1>4, <1>6, <2>2 DEF IInv, ClaimsSettleOneWay
  <2> QED BY <2>1, <2>2
<1>17. ClaimsStandFor'
  BY <1>1, <1>6, <1>7, <1>10 DEF IInv, ClaimsStandFor
<1>18. ActiveIsCurrent'
  BY <1>1 DEF IInv, ActiveIsCurrent
<1>19. VerdictsEarned'
  <2> SUFFICES ASSUME NEW c \in Claims, claim'[c].verified
               PROVE  \E b \in Attempts : Earned(c, b)'
    BY DEF VerdictsEarned
  <2>1. PICK b \in Attempts : Earned(c, b)
    BY <1>1 DEF IInv, VerdictsEarned
  <2>2. b \notin S
    BY <1>7, <2>1 DEF Earned
  <2>3. Earned(c, b)'
    BY <1>1, <1>6, <2>1, <2>2 DEF Earned
  <2> QED BY <2>3
<1> QED BY <1>8, <1>11, <1>12, <1>15, <1>16, <1>17, <1>18, <1>19 DEF IInv

\* A failing host and a starting one settle open claims only.
LEMMA RecoveryStep ==
    ASSUME IInv, NEW h \in Hosts, HostException(h) \/ Boot(h)
    PROVE  IInv'
<1>1. CASE HostException(h)
  <2> DEFINE a == host[h].attempt
             S == IF ClaimOpen(a) THEN {a} ELSE {}
  <2>1. a \in Attempts
    BY <1>1 DEF HostException, IInv, RowsRefer
  <2>2. S \in SUBSET Attempts /\ \A b \in S : hostClaim[b].state = "PENDING"
    BY <2>1 DEF ClaimOpen
  <2>3. FuseClaims(S) /\ host' = [host EXCEPT ![h] = Down]
        /\ UNCHANGED <<kernelVars, receipt, calls, crashes>>
    BY <1>1 DEF HostException
  <2> HIDE DEF S
  <2> QED BY <2>2, <2>3, DownTyped, FuseKeeps
<1>2. CASE Boot(h)
  <2> DEFINE q == [host[h] EXCEPT !.pc = "idle"]
  <2>0. host[h] \in HostRow
    BY DEF IInv, TypeOK, HostRow
  <2>1. q \in HostRow /\ q.pc = "idle"
    BY <2>0 DEF HostRow
  <2>2. /\ FuseClaims(Overdue) /\ host' = [host EXCEPT ![h] = q]
        /\ UNCHANGED <<kernelVars, receipt, calls, crashes>>
    BY <1>2 DEF Boot
  <2>3. Overdue \in SUBSET Attempts /\ \A b \in Overdue : hostClaim[b].state = "PENDING"
    BY DEF Overdue
  <2> HIDE DEF q
  <2> QED BY <2>1, <2>2, <2>3, FuseKeeps
<1> QED BY <1>1, <1>2

\* A receipt is consumed: an eligible one exists only for a completed call, so the
\* verdict it raises is earned by its own attempt.
LEMMA ConsumeStep ==
    ASSUME IInv, NEW a \in Attempts, Consume(a)
    PROVE  IInv'
<1> DEFINE r == attempt[a].route
           t == route[r].target
           p == [receipt[a] EXCEPT !.consumed = @ + 1]
           q == [claim[t] EXCEPT !.verified = TRUE]
<1>1. /\ receipt' = [receipt EXCEPT ![a] = p] /\ claim' = [claim EXCEPT ![t] = q]
      /\ receipt[a].eligible /\ receipt[a].consumed = 0
      /\ attempt[a].status \in {"RUNNING", "SUCCEEDED"}
      /\ UNCHANGED <<run, contract, root, interrupted, fuse, route, attempt, lease, hostClaim,
                     calls, host, crashes>>
  BY DEF Consume, Consumable
<1>2. r \in Routes /\ r # None /\ t \in Claims
  BY <1>1, ConstantsAssumption DEF IInv, RowsRefer, None
<1>3. /\ receipt \in [Attempts -> ReceiptRow] /\ claim \in [Claims -> ClaimRow]
      /\ receipt[a] \in ReceiptRow /\ claim[t] \in ClaimRow
  BY <1>2 DEF IInv, TypeOK, ReceiptRow, ClaimRow
<1>4. /\ p \in ReceiptRow /\ p.count = receipt[a].count /\ p.eligible = receipt[a].eligible
      /\ p.consumed = 1
  <2>1. receipt[a].consumed + 1 = 1
    BY <1>1
  <2>2. p = [receipt[a] EXCEPT !.consumed = 1]
    BY <2>1
  <2> QED BY <1>3, <2>2 DEF ReceiptRow
<1>5. q \in ClaimRow /\ q.life = claim[t].life /\ q.version = claim[t].version /\ q.text = claim[t].text
  BY <1>3 DEF ClaimRow
<1>6. hostClaim[a].state = "COMPLETED" /\ calls[a] = 1 /\ receipt[a].count = 1
  BY <1>1 DEF IInv, ClaimsStandFor, ClaimsSettleOneWay
<1> HIDE DEF p, q, t
<1>7. receipt'[a] = p /\ \A b \in Attempts \ {a} : receipt'[b] = receipt[b]
  BY <1>1, <1>3
<1>8. claim'[t] = q /\ \A d \in Claims \ {t} : claim'[d] = claim[d]
  BY <1>1, <1>2, <1>3
<1>9. TypeOK'
  <2>1. receipt' \in [Attempts -> ReceiptRow] /\ claim' \in [Claims -> ClaimRow]
    BY <1>1, <1>2, <1>3, <1>4, <1>5
  <2> QED BY <1>1, <2>1 DEF IInv, TypeOK, ReceiptRow, ClaimRow
<1>10. \A d \in Claims : claim'[d].life = claim[d].life /\ claim'[d].version = claim[d].version
  BY <1>5, <1>8
<1>11. ActiveIsCurrent'
  <2>1. root # None => root \in Claims
    BY ConstantsAssumption DEF IInv, TypeOK
  <2> QED BY <1>1, <1>10, <2>1 DEF IInv, ActiveIsCurrent
<1>12. RowsRefer' /\ RunningIffLeased' /\ DisjointWriteSets' /\ RightIsBurnt'
  BY <1>1 DEF IInv, RowsRefer, RunningIffLeased, DisjointWriteSets, RightIsBurnt, Busy
<1>13. \A b \in Attempts : receipt'[b].count = receipt[b].count /\ receipt'[b].eligible = receipt[b].eligible
  BY <1>4, <1>7
<1>14. ClaimsSettleOneWay' /\ ClaimsStandFor'
  BY <1>1, <1>13 DEF IInv, ClaimsSettleOneWay, ClaimsStandFor
<1>15. VerdictsEarned'
  <2> SUFFICES ASSUME NEW c \in Claims, claim'[c].verified
               PROVE  \E b \in Attempts : Earned(c, b)'
    BY DEF VerdictsEarned
  <2>1. CASE c = t
    <3>1. attempt'[a].status # "ABSENT" /\ attempt'[a].route # None /\ route'[attempt'[a].route].target = c
      BY <1>1, <1>2, <2>1 DEF t
    <3>2. Earned(c, a)'
      BY <1>1, <1>4, <1>6, <1>7, <3>1 DEF Earned
    <3> QED BY <3>2
  <2>2. CASE c # t
    <3>1. PICK b \in Attempts : Earned(c, b)
      BY <1>8, <2>2 DEF IInv, VerdictsEarned
    <3>2. b # a
      BY <1>1, <3>1 DEF Earned
    <3>3. Earned(c, b)'
      BY <1>1, <1>7, <3>1, <3>2 DEF Earned
    <3> QED BY <3>3
  <2> QED BY <2>1, <2>2
<1> QED BY <1>9, <1>11, <1>12, <1>14, <1>15 DEF IInv

-----------------------------------------------------------------------------
(* The invariant                                                            *)

\* A run is created with nothing registered.
LEMMA InitHolds ==
    ASSUME Init PROVE IInv
<1>0. /\ 1 \in Versions /\ 0 \in 0 .. LeaseTicks /\ 0 \in 0 .. RecoveryTicks
      /\ 0 \in 0 .. MaxCrashes
  BY ConstantsAssumption DEF Versions
<1>1. TypeOK
  <2>1. /\ run \in {"OPEN", "RUNNING", "PAUSED", "CLOSED"} /\ root \in Roots \cup {None}
        /\ interrupted \in BOOLEAN /\ fuse \in BOOLEAN /\ crashes \in 0 .. MaxCrashes
        /\ contract \in [version : Versions, status : {"DRAFT", "FROZEN", "DEFECT_PROPOSED"},
                         defect : SUBSET Claims]
    BY <1>0 DEF Init
  <2>2. claim \in [Claims -> ClaimRow] /\ route \in [Routes -> RouteRow]
    BY <1>0 DEF Init, ClaimRow, RouteRow
  <2>3. attempt \in [Attempts -> AttemptRow] /\ lease \in [Attempts -> LeaseRow]
    BY <1>0 DEF Init, AttemptRow, LeaseRow
  <2>4. hostClaim \in [Attempts -> HostClaimRow] /\ calls \in [Attempts -> Nat]
    BY <1>0 DEF Init, HostClaimRow
  <2>5. receipt \in [Attempts -> ReceiptRow] /\ host \in [Hosts -> HostRow]
    BY <1>0 DEF Init, ReceiptRow, NoReceipt, Down, HostRow
  <2> QED BY <2>1, <2>2, <2>3, <2>4, <2>5 DEF TypeOK, ClaimRow, RouteRow, AttemptRow, LeaseRow,
             HostClaimRow, ReceiptRow, HostRow
<1>2. ActiveIsCurrent /\ RowsRefer /\ VerdictsEarned
  BY DEF Init, ActiveIsCurrent, RowsRefer, VerdictsEarned, Down, None
<1>3. RunningIffLeased /\ DisjointWriteSets
  BY DEF Init, RunningIffLeased, DisjointWriteSets, Live
<1>4. RightIsBurnt /\ ClaimsSettleOneWay /\ ClaimsStandFor
  BY DEF Init, RightIsBurnt, Busy, ClaimsSettleOneWay, ClaimsStandFor, Down, NoReceipt
<1> QED BY <1>1, <1>2, <1>3, <1>4 DEF IInv

\* Every step of every command, host and clock keeps the invariant.
LEMMA NextKeeps ==
    ASSUME IInv, [Next]_vars PROVE IInv'
<1>1. CASE ContractStep
  BY <1>1, RunCommands, RegisterClaimStep, RevokeFactStep, TripFuseStep, InterruptStep,
     AmendContractStep DEF ContractStep
<1>2. CASE AttemptStep
  BY <1>2, RegisterRouteStep, RegisterAttemptStep, BindExecutionStep, AcquireLeaseStep,
     HeartbeatLeaseStep, ReleaseLeaseStep, ConsumeStep DEF AttemptStep
<1>3. CASE \E h \in Hosts : HostStep(h) \/ HeartbeatHost(h) \/ Crash(h)
  BY <1>3, StopStep, ClaimHostExecutionStep, InvokeStep, RecordStep, RecoveryStep,
     HeartbeatHostStep DEF HostStep
<1>4. CASE \E h \in Hosts, a \in Attempts : ReadScope(h, a)
  BY <1>4, ReadScopeStep
<1>5. CASE Tick
  BY <1>5, TickStep
<1>6. CASE UNCHANGED vars
  BY <1>6 DEF vars, kernelVars, IInv, TypeOK, ActiveIsCurrent, RowsRefer, RunningIffLeased,
     DisjointWriteSets, RightIsBurnt, Busy, ClaimsSettleOneWay, ClaimsStandFor, VerdictsEarned, Earned
<1> QED BY <1>1, <1>2, <1>3, <1>4, <1>5, <1>6 DEF Next

\* Every reachable state of a run satisfies the invariant.
LEMMA Invariant == Spec => []IInv
<1>1. Init => IInv
  BY InitHolds
<1>2. IInv /\ [Next]_vars => IInv'
  BY NextKeeps
<1> QED BY <1>1, <1>2, PTL DEF Spec

-----------------------------------------------------------------------------
(* The theorems                                                             *)

\* Every row of a run holds values its table's CHECK constraints allow.
THEOREM TypeCorrect == Spec => []TypeOK
<1>1. IInv => TypeOK
  BY DEF IInv
<1> QED BY <1>1, Invariant, PTL

\* A machine verdict is always earned by exactly one provider call and one consumed,
\* authority-bearing receipt (storage.py record_host_execution_atomic, consume_host_*).
THEOREM VerdictsAlwaysEarned == Spec => []VerdictsAreEarned
<1>1. IInv => VerdictsAreEarned
  <2> SUFFICES ASSUME IInv, NEW c \in Claims, claim[c].verified
               PROVE  \E a \in Attempts :
                        /\ attempt[a].route # None /\ route[attempt[a].route].target = c
                        /\ calls[a] = 1
                        /\ hostClaim[a].state = "COMPLETED"
                        /\ receipt[a] = [receipt[a] EXCEPT !.count = 1, !.eligible = TRUE, !.consumed = 1]
    BY DEF IInv, VerdictsAreEarned
  <2>1. PICK a \in Attempts : Earned(c, a)
    BY DEF IInv, VerdictsEarned
  <2>2. receipt[a] \in ReceiptRow
    BY DEF IInv, TypeOK, ReceiptRow
  <2>3. receipt[a] = [receipt[a] EXCEPT !.count = 1, !.eligible = TRUE, !.consumed = 1]
    BY <2>1, <2>2 DEF Earned, ReceiptRow
  <2> QED BY <2>1, <2>3 DEF Earned
<1> QED BY <1>1, Invariant, PTL

\* A set with one element at most has at most one, none if it is empty.
LEMMA AtMostOne ==
    ASSUME NEW S, NEW n \in {0, 1}, \A x, y \in S : x = y, n = 1 => S = {}
    PROVE  n + Cardinality(S) <= 1
<1>1. CASE S = {}
  BY <1>1, FS_EmptySet
<1>2. CASE S # {}
  <2>1. PICK x : S = {x}
    BY <1>2
  <2> QED BY <1>2, <2>1, FS_Singleton
<1> QED BY <1>1, <1>2

\* Whatever hosts, crashes and recoveries do, no attempt is executed twice, settled both
\* ways, run without a lease or given another attempt's write set.
THEOREM AttemptsAlwaysFenced == Spec => []AttemptsAreFenced
<1>1. IInv => OneCallPerAttempt
  <2> SUFFICES ASSUME IInv, NEW a \in Attempts
               PROVE  /\ calls[a] + Cardinality({h \in Hosts : host[h].attempt = a
                                                              /\ host[h].pc = "claimed"}) <= 1
                      /\ calls[a] = 1 => hostClaim[a].state # "NONE"
    BY DEF OneCallPerAttempt
  <2> DEFINE S == {h \in Hosts : host[h].attempt = a /\ host[h].pc = "claimed"}
  <2>1. \A h \in S : h \in Hosts /\ Busy(h, a) /\ calls[a] = 0
    BY DEF Busy, IInv, RightIsBurnt
  <2>2. \A h, g \in S : h = g
    BY <2>1 DEF IInv, RightIsBurnt
  <2>3. calls[a] \in {0, 1} /\ (calls[a] = 1 => hostClaim[a].state # "NONE")
    BY DEF IInv, RightIsBurnt
  <2>4. calls[a] = 1 => S = {}
    BY <2>1
  <2> HIDE DEF S
  <2>5. calls[a] + Cardinality(S) <= 1
    BY <2>2, <2>3, <2>4, AtMostOne
  <2> QED BY <2>3, <2>5 DEF S
<1>2. IInv => AttemptsAreFenced
  BY <1>1 DEF IInv, AttemptsAreFenced
<1> QED BY <1>2, Invariant, PTL

\* Hosts and the clock never write the run, its contract, claims or routes; no command
\* on the run or its attempts writes a receipt, except consumption.
LEMMA WhoWrites ==
    ASSUME [Next]_vars
    PROVE  /\ UNCHANGED kernelVars \/ ContractStep
              \/ (\E r \in Routes, c \in Claims : RegisterRoute(r, c)) \/ \E a \in Attempts : Consume(a)
           /\ UNCHANGED receipt \/ (\E a \in Attempts : Consume(a))
              \/ \E h \in Hosts, ok, overrun \in BOOLEAN : RecordHostExecution(h, ok, overrun)
<1>1. CASE ContractStep
  BY <1>1 DEF ContractStep, FreezeContract, StartRun, Interrupt, Resume, Finalize, UsageOverrun,
     RegisterClaim, ProposeContractDefect, AmendContract, RevokeFact, TripFuse
<1>2. CASE AttemptStep
  BY <1>2 DEF AttemptStep, RegisterRoute, RegisterAttempt, BindExecution, AcquireLease,
     HeartbeatLease, ReleaseLease
<1>3. CASE \E h \in Hosts : HostStep(h) \/ HeartbeatHost(h) \/ Crash(h)
  BY <1>3 DEF HostStep, Boot, Exit, ClaimHostExecution, ClaimRefused, Invoke, RecordHostExecution,
     RecordRefused, HostException, HeartbeatHost, Crash
<1>4. CASE \E h \in Hosts, a \in Attempts : ReadScope(h, a)
  BY <1>4 DEF ReadScope
<1>5. CASE Tick
  BY <1>5 DEF Tick
<1>6. CASE UNCHANGED vars
  BY <1>6 DEF vars
<1> QED BY <1>1, <1>2, <1>3, <1>4, <1>5, <1>6 DEF Next

\* Only the consumption of a receipt raises a verdict.
LEMMA VerdictStep ==
    ASSUME IInv, [Next]_vars, NEW c \in Claims, claim'[c].verified, ~claim[c].verified
    PROVE  run = "RUNNING" /\ CurrentClaim(c) /\ contract' = contract
<1>1. claim \in [Claims -> ClaimRow]
  BY DEF IInv, TypeOK, ClaimRow
<1>2. ~UNCHANGED kernelVars
  BY DEF kernelVars
<1>3. CASE ContractStep
  <2>1. ASSUME claim' = claim PROVE FALSE
    BY <2>1
  <2>2. ASSUME NEW d \in Claims, RegisterClaim(d) PROVE FALSE
    BY <1>1, <2>2 DEF RegisterClaim
  <2>3. ASSUME NEW D \in SUBSET Claims, AmendContract(D) PROVE FALSE
    BY <1>1, <2>3 DEF AmendContract, MigrateContractClosure, ClaimRow
  <2>4. ASSUME NEW d \in Claims, NEW D \in SUBSET Claims, RevokeFact(d, D) PROVE FALSE
    BY <1>1, <2>4 DEF RevokeFact, ClaimRow
  <2> QED BY <1>3, <2>1, <2>2, <2>3, <2>4 DEF ContractStep, FreezeContract, StartRun, Interrupt,
             Resume, Finalize, UsageOverrun, ProposeContractDefect, TripFuse
<1>4. ASSUME NEW a \in Attempts, Consume(a)
      PROVE  run = "RUNNING" /\ CurrentClaim(c) /\ contract' = contract
  <2> DEFINE t == route[attempt[a].route].target
  <2>1. /\ claim' = [claim EXCEPT ![t].verified = TRUE]
        /\ run = "RUNNING" /\ claim[t].life = "ACTIVE" /\ contract' = contract
    BY <1>4 DEF Consume, Consumable, Target
  <2>2. c = t
    BY <1>1, <2>1
  <2> HIDE DEF t
  <2> QED BY <2>1, <2>2 DEF CurrentClaim, IInv, ActiveIsCurrent
<1>5. ASSUME NEW r \in Routes, NEW d \in Claims, RegisterRoute(r, d) PROVE FALSE
  BY <1>5 DEF RegisterRoute
<1> QED BY <1>2, <1>3, <1>4, <1>5, WhoWrites

\* Only the recording transaction gives a receipt authority.
LEMMA EligibleStep ==
    ASSUME IInv, [Next]_vars, NEW a \in Attempts, receipt'[a].eligible, ~receipt[a].eligible
    PROVE  /\ run = "RUNNING" /\ attempt[a].status = "RUNNING" /\ LeaseLive(a)
           /\ route[attempt[a].route].version = contract.version
           /\ Target(a).version = contract.version
<1>1. receipt \in [Attempts -> ReceiptRow]
  BY DEF IInv, TypeOK, ReceiptRow
<1>2. ASSUME NEW b \in Attempts, Consume(b) PROVE FALSE
  BY <1>1, <1>2 DEF Consume, ReceiptRow
<1>3. PICK h \in Hosts, ok \in BOOLEAN, overrun \in BOOLEAN : RecordHostExecution(h, ok, overrun)
  BY <1>2, WhoWrites
<1>4. a = host[h].attempt
  BY <1>1, <1>3 DEF RecordHostExecution
<1>5. NoDrift(h)
  BY <1>1, <1>3, <1>4 DEF RecordHostExecution
<1>6. Executable(a) /\ LeaseLive(a)
  BY <1>4, <1>5 DEF NoDrift
<1>7. attempt[a].status = "RUNNING" /\ route[attempt[a].route].status = "ACTIVE" /\ run = "RUNNING"
  BY <1>6 DEF Executable
<1>8. attempt[a].route \in Routes /\ route[attempt[a].route].target \in Claims
  BY <1>7 DEF IInv, RowsRefer
<1> QED BY <1>6, <1>7, <1>8 DEF Executable, Target, IInv, ActiveIsCurrent

\* No command is accepted on a closed run.
LEMMA ClosedStep ==
    ASSUME [Next]_vars, run = "CLOSED"
    PROVE  UNCHANGED kernelVars
<1>1. ~ContractStep
  BY DEF ContractStep, FreezeContract, StartRun, Interrupt, Resume, Finalize, UsageOverrun,
     RegisterClaim, ProposeContractDefect, AmendContract, RevokeFact, TripFuse, NotClosed
<1>2. ~\E r \in Routes, c \in Claims : RegisterRoute(r, c)
  BY DEF RegisterRoute, NotClosed
<1>3. ~\E a \in Attempts : Consume(a)
  BY DEF Consume, Consumable
<1> QED BY <1>1, <1>2, <1>3, WhoWrites

\* The current contract governs every step of a run: a verdict or an authority-bearing
\* receipt arises only while the run is RUNNING under it, and a closed run is frozen.
THEOREM ContractAlwaysGoverns == Spec => ContractGovernsSteps
<1>1. ASSUME IInv, [Next]_vars
      PROVE  [\A c \in Claims : claim'[c].verified /\ ~claim[c].verified =>
                 run = "RUNNING" /\ CurrentClaim(c) /\ contract' = contract]_vars
  BY <1>1, VerdictStep
<1>2. ASSUME IInv, [Next]_vars
      PROVE  [\A a \in Attempts : receipt'[a].eligible /\ ~receipt[a].eligible =>
                 /\ run = "RUNNING" /\ attempt[a].status = "RUNNING" /\ LeaseLive(a)
                 /\ route[attempt[a].route].version = contract.version
                 /\ Target(a).version = contract.version]_vars
  BY <1>2, EligibleStep
<1>3. ASSUME [Next]_vars PROVE [run = "CLOSED" => UNCHANGED kernelVars]_vars
  BY <1>3, ClosedStep
<1>4. Spec => VerdictsServeTheContract
  BY <1>1, Invariant, PTL DEF Spec, VerdictsServeTheContract
<1>5. Spec => EligibleMeansLeased
  BY <1>2, Invariant, PTL DEF Spec, EligibleMeansLeased
<1>6. Spec => ClosedRunIsFrozen
  BY <1>3, PTL DEF Spec, ClosedRunIsFrozen
<1> QED BY <1>4, <1>5, <1>6 DEF ContractGovernsSteps

\* A recovery of open claims leaves what is over as it is.
LEMMA FuseSparesEnded ==
    ASSUME NEW S, NEW a \in Attempts, FuseClaims(S), \A b \in S : hostClaim[b].state = "PENDING"
    PROVE  /\ attempt[a].status \in Ended => attempt'[a] = attempt[a]
           /\ hostClaim[a].state \in {"COMPLETED", "UNKNOWN_FUSED"} => hostClaim'[a].state = hostClaim[a].state
<1>1. attempt[a].status \in Ended => attempt[a].status \notin Live
  BY DEF Ended, Live
<1> QED BY <1>1 DEF FuseClaims

\* No step moves an attempt that is over.
LEMMA EndedAttemptStep ==
    ASSUME IInv, [Next]_vars, NEW a \in Attempts, attempt[a].status \in Ended
    PROVE  attempt'[a] = attempt[a]
<1>1. /\ attempt[a].status \notin {"ABSENT", "QUEUED", "RUNNING", "PAUSED"}
      /\ attempt \in [Attempts -> AttemptRow]
  BY DEF Ended, IInv, TypeOK, AttemptRow
<1>2. CASE ContractStep
  BY <1>1, <1>2 DEF ContractStep, FreezeContract, StartRun, Interrupt, Resume, Finalize, UsageOverrun,
     RegisterClaim, ProposeContractDefect, AmendContract, RevokeFact, TripFuse, PauseActiveAttempts
<1>3. CASE AttemptStep
  BY <1>1, <1>3 DEF AttemptStep, RegisterRoute, RegisterAttempt, BindExecution, AcquireLease,
     HeartbeatLease, ReleaseLease, Consume
<1>4. ASSUME NEW h \in Hosts, HostException(h) PROVE attempt'[a] = attempt[a]
  BY <1>4, FuseSparesEnded DEF HostException, ClaimOpen
<1>5. ASSUME NEW h \in Hosts, Boot(h) PROVE attempt'[a] = attempt[a]
  BY <1>5, FuseSparesEnded DEF Boot, Overdue
<1>6. CASE \E h \in Hosts : HostStep(h) \/ HeartbeatHost(h) \/ Crash(h)
  BY <1>4, <1>5, <1>6 DEF HostStep, Exit, ClaimHostExecution, ClaimRefused, Invoke,
     RecordHostExecution, RecordRefused, HeartbeatHost, Crash
<1>7. CASE (\E h \in Hosts, b \in Attempts : ReadScope(h, b)) \/ Tick \/ UNCHANGED vars
  BY <1>7 DEF ReadScope, Tick, vars
<1> QED BY <1>2, <1>3, <1>6, <1>7 DEF Next

\* No step settles a host claim again.
LEMMA SettledClaimStep ==
    ASSUME IInv, [Next]_vars, NEW a \in Attempts,
           hostClaim[a].state \in {"COMPLETED", "UNKNOWN_FUSED"}
    PROVE  hostClaim'[a].state = hostClaim[a].state
<1>1. hostClaim \in [Attempts -> HostClaimRow]
  BY DEF IInv, TypeOK, HostClaimRow
<1>2. CASE ContractStep
  BY <1>2 DEF ContractStep, FreezeContract, StartRun, Interrupt, Resume, Finalize, UsageOverrun,
     RegisterClaim, ProposeContractDefect, AmendContract, RevokeFact, TripFuse
<1>3. CASE AttemptStep
  BY <1>3 DEF AttemptStep, RegisterRoute, RegisterAttempt, BindExecution, AcquireLease,
     HeartbeatLease, ReleaseLease, Consume
<1>4. ASSUME NEW h \in Hosts, HostException(h) PROVE hostClaim'[a].state = hostClaim[a].state
  BY <1>4, FuseSparesEnded DEF HostException, ClaimOpen
<1>5. ASSUME NEW h \in Hosts, Boot(h) PROVE hostClaim'[a].state = hostClaim[a].state
  BY <1>5, FuseSparesEnded DEF Boot, Overdue
<1>6. ASSUME NEW h \in Hosts, NEW t \in 0 .. RecoveryTicks, ClaimHostExecution(h, t)
      PROVE  hostClaim'[a] = hostClaim[a]
  BY <1>1, <1>6 DEF ClaimHostExecution, Claimable
<1>7. ASSUME NEW h \in Hosts, NEW ok \in BOOLEAN, NEW overrun \in BOOLEAN,
             RecordHostExecution(h, ok, overrun)
      PROVE  hostClaim'[a] = hostClaim[a]
  BY <1>1, <1>7 DEF RecordHostExecution, ClaimOpen
<1>8. ASSUME NEW h \in Hosts, HeartbeatHost(h) PROVE hostClaim'[a] = hostClaim[a]
  BY <1>1, <1>8 DEF HeartbeatHost
<1>9. CASE \E h \in Hosts : HostStep(h) \/ HeartbeatHost(h) \/ Crash(h)
  BY <1>4, <1>5, <1>6, <1>7, <1>8, <1>9 DEF HostStep, Exit, ClaimRefused, Invoke,
     RecordRefused, Crash
<1>10. CASE (\E h \in Hosts, b \in Attempts : ReadScope(h, b)) \/ Tick \/ UNCHANGED vars
  BY <1>10 DEF ReadScope, Tick, ClaimOpen, vars
<1> QED BY <1>2, <1>3, <1>9, <1>10 DEF Next

\* What is over stays over: an ended attempt keeps its row and a settled host claim its
\* outcome, against late results, second recoveries and amendments.
THEOREM EndedNeverMoves == Spec => EndedStays
<1>1. ASSUME IInv, [Next]_vars
      PROVE  [\A a \in Attempts :
                 /\ attempt[a].status \in Ended => attempt'[a] = attempt[a]
                 /\ hostClaim[a].state \in {"COMPLETED", "UNKNOWN_FUSED"} =>
                       hostClaim'[a].state = hostClaim[a].state]_vars
  BY <1>1, EndedAttemptStep, SettledClaimStep
<1> QED BY <1>1, Invariant, PTL DEF Spec, EndedStays
=============================================================================
