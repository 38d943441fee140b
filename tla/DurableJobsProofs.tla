------------------------- MODULE DurableJobsProofs -------------------------
(* Proofs about DurableJobs, for every set of requests, workers and contents. *)
EXTENDS DurableJobs, TLAPS

\* Leases and execution receipts exist only up to the job's generation, and a
\* released lease means that the job has finished.
LeaseHistory ==
    \A r \in Requests, g \in Gens :
        /\ g > job[r].gen => lease[r][g].state = "NONE" /\ execution[r][g] = "NONE"
        /\ lease[r][g].state = "RELEASED" => execution[r][g] # "NONE"

\* A job without a row has never been claimed, a job that can be claimed under
\* MANUAL_ONLY never was.
Unclaimed ==
    \A r \in Requests :
        /\ job[r].state = "ABSENT" => job[r].gen = 0
        /\ job[r].state = "QUEUED" /\ job[r].retry = "MANUAL_ONLY" => job[r].gen = 0

\* What a pump thread remembers about the job it works on.
ProcHolds ==
    \A w \in Workers :
        /\ proc[w].pc \in {"claimed", "executed"} =>
              /\ proc[w].req \in Requests
              /\ proc[w].gen \in Gens
              /\ proc[w].gen <= job[proc[w].req].gen
        /\ proc[w].pc = "executed" =>
              /\ proc[w].outcome \in Outcomes
              /\ w \notin Harvesters => job[proc[w].req].bound

\* Receipt states and versions go together; only a reserved request has a job, a
\* running synchronous command or an effect; a job with a request binding belongs to
\* a durable command and a synchronous step to a synchronous one.
Reserved ==
    \A r \in Requests :
        /\ receipt[r].state = "ABSENT" <=> receipt[r] = NoReceipt
        /\ receipt[r].state = "PENDING" => receipt[r].version = 1
        /\ receipt[r].state # "ABSENT" => receipt[r].digest \in Contents
        /\ receipt[r].state = "ABSENT" =>
              /\ job[r].state = "ABSENT"
              /\ sync[r].pc = "none"
              /\ applied[r] = 0
        /\ job[r].state # "ABSENT" /\ job[r].bound => Plan[receipt[r].digest] # "SYNC"
        /\ job[r].state = "ABSENT" => ~job[r].bound
        /\ sync[r].pc # "none" => Plan[receipt[r].digest] = "SYNC"
        /\ sync[r].pc = "reserved" => applied[r] = 0
        /\ sync[r].pc = "applied" => applied[r] = 1

\* Only a job with a request binding is ever resolved.
Resolved ==
    \A r \in Requests :
        resolution[r] # NoResolution =>
           /\ resolution[r].outcome \in Outcomes
           /\ resolution[r].gen \in Gens
           /\ job[r].state # "ABSENT"
           /\ job[r].bound

IInv ==
    /\ TypeOK /\ LeaseFencing /\ OutcomeIsFinal /\ ManualOnlyRunsOnce
    /\ SettledReceiptHasOneCause /\ AppliedAtMostOnce
    /\ LeaseHistory /\ Unclaimed /\ ProcHolds /\ Reserved /\ Resolved

\* Lease generations are natural numbers and the successor of one is positive.
LEMMA GenNat ==
    ASSUME IInv
    PROVE  \A q \in Requests : job[q] \in Jobs /\ job[q].gen \in Nat
<1>1. \A q \in Requests : job[q] \in Jobs
  BY DEF IInv, TypeOK
<1>2. \A q \in Requests : job[q].gen \in 0 .. MaxGen
  BY <1>1 DEF Jobs
<1>3. \A x \in 0 .. MaxGen : x \in Nat
  BY ConstantsAssumption
<1> QED BY <1>1, <1>2, <1>3, Zenon

\* Accepting a command reserves a receipt (and enqueues its job) or replays the stored one.
LEMMA ExecuteStep ==
    ASSUME IInv, NEW w \in Workers, NEW r \in Requests, NEW c \in Contents, Execute(w, r, c)
    PROVE  IInv'
<1>1. /\ receipt' = [receipt EXCEPT ![r] = [state |-> "PENDING", digest |-> c, version |-> 1]]
      /\ receipt[r].state = "ABSENT"
      /\ UNCHANGED <<lease, execution, resolution, checkpoint, proc, orphans, applied, crashes>>
  BY DEF Execute, Fresh
<1>2. /\ job[r].state = "ABSENT" /\ job[r].gen = 0 /\ applied[r] = 0 /\ sync[r].pc = "none"
      /\ resolution[r] = NoResolution
      /\ \A g \in Gens : lease[r][g].state = "NONE" /\ execution[r][g] = "NONE"
  BY <1>1, SMT, ConstantsAssumption DEF IInv, Unclaimed, Reserved, LeaseHistory, SettledReceiptHasOneCause, Gens
<1>3. /\ job' \in [Requests -> Jobs] /\ arrivals' \in Nat /\ sync' \in [Requests -> Syncs]
      /\ \A q \in Requests \ {r} : job'[q] = job[q] /\ sync'[q] = sync[q]
      /\ job'[r].gen = 0
      /\ job'[r].state \in {"ABSENT", "QUEUED"}
      /\ job'[r].state = "QUEUED" => Plan[c] # "SYNC" 
      /\ job'[r].state = "ABSENT" => ~job'[r].bound
      /\ sync'[r].pc \in {"none", "reserved"}
      /\ sync'[r].pc = "reserved" => Plan[c] = "SYNC"
  <2>1. CASE Plan[c] = "SYNC"
    <3>1. job' = job /\ arrivals' = arrivals
          /\ sync' = [sync EXCEPT ![r] = [pc |-> "reserved", by |-> w]]
      BY <2>1 DEF Execute
    <3>2. [pc |-> "reserved", by |-> w] \in Syncs
      BY DEF Syncs
    <3>3. ~job[r].bound
      BY <1>2 DEF IInv, Reserved
    <3> QED BY <3>1, <3>2, <3>3, <2>1, <1>2 DEF IInv, TypeOK
  <2>2. CASE Plan[c] # "SYNC"
    <3> DEFINE new == [state |-> "QUEUED", gen |-> 0, retry |-> Plan[c], bound |-> TRUE,
                       pos |-> arrivals + 1]
    <3>1. sync' = sync /\ arrivals' = arrivals + 1 /\ job' = [job EXCEPT ![r] = new]
      BY <2>2 DEF Execute, EnqueueInTransaction
    <3>2. new \in Jobs
      BY <2>2, ConstantsAssumption DEF Jobs, JobState, IInv, TypeOK
    <3>3. job' \in [Requests -> Jobs] /\ arrivals' \in Nat
      BY <3>1, <3>2 DEF IInv, TypeOK
    <3>4. job'[r] = new /\ \A q \in Requests \ {r} : job'[q] = job[q]
      BY <3>1 DEF IInv, TypeOK
    <3> QED BY <3>1, <3>3, <3>4, <2>2, <1>2 DEF IInv, TypeOK
  <2> QED BY <2>1, <2>2
<1>4. TypeOK'
  <2>1. [state |-> "PENDING", digest |-> c, version |-> 1] \in Receipts
    BY DEF Receipts
  <2> QED BY <2>1, <1>1, <1>3 DEF IInv, TypeOK
<1>5. LeaseFencing'
  BY <1>1, <1>2, <1>3 DEF IInv, LeaseFencing, Executing
<1>6. OutcomeIsFinal'
  BY <1>1, <1>2, <1>3 DEF IInv, OutcomeIsFinal
<1>7. ManualOnlyRunsOnce' /\ Unclaimed' /\ LeaseHistory'
  BY <1>1, <1>2, <1>3 DEF IInv, ManualOnlyRunsOnce, Unclaimed, LeaseHistory
<1>8. SettledReceiptHasOneCause' 
  BY <1>1, <1>2, <1>3 DEF IInv, SettledReceiptHasOneCause, TypeOK
<1>8a. AppliedAtMostOnce'
  BY <1>1, <1>2, <1>3 DEF IInv, AppliedAtMostOnce, TypeOK
<1>8b. Resolved'
  BY <1>1, <1>2, <1>3 DEF IInv, Resolved
<1>9. ProcHolds'
  BY <1>1, <1>2, <1>3, ConstantsAssumption DEF IInv, ProcHolds, Gens
<1>10. Reserved'
  BY <1>1, <1>2, <1>3 DEF IInv, Reserved, NoReceipt, TypeOK
<1> QED BY <1>4, <1>5, <1>6, <1>7, <1>8, <1>8a, <1>8b, <1>9, <1>10 DEF IInv

\* A step that only moves processes.
LEMMA ProcOnly ==
    ASSUME IInv,
           UNCHANGED <<receipt, job, arrivals, lease, execution, resolution, checkpoint, sync,
                       applied, crashes>>,
           proc' \in [Workers -> Procs], orphans' \in [Workers -> SUBSET Requests],
           ProcHolds'
    PROVE  IInv'
<1>1. TypeOK'
  BY DEF IInv, TypeOK
<1>2. LeaseFencing' /\ OutcomeIsFinal' /\ LeaseHistory'
  BY DEF IInv, LeaseFencing, OutcomeIsFinal, LeaseHistory
<1>3. ManualOnlyRunsOnce' /\ Unclaimed' /\ Resolved' /\ AppliedAtMostOnce'
  BY DEF IInv, ManualOnlyRunsOnce, Unclaimed, Resolved, AppliedAtMostOnce
<1>4. SettledReceiptHasOneCause' /\ Reserved'
  BY DEF IInv, SettledReceiptHasOneCause, Reserved
<1> QED BY <1>1, <1>2, <1>3, <1>4 DEF IInv

\* The process of w stops, for whatever reason.
LEMMA StopStep ==
    ASSUME IInv, NEW w \in Workers, Stop(w), crashes' \in 0 .. MaxCrashes,
           UNCHANGED <<receipt, job, arrivals, lease, execution, resolution, checkpoint, applied>>
    PROVE  IInv'
<1>1. /\ Down \in Procs /\ NoSync \in Syncs
  BY ConstantsAssumption DEF Down, Idle, Procs, NoSync, Syncs
<1>2. /\ proc' = [proc EXCEPT ![w] = Down]
      /\ \A r \in Requests : sync'[r] = sync[r] \/ sync'[r] = NoSync
      /\ sync' \in [Requests -> Syncs]
  BY <1>1 DEF Stop, IInv, TypeOK
<1>3. TypeOK'
  BY <1>1, <1>2 DEF IInv, TypeOK, Stop
<1>4. LeaseFencing' /\ OutcomeIsFinal' /\ LeaseHistory'
  BY DEF IInv, LeaseFencing, OutcomeIsFinal, LeaseHistory
<1>5. ManualOnlyRunsOnce' /\ Unclaimed' /\ Resolved' /\ AppliedAtMostOnce'
  BY DEF IInv, ManualOnlyRunsOnce, Unclaimed, Resolved, AppliedAtMostOnce
<1>6. SettledReceiptHasOneCause'
  BY DEF IInv, SettledReceiptHasOneCause
<1>7. Reserved'
  BY <1>2 DEF IInv, Reserved, NoSync
<1>8. ProcHolds'
  BY <1>2 DEF IInv, TypeOK, ProcHolds, Down, Idle
<1> QED BY <1>3, <1>4, <1>5, <1>6, <1>7, <1>8 DEF IInv

\* Applying a synchronous command and deciding its receipt keep the invariant.
LEMMA SyncStepInv ==
    ASSUME IInv, NEW r \in Requests, SyncStep(r)
    PROVE  IInv'
<1>0. NoSync \in Syncs
  BY DEF NoSync, Syncs
<1>1. CASE ApplyAuthority(r)
  <2>1. /\ sync[r].pc = "reserved" /\ applied[r] = 0 /\ Plan[receipt[r].digest] = "SYNC"
        /\ receipt[r].state # "ABSENT"
    BY <1>1 DEF ApplyAuthority, IInv, Reserved
  <2>3. resolution[r] = NoResolution
    BY <2>1 DEF IInv, Resolved, Reserved
  <2>2. receipt[r].state \notin {"DECIDED", "OUTCOME_UNKNOWN"}
    BY <2>1, <2>3 DEF IInv, SettledReceiptHasOneCause
  <2>4. TypeOK'
    <3>1. sync' \in [Requests -> Syncs]
      BY <1>1 DEF ApplyAuthority, IInv, TypeOK, Syncs
    <3> QED BY <3>1, <1>1 DEF ApplyAuthority, IInv, TypeOK
  <2>5. LeaseFencing' /\ OutcomeIsFinal' /\ LeaseHistory' /\ ProcHolds'
    BY <1>1 DEF ApplyAuthority, IInv, LeaseFencing, OutcomeIsFinal, LeaseHistory, ProcHolds
  <2>6. ManualOnlyRunsOnce' /\ Unclaimed' /\ Resolved' /\ AppliedAtMostOnce'
    BY <1>1, <2>1 DEF ApplyAuthority, IInv, ManualOnlyRunsOnce, Unclaimed, Resolved, AppliedAtMostOnce, TypeOK
  <2>7. SettledReceiptHasOneCause'
    BY <1>1, <2>1, <2>2, <2>3 DEF ApplyAuthority, IInv, SettledReceiptHasOneCause, TypeOK
  <2>8. Reserved'
    BY <1>1, <2>1 DEF ApplyAuthority, IInv, Reserved, TypeOK, Syncs
  <2> QED BY <2>4, <2>5, <2>6, <2>7, <2>8 DEF IInv
<1>2. CASE ApplyRaises(r)
  <2>4. TypeOK'
    BY <1>0, <1>2 DEF ApplyRaises, IInv, TypeOK
  <2>5. LeaseFencing' /\ OutcomeIsFinal' /\ LeaseHistory' /\ ProcHolds'
    BY <1>2 DEF ApplyRaises, IInv, LeaseFencing, OutcomeIsFinal, LeaseHistory, ProcHolds
  <2>6. ManualOnlyRunsOnce' /\ Unclaimed' /\ Resolved' /\ AppliedAtMostOnce'
    BY <1>2 DEF ApplyRaises, IInv, ManualOnlyRunsOnce, Unclaimed, Resolved, AppliedAtMostOnce
  <2>7. SettledReceiptHasOneCause'
    BY <1>2 DEF ApplyRaises, IInv, SettledReceiptHasOneCause
  <2>8. Reserved'
    BY <1>2 DEF ApplyRaises, IInv, Reserved, TypeOK, NoSync
  <2> QED BY <2>4, <2>5, <2>6, <2>7, <2>8 DEF IInv
<1>3. CASE Decide(r)
  <2>1. /\ sync[r].pc = "applied" /\ applied[r] = 1 /\ Plan[receipt[r].digest] = "SYNC"
        /\ receipt[r].state # "ABSENT"
        /\ receipt[r].state = "PENDING" => receipt[r].version = 1
    BY <1>3 DEF Decide, IInv, Reserved
  <2>2. resolution[r] = NoResolution
    BY <2>1 DEF IInv, SettledReceiptHasOneCause
  <2>3. /\ receipt' \in [Requests -> Receipts]
        /\ \A q \in Requests : /\ receipt'[q].digest = receipt[q].digest
                               /\ q # r => receipt'[q] = receipt[q]
        /\ receipt'[r].state = receipt[r].state \/ receipt'[r].state = "DECIDED"
        /\ receipt'[r].state = "PENDING" => receipt'[r] = receipt[r]
    <3>1. CASE receipt[r].state = "PENDING"
      <4>1. receipt[r].digest \in Contents \cup {NoContent}
        BY DEF IInv, TypeOK, Receipts
      <4>2. /\ Settled(receipt[r], "DECIDED") \in Receipts
            /\ Settled(receipt[r], "DECIDED").digest = receipt[r].digest
            /\ Settled(receipt[r], "DECIDED").state = "DECIDED"
        BY <4>1, <2>1, <3>1 DEF Settled, Receipts
      <4>3. receipt' = [receipt EXCEPT ![r] = Settled(receipt[r], "DECIDED")]
        BY <1>3, <3>1 DEF Decide, IInv, TypeOK
      <4> QED BY <4>2, <4>3 DEF IInv, TypeOK
    <3>2. CASE receipt[r].state # "PENDING"
      BY <1>3, <3>2 DEF Decide, IInv, TypeOK
    <3> QED BY <3>1, <3>2
  <2>4. TypeOK'
    BY <1>0, <1>3, <2>3 DEF Decide, IInv, TypeOK
  <2>5. LeaseFencing' /\ OutcomeIsFinal' /\ LeaseHistory' /\ ProcHolds'
    BY <1>3 DEF Decide, IInv, LeaseFencing, OutcomeIsFinal, LeaseHistory, ProcHolds
  <2>6. ManualOnlyRunsOnce' /\ Unclaimed' /\ Resolved' /\ AppliedAtMostOnce'
    BY <1>3, <2>3 DEF Decide, IInv, ManualOnlyRunsOnce, Unclaimed, Resolved, AppliedAtMostOnce
  <2>7. SettledReceiptHasOneCause'
    BY <1>3, <2>1, <2>2, <2>3 DEF Decide, IInv, SettledReceiptHasOneCause
  <2>8. Reserved'
    <3>1. /\ \A q \in Requests : job'[q] = job[q] /\ applied'[q] = applied[q]
          /\ \A q \in Requests \ {r} : sync'[q] = sync[q]
          /\ sync'[r].pc = "none"
      BY <1>3 DEF Decide, IInv, TypeOK, NoSync
    <3>2. receipt'[r].state # "ABSENT" /\ receipt'[r] # NoReceipt
      BY <2>1, <2>3 DEF NoReceipt
    <3> QED BY <3>1, <3>2, <2>1, <2>3 DEF IInv, Reserved
  <2> QED BY <2>4, <2>5, <2>6, <2>7, <2>8 DEF IInv
<1> QED BY <1>1, <1>2, <1>3 DEF SyncStep

\* claim_next opens a generation newer than every earlier lease of the job.
LEMMA ClaimStep ==
    ASSUME IInv, NEW w \in Workers, NEW r \in Requests, ClaimNext(w, r)
    PROVE  IInv'
<1>1. /\ job[r].state = "QUEUED" /\ job[r].gen \in Nat /\ job[r].gen < MaxGen
      /\ job[r].retry = "MANUAL_ONLY" => job[r].gen = 0
  <2>1. job[r] \in Jobs
    BY DEF IInv, TypeOK
  <2> QED BY <2>1, ConstantsAssumption DEF ClaimNext, NextQueued, IInv, Jobs, Unclaimed
<1>g. PICK g \in Gens : g = job[r].gen + 1
  BY <1>1, ConstantsAssumption DEF Gens
<1>2. /\ job' = [job EXCEPT ![r].state = "RUNNING", ![r].gen = g]
      /\ lease' = [lease EXCEPT ![r][g] = [state |-> "ACTIVE", holder |-> w, ttl |-> LeaseTicks]]
      /\ proc' = [proc EXCEPT ![w] = [pc |-> "claimed", req |-> r, gen |-> g, outcome |-> "NONE"]]
  BY <1>g DEF ClaimNext
<1>u. UNCHANGED <<receipt, arrivals, execution, resolution, checkpoint, orphans, sync, applied, crashes>>
  BY DEF ClaimNext
<1>3. /\ \A q \in Requests : /\ job'[q].retry = job[q].retry /\ job'[q].bound = job[q].bound
                             /\ q # r => job'[q] = job[q] /\ lease'[q] = lease[q]
      /\ job'[r].state = "RUNNING" /\ job'[r].gen = g
      /\ \A h \in Gens : h # g => lease'[r][h] = lease[r][h]
      /\ lease'[r][g].state = "ACTIVE"
  BY <1>2 DEF IInv, TypeOK, Jobs
<1>4. /\ \A h \in Gens : execution[r][h] = "NONE" /\ lease[r][h].state \notin {"ACTIVE", "RELEASED"}
      /\ resolution[r] = NoResolution
  <2>1. \A h \in Gens : execution[r][h] = "NONE"
    <3>1. \A h \in Gens : execution[r][h] \in Outcomes \cup {"NONE"}
      BY DEF IInv, TypeOK
    <3> QED BY <3>1, <1>1 DEF IInv, OutcomeIsFinal, Outcomes
  <2>2. \A h \in Gens : lease[r][h].state \notin {"ACTIVE", "RELEASED"}
    BY <1>1, <2>1 DEF IInv, LeaseFencing, LeaseHistory, Executing
  <2>3. resolution[r] = NoResolution
    BY <2>1 DEF IInv, Resolved, SettledReceiptHasOneCause, Outcomes
  <2> QED BY <2>1, <2>2, <2>3
<1>5. TypeOK'
  <2>1. [state |-> "ACTIVE", holder |-> w, ttl |-> LeaseTicks] \in Leases
    BY ConstantsAssumption DEF Leases
  <2>2. [pc |-> "claimed", req |-> r, gen |-> g, outcome |-> "NONE"] \in Procs
    BY DEF Procs, Gens
  <2>3. [job[r] EXCEPT !.state = "RUNNING", !.gen = g] \in Jobs
    <3>1. job[r] \in Jobs
      BY DEF IInv, TypeOK
    <3>2. g \in 0 .. MaxGen
      BY ConstantsAssumption DEF Gens
    <3>3. "RUNNING" \in JobState
      BY DEF JobState, Executing
    <3> QED BY <3>1, <3>2, <3>3 DEF Jobs
  <2>4. job' = [job EXCEPT ![r] = [job[r] EXCEPT !.state = "RUNNING", !.gen = g]]
    BY <1>2 DEF IInv, TypeOK
  <2>5. job' \in [Requests -> Jobs] 
    BY <2>3, <2>4 DEF IInv, TypeOK
  <2> QED BY <1>2, <1>u, <2>1, <2>2, <2>5 DEF IInv, TypeOK
<1>6. LeaseFencing'
  BY <1>3, <1>4 DEF IInv, LeaseFencing, Executing
<1>7. OutcomeIsFinal'
  BY <1>u, <1>3, <1>4 DEF IInv, OutcomeIsFinal
<1>7a. LeaseHistory'
  BY <1>g, <1>1, <1>u, <1>3, <1>4 DEF IInv, LeaseHistory, Gens
<1>8. ManualOnlyRunsOnce' /\ Unclaimed'
  BY <1>1, <1>g, <1>3 DEF IInv, ManualOnlyRunsOnce, Unclaimed
<1>8a. Resolved' /\ AppliedAtMostOnce'
  BY <1>u, <1>3, <1>4 DEF IInv, Resolved, AppliedAtMostOnce
<1>9. SettledReceiptHasOneCause'
  BY <1>u, <1>3, <1>4 DEF IInv, SettledReceiptHasOneCause
<1>10. ProcHolds'
  <2>1. proc'[w].pc = "claimed" /\ proc'[w].req = r /\ proc'[w].gen = g
    BY <1>2 DEF IInv, TypeOK
  <2>2. \A v \in Workers : v # w => proc'[v] = proc[v]
    BY <1>2 DEF IInv, TypeOK
  <2>3. \A q \in Requests : job[q].gen \in Nat /\ job'[q].gen \in Nat /\ job'[q].gen >= job[q].gen
    BY GenNat, <1>1, <1>g, <1>3 DEF Gens
  <2> QED BY <2>1, <2>2, <2>3, <1>3 DEF IInv, ProcHolds, Gens
<1>11. Reserved'
  BY <1>1, <1>u, <1>3 DEF IInv, Reserved
<1> QED BY <1>5, <1>6, <1>7, <1>7a, <1>8, <1>8a, <1>9, <1>10, <1>11 DEF IInv

\* Heartbeats and the clock change how long leases have left, nothing else.
LEMMA LeaseTimeStep ==
    ASSUME IInv, lease' \in [Requests -> [Gens -> Leases]],
           \A r \in Requests, g \in Gens : lease'[r][g].state = lease[r][g].state,
           UNCHANGED <<receipt, job, arrivals, execution, resolution, checkpoint, proc, orphans,
                       sync, applied, crashes>>
    PROVE  IInv'
<1>1. TypeOK'
  BY DEF IInv, TypeOK
<1>2. LeaseFencing' /\ OutcomeIsFinal' /\ LeaseHistory'
  BY DEF IInv, LeaseFencing, OutcomeIsFinal, LeaseHistory
<1>3. ManualOnlyRunsOnce' /\ Unclaimed' /\ Resolved' /\ AppliedAtMostOnce' /\ ProcHolds'
  BY DEF IInv, ManualOnlyRunsOnce, Unclaimed, Resolved, AppliedAtMostOnce, ProcHolds
<1>4. SettledReceiptHasOneCause' /\ Reserved'
  BY DEF IInv, SettledReceiptHasOneCause, Reserved
<1> QED BY <1>1, <1>2, <1>3, <1>4 DEF IInv

\* A heartbeat of the lease holder keeps the invariant.
LEMMA HeartbeatStep ==
    ASSUME IInv, NEW w \in Workers, Heartbeat(w)
    PROVE  IInv'
<1>1. PICK r \in Requests, g \in Gens : lease' = [lease EXCEPT ![r][g].ttl = LeaseTicks]
  BY DEF Heartbeat, IInv, ProcHolds
<1>2. lease[r][g] \in Leases
  BY DEF IInv, TypeOK
<1>3. [lease[r][g] EXCEPT !.ttl = LeaseTicks] \in Leases
  BY <1>2, ConstantsAssumption DEF Leases
<1>4. /\ lease' \in [Requests -> [Gens -> Leases]]
      /\ \A q \in Requests, h \in Gens : lease'[q][h].state = lease[q][h].state
  BY <1>1, <1>2, <1>3 DEF IInv, TypeOK, Leases
<1> QED BY <1>4, LeaseTimeStep DEF Heartbeat

\* The passing of time keeps the invariant.
LEMMA TickStep ==
    ASSUME IInv, Tick
    PROVE  IInv'
<1>1. \A r \in Requests, g \in Gens :
         /\ lease'[r][g] = IF lease[r][g].state = "ACTIVE" /\ lease[r][g].ttl > 0
                             THEN [lease[r][g] EXCEPT !.ttl = @ - 1] ELSE lease[r][g]
         /\ lease[r][g] \in Leases
  BY DEF Tick, IInv, TypeOK
<1>2. \A r \in Requests, g \in Gens :
         lease'[r][g] \in Leases /\ lease'[r][g].state = lease[r][g].state
  <2> SUFFICES ASSUME NEW r \in Requests, NEW g \in Gens
               PROVE  lease'[r][g] \in Leases /\ lease'[r][g].state = lease[r][g].state
    OBVIOUS
  <2> DEFINE l == lease[r][g]
  <2>1. l \in Leases /\ l.ttl \in 0 .. LeaseTicks
    BY <1>1 DEF Leases
  <2>2. l.ttl > 0 => [l EXCEPT !.ttl = @ - 1] \in Leases /\ [l EXCEPT !.ttl = @ - 1].state = l.state
    BY <2>1, ConstantsAssumption DEF Leases
  <2> QED BY <1>1, <2>1, <2>2
<1>3. lease' \in [Requests -> [Gens -> Leases]]
  BY <1>2 DEF Tick
<1> QED BY <1>2, <1>3, LeaseTimeStep DEF Tick

\* A step of the pump thread that only looks, or that fails and stops the daemon.
LEMMA ExecuteJobStep ==
    ASSUME IInv, NEW w \in Workers, NEW o \in Outcomes, ExecuteJob(w, o)
    PROVE  IInv'
<1>1. /\ proc' = [proc EXCEPT ![w].pc = "executed", ![w].outcome = o]
      /\ UNCHANGED <<receipt, job, arrivals, lease, execution, resolution, checkpoint, orphans,
                     sync, applied, crashes>>
      /\ proc[w].pc = "claimed"
      /\ w \notin Harvesters => job[proc[w].req].bound
  BY DEF ExecuteJob
<1>2. proc[w] \in Procs
  BY DEF IInv, TypeOK
<1>3. proc' \in [Workers -> Procs] /\ orphans' \in [Workers -> SUBSET Requests]
  <2>1. [proc[w] EXCEPT !.pc = "executed", !.outcome = o] \in Procs
    BY <1>2 DEF Procs
  <2>2. proc' = [proc EXCEPT ![w] = [proc[w] EXCEPT !.pc = "executed", !.outcome = o]]
    BY <1>1 DEF IInv, TypeOK
  <2> QED BY <1>1, <2>1, <2>2 DEF IInv, TypeOK
<1>4. /\ \A v \in Workers : v # w => proc'[v] = proc[v]
      /\ proc'[w].req = proc[w].req /\ proc'[w].gen = proc[w].gen
      /\ proc'[w].pc = "executed" /\ proc'[w].outcome = o
  BY <1>1, <1>2 DEF IInv, TypeOK, Procs
<1>5. ProcHolds'
  BY <1>1, <1>4 DEF IInv, ProcHolds
<1> QED BY <1>1, <1>3, <1>5, ProcOnly

\* A pump that finds nothing to do keeps the invariant.
LEMMA GoIdleStep ==
    ASSUME IInv, NEW w \in Workers, proc' = [proc EXCEPT ![w] = Idle],
           \A q \in Requests : job'[q].gen = job[q].gen /\ job'[q].bound = job[q].bound
    PROVE  proc' \in [Workers -> Procs] /\ ProcHolds'
<1>1. Idle \in Procs
  BY ConstantsAssumption DEF Idle, Procs
<1>2. proc' \in [Workers -> Procs]
  BY <1>1 DEF IInv, TypeOK
<1>3. \A v \in Workers : proc'[v] = proc[v] \/ proc'[v].pc = "idle"
  BY DEF IInv, TypeOK, Idle
<1> QED BY <1>2, <1>3 DEF IInv, ProcHolds

\* Resolving a receipt that is already settled the same way keeps the invariant.
LEMMA ResolveReplayStep ==
    ASSUME IInv, NEW w \in Workers, ResolveReplay(w)
    PROVE  IInv'
<1>1. ProcHolds' /\ proc' \in [Workers -> Procs]
  BY GoIdleStep DEF ResolveReplay
<1> QED BY <1>1, ProcOnly DEF ResolveReplay, IInv, TypeOK

\* What both commit paths write, under the fence, keeps jobs, leases and execution
\* receipts in step.
LEMMA CommitStep ==
    ASSUME IInv, NEW r \in Requests, NEW g \in Gens, NEW o \in Outcomes,
           Fence(r, g, o), CommitExecution(r, g, o)
    PROVE  /\ job' \in [Requests -> Jobs]
           /\ lease' \in [Requests -> [Gens -> Leases]]
           /\ execution' \in [Requests -> [Gens -> Outcomes \cup {"NONE"}]]
           /\ \A q \in Requests : /\ job'[q].gen = job[q].gen /\ job'[q].bound = job[q].bound
                                  /\ job'[q].retry = job[q].retry
                                  /\ q # r => job'[q].state = job[q].state /\ execution'[q] = execution[q]
           /\ job'[r].state = o /\ job[r].gen = g /\ execution'[r][g] = o
           /\ job[r].state # "ABSENT" /\ resolution[r] = NoResolution
           /\ LeaseFencing' /\ OutcomeIsFinal' /\ LeaseHistory'
           /\ ManualOnlyRunsOnce' /\ Unclaimed'
<1>1. /\ job[r].gen = g /\ job[r].state \in Executing /\ lease[r][g].state = "ACTIVE"
  BY DEF Fence
<1>2. /\ job' = [job EXCEPT ![r] = [job[r] EXCEPT !.state = o]]
      /\ execution' = [execution EXCEPT ![r] = [execution[r] EXCEPT ![g] = o]]
      /\ lease' = [lease EXCEPT ![r] = [lease[r] EXCEPT ![g] = [lease[r][g] EXCEPT !.state = "RELEASED"]]]
  BY DEF CommitExecution, IInv, TypeOK
<1>3. job[r] \in Jobs /\ lease[r][g] \in Leases
  BY DEF IInv, TypeOK
<1>4. [job[r] EXCEPT !.state = o] \in Jobs /\ [lease[r][g] EXCEPT !.state = "RELEASED"] \in Leases
  BY <1>3 DEF Jobs, JobState, Terminal, Outcomes, Leases
<1>5. /\ job' \in [Requests -> Jobs]
      /\ lease' \in [Requests -> [Gens -> Leases]]
      /\ execution' \in [Requests -> [Gens -> Outcomes \cup {"NONE"}]]
  BY <1>2, <1>4 DEF IInv, TypeOK
<1>6. /\ \A q \in Requests : /\ job'[q].gen = job[q].gen /\ job'[q].bound = job[q].bound
                             /\ job'[q].retry = job[q].retry
                             /\ q # r => job'[q].state = job[q].state
      /\ job'[r].state = o
  BY <1>2, <1>3 DEF IInv, TypeOK, Jobs
<1>7. /\ \A q \in Requests : q # r => execution'[q] = execution[q] /\ lease'[q] = lease[q]
      /\ \A h \in Gens : h # g => execution'[r][h] = execution[r][h] /\ lease'[r][h] = lease[r][h]
      /\ execution'[r][g] = o /\ lease'[r][g].state = "RELEASED"
  BY <1>2, <1>3 DEF IInv, TypeOK, Leases
<1>8. \A h \in Gens : execution[r][h] = "NONE" /\ (lease[r][h].state = "ACTIVE" => h = g)
  <2>1. \A h \in Gens : execution[r][h] \in Outcomes \cup {"NONE"}
    BY DEF IInv, TypeOK
  <2> QED BY <1>1, <2>1 DEF IInv, OutcomeIsFinal, LeaseFencing, Executing, Outcomes
<1>9. resolution[r] = NoResolution
  BY <1>1, <1>8 DEF IInv, Resolved, SettledReceiptHasOneCause, Outcomes
<1>10. LeaseFencing'
  BY <1>1, <1>6, <1>7, <1>8 DEF IInv, LeaseFencing, Executing, Outcomes
<1>11. OutcomeIsFinal'
  BY <1>1, <1>6, <1>7, <1>8 DEF IInv, OutcomeIsFinal
<1>12. LeaseHistory'
  BY <1>1, <1>6, <1>7, <1>8 DEF IInv, LeaseHistory, Outcomes, Gens
<1>13. ManualOnlyRunsOnce' /\ Unclaimed'
  BY <1>6 DEF IInv, ManualOnlyRunsOnce, Unclaimed, Outcomes
<1> QED BY <1>1, <1>5, <1>6, <1>7, <1>9, <1>10, <1>11, <1>12, <1>13 DEF Executing

\* record_execution under the fence writes the one execution receipt of a generation.
LEMMA HarvestStep ==
    ASSUME IInv, NEW w \in Workers, Harvest(w)
    PROVE  IInv'
<1>1. PICK r \in Requests, g \in Gens, o \in Outcomes :
         r = proc[w].req /\ g = proc[w].gen /\ o = proc[w].outcome
  BY DEF Harvest, IInv, ProcHolds
<1>2. /\ UNCHANGED <<receipt, arrivals, resolution, checkpoint, orphans, sync, applied, crashes>>
      /\ proc' = [proc EXCEPT ![w] = Idle]
  BY DEF Harvest
<1>3. CASE Fence(r, g, o)
  <2>1. CommitExecution(r, g, o)
    BY <1>1, <1>3 DEF Harvest
  <2>2. /\ job' \in [Requests -> Jobs]
        /\ lease' \in [Requests -> [Gens -> Leases]]
        /\ execution' \in [Requests -> [Gens -> Outcomes \cup {"NONE"}]]
        /\ \A q \in Requests : /\ job'[q].gen = job[q].gen /\ job'[q].bound = job[q].bound
                               /\ q # r => job'[q].state = job[q].state /\ execution'[q] = execution[q]
        /\ job'[r].state = o /\ job[r].state # "ABSENT" /\ resolution[r] = NoResolution
    BY <2>1, <1>3, CommitStep
  <2>3. LeaseFencing' /\ OutcomeIsFinal' /\ LeaseHistory' /\ ManualOnlyRunsOnce' /\ Unclaimed'
    BY <2>1, <1>3, CommitStep
  <2>4. ProcHolds' /\ proc' \in [Workers -> Procs]
    BY <2>2, <1>2, GoIdleStep
  <2>5. TypeOK'
    BY <1>2, <2>2, <2>4 DEF IInv, TypeOK
  <2>6. Resolved' /\ AppliedAtMostOnce'
    BY <1>2, <2>2 DEF IInv, Resolved, AppliedAtMostOnce
  <2>7. SettledReceiptHasOneCause'
    BY <1>2, <2>2 DEF IInv, SettledReceiptHasOneCause
  <2>8. Reserved'
    BY <1>2, <2>2 DEF IInv, Reserved, Outcomes
  <2> QED BY <2>3, <2>4, <2>5, <2>6, <2>7, <2>8 DEF IInv
<1>4. CASE ~Fence(r, g, o)
  <2>1. UNCHANGED <<execution, lease, job>>
    BY <1>1, <1>4 DEF Harvest
  <2>2. ProcHolds' /\ proc' \in [Workers -> Procs]
    BY <2>1, <1>2, GoIdleStep
  <2> QED BY <1>2, <2>1, <2>2, ProcOnly DEF IInv, TypeOK
<1> QED BY <1>3, <1>4

\* DurableResultResolver.resolve settles the product receipt from the recorded outcome.
LEMMA ResolveStep ==
    ASSUME IInv, NEW w \in Workers, Resolve(w)
    PROVE  IInv'
<1>1. PICK r \in Requests, g \in Gens, o \in Outcomes :
         r = proc[w].req /\ g = proc[w].gen /\ o = proc[w].outcome
  BY DEF Resolve, IInv, ProcHolds
<1>2. /\ UNCHANGED <<arrivals, checkpoint, orphans, sync, applied, crashes>>
      /\ proc' = [proc EXCEPT ![w] = Idle]
  BY DEF Resolve
<1>3. /\ Fence(r, g, o) /\ CommitExecution(r, g, o) /\ receipt[r].state = "PENDING"
      /\ receipt' = [receipt EXCEPT ![r] =
                       Settled(@, IF o = "OUTCOME_UNKNOWN" THEN o ELSE "DECIDED")]
      /\ resolution' = [resolution EXCEPT ![r] = [gen |-> g, outcome |-> o]]
  BY <1>1 DEF Resolve
<1>4. /\ job' \in [Requests -> Jobs]
      /\ lease' \in [Requests -> [Gens -> Leases]]
      /\ execution' \in [Requests -> [Gens -> Outcomes \cup {"NONE"}]]
      /\ \A q \in Requests : /\ job'[q].gen = job[q].gen /\ job'[q].bound = job[q].bound
                             /\ q # r => job'[q].state = job[q].state /\ execution'[q] = execution[q]
      /\ job'[r].state = o /\ job[r].gen = g /\ execution'[r][g] = o
      /\ job[r].state # "ABSENT" /\ resolution[r] = NoResolution
  BY <1>3, CommitStep
<1>5. LeaseFencing' /\ OutcomeIsFinal' /\ LeaseHistory' /\ ManualOnlyRunsOnce' /\ Unclaimed'
  BY <1>3, CommitStep
<1>6. ProcHolds' /\ proc' \in [Workers -> Procs]
  BY <1>2, <1>4, GoIdleStep
<1>7. job[r].bound /\ Plan[receipt[r].digest] # "SYNC" /\ receipt[r].version = 1
  <2>1. job[r].bound
    BY <1>1 DEF Resolve, IInv, ProcHolds
  <2> QED BY <1>3, <1>4, <2>1 DEF IInv, Reserved
<1>7a. applied[r] = 0
  BY <1>7 DEF IInv, AppliedAtMostOnce, TypeOK
<1>8. /\ receipt' \in [Requests -> Receipts]
      /\ \A q \in Requests : /\ receipt'[q].digest = receipt[q].digest
                             /\ q # r => receipt'[q] = receipt[q]
      /\ receipt'[r].state = IF o = "OUTCOME_UNKNOWN" THEN "OUTCOME_UNKNOWN" ELSE "DECIDED"
  <2>1. receipt[r].digest \in Contents \cup {NoContent}
    BY DEF IInv, TypeOK, Receipts
  <2>2. PICK f \in {"DECIDED", "OUTCOME_UNKNOWN"} :
           f = IF o = "OUTCOME_UNKNOWN" THEN "OUTCOME_UNKNOWN" ELSE "DECIDED"
    OBVIOUS
  <2>3. receipt' = [receipt EXCEPT ![r] = Settled(receipt[r], f)]
    BY <1>3, <2>2 DEF IInv, TypeOK
  <2>4. /\ Settled(receipt[r], f) \in Receipts
        /\ Settled(receipt[r], f).digest = receipt[r].digest
        /\ Settled(receipt[r], f).state = f
    BY <1>7, <2>1 DEF Settled, Receipts
  <2> QED BY <2>2, <2>3, <2>4 DEF IInv, TypeOK
<1>9. /\ resolution' \in [Requests -> Resolutions]
      /\ \A q \in Requests : q # r => resolution'[q] = resolution[q]
      /\ resolution'[r].gen = g /\ resolution'[r].outcome = o
  <2>1. [gen |-> g, outcome |-> o] \in Resolutions
    BY ConstantsAssumption DEF Resolutions, Gens
  <2> QED BY <2>1, <1>3 DEF IInv, TypeOK
<1>10. TypeOK'
  BY <1>2, <1>4, <1>6, <1>8, <1>9 DEF IInv, TypeOK
<1>11. Resolved'
  BY <1>4, <1>7, <1>9 DEF IInv, Resolved, Outcomes
<1>12. AppliedAtMostOnce'
  BY <1>2, <1>8 DEF IInv, AppliedAtMostOnce
<1>13. SettledReceiptHasOneCause'
  <2>1. resolution'[r] # NoResolution
    BY <1>9 DEF NoResolution, Outcomes
  <2>2. \A q \in Requests \ {r} :
           /\ resolution'[q] = resolution[q] /\ applied'[q] = applied[q]
           /\ job'[q].gen = job[q].gen /\ execution'[q] = execution[q] /\ receipt'[q] = receipt[q]
    BY <1>2, <1>4, <1>8, <1>9
  <2>3. SettledReceiptHasOneCause!(r)'
    BY <2>1, <1>2, <1>4, <1>7a, <1>8, <1>9
  <2> QED BY <2>2, <2>3 DEF IInv, SettledReceiptHasOneCause
<1>14. Reserved'
  <2>1. receipt'[r].state \notin {"ABSENT", "PENDING"} /\ receipt'[r] # NoReceipt
    BY <1>8 DEF NoReceipt
  <2>2. receipt[r].digest \in Contents
    BY <1>3 DEF IInv, Reserved
  <2> QED BY <2>1, <2>2, <1>2, <1>4, <1>7, <1>7a, <1>8 DEF IInv, Reserved, Outcomes
<1> QED BY <1>5, <1>6, <1>10, <1>11, <1>12, <1>13, <1>14 DEF IInv

\* A step that changes only the state of one job, keeping its lease discipline.
LEMMA JobStateStep ==
    ASSUME IInv, NEW r \in Requests, NEW st \in JobState,
           job[r].state \in JobState, job' = [job EXCEPT ![r].state = st]
    PROVE  /\ job' \in [Requests -> Jobs]
           /\ \A q \in Requests : /\ job'[q].gen = job[q].gen /\ job'[q].bound = job[q].bound
                                  /\ job'[q].retry = job[q].retry
                                  /\ q # r => job'[q] = job[q]
           /\ job'[r].state = st
<1>1. job[r] \in Jobs
  BY DEF IInv, TypeOK
<1>2. [job[r] EXCEPT !.state = st] \in Jobs
  BY <1>1 DEF Jobs
<1>3. job' = [job EXCEPT ![r] = [job[r] EXCEPT !.state = st]]
  BY DEF IInv, TypeOK
<1>4. job' \in [Requests -> Jobs]
  BY <1>2, <1>3 DEF IInv, TypeOK
<1> QED BY <1>1, <1>3, <1>4 DEF IInv, TypeOK, Jobs

\* request_cancel of a queued, running or finished job keeps the invariant.
LEMMA RequestCancelStep ==
    ASSUME IInv, NEW r \in Requests, RequestCancel(r)
    PROVE  IInv'
<1>1. PICK st \in {"CANCELLED", "CANCEL_REQUESTED"} :
         /\ job' = [job EXCEPT ![r].state = st]
         /\ IF st = "CANCELLED" THEN job[r].state = "QUEUED" ELSE job[r].state \in Executing
  BY DEF RequestCancel, Executing, IInv, TypeOK
<1>2. job[r].state \in {"QUEUED", "RUNNING", "CANCEL_REQUESTED"}
  BY DEF RequestCancel, Executing
<1>3. st \in JobState /\ job[r].state \in JobState
  BY <1>2 DEF JobState, Executing, Terminal
<1>4. /\ job' \in [Requests -> Jobs]
      /\ \A q \in Requests : /\ job'[q].gen = job[q].gen /\ job'[q].bound = job[q].bound
                             /\ job'[q].retry = job[q].retry
                             /\ q # r => job'[q] = job[q]
      /\ job'[r].state = st
  BY <1>1, <1>3, JobStateStep
<1>u. UNCHANGED <<receipt, arrivals, lease, execution, resolution, checkpoint, proc, orphans,
                  sync, applied, crashes>>
  BY DEF RequestCancel
<1>5. TypeOK'
  BY <1>4, <1>u DEF IInv, TypeOK
<1>6. LeaseFencing'
  BY <1>1, <1>4, <1>u DEF IInv, LeaseFencing, Executing
<1>7. OutcomeIsFinal'
  <2>1. \A g \in Gens : execution[r][g] = "NONE"
    <3>1. \A g \in Gens : execution[r][g] \in Outcomes \cup {"NONE"}
      BY DEF IInv, TypeOK
    <3> QED BY <3>1, <1>2 DEF IInv, OutcomeIsFinal, Outcomes
  <2> QED BY <2>1, <1>4, <1>u DEF IInv, OutcomeIsFinal
<1>8. LeaseHistory' /\ ManualOnlyRunsOnce' /\ Unclaimed' /\ ProcHolds'
  BY <1>4, <1>u DEF IInv, LeaseHistory, ManualOnlyRunsOnce, Unclaimed, ProcHolds
<1>9. SettledReceiptHasOneCause' /\ AppliedAtMostOnce' /\ Resolved'
  BY <1>4, <1>u DEF IInv, SettledReceiptHasOneCause, AppliedAtMostOnce, Resolved
<1>10. Reserved'
  BY <1>2, <1>4, <1>u DEF IInv, Reserved
<1> QED BY <1>5, <1>6, <1>7, <1>8, <1>9, <1>10 DEF IInv

\* The queue invalidation of a revoked dependency keeps the invariant.
LEMMA InvalidateQueueItemStep ==
    ASSUME IInv, NEW r \in Requests, InvalidateQueueItem(r)
    PROVE  IInv'
<1>1. job' = [job EXCEPT ![r].state = "INVALIDATED"]
  BY DEF InvalidateQueueItem
<1>2. job[r].state \in {"QUEUED", "RUNNING", "CANCEL_REQUESTED"}
  BY DEF InvalidateQueueItem, Unfinished, JobState, Executing, Terminal
<1>3. "INVALIDATED" \in JobState /\ job[r].state \in JobState
  BY <1>2 DEF JobState, Executing, Terminal
<1>4. /\ job' \in [Requests -> Jobs]
      /\ \A q \in Requests : /\ job'[q].gen = job[q].gen /\ job'[q].bound = job[q].bound
                             /\ job'[q].retry = job[q].retry
                             /\ q # r => job'[q] = job[q]
      /\ job'[r].state = "INVALIDATED"
  BY <1>1, <1>3, JobStateStep
<1>u. UNCHANGED <<receipt, arrivals, lease, execution, resolution, checkpoint, proc, orphans,
                  sync, applied, crashes>>
  BY DEF InvalidateQueueItem
<1>5. TypeOK'
  BY <1>4, <1>u DEF IInv, TypeOK
<1>6. LeaseFencing'
  BY <1>4, <1>u DEF IInv, LeaseFencing, Executing
<1>7. OutcomeIsFinal'
  <2>1. \A g \in Gens : execution[r][g] = "NONE"
    <3>1. \A g \in Gens : execution[r][g] \in Outcomes \cup {"NONE"}
      BY DEF IInv, TypeOK
    <3> QED BY <3>1, <1>2 DEF IInv, OutcomeIsFinal, Outcomes
  <2> QED BY <2>1, <1>4, <1>u DEF IInv, OutcomeIsFinal
<1>8. LeaseHistory' /\ ManualOnlyRunsOnce' /\ Unclaimed' /\ ProcHolds'
  BY <1>4, <1>u DEF IInv, LeaseHistory, ManualOnlyRunsOnce, Unclaimed, ProcHolds
<1>9. SettledReceiptHasOneCause' /\ AppliedAtMostOnce' /\ Resolved'
  BY <1>4, <1>u DEF IInv, SettledReceiptHasOneCause, AppliedAtMostOnce, Resolved
<1>10. Reserved'
  BY <1>2, <1>4, <1>u DEF IInv, Reserved
<1> QED BY <1>5, <1>6, <1>7, <1>8, <1>9, <1>10 DEF IInv

\* invalidate_checkpoint revokes the live lease together with the checkpoint.
LEMMA InvalidateCheckpointStep ==
    ASSUME IInv, NEW r \in Requests, NEW k \in Ckpts, NEW kind \in {"STALE", "INVALIDATED"},
           InvalidateCheckpoint(r, k, kind)
    PROVE  IInv'
<1>1. /\ \A q \in Requests : q # r => lease'[q] = lease[q]
      /\ \A g \in Gens : lease'[r][g] = IF lease[r][g].state = "ACTIVE"
                                          THEN [lease[r][g] EXCEPT !.state = "EXPIRED"]
                                          ELSE lease[r][g]
      /\ lease' \in [Requests -> [Gens -> Leases]]
  <2>1. \A g \in Gens : lease[r][g] \in Leases
    BY DEF IInv, TypeOK
  <2>2. \A g \in Gens : [lease[r][g] EXCEPT !.state = "EXPIRED"] \in Leases
    BY <2>1 DEF Leases
  <2> QED BY <2>1, <2>2 DEF InvalidateCheckpoint, IInv, TypeOK
<1>2. \A g \in Gens : /\ lease'[r][g].state = IF lease[r][g].state = "ACTIVE"
                                                THEN "EXPIRED" ELSE lease[r][g].state
  <2>1. \A g \in Gens : lease[r][g] \in Leases
    BY DEF IInv, TypeOK
  <2> QED BY <2>1, <1>1 DEF Leases
<1>3. /\ job' \in [Requests -> Jobs]
      /\ \A q \in Requests : /\ job'[q].gen = job[q].gen /\ job'[q].bound = job[q].bound
                             /\ job'[q].retry = job[q].retry
                             /\ q # r => job'[q] = job[q]
      /\ IF Unfinished(r) THEN job'[r].state = kind ELSE job'[r].state = job[r].state
  <2>1. CASE Unfinished(r)
    <3>1. kind \in JobState /\ job[r].state \in JobState
      BY <2>1 DEF Unfinished, JobState, Terminal
    <3>2. job' = [job EXCEPT ![r].state = kind]
      BY <2>1 DEF InvalidateCheckpoint
    <3> QED BY <2>1, <3>1, <3>2, JobStateStep
  <2>2. CASE ~Unfinished(r)
    BY <2>2 DEF InvalidateCheckpoint, IInv, TypeOK
  <2> QED BY <2>1, <2>2
<1>u. UNCHANGED <<receipt, arrivals, execution, resolution, proc, orphans, sync, applied, crashes>>
  BY DEF InvalidateCheckpoint
<1>4. job[r].state \in Executing \cup {"QUEUED"} <=> Unfinished(r)
  BY DEF Unfinished, JobState, Terminal, Executing
<1>5. TypeOK'
  <2>1. checkpoint' \in [Requests -> [Ckpts -> {"NONE", "ACTIVE", "STALE", "INVALIDATED"}]]
    BY DEF InvalidateCheckpoint, IInv, TypeOK
  <2> QED BY <2>1, <1>1, <1>3, <1>u DEF IInv, TypeOK
<1>6. LeaseFencing'
  <2>1. \A g \in Gens : lease'[r][g].state # "ACTIVE"
    BY <1>2
  <2>2. job'[r].state \notin Executing
    BY <1>3, <1>4 DEF Executing
  <2>3. \A q \in Requests : q # r => job'[q] = job[q] /\ lease'[q] = lease[q]
    BY <1>1, <1>3
  <2> QED BY <2>1, <2>2, <2>3 DEF IInv, LeaseFencing
<1>7. OutcomeIsFinal'
  <2>1. \A g \in Gens : execution[r][g] \in Outcomes \cup {"NONE"}
    BY DEF IInv, TypeOK
  <2>2. Unfinished(r) => \A g \in Gens : execution[r][g] = "NONE"
    BY <2>1, <1>4 DEF IInv, OutcomeIsFinal, Outcomes, Executing
  <2> QED BY <2>2, <1>1, <1>2, <1>3, <1>u DEF IInv, OutcomeIsFinal
<1>8. LeaseHistory'
  BY <1>1, <1>2, <1>3, <1>u DEF IInv, LeaseHistory
<1>9. ManualOnlyRunsOnce' /\ Unclaimed' /\ ProcHolds'
  BY <1>3, <1>u DEF IInv, ManualOnlyRunsOnce, Unclaimed, ProcHolds
<1>10. SettledReceiptHasOneCause' /\ AppliedAtMostOnce'
  BY <1>3, <1>u DEF IInv, SettledReceiptHasOneCause, AppliedAtMostOnce
<1>11. Reserved' /\ Resolved'
  BY <1>3, <1>4, <1>u DEF IInv, Reserved, Resolved, Executing
<1> QED BY <1>5, <1>6, <1>7, <1>8, <1>9, <1>10, <1>11 DEF IInv

\* save_checkpoint under the fence keeps the invariant.
LEMMA SaveCheckpointStep ==
    ASSUME IInv, NEW r \in Requests, NEW k \in Ckpts, SaveCheckpoint(r, k)
    PROVE  IInv'
<1>1. TypeOK'
  BY DEF SaveCheckpoint, IInv, TypeOK
<1>2. LeaseFencing' /\ OutcomeIsFinal' /\ LeaseHistory'
  BY DEF SaveCheckpoint, IInv, LeaseFencing, OutcomeIsFinal, LeaseHistory
<1>3. ManualOnlyRunsOnce' /\ Unclaimed' /\ Resolved' /\ AppliedAtMostOnce' /\ ProcHolds'
  BY DEF SaveCheckpoint, IInv, ManualOnlyRunsOnce, Unclaimed, Resolved, AppliedAtMostOnce, ProcHolds
<1>4. SettledReceiptHasOneCause' /\ Reserved'
  BY DEF SaveCheckpoint, IInv, SettledReceiptHasOneCause, Reserved
<1> QED BY <1>1, <1>2, <1>3, <1>4 DEF IInv

\* recover_expired ends lapsed leases and requeues or parks their jobs.
LEMMA RecoverStep ==
    ASSUME IInv, RecoverExpired, proc' \in [Workers -> Procs],
           \A w \in Workers : proc'[w] = proc[w] \/ proc'[w].pc \notin {"claimed", "executed"},
           UNCHANGED <<receipt, arrivals, execution, resolution, checkpoint, orphans, sync,
                       applied, crashes>>
    PROVE  IInv'
<1>1. \A r \in Requests : job[r] \in Jobs /\ \A g \in Gens : lease[r][g] \in Leases
  BY DEF IInv, TypeOK
<1>2. \A r \in Requests, g \in Gens :
        /\ lease'[r][g] \in Leases
        /\ lease'[r][g].state = IF Lapsed(r, g) THEN "EXPIRED" ELSE lease[r][g].state
  BY <1>1 DEF RecoverExpired, Leases
<1>3. \A j \in Jobs : AfterExpiry(j) \in {"OUTCOME_UNKNOWN", "QUEUED"}
                      /\ (j.retry = "MANUAL_ONLY" => AfterExpiry(j) = "OUTCOME_UNKNOWN")
  BY DEF AfterExpiry, AutomaticRetry
<1>4. \A r \in Requests : Lapsed(r, job[r].gen) /\ job[r].gen \in Gens
                            <=> \E g \in Gens : Lapsed(r, g) /\ job[r].gen = g
  OBVIOUS
<1>5. \A r \in Requests :
        /\ job'[r] \in Jobs
        /\ job'[r].gen = job[r].gen /\ job'[r].bound = job[r].bound /\ job'[r].retry = job[r].retry
        /\ job'[r].state = IF \E g \in Gens : Lapsed(r, g) /\ job[r].gen = g
                             THEN AfterExpiry(job[r]) ELSE job[r].state
  <2> SUFFICES ASSUME NEW r \in Requests
               PROVE  /\ job'[r] \in Jobs
                      /\ job'[r].gen = job[r].gen /\ job'[r].bound = job[r].bound
                      /\ job'[r].retry = job[r].retry
                      /\ job'[r].state = IF \E g \in Gens : Lapsed(r, g) /\ job[r].gen = g
                                           THEN AfterExpiry(job[r]) ELSE job[r].state
    OBVIOUS
  <2>1. CASE \E g \in Gens : Lapsed(r, g) /\ job[r].gen = g
    <3>1. job'[r] = [job[r] EXCEPT !.state = AfterExpiry(job[r])]
      BY <2>1 DEF RecoverExpired
    <3>2. AfterExpiry(job[r]) \in JobState
      BY <1>1, <1>3 DEF JobState, Terminal
    <3> QED BY <2>1, <3>1, <3>2, <1>1 DEF Jobs
  <2>2. CASE ~\E g \in Gens : Lapsed(r, g) /\ job[r].gen = g
    BY <2>2, <1>1 DEF RecoverExpired
  <2> QED BY <2>1, <2>2
<1>6. \A r \in Requests, g \in Gens :
        Lapsed(r, g) => job[r].gen = g /\ job[r].state \in Executing \cup {"INVALIDATED"}
  BY DEF Lapsed, IInv, LeaseFencing
<1>7. TypeOK'
  <2>1. job' \in [Requests -> Jobs]
    BY <1>5 DEF RecoverExpired
  <2>2. lease' \in [Requests -> [Gens -> Leases]]
    BY <1>2 DEF RecoverExpired
  <2> QED BY <2>1, <2>2 DEF IInv, TypeOK
<1>8. LeaseFencing'
  BY <1>1, <1>2, <1>3, <1>5, <1>6 DEF IInv, LeaseFencing, Executing
<1>9. OutcomeIsFinal'
  BY <1>2, <1>5 DEF IInv, OutcomeIsFinal, Lapsed
<1>10. LeaseHistory'
  BY <1>2, <1>5 DEF IInv, LeaseHistory, Lapsed
<1>11. ManualOnlyRunsOnce'
  BY <1>5 DEF IInv, ManualOnlyRunsOnce
<1>12. Unclaimed'
  BY <1>1, <1>3, <1>5 DEF IInv, Unclaimed
<1>13. ProcHolds'
  BY <1>5 DEF IInv, ProcHolds
<1>14. SettledReceiptHasOneCause' /\ AppliedAtMostOnce'
  BY <1>5 DEF IInv, SettledReceiptHasOneCause, AppliedAtMostOnce
<1>15. \A r \in Requests : job'[r].state = "ABSENT" <=> job[r].state = "ABSENT"
  BY <1>1, <1>3, <1>5, <1>6 DEF Executing
<1>16. Reserved' /\ Resolved'
  BY <1>5, <1>15 DEF IInv, Reserved, Resolved
<1> QED BY <1>7, <1>8, <1>9, <1>10, <1>11, <1>12, <1>13, <1>14, <1>16 DEF IInv

\* A daemon start, with or without recovery, keeps the invariant.
LEMMA BootStep ==
    ASSUME IInv, NEW w \in Workers, Boot(w)
    PROVE  IInv'
<1>1. PICK to \in {"recovering", "idle"} : proc' = [proc EXCEPT ![w].pc = to]
  BY DEF Boot
<1>2. proc[w] \in Procs
  BY DEF IInv, TypeOK
<1>3. /\ proc' \in [Workers -> Procs]
      /\ \A v \in Workers : proc'[v] = proc[v] \/ proc'[v].pc \notin {"claimed", "executed"}
  <2>1. [proc[w] EXCEPT !.pc = to] \in Procs
    BY <1>1, <1>2 DEF Procs
  <2>2. proc' = [proc EXCEPT ![w] = [proc[w] EXCEPT !.pc = to]]
    BY <1>1 DEF IInv, TypeOK
  <2>3. [proc[w] EXCEPT !.pc = to].pc = to
    BY <1>2 DEF Procs
  <2> QED BY <1>1, <2>1, <2>2, <2>3 DEF IInv, TypeOK
<1>4. CASE RecoverAtStartup
  BY <1>3, <1>4, RecoverStep DEF Boot
<1>5. CASE ~RecoverAtStartup
  <2>1. UNCHANGED <<receipt, job, arrivals, lease, execution, resolution, checkpoint, orphans,
                    sync, applied, crashes>>
    BY <1>5 DEF Boot
  <2>2. ProcHolds'
    BY <2>1, <1>3 DEF IInv, ProcHolds
  <2> QED BY <2>1, <2>2, <1>3, ProcOnly DEF IInv, TypeOK
<1> QED BY <1>4, <1>5

\* Reading the pending orphans changes no stored row.
LEMMA ReadOrphansStep ==
    ASSUME IInv, NEW w \in Workers, ReadOrphans(w)
    PROVE  IInv'
<1>1. /\ proc[w] \in Procs /\ Down \in Procs /\ proc[w].pc = "recovering"
      /\ PendingOrphans \in SUBSET Requests
  BY ConstantsAssumption DEF IInv, TypeOK, Down, Idle, Procs, ReadOrphans, PendingOrphans
<1>2. [proc[w] EXCEPT !.pc = "idle"] \in Procs /\ [proc[w] EXCEPT !.pc = "rebinding"] \in Procs
      /\ [proc[w] EXCEPT !.pc = "idle"].pc = "idle"
      /\ [proc[w] EXCEPT !.pc = "rebinding"].pc = "rebinding"
      /\ Down.pc = "down"
  BY <1>1 DEF Procs, Down, Idle
<1>3. PICK new \in Procs : /\ proc' = [proc EXCEPT ![w] = new]
                           /\ new.pc \in {"idle", "rebinding", "down"}
  BY <1>1, <1>2 DEF ReadOrphans, IInv, TypeOK
<1>4. proc' \in [Workers -> Procs] /\ orphans' \in [Workers -> SUBSET Requests]
  BY <1>1, <1>3 DEF ReadOrphans, IInv, TypeOK
<1>5. \A v \in Workers : proc'[v] = proc[v] \/ proc'[v].pc \in {"idle", "rebinding", "down"}
  BY <1>3 DEF IInv, TypeOK
<1>6. UNCHANGED <<receipt, job, arrivals, lease, execution, resolution, checkpoint, sync,
                  applied, crashes>>
  BY DEF ReadOrphans
<1>7. ProcHolds'
  BY <1>5, <1>6 DEF IInv, ProcHolds
<1> QED BY <1>4, <1>6, <1>7, ProcOnly

\* Rebinding an orphaned receipt enqueues one fresh job for it.
LEMMA RebindOrphanStep ==
    ASSUME IInv, NEW w \in Workers, NEW r \in Requests, NEW retry \in OrphanPolicy,
           RebindOrphan(w, r, retry)
    PROVE  IInv'
<1>u. UNCHANGED <<receipt, lease, execution, resolution, checkpoint, applied, crashes>>
  BY DEF RebindOrphan
<1>0. proc[w].pc = "rebinding"
  BY DEF RebindOrphan
<1>1. CASE Stop(w) /\ UNCHANGED <<job, arrivals>>
  <2>1. crashes' \in 0 .. MaxCrashes
    BY <1>u DEF IInv, TypeOK
  <2> QED BY <1>1, <1>u, <2>1, StopStep
<1>2. CASE /\ sync' = sync
           /\ orphans' = [orphans EXCEPT ![w] = @ \ {r}]
           /\ proc' = IF orphans[w] = {r} THEN [proc EXCEPT ![w].pc = "idle"] ELSE proc
  <2>1. orphans' \in [Workers -> SUBSET Requests]
    BY <1>2 DEF IInv, TypeOK
  <2>2. /\ proc' \in [Workers -> Procs]
        /\ \A v \in Workers : proc'[v] = proc[v] \/ proc'[v].pc = "idle"
    <3>1. proc[w] \in Procs
      BY DEF IInv, TypeOK
    <3>2. CASE orphans[w] = {r}
      <4>1. [proc[w] EXCEPT !.pc = "idle"] \in Procs /\ [proc[w] EXCEPT !.pc = "idle"].pc = "idle"
        BY <3>1 DEF Procs
      <4>2. proc' = [proc EXCEPT ![w] = [proc[w] EXCEPT !.pc = "idle"]]
        BY <3>2, <1>2 DEF IInv, TypeOK
      <4> QED BY <4>1, <4>2 DEF IInv, TypeOK
    <3>3. CASE orphans[w] # {r}
      BY <3>3, <1>2 DEF IInv, TypeOK
    <3> QED BY <3>2, <3>3
  <2>3. CASE UNCHANGED <<job, arrivals>>
    <3>1. ProcHolds'
      BY <2>2, <2>3 DEF IInv, ProcHolds
    <3> QED BY <1>2, <1>u, <2>1, <2>2, <2>3, <3>1, ProcOnly
  <2>4. CASE /\ EnqueueInTransaction(r, retry, FALSE)
             /\ job[r].state = "ABSENT" /\ receipt[r].state = "PENDING"
    <3> DEFINE new == [state |-> "QUEUED", gen |-> 0, retry |-> retry, bound |-> FALSE,
                       pos |-> arrivals + 1]
    <3>1. job' = [job EXCEPT ![r] = new] /\ arrivals' = arrivals + 1
      BY <2>4 DEF EnqueueInTransaction
    <3>2. new \in Jobs
      BY ConstantsAssumption DEF Jobs, JobState, IInv, TypeOK
    <3>3. job' \in [Requests -> Jobs] /\ arrivals' \in Nat
      BY <3>1, <3>2 DEF IInv, TypeOK
    <3>4. job'[r] = new /\ \A q \in Requests : q # r => job'[q] = job[q]
      BY <3>1 DEF IInv, TypeOK
    <3>5. job'[r].state = "QUEUED" /\ job'[r].gen = 0 /\ ~job'[r].bound
      BY <3>4
    <3>6. job[r].gen = 0 /\ resolution[r] = NoResolution
      BY <2>4 DEF IInv, Unclaimed, Resolved
    <3>7. \A g \in Gens : lease[r][g].state = "NONE" /\ execution[r][g] = "NONE"
      BY <3>6 DEF IInv, LeaseHistory, Gens
    <3>8. \A q \in Requests : q # r => job'[q] = job[q]
      BY <3>4
    <3> HIDE DEF new
    <3>9. TypeOK'
      BY <3>3, <2>1, <2>2, <1>2, <1>u DEF IInv, TypeOK
    <3>10. LeaseFencing' /\ OutcomeIsFinal' /\ LeaseHistory'
      BY <3>5, <3>7, <3>8, <1>u DEF IInv, LeaseFencing, OutcomeIsFinal, LeaseHistory, Executing
    <3>11. ManualOnlyRunsOnce' /\ Unclaimed'
      BY <3>5, <3>8 DEF IInv, ManualOnlyRunsOnce, Unclaimed
    <3>12. SettledReceiptHasOneCause' /\ AppliedAtMostOnce' /\ Resolved'
      BY <3>6, <3>8, <1>u DEF IInv, SettledReceiptHasOneCause, AppliedAtMostOnce, Resolved
    <3>13. ProcHolds'
      <4>1. \A v \in Workers : proc'[v].pc \in {"claimed", "executed"} => proc'[v] = proc[v] /\ proc[v].req # r
        BY <2>2, <3>6, ConstantsAssumption DEF IInv, ProcHolds, Gens
      <4> QED BY <4>1, <3>8 DEF IInv, ProcHolds
    <3>14. Reserved'
      BY <3>5, <3>8, <2>4, <1>2, <1>u DEF IInv, Reserved
    <3> QED BY <3>9, <3>10, <3>11, <3>12, <3>13, <3>14 DEF IInv
  <2> QED BY <1>2, <2>3, <2>4, <1>1 DEF RebindOrphan, Stop
<1> QED BY <1>1, <1>2 DEF RebindOrphan

\* Every step of the system keeps the inductive invariant.
LEMMA NextStep ==
    ASSUME IInv, [Next]_vars
    PROVE  IInv'
<1>0. crashes \in 0 .. MaxCrashes
  BY DEF IInv, TypeOK
<1>1. ASSUME NEW w \in Workers, PumpStep(w) PROVE IInv'
  <2>1. CASE LostRequest(w)
    BY <2>1, <1>0, StopStep DEF LostRequest
  <2>2. CASE ResolveRaises(w)
    BY <2>2, <1>0, StopStep DEF ResolveRaises
  <2> QED BY <1>1, <2>1, <2>2, BootStep, ReadOrphansStep, HarvestStep, ResolveStep,
             ResolveReplayStep, ClaimStep, RebindOrphanStep, ExecuteJobStep DEF PumpStep
<1>2. ASSUME NEW r \in Requests, SyncStep(r) PROVE IInv'
  BY <1>2, SyncStepInv
<1>3. ASSUME Environment PROVE IInv'
  <2>1. ASSUME NEW w \in Workers, Crash(w) PROVE IInv'
    <3>1. crashes' \in 0 .. MaxCrashes
      BY <2>1, <1>0, ConstantsAssumption DEF Crash
    <3> QED BY <2>1, <3>1, StopStep DEF Crash
  <2> QED BY <1>3, <2>1, ExecuteStep, HeartbeatStep, RequestCancelStep, InvalidateQueueItemStep,
             SaveCheckpointStep, InvalidateCheckpointStep DEF Environment
<1>4. CASE Tick
  BY <1>4, TickStep
<1>5. CASE UNCHANGED vars
  <2>1. ProcHolds'
    BY <1>5 DEF vars, IInv, ProcHolds
  <2> QED BY <1>5, <2>1, ProcOnly DEF vars, IInv, TypeOK
<1> QED BY <1>1, <1>2, <1>3, <1>4, <1>5 DEF Next

\* The empty store satisfies the inductive invariant.
LEMMA InitInv == Init => IInv
<1> SUFFICES ASSUME Init PROVE IInv
  OBVIOUS
<1>1. /\ NoReceipt \in Receipts /\ NoJob \in Jobs /\ NoLease \in Leases
      /\ NoResolution \in Resolutions /\ Down \in Procs /\ NoSync \in Syncs
  BY ConstantsAssumption DEF NoReceipt, Receipts, NoJob, Jobs, NoLease, Leases, NoResolution,
     Resolutions, Down, Idle, Procs, NoSync, Syncs, RetrySafety
<1>2. TypeOK
  BY <1>1, ConstantsAssumption DEF Init, TypeOK
<1>3. \A r \in Requests :
        /\ receipt[r] = NoReceipt /\ receipt[r].state = "ABSENT"
        /\ job[r].state = "ABSENT" /\ job[r].gen = 0 /\ ~job[r].bound
        /\ sync[r].pc = "none" /\ applied[r] = 0 /\ resolution[r] = NoResolution
        /\ \A g \in Gens : lease[r][g].state = "NONE" /\ execution[r][g] = "NONE"
  BY DEF Init, NoReceipt, NoJob, NoSync, NoLease
<1>4. \A w \in Workers : proc[w].pc = "down"
  BY DEF Init, Down, Idle
<1>5. LeaseFencing /\ OutcomeIsFinal /\ LeaseHistory /\ ManualOnlyRunsOnce /\ Unclaimed
  BY <1>3 DEF LeaseFencing, OutcomeIsFinal, LeaseHistory, ManualOnlyRunsOnce, Unclaimed, Executing
<1>6. SettledReceiptHasOneCause /\ AppliedAtMostOnce /\ Resolved /\ Reserved /\ ProcHolds
  BY <1>3, <1>4 DEF SettledReceiptHasOneCause, AppliedAtMostOnce, Resolved, Reserved, ProcHolds
<1> QED BY <1>2, <1>5, <1>6 DEF IInv

\* The inductive invariant holds in every reachable state; the theorems below follow from it.
THEOREM Invariance == Spec => []IInv
<1>1. IInv /\ [Next]_vars => IInv'
  BY NextStep
<1> QED BY <1>1, InitInv, PTL DEF Spec

\* Type correctness of the job store, the receipts and the daemon processes.
THEOREM TypeCorrect == Spec => []TypeOK
BY Invariance, PTL DEF IInv

\* Jobs and leases stay in step (claim_next, resolve, record_execution, recovery,
\* invalidation): one live lease per job at most, of its current generation.
THEOREM LeasesFence == Spec => []LeaseFencing
BY Invariance, PTL DEF IInv

\* No late, superseded or repeated execution receipt ever replaces the recorded one.
THEOREM OutcomesAreFinal == Spec => []OutcomeIsFinal
BY Invariance, PTL DEF IInv

\* A job whose retries need a human is never handed to an executor a second time.
THEOREM ManualJobsRunOnce == Spec => []ManualOnlyRunsOnce
BY Invariance, PTL DEF IInv

\* A settled product receipt has one cause, and agrees with it.
THEOREM SettledReceiptsAgree == Spec => []SettledReceiptHasOneCause
BY Invariance, PTL DEF IInv

\* A synchronous command is applied at most once.
THEOREM SyncCommandsApplyOnce == Spec => []AppliedAtMostOnce
BY Invariance, PTL DEF IInv

\* Job, execution receipt, resolution and command receipt tell one outcome.
THEOREM OutcomesAlwaysAgree == Spec => []OutcomesAgree
<1>1. IInv => OutcomesAgree
  BY DEF IInv, OutcomesAgree
<1> QED BY <1>1, Invariance, PTL

\* What may happen once happens once, through crashes, lapsed leases and repeated requests.
THEOREM NothingHappensTwice == Spec => []EffectsHappenOnce
<1>1. IInv => EffectsHappenOnce
  BY DEF IInv, EffectsHappenOnce
<1> QED BY <1>1, Invariance, PTL

\* A finished job without a live lease is never changed again.
THEOREM FinishedJobsAreNotRevived == Spec => FinishedJobsStay
<1> DEFINE Quiet(r) == job[r].state \in Terminal /\ \A g \in Gens : lease[r][g].state # "ACTIVE"
<1>1. ASSUME IInv, [Next]_vars, NEW r \in Requests, Quiet(r)
      PROVE  job'[r] = job[r]
  <2>0. /\ job[r].state \in Terminal /\ \A g \in Gens : ~Lapsed(r, g)
        /\ job[r].state \notin {"ABSENT", "QUEUED", "RUNNING", "CANCEL_REQUESTED"}
        /\ ~Unfinished(r)
    BY <1>1 DEF Terminal, Lapsed, Unfinished
  <2>t. job \in [Requests -> Jobs]
    BY <1>1 DEF IInv, TypeOK
  <2>1. ASSUME NEW q \in Requests, NEW g \in Gens, NEW o \in Outcomes,
               Fence(q, g, o), CommitExecution(q, g, o)
        PROVE  job'[r] = job[r]
    BY <2>0, <2>1, <2>t DEF Fence, CommitExecution, Executing
  <2>2. ASSUME NEW w \in Workers, PumpStep(w) PROVE job'[r] = job[r]
    <3>1. CASE Boot(w)
      BY <3>1, <2>0 DEF Boot, RecoverExpired
    <3>2. CASE Harvest(w)
      BY <3>2, <2>1, <1>1 DEF Harvest, IInv, ProcHolds
    <3>3. CASE Resolve(w)
      BY <3>3, <2>1, <1>1 DEF Resolve, IInv, ProcHolds
    <3>4. ASSUME NEW q \in Requests, ClaimNext(w, q) PROVE job'[r] = job[r]
      BY <3>4, <2>0, <2>t DEF ClaimNext, NextQueued
    <3>5. ASSUME NEW q \in Requests, NEW y \in OrphanPolicy, RebindOrphan(w, q, y)
          PROVE  job'[r] = job[r]
      BY <3>5, <2>0, <2>t DEF RebindOrphan, EnqueueInTransaction
    <3> QED BY <2>2, <3>1, <3>2, <3>3, <3>4, <3>5
            DEF PumpStep, ReadOrphans, LostRequest, ResolveReplay, ResolveRaises, ExecuteJob
  <2>3. ASSUME NEW q \in Requests, SyncStep(q) PROVE job'[r] = job[r]
    BY <2>3 DEF SyncStep, ApplyAuthority, ApplyRaises, Decide
  <2>4. ASSUME Environment PROVE job'[r] = job[r]
    <3>1. ASSUME NEW w \in Workers, NEW q \in Requests, NEW c \in Contents, Execute(w, q, c)
          PROVE  job'[r] = job[r]
      <4>1. q # r
        BY <3>1, <2>0, <1>1 DEF Execute, Fresh, IInv, Reserved
      <4> QED BY <3>1, <4>1, <2>t DEF Execute, EnqueueInTransaction
    <3>2. ASSUME NEW q \in Requests, RequestCancel(q) PROVE job'[r] = job[r]
      BY <3>2, <2>0, <2>t DEF RequestCancel, Executing
    <3>3. ASSUME NEW q \in Requests, InvalidateQueueItem(q) PROVE job'[r] = job[r]
      BY <3>3, <2>0, <2>t DEF InvalidateQueueItem
    <3>4. ASSUME NEW q \in Requests, NEW k \in Ckpts, NEW kind \in {"STALE", "INVALIDATED"},
                 InvalidateCheckpoint(q, k, kind)
          PROVE  job'[r] = job[r]
      BY <3>4, <2>0, <2>t DEF InvalidateCheckpoint
    <3> QED BY <2>4, <3>1, <3>2, <3>3, <3>4 DEF Environment, Heartbeat, Crash, SaveCheckpoint
  <2>5. CASE Tick \/ UNCHANGED vars
    BY <2>5 DEF Tick, vars
  <2> QED BY <1>1, <2>2, <2>3, <2>4, <2>5 DEF Next
<1>2. IInv /\ [Next]_vars => [\A r \in Requests : Quiet(r) => job'[r] = job[r]]_vars
  BY <1>1
<1> QED BY <1>2, Invariance, PTL DEF Spec, FinishedJobsStay

\* Receipts implement the life cycle ReceiptLifecycle states.
THEOREM ReceiptsImplementLifecycle == Spec => ReceiptsFollowLifecycle
<1>1. Init => Lifecycle!Init
  BY DEF Init, Lifecycle!Init
<1>2. ASSUME IInv, [Next]_vars PROVE [Lifecycle!Next]_receipt
  <2>t. receipt \in [Requests -> Receipts]
    BY <1>2 DEF IInv, TypeOK
  <2>1. ASSUME NEW r \in Requests, receipt[r].state = "PENDING",
               NEW f \in {"DECIDED", "OUTCOME_UNKNOWN"},
               receipt' = [receipt EXCEPT ![r] = Settled(receipt[r], f)]
        PROVE  Lifecycle!Next
    <3>1. Settled(receipt[r], f) = [state |-> f, digest |-> receipt[r].digest, version |-> 2]
      BY <1>2, <2>1 DEF Settled, IInv, Reserved
    <3>2. Lifecycle!Settle(r, f)
      BY <2>1, <3>1 DEF Lifecycle!Settle
    <3> QED BY <3>2 DEF Lifecycle!Next
  <2>2. ASSUME NEW w \in Workers, Resolve(w) PROVE Lifecycle!Next
    <3>1. PICK r \in Requests, o \in Outcomes : r = proc[w].req /\ o = proc[w].outcome
      BY <2>2, <1>2 DEF Resolve, IInv, ProcHolds
    <3>2. PICK f \in {"DECIDED", "OUTCOME_UNKNOWN"} :
             f = IF o = "OUTCOME_UNKNOWN" THEN o ELSE "DECIDED"
      OBVIOUS
    <3>3. receipt[r].state = "PENDING" /\ receipt' = [receipt EXCEPT ![r] = Settled(receipt[r], f)]
      BY <2>2, <2>t, <3>1, <3>2 DEF Resolve
    <3> QED BY <3>2, <3>3, <2>1
  <2>3. ASSUME NEW r \in Requests, Decide(r) PROVE [Lifecycle!Next]_receipt
    BY <2>3, <2>1, <2>t DEF Decide
  <2>4. ASSUME NEW w \in Workers, NEW r \in Requests, NEW c \in Contents, Execute(w, r, c)
        PROVE  Lifecycle!Next
    <3>1. receipt[r] = NoReceipt
      BY <2>4, <1>2 DEF Execute, Fresh, IInv, Reserved
    <3>2. Lifecycle!Reserve(r, c)
      BY <2>4, <3>1 DEF Execute, Lifecycle!Reserve
    <3> QED BY <3>2 DEF Lifecycle!Next
  <2>5. ASSUME NEW w \in Workers, PumpStep(w), ~Resolve(w) PROVE receipt' = receipt
    BY <2>5 DEF PumpStep, Boot, ReadOrphans, LostRequest, Harvest, ResolveReplay, ResolveRaises,
       ClaimNext, RebindOrphan, ExecuteJob
  <2>6. ASSUME NEW r \in Requests, SyncStep(r), ~Decide(r) PROVE receipt' = receipt
    BY <2>6 DEF SyncStep, ApplyAuthority, ApplyRaises
  <2>7. ASSUME Environment PROVE [Lifecycle!Next]_receipt
    BY <2>7, <2>4 DEF Environment, Heartbeat, Crash, RequestCancel, InvalidateQueueItem,
       SaveCheckpoint, InvalidateCheckpoint
  <2>8. CASE Tick \/ UNCHANGED vars
    BY <2>8 DEF Tick, vars
  <2> QED BY <1>2, <2>2, <2>3, <2>5, <2>6, <2>7, <2>8 DEF Next
<1> QED BY <1>1, <1>2, Invariance, PTL DEF Spec, ReceiptsFollowLifecycle, Lifecycle!Spec
=============================================================================
