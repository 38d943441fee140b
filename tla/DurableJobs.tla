---------------------------- MODULE DurableJobs ----------------------------
(***************************************************************************)
(* The product command path and its durable job subsystem.                 *)
(*                                                                         *)
(* A request reserves a ProductReceipt under its request id                *)
(* (OperationStore.reserve).  A durable command gets a job row in the same *)
(* transaction; a synchronous one is applied and decided in two further    *)
(* transactions.  Daemon processes claim queued jobs under generation      *)
(* leases, run the executor outside any transaction and then commit the    *)
(* outcome, either together with the product receipt                       *)
(* (DurableJobResolver) or on its own (RuntimeSupervisor.harvest).         *)
(* Leases lapse with time, daemons crash and boot again, users cancel,     *)
(* authority changes invalidate checkpoints and queue items.               *)
(*                                                                         *)
(* Every SQLite transaction (BEGIN IMMEDIATE ... COMMIT) is one action.    *)
(***************************************************************************)
EXTENDS Integers

CONSTANTS
    Requests,          \* (scope_key, request_id) pairs; each names at most one job
    Contents,          \* request digests a client may send under a request id
    Workers,           \* daemon processes sharing the database
    Harvesters,        \* the workers that use harvest rather than the pump
    Plan,              \* Contents -> retry safety, or "SYNC" (CommandPlan)
    OrphanPolicy,      \* retry safeties the orphan resolver may give; {} = none
    RecoverAtStartup,  \* does the daemon call recover_startup?
    MaxGen,            \* bound: lease generations per job
    MaxCkpt,           \* bound: checkpoints per job
    MaxCrashes,        \* bound: process crashes
    LeaseTicks         \* clock ticks in lease_seconds

RetrySafety == {"IDEMPOTENT", "READ_ONLY", "IDEMPOTENCY_KEY", "MANUAL_ONLY"}
AutomaticRetry == RetrySafety \ {"MANUAL_ONLY"}
Terminal == {"CANCELLED", "SUCCEEDED", "FAILED", "OUTCOME_UNKNOWN", "STALE", "INVALIDATED"}
Executing == {"RUNNING", "CANCEL_REQUESTED"}
JobState == {"QUEUED"} \cup Executing \cup Terminal
Outcomes == {"SUCCEEDED", "FAILED", "CANCELLED", "OUTCOME_UNKNOWN"}
Gens == 1 .. MaxGen
Ckpts == 1 .. MaxCkpt

ASSUME ConstantsAssumption ==
    /\ MaxGen \in Nat /\ MaxCkpt \in Nat /\ MaxCrashes \in Nat
    /\ LeaseTicks \in Nat \ {0}
    /\ Harvesters \subseteq Workers
    /\ Plan \in [Contents -> RetrySafety \cup {"SYNC"}]
    /\ OrphanPolicy \subseteq RetrySafety
    /\ RecoverAtStartup \in BOOLEAN

VARIABLES
    receipt,      \* product_receipts
    job,          \* product_jobs joined with product_job_requests (bound)
    arrivals,     \* how many jobs were created (created_at order)
    lease,        \* product_job_leases, by job and generation
    execution,    \* product_job_execution_receipts, by job and generation
    resolution,   \* product_durable_resolutions
    checkpoint,   \* product_job_checkpoints
    proc,         \* each daemon's pump thread
    orphans,      \* each daemon's list from pending_orphans
    sync,         \* the HTTP thread of a synchronous command
    applied,      \* how often authority.apply took effect for a request
    crashes

vars == <<receipt, job, arrivals, lease, execution, resolution, checkpoint,
          proc, orphans, sync, applied, crashes>>

NoOne == "no one"
NoContent == "no content"
NoReceipt == [state |-> "ABSENT", digest |-> NoContent, version |-> 0]
NoJob == [state |-> "ABSENT", gen |-> 0, retry |-> "MANUAL_ONLY", bound |-> FALSE, pos |-> 0]
NoLease == [state |-> "NONE", holder |-> NoOne, ttl |-> 0]
NoResolution == [gen |-> 0, outcome |-> "NONE"]
NoSync == [pc |-> "none", by |-> NoOne]
Idle == [pc |-> "idle", req |-> NoOne, gen |-> 0, outcome |-> "NONE"]
Down == [Idle EXCEPT !.pc = "down"]

Receipts == [state : {"ABSENT", "PENDING", "DECIDED", "OUTCOME_UNKNOWN"},
             digest : Contents \cup {NoContent}, version : 0 .. 2]
Jobs == [state : JobState \cup {"ABSENT"}, gen : 0 .. MaxGen, retry : RetrySafety,
         bound : BOOLEAN, pos : Nat]
Leases == [state : {"NONE", "ACTIVE", "RELEASED", "EXPIRED"},
           holder : Workers \cup {NoOne}, ttl : 0 .. LeaseTicks]
Resolutions == [gen : 0 .. MaxGen, outcome : Outcomes \cup {"NONE"}]
Procs == [pc : {"down", "recovering", "rebinding", "idle", "claimed", "executed"},
          req : Requests \cup {NoOne}, gen : 0 .. MaxGen, outcome : Outcomes \cup {"NONE"}]
Syncs == [pc : {"none", "reserved", "applied"}, by : Workers \cup {NoOne}]

Init ==
    /\ receipt = [r \in Requests |-> NoReceipt]
    /\ job = [r \in Requests |-> NoJob]
    /\ arrivals = 0
    /\ lease = [r \in Requests |-> [g \in Gens |-> NoLease]]
    /\ execution = [r \in Requests |-> [g \in Gens |-> "NONE"]]
    /\ resolution = [r \in Requests |-> NoResolution]
    /\ checkpoint = [r \in Requests |-> [k \in Ckpts |-> "NONE"]]
    /\ proc = [w \in Workers |-> Down]
    /\ orphans = [w \in Workers |-> {}]
    /\ sync = [r \in Requests |-> NoSync]
    /\ applied = [r \in Requests |-> 0]
    /\ crashes = 0

Up(w) == proc[w].pc \in {"idle", "claimed", "executed"}

-----------------------------------------------------------------------------
(* Submitting a command                                                     *)

\* JobStore.enqueue_in_transaction: insert the QUEUED job of r.
EnqueueInTransaction(r, retry, bound) ==
    /\ arrivals' = arrivals + 1
    /\ job' = [job EXCEPT ![r] = [state |-> "QUEUED", gen |-> 0, retry |-> retry,
                                  bound |-> bound, pos |-> arrivals + 1]]

\* Mutant: a receipt that is still PENDING is reserved again.
FreshOrPending(r) == receipt[r].state \in {"ABSENT", "PENDING"}

\* OperationStore.reserve: a used request id is never reserved again.  A replay
\* with the same digest reads the stored receipt, one with another digest raises
\* OperationConflict; neither changes anything.
Fresh(r) == receipt[r].state = "ABSENT"

\* ProductCommandService.execute up to the return of the reservation.
Execute(w, r, c) ==
    /\ Up(w)
    /\ Fresh(r)
    /\ receipt' = [receipt EXCEPT ![r] = [state |-> "PENDING", digest |-> c, version |-> 1]]
    /\ IF Plan[c] = "SYNC"
         THEN /\ sync' = [sync EXCEPT ![r] = [pc |-> "reserved", by |-> w]]
              /\ UNCHANGED <<job, arrivals>>
         ELSE /\ EnqueueInTransaction(r, Plan[c], TRUE)
              /\ UNCHANGED sync
    /\ UNCHANGED <<lease, execution, resolution, checkpoint, proc, orphans, applied, crashes>>

\* authority.apply commits the command's effect in its own transactions ...
ApplyAuthority(r) ==
    /\ sync[r].pc = "reserved"
    /\ applied' = [applied EXCEPT ![r] = @ + 1]
    /\ sync' = [sync EXCEPT ![r].pc = "applied"]
    /\ UNCHANGED <<receipt, job, arrivals, lease, execution, resolution, checkpoint, proc,
                   orphans, crashes>>

\* The receipt row after its one transition out of PENDING.
Settled(rc, final) == [state |-> final, digest |-> rc.digest, version |-> rc.version + 1]

\* Mutant: the receipt is decided although the authority call raised.
ApplyRaisesDecided(r) ==
    /\ sync[r].pc = "reserved"
    /\ sync' = [sync EXCEPT ![r] = NoSync]
    /\ receipt' = [receipt EXCEPT ![r] = Settled(@, "DECIDED")]
    /\ UNCHANGED <<job, arrivals, lease, execution, resolution, checkpoint, proc, orphans,
                   applied, crashes>>

\* ... or raises, and the HTTP thread ends with the receipt still PENDING.
ApplyRaises(r) ==
    /\ sync[r].pc = "reserved"
    /\ sync' = [sync EXCEPT ![r] = NoSync]
    /\ UNCHANGED <<receipt, job, arrivals, lease, execution, resolution, checkpoint, proc,
                   orphans, applied, crashes>>

\* OperationStore.decide -> _transition.
Decide(r) ==
    /\ sync[r].pc = "applied"
    /\ sync' = [sync EXCEPT ![r] = NoSync]
    /\ receipt' = IF receipt[r].state = "PENDING"
                    THEN [receipt EXCEPT ![r] = Settled(@, "DECIDED")]
                    ELSE receipt
    /\ UNCHANGED <<job, arrivals, lease, execution, resolution, checkpoint, proc, orphans,
                   applied, crashes>>

-----------------------------------------------------------------------------
(* Running a job                                                            *)

\* Mutant: jobs are started strictly in order, one after the other has ended.
NextQueuedWaits(r) ==
    /\ job[r].state = "QUEUED"
    /\ \A q \in Requests :
          job[q].state \in {"QUEUED"} \cup Executing => job[r].pos <= job[q].pos

\* The oldest queued job: ORDER BY created_at, job_id LIMIT 1.
NextQueued(r) ==
    /\ job[r].state = "QUEUED"
    /\ \A q \in Requests : job[q].state = "QUEUED" => job[r].pos <= job[q].pos

\* JobStore.claim_next.
ClaimNext(w, r) ==
    /\ proc[w].pc = "idle"
    /\ NextQueued(r)
    /\ job[r].gen < MaxGen
    /\ LET g == job[r].gen + 1 IN
         /\ job' = [job EXCEPT ![r].state = "RUNNING", ![r].gen = g]
         /\ lease' = [lease EXCEPT ![r][g] =
                        [state |-> "ACTIVE", holder |-> w, ttl |-> LeaseTicks]]
         /\ proc' = [proc EXCEPT ![w] =
                        [pc |-> "claimed", req |-> r, gen |-> g, outcome |-> "NONE"]]
    /\ UNCHANGED <<receipt, arrivals, execution, resolution, checkpoint, orphans, sync,
                   applied, crashes>>

\* Mutant: the new expiry is counted from the old one.
HeartbeatExtends(w) ==
    /\ proc[w].pc = "claimed"
    /\ LET r == proc[w].req
           g == proc[w].gen IN
         /\ lease[r][g].state = "ACTIVE"
         /\ lease[r][g].ttl > 0
         /\ lease' = [lease EXCEPT ![r][g].ttl = @ + LeaseTicks]
    /\ UNCHANGED <<receipt, job, arrivals, execution, resolution, checkpoint, proc, orphans,
                   sync, applied, crashes>>

\* JobStore.heartbeat: a lease that lapsed or was superseded is not renewed
\* (JobLeaseLost, nothing changes).
Heartbeat(w) ==
    /\ proc[w].pc = "claimed"
    /\ LET r == proc[w].req
           g == proc[w].gen IN
         /\ lease[r][g].state = "ACTIVE"
         /\ lease[r][g].ttl > 0
         /\ lease' = [lease EXCEPT ![r][g].ttl = LeaseTicks]
    /\ UNCHANGED <<receipt, job, arrivals, execution, resolution, checkpoint, proc, orphans,
                   sync, applied, crashes>>

\* The executor returns an outcome.  A pump first reads the request binding; a
\* harvester works on the process it attached.
ExecuteJob(w, o) ==
    /\ proc[w].pc = "claimed"
    /\ w \in Harvesters \/ job[proc[w].req].bound
    /\ proc' = [proc EXCEPT ![w].pc = "executed", ![w].outcome = o]
    /\ UNCHANGED <<receipt, job, arrivals, lease, execution, resolution, checkpoint, orphans,
                   sync, applied, crashes>>

\* The whole process stops: its threads, its handles and its orphan list are gone.
Stop(w) ==
    /\ proc' = [proc EXCEPT ![w] = Down]
    /\ orphans' = [orphans EXCEPT ![w] = {}]
    /\ sync' = [r \in Requests |-> IF sync[r].by = w THEN NoSync ELSE sync[r]]

\* JobStore.request raises for a job without a binding; an exception that leaves
\* run_once stops the daemon.
LostRequest(w) ==
    /\ proc[w].pc = "claimed"
    /\ w \notin Harvesters
    /\ ~job[proc[w].req].bound
    /\ Stop(w)
    /\ UNCHANGED <<receipt, job, arrivals, lease, execution, resolution, checkpoint, applied,
                   crashes>>

\* Mutant: only the job's state is checked, not whose lease it runs under.
FenceByState(r, g, o) ==
    /\ job[r].state \in Executing
    /\ o = "CANCELLED" => job[r].state = "CANCEL_REQUESTED"

\* The fence of record_execution and resolve: the exact lease is ACTIVE, it is the
\* job's current generation, and the job may still take this outcome.
Fence(r, g, o) ==
    /\ lease[r][g].state = "ACTIVE"
    /\ job[r].gen = g
    /\ job[r].state \in Executing
    /\ o = "CANCELLED" => job[r].state = "CANCEL_REQUESTED"

\* The rows both commit paths write: execution receipt, released lease, job state.
CommitExecution(r, g, o) ==
    /\ execution' = [execution EXCEPT ![r][g] = o]
    /\ lease' = [lease EXCEPT ![r][g].state = "RELEASED"]
    /\ job' = [job EXCEPT ![r].state = o]

\* RuntimeSupervisor.harvest -> JobStore.record_execution.  The handle is dropped
\* whether or not the fence lets the outcome in.
Harvest(w) ==
    /\ w \in Harvesters
    /\ proc[w].pc = "executed"
    /\ LET r == proc[w].req
           g == proc[w].gen
           o == proc[w].outcome IN
         IF Fence(r, g, o) THEN CommitExecution(r, g, o)
                           ELSE UNCHANGED <<execution, lease, job>>
    /\ proc' = [proc EXCEPT ![w] = Idle]
    /\ UNCHANGED <<receipt, arrivals, resolution, checkpoint, orphans, sync, applied, crashes>>

\* DurableJobResolver.resolve, first resolution of the job: execution evidence and
\* product receipt in one transaction.
Resolve(w) ==
    /\ w \notin Harvesters
    /\ proc[w].pc = "executed"
    /\ LET r == proc[w].req
           g == proc[w].gen
           o == proc[w].outcome IN
         /\ resolution[r] = NoResolution
         /\ Fence(r, g, o)
         /\ receipt[r].state = "PENDING"
         /\ CommitExecution(r, g, o)
         /\ receipt' = [receipt EXCEPT ![r] =
                          Settled(@, IF o = "OUTCOME_UNKNOWN" THEN o ELSE "DECIDED")]
         /\ resolution' = [resolution EXCEPT ![r] = [gen |-> g, outcome |-> o]]
    /\ proc' = [proc EXCEPT ![w] = Idle]
    /\ UNCHANGED <<arrivals, checkpoint, orphans, sync, applied, crashes>>

\* resolve, the job was resolved before with the same execution digest.
ResolveReplay(w) ==
    /\ w \notin Harvesters
    /\ proc[w].pc = "executed"
    /\ resolution[proc[w].req].outcome = proc[w].outcome
    /\ proc' = [proc EXCEPT ![w] = Idle]
    /\ UNCHANGED <<receipt, job, arrivals, lease, execution, resolution, checkpoint, orphans,
                   sync, applied, crashes>>

\* resolve raises (another digest was resolved, the lease is lost, the fence
\* changed) and the daemon stops.
ResolveRaises(w) ==
    /\ w \notin Harvesters
    /\ proc[w].pc = "executed"
    /\ LET r == proc[w].req
           o == proc[w].outcome IN
         IF resolution[r] = NoResolution
           THEN ~Fence(r, proc[w].gen, o) \/ receipt[r].state # "PENDING"
           ELSE resolution[r].outcome # o
    /\ Stop(w)
    /\ UNCHANGED <<receipt, job, arrivals, lease, execution, resolution, checkpoint, applied,
                   crashes>>

-----------------------------------------------------------------------------
(* Cancellation and invalidation                                            *)

\* Mutant: a finished job can be cancelled.
RequestCancelAny(r) ==
    /\ job[r].state \in JobState
    /\ job' = [job EXCEPT ![r].state = IF @ \in Executing THEN "CANCEL_REQUESTED" ELSE "CANCELLED"]
    /\ UNCHANGED <<receipt, arrivals, lease, execution, resolution, checkpoint, proc, orphans,
                   sync, applied, crashes>>

\* JobStore.request_cancel.
RequestCancel(r) ==
    /\ job[r].state \in {"QUEUED"} \cup Executing
    /\ job' = [job EXCEPT ![r].state = IF @ = "QUEUED" THEN "CANCELLED" ELSE "CANCEL_REQUESTED"]
    /\ UNCHANGED <<receipt, arrivals, lease, execution, resolution, checkpoint, proc, orphans,
                   sync, applied, crashes>>

\* JobStore.save_checkpoint.
SaveCheckpoint(r, k) ==
    /\ job[r].state \in JobState \ Terminal
    /\ checkpoint[r][k] = "NONE"
    /\ checkpoint' = [checkpoint EXCEPT ![r][k] = "ACTIVE"]
    /\ UNCHANGED <<receipt, job, arrivals, lease, execution, resolution, proc, orphans, sync,
                   applied, crashes>>

Unfinished(r) == job[r].state \in JobState \ Terminal

\* Mutant: the lease of the invalidated job is left ACTIVE.
InvalidateKeepsLease(r, k, kind) ==
    /\ checkpoint[r][k] = "ACTIVE"
    /\ checkpoint' = [checkpoint EXCEPT ![r][k] = kind]
    /\ job' = IF Unfinished(r) THEN [job EXCEPT ![r].state = kind] ELSE job
    /\ UNCHANGED <<receipt, arrivals, lease, execution, resolution, proc, orphans, sync,
                   applied, crashes>>

\* JobStore.invalidate_checkpoint, and the CHECKPOINT case of
\* InvalidationStore._materialize_existing_table (kind INVALIDATED).
InvalidateCheckpoint(r, k, kind) ==
    /\ checkpoint[r][k] = "ACTIVE"
    /\ checkpoint' = [checkpoint EXCEPT ![r][k] = kind]
    /\ lease' = [lease EXCEPT ![r] = [g \in Gens |->
                   IF lease[r][g].state = "ACTIVE"
                     THEN [lease[r][g] EXCEPT !.state = "EXPIRED"] ELSE lease[r][g]]]
    /\ job' = IF Unfinished(r) THEN [job EXCEPT ![r].state = kind] ELSE job
    /\ UNCHANGED <<receipt, arrivals, execution, resolution, proc, orphans, sync, applied,
                   crashes>>

\* _materialize_existing_table, QUEUE case: the job's lease is left alone.
InvalidateQueueItem(r) ==
    /\ Unfinished(r)
    /\ job' = [job EXCEPT ![r].state = "INVALIDATED"]
    /\ UNCHANGED <<receipt, arrivals, lease, execution, resolution, checkpoint, proc, orphans,
                   sync, applied, crashes>>

-----------------------------------------------------------------------------
(* Time, crashes and startup                                                *)

Lapsed(r, g) == lease[r][g].state = "ACTIVE" /\ lease[r][g].ttl = 0

\* Mutant: every lapsed job is retried.
AlwaysRetry(j) == IF j.state = "CANCEL_REQUESTED" THEN "OUTCOME_UNKNOWN" ELSE "QUEUED"

\* Where recover_expired sends a job whose current lease lapsed.
AfterExpiry(j) ==
    IF j.state = "CANCEL_REQUESTED" \/ j.retry \notin AutomaticRetry
      THEN "OUTCOME_UNKNOWN" ELSE "QUEUED"

\* Mutant: the lease is expired and the job forgotten.
RecoverLeasesOnly ==
    /\ lease' = [r \in Requests |-> [g \in Gens |->
                   IF Lapsed(r, g) THEN [lease[r][g] EXCEPT !.state = "EXPIRED"]
                                   ELSE lease[r][g]]]
    /\ job' = job

\* JobStore.recover_expired: one transaction over every lapsed lease.
RecoverExpired ==
    /\ lease' = [r \in Requests |-> [g \in Gens |->
                   IF Lapsed(r, g) THEN [lease[r][g] EXCEPT !.state = "EXPIRED"]
                                   ELSE lease[r][g]]]
    /\ job' = [r \in Requests |->
                 IF \E g \in Gens : Lapsed(r, g) /\ job[r].gen = g
                   THEN [job[r] EXCEPT !.state = AfterExpiry(job[r])]
                   ELSE job[r]]

\* A daemon starts; recover_startup, where the daemon calls it, begins with
\* recover_expired.
Boot(w) ==
    /\ proc[w].pc = "down"
    /\ IF RecoverAtStartup
         THEN /\ RecoverExpired
              /\ proc' = [proc EXCEPT ![w].pc = "recovering"]
         ELSE /\ proc' = [proc EXCEPT ![w].pc = "idle"]
              /\ UNCHANGED <<lease, job>>
    /\ UNCHANGED <<receipt, arrivals, execution, resolution, checkpoint, orphans, sync,
                   applied, crashes>>

\* JobStore.pending_orphans.
PendingOrphans == {r \in Requests : receipt[r].state = "PENDING" /\ job[r].state = "ABSENT"}

\* recover_startup reads the orphans; without a resolver it raises.
ReadOrphans(w) ==
    /\ proc[w].pc = "recovering"
    /\ \/ /\ PendingOrphans = {}
          /\ proc' = [proc EXCEPT ![w].pc = "idle"]
          /\ UNCHANGED orphans
       \/ /\ PendingOrphans # {}
          /\ OrphanPolicy # {}
          /\ proc' = [proc EXCEPT ![w].pc = "rebinding"]
          /\ orphans' = [orphans EXCEPT ![w] = PendingOrphans]
       \/ /\ PendingOrphans # {}
          /\ OrphanPolicy = {}
          /\ proc' = [proc EXCEPT ![w] = Down]
          /\ UNCHANGED orphans
    /\ UNCHANGED <<receipt, job, arrivals, lease, execution, resolution, checkpoint, sync,
                   applied, crashes>>

\* One iteration of recover_startup's loop: enqueue the orphan, without a request
\* binding.  A job that exists by now is left as it is; a receipt that is no
\* longer PENDING makes enqueue raise and the boot fail.
RebindOrphan(w, r, retry) ==
    /\ proc[w].pc = "rebinding"
    /\ r \in orphans[w]
    /\ \/ /\ job[r].state # "ABSENT" \/ receipt[r].state = "PENDING"
          /\ IF job[r].state = "ABSENT"
               THEN EnqueueInTransaction(r, retry, FALSE)
               ELSE UNCHANGED <<job, arrivals>>
          /\ orphans' = [orphans EXCEPT ![w] = @ \ {r}]
          /\ proc' = IF orphans[w] = {r} THEN [proc EXCEPT ![w].pc = "idle"] ELSE proc
          /\ UNCHANGED sync
       \/ /\ job[r].state = "ABSENT"
          /\ receipt[r].state # "PENDING"
          /\ Stop(w)
          /\ UNCHANGED <<job, arrivals>>
    /\ UNCHANGED <<receipt, lease, execution, resolution, checkpoint, applied, crashes>>

\* The process is killed, or an exception other than those above leaves run_once.
Crash(w) ==
    /\ proc[w].pc # "down"
    /\ crashes < MaxCrashes
    /\ crashes' = crashes + 1
    /\ Stop(w)
    /\ UNCHANGED <<receipt, job, arrivals, lease, execution, resolution, checkpoint, applied>>

\* The clock advances: every unexpired lease comes one tick closer to expires_at.
Tick ==
    /\ \E r \in Requests, g \in Gens : lease[r][g].state = "ACTIVE" /\ lease[r][g].ttl > 0
    /\ lease' = [r \in Requests |-> [g \in Gens |->
                   IF lease[r][g].state = "ACTIVE" /\ lease[r][g].ttl > 0
                     THEN [lease[r][g] EXCEPT !.ttl = @ - 1] ELSE lease[r][g]]]
    /\ UNCHANGED <<receipt, job, arrivals, execution, resolution, checkpoint, proc, orphans,
                   sync, applied, crashes>>

-----------------------------------------------------------------------------

\* Steps of one daemon's own threads (what its scheduler keeps running).
PumpStep(w) ==
    \/ Boot(w) \/ ReadOrphans(w) \/ LostRequest(w)
    \/ Harvest(w) \/ Resolve(w) \/ ResolveReplay(w) \/ ResolveRaises(w)
    \/ \E r \in Requests : ClaimNext(w, r)
    \/ \E r \in Requests, retry \in OrphanPolicy : RebindOrphan(w, r, retry)
    \/ \E o \in Outcomes : ExecuteJob(w, o)

SyncStep(r) == ApplyAuthority(r) \/ ApplyRaises(r) \/ Decide(r)

\* Steps of users, of authority changes and of the environment.
Environment ==
    \/ \E w \in Workers, r \in Requests, c \in Contents : Execute(w, r, c)
    \/ \E w \in Workers : Heartbeat(w) \/ Crash(w)
    \/ \E r \in Requests : RequestCancel(r) \/ InvalidateQueueItem(r)
    \/ \E r \in Requests, k \in Ckpts : SaveCheckpoint(r, k)
    \/ \E r \in Requests, k \in Ckpts, kind \in {"STALE", "INVALIDATED"} :
          InvalidateCheckpoint(r, k, kind)

Next ==
    \/ \E w \in Workers : PumpStep(w)
    \/ \E r \in Requests : SyncStep(r)
    \/ Environment
    \/ Tick

Spec == Init /\ [][Next]_vars

\* A daemon is restarted when it is down and its threads keep running; time passes.
Fairness ==
    /\ \A w \in Workers : WF_vars(PumpStep(w))
    /\ \A r \in Requests : WF_vars(SyncStep(r))
    /\ WF_vars(Tick)

FairSpec == Spec /\ Fairness

-----------------------------------------------------------------------------
(* Properties                                                               *)

\* Every row and every process stays within its schema.
TypeOK ==
    /\ receipt \in [Requests -> Receipts]
    /\ job \in [Requests -> Jobs]
    /\ arrivals \in Nat
    /\ lease \in [Requests -> [Gens -> Leases]]
    /\ execution \in [Requests -> [Gens -> Outcomes \cup {"NONE"}]]
    /\ resolution \in [Requests -> Resolutions]
    /\ checkpoint \in [Requests -> [Ckpts -> {"NONE", "ACTIVE", "STALE", "INVALIDATED"}]]
    /\ proc \in [Workers -> Procs]
    /\ orphans \in [Workers -> SUBSET Requests]
    /\ sync \in [Requests -> Syncs]
    /\ applied \in [Requests -> Nat]
    /\ crashes \in 0 .. MaxCrashes

\* claim_next, recover_expired, the two commit paths and the invalidations keep
\* jobs and leases in step: a job that executes is covered by an ACTIVE lease of
\* its own generation, and an ACTIVE lease always belongs to the current generation
\* of a job that executes or was invalidated under it.  So there is one live lease
\* at most, and a queued job can always be claimed.
LeaseFencing ==
    /\ \A r \in Requests :
          job[r].state \in Executing =>
             job[r].gen \in Gens /\ lease[r][job[r].gen].state = "ACTIVE"
    /\ \A r \in Requests, g \in Gens :
          lease[r][g].state = "ACTIVE" =>
             /\ job[r].gen = g
             /\ job[r].state \in Executing \cup {"INVALIDATED"}

\* An execution receipt is the last word on its job: whoever lost the lease, came
\* late or cancels afterwards, the job keeps the generation and the outcome of the
\* one receipt record_execution or resolve let in.
OutcomeIsFinal ==
    \A r \in Requests, g \in Gens :
        execution[r][g] # "NONE" =>
           /\ job[r].gen = g
           /\ job[r].state = execution[r][g]
           /\ lease[r][g].state = "RELEASED"

\* A MANUAL_ONLY job is handed to an executor at most once, through crashes, lapsed
\* leases, restarts and orphan rebinding.
ManualOnlyRunsOnce ==
    \A r \in Requests : job[r].retry = "MANUAL_ONLY" => job[r].gen <= 1

\* A settled receipt has exactly one cause.  Either the job was resolved, and the
\* receipt, the job and the execution receipt agree on the outcome; or the
\* synchronous authority command of the request took effect, once.
SettledReceiptHasOneCause ==
    \A r \in Requests :
        /\ resolution[r] # NoResolution =>
              /\ applied[r] = 0
              /\ resolution[r].gen = job[r].gen
              /\ execution[r][job[r].gen] = resolution[r].outcome
              /\ receipt[r].state = IF resolution[r].outcome = "OUTCOME_UNKNOWN"
                                      THEN "OUTCOME_UNKNOWN" ELSE "DECIDED"
        /\ receipt[r].state \in {"DECIDED", "OUTCOME_UNKNOWN"} =>
              resolution[r] # NoResolution
                 \/ (receipt[r].state = "DECIDED" /\ applied[r] = 1)

\* A synchronous command takes effect at most once however often it is submitted,
\* and a command planned as a durable job never does.
AppliedAtMostOnce ==
    \A r \in Requests :
        applied[r] > 0 => applied[r] = 1 /\ Plan[receipt[r].digest] = "SYNC"

\* Job, execution receipt, resolution and command receipt tell one outcome, the first
\* that was let in (jobs.py record_execution and resolve, command_service.py).
OutcomesAgree == OutcomeIsFinal /\ SettledReceiptHasOneCause

\* Nothing that may happen once happens twice, whatever is retried: neither a MANUAL_ONLY
\* job nor a synchronous command (jobs.py recover_expired, command_service.py submit).
EffectsHappenOnce == TypeOK /\ ManualOnlyRunsOnce /\ AppliedAtMostOnce

\* A job that finished and has no live lease never changes state again: no late
\* worker, recovery, cancellation or invalidation revives or rewrites it.
FinishedJobsStay ==
    [][\A r \in Requests :
          job[r].state \in Terminal /\ (\A g \in Gens : lease[r][g].state # "ACTIVE")
             => job'[r] = job[r]]_vars

\* Receipts as a client sees them implement the abstract life cycle.
Lifecycle == INSTANCE ReceiptLifecycle WITH receipts <- receipt, Absent <- NoReceipt
ReceiptsFollowLifecycle == Lifecycle!Spec

\* Every queued job is eventually claimed (or cancelled, or invalidated): no crash
\* or failing job in front of it blocks the queue for ever.
QueueDrains ==
    \A r \in Requests : job[r].state = "QUEUED" ~> job[r].state # "QUEUED"

-----------------------------------------------------------------------------
(* Statements of the documentation that the code does not meet              *)

\* "a restarted daemon recovers to an actionable state": a job that was executing
\* when its daemon went down does not stay in that state for ever.
RestartRecovers ==
    \A r \in Requests, w \in Workers :
        (job[r].state = "RUNNING" /\ lease[r][job[r].gen].holder = w /\ proc[w].pc = "down")
           ~> job[r].state # "RUNNING"
=============================================================================
