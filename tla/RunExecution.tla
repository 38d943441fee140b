---------------------------- MODULE RunExecution ----------------------------
(***************************************************************************)
(* One run of the research kernel: the life cycle of the run and of its    *)
(* contract, routes, attempts, leases, and the host that executes a leased *)
(* attempt and turns the result into authority.                            *)
(*                                                                         *)
(* ResearchKernel.apply decides a command (TransitionGuard.decide) and     *)
(* projects it (ProjectionWriter) in one transaction; each command is one  *)
(* action.  HostExecutionReceiptService reads its scope, burns the one     *)
(* execution claim of the attempt, calls the provider outside any          *)
(* transaction and records the result; those are separate actions of a     *)
(* host process that may crash between any two of them.                    *)
(*                                                                         *)
(* Rejected commands change nothing here: KernelApply has the command log. *)
(* What a claim's evidence must look like is left to nondeterminism, and   *)
(* so are budget amounts: a record either overruns its budget or not.      *)
(***************************************************************************)
EXTENDS Integers, FiniteSets

CONSTANTS
    Claims,         \* claim rows that may be registered
    Roots,          \* the claims of kind ROOT
    Routes,
    Attempts,
    Hosts,          \* host processes (HostExecutionReceiptService instances)
    WriteSet,       \* Attempts -> allowed_write_set
    Released,       \* the terminal_attempt_status values clients send
    AttemptLimit,   \* budget_policy.attempts of every route
    LeaseTicks,     \* clock ticks in ttl_seconds
    RecoveryTicks,  \* clock ticks in recovery_timeout_seconds
    MaxVersion,     \* bound: contract versions
    MaxCrashes      \* bound: crashes of a host process

ASSUME ConstantsAssumption ==
    /\ Roots \subseteq Claims
    /\ "none" \notin Routes        \* the route of an attempt that has none
    /\ Released \subseteq {"SUCCEEDED", "FAILED", "ABORTED", "ENVIRONMENT_ERROR", "PAUSED"}
    /\ AttemptLimit \in Nat /\ MaxVersion \in Nat \ {0} /\ MaxCrashes \in Nat
    /\ LeaseTicks \in Nat \ {0} /\ RecoveryTicks \in Nat \ {0}

VARIABLES
    run,          \* runs.status
    contract,     \* the current contract_versions row
    root,         \* runs.root_claim_id
    interrupted,  \* is there a RUN_INTERRUPTED event (last_interrupt)?
    fuse,         \* is there a FUSE_TRIP budget event?
    claim,        \* claims
    route,        \* routes
    attempt,      \* attempts and their execution_bindings
    lease,        \* the newest leases row of each attempt
    hostClaim,    \* host_execution_claims, by attempt (its primary key)
    receipt,      \* host_execution_receipts of each attempt
    calls,        \* how often the provider was called for an attempt
    host,         \* the host processes
    crashes

kernelVars == <<run, contract, root, interrupted, claim, route>>
vars == <<kernelVars, fuse, attempt, lease, hostClaim, receipt, calls, host, crashes>>

None == "none"
Live == {"QUEUED", "RUNNING", "PAUSED"}
Ended == {"SUCCEEDED", "FAILED", "ABORTED", "ENVIRONMENT_ERROR"}
Versions == 1 .. MaxVersion

Down == [pc |-> "down", attempt |-> None, version |-> 0]
NoReceipt == [count |-> 0, eligible |-> FALSE, version |-> 0, consumed |-> 0]

\* ResearchKernel.create -> create_run_atomic: OPEN, contract version 1 DRAFT.
Init ==
    /\ run = "OPEN"
    /\ contract = [version |-> 1, status |-> "DRAFT", defect |-> {}]
    /\ root = None
    /\ interrupted = FALSE
    /\ fuse = FALSE
    /\ claim = [c \in Claims |->
                  [life |-> "ABSENT", version |-> 0, text |-> 0, verified |-> FALSE]]
    /\ route = [r \in Routes |-> [status |-> "ABSENT", version |-> 0, target |-> None]]
    /\ attempt = [a \in Attempts |-> [status |-> "ABSENT", route |-> None, bound |-> FALSE]]
    /\ lease = [a \in Attempts |-> [status |-> "NONE", ttl |-> 0]]
    /\ hostClaim = [a \in Attempts |-> [state |-> "NONE", ttl |-> 0]]
    /\ receipt = [a \in Attempts |-> NoReceipt]
    /\ calls = [a \in Attempts |-> 0]
    /\ host = [h \in Hosts |-> Down]
    /\ crashes = 0

-----------------------------------------------------------------------------
(* Commands on the run and its contract                                     *)

\* TransitionGuard.decide: every core command on a CLOSED run is rejected.
NotClosed == run # "CLOSED"

\* A claim of the current contract that is still ACTIVE (_object_scope).
CurrentClaim(c) == claim[c].life = "ACTIVE" /\ claim[c].version = contract.version

\* _Context.active_leases: ACTIVE and not yet expired.
LeaseLive(a) == lease[a].status = "ACTIVE" /\ lease[a].ttl > 0

\* EXPIRE_ACTIVE_LEASES and PAUSE_ACTIVE_ATTEMPTS.
ExpireActiveLeases ==
    lease' = [a \in Attempts |->
                IF lease[a].status = "ACTIVE" THEN [lease[a] EXCEPT !.status = "EXPIRED"]
                                              ELSE lease[a]]
PauseActiveAttempts ==
    attempt' = [a \in Attempts |->
                  IF attempt[a].status = "RUNNING" THEN [attempt[a] EXCEPT !.status = "PAUSED"]
                                                   ELSE attempt[a]]

FreezeContract ==
    /\ run = "OPEN"
    /\ contract.status = "DRAFT"
    /\ contract' = [contract EXCEPT !.status = "FROZEN"]
    /\ UNCHANGED <<run, root, interrupted, fuse, claim, route, attempt, lease, hostClaim,
                   receipt, calls, host, crashes>>

\* A ROOT restates the current contract (text: the version it restates) and may
\* not duplicate an ACTIVE one; the first may be registered before the freeze.
RegisterClaim(c) ==
    /\ NotClosed
    /\ claim[c].life = "ABSENT"
    /\ \/ contract.status = "FROZEN"
       \/ /\ contract.status = "DRAFT"
          /\ c \in Roots
          /\ \A d \in Roots : claim[d].life = "ABSENT"
    /\ c \in Roots =>
          ~\E d \in Roots : claim[d].life = "ACTIVE" /\ claim[d].text = contract.version
    /\ claim' = [claim EXCEPT ![c] = [life |-> "ACTIVE", version |-> contract.version,
                                      text |-> contract.version, verified |-> FALSE]]
    /\ root' = IF c \in Roots THEN c ELSE root
    /\ UNCHANGED <<run, contract, interrupted, fuse, route, attempt, lease, hostClaim,
                   receipt, calls, host, crashes>>

StartRun ==
    /\ run = "OPEN"
    /\ contract.status = "FROZEN"
    /\ root # None
    /\ CurrentClaim(root)
    /\ claim[root].text = contract.version
    /\ run' = "RUNNING"
    /\ UNCHANGED <<contract, root, interrupted, fuse, claim, route, attempt, lease,
                   hostClaim, receipt, calls, host, crashes>>

ProposeContractDefect(S) ==
    /\ NotClosed
    /\ contract.status = "FROZEN"
    /\ S # {}
    /\ \A c \in S : CurrentClaim(c)
    /\ contract' = [contract EXCEPT !.status = "DEFECT_PROPOSED", !.defect = S]
    /\ run' = "PAUSED"
    /\ UNCHANGED <<root, interrupted, fuse, claim, route, attempt, lease, hostClaim,
                   receipt, calls, host, crashes>>

\* Mutant: the routes are looked up by the version that was just created.
RetireNewVersion ==
    route' = [r \in Routes |->
                IF route[r].status # "ABSENT" /\ route[r].version = contract.version + 1
                  THEN [route[r] EXCEPT !.status = "RETIRED"] ELSE route[r]]

\* CREATE_CONTRACT_VERSION: the routes of the old contract are retired.
RetireRoutes ==
    route' = [r \in Routes |->
                IF route[r].status # "ABSENT" /\ route[r].version = contract.version
                  THEN [route[r] EXCEPT !.status = "RETIRED"] ELSE route[r]]

\* MIGRATE_CONTRACT_CLOSURE: the closure D of the defect is superseded, every other
\* ACTIVE claim is carried into the new version with its verdicts.
MigrateContractClosure(D) ==
    claim' = [c \in Claims |->
                IF c \in D THEN [claim[c] EXCEPT !.life = "SUPERSEDED"]
                ELSE IF CurrentClaim(c) THEN [claim[c] EXCEPT !.version = @ + 1]
                ELSE claim[c]]

\* AmendContract.  D is the dependency closure of the declared defect in the graph of
\* logical edges, which is not part of this module: any superset in the contract.
AmendContract(D) ==
    /\ NotClosed
    /\ contract.status = "DEFECT_PROPOSED"
    /\ contract.version < MaxVersion
    /\ contract.defect \subseteq D
    /\ \A c \in D : claim[c].life # "ABSENT" /\ claim[c].version = contract.version
    /\ ExpireActiveLeases
    /\ PauseActiveAttempts
    /\ contract' = [version |-> contract.version + 1, status |-> "FROZEN", defect |-> {}]
    /\ root' = None
    /\ RetireRoutes
    /\ MigrateContractClosure(D)
    /\ run' = "OPEN"
    /\ UNCHANGED <<interrupted, fuse, hostClaim, receipt, calls, host, crashes>>

\* RevokeFact -> REVOKE_FACT_CLOSURE, D the closure of the revoked fact c.
RevokeFact(c, D) ==
    /\ NotClosed
    /\ CurrentClaim(c)
    /\ c \in D
    /\ \A d \in D : claim[d].life # "ABSENT" /\ claim[d].version = contract.version
    /\ claim' = [d \in Claims |->
                   IF d \in D THEN [claim[d] EXCEPT !.life = "INVALIDATED"] ELSE claim[d]]
    /\ UNCHANGED <<run, contract, root, interrupted, fuse, route, attempt, lease, hostClaim,
                   receipt, calls, host, crashes>>

\* Mutant: leases are kept until their TTL runs out.
InterruptKeepsLeases ==
    /\ run = "RUNNING"
    /\ run' = "PAUSED"
    /\ PauseActiveAttempts
    /\ interrupted' = TRUE
    /\ UNCHANGED <<contract, root, fuse, claim, route, lease, hostClaim, receipt, calls, host,
                   crashes>>

Interrupt ==
    /\ run = "RUNNING"
    /\ ExpireActiveLeases
    /\ run' = "PAUSED"
    /\ PauseActiveAttempts
    /\ interrupted' = TRUE
    /\ UNCHANGED <<contract, root, fuse, claim, route, hostClaim, receipt, calls, host,
                   crashes>>

\* Resume needs the checkpoint of the last interrupt, no live lease and no fuse.
Resume ==
    /\ run = "PAUSED"
    /\ contract.status = "FROZEN"
    /\ interrupted
    /\ \A a \in Attempts : ~LeaseLive(a)
    /\ ~fuse
    /\ run' = "RUNNING"
    /\ UNCHANGED <<contract, root, interrupted, fuse, claim, route, attempt, lease,
                   hostClaim, receipt, calls, host, crashes>>

Finalize ==
    /\ NotClosed
    /\ \A a \in Attempts : ~LeaseLive(a)
    /\ run' = "CLOSED"
    /\ UNCHANGED <<contract, root, interrupted, fuse, claim, route, attempt, lease,
                   hostClaim, receipt, calls, host, crashes>>

\* RecordBudget with a FUSE_TRIP event on a route, whatever the route's status.
TripFuse(r) ==
    /\ NotClosed
    /\ route[r].status # "ABSENT"
    /\ fuse' = TRUE
    /\ route' = [route EXCEPT ![r].status = "BLOCKED"]
    /\ run' = "PAUSED"
    /\ UNCHANGED <<contract, root, interrupted, claim, attempt, lease, hostClaim, receipt,
                   calls, host, crashes>>

\* Mutant: usage is charged to a closed run.
UsageOverrunAnyRun ==
    /\ fuse' = TRUE
    /\ run' = "PAUSED"
    /\ UNCHANGED <<contract, root, interrupted, claim, route, attempt, lease, hostClaim,
                   receipt, calls, host, crashes>>

\* record_component_usage_atomic with usage above a limit.
UsageOverrun ==
    /\ run \in {"OPEN", "RUNNING", "PAUSED"}
    /\ fuse' = TRUE
    /\ run' = "PAUSED"
    /\ UNCHANGED <<contract, root, interrupted, claim, route, attempt, lease, hostClaim,
                   receipt, calls, host, crashes>>

-----------------------------------------------------------------------------
(* Commands on routes, attempts and leases                                  *)

RegisterRoute(r, c) ==
    /\ NotClosed
    /\ contract.status = "FROZEN"
    /\ CurrentClaim(c)
    /\ route[r].status = "ABSENT"
    /\ route' = [route EXCEPT ![r] = [status |-> "ACTIVE", version |-> contract.version,
                                      target |-> c]]
    /\ UNCHANGED <<run, contract, root, interrupted, fuse, claim, attempt, lease, hostClaim,
                   receipt, calls, host, crashes>>

\* Mutant: the write sets of paused attempts are not reserved.
FreeOfRunning(a) ==
    \A b \in Attempts :
        attempt[b].status \in {"QUEUED", "RUNNING"} => WriteSet[a] \cap WriteSet[b] = {}

\* No live attempt may write what a new one may write.
FreeWriteSet(a) ==
    \A b \in Attempts : attempt[b].status \in Live => WriteSet[a] \cap WriteSet[b] = {}

RegisterAttempt(a, r) ==
    /\ run = "RUNNING"
    /\ route[r].status \in {"ACTIVE", "BLOCKED"}
    /\ attempt[a].status = "ABSENT"
    /\ Cardinality({b \in Attempts : attempt[b].route = r}) < AttemptLimit
    /\ FreeWriteSet(a)
    /\ attempt' = [attempt EXCEPT ![a] = [status |-> "QUEUED", route |-> r, bound |-> FALSE]]
    /\ UNCHANGED <<kernelVars, fuse, lease, hostClaim, receipt, calls, host, crashes>>

BindExecution(a) ==
    /\ NotClosed
    /\ attempt[a].status = "QUEUED"
    /\ ~attempt[a].bound
    /\ attempt' = [attempt EXCEPT ![a].bound = TRUE]
    /\ UNCHANGED <<kernelVars, fuse, lease, hostClaim, receipt, calls, host, crashes>>

\* AcquireLease: neither the route nor its contract version is looked at.
AcquireLease(a) ==
    /\ run = "RUNNING"
    /\ attempt[a].status \in {"QUEUED", "PAUSED"}
    /\ ~LeaseLive(a)
    /\ attempt[a].bound
    /\ lease' = [lease EXCEPT ![a] = [status |-> "ACTIVE", ttl |-> LeaseTicks]]
    /\ attempt' = [attempt EXCEPT ![a].status = "RUNNING"]
    /\ UNCHANGED <<kernelVars, fuse, hostClaim, receipt, calls, host, crashes>>

\* Mutant: the TTL is added to what is left of the old one.
HeartbeatExtends(a) ==
    /\ NotClosed
    /\ LeaseLive(a)
    /\ lease' = [lease EXCEPT ![a].ttl = @ + LeaseTicks]
    /\ UNCHANGED <<kernelVars, fuse, attempt, hostClaim, receipt, calls, host, crashes>>

\* HeartbeatLease by the holder; the attempt's status is not looked at.
HeartbeatLease(a) ==
    /\ NotClosed
    /\ LeaseLive(a)
    /\ lease' = [lease EXCEPT ![a].ttl = LeaseTicks]
    /\ UNCHANGED <<kernelVars, fuse, attempt, hostClaim, receipt, calls, host, crashes>>

ReleaseLease(a, s) ==
    /\ NotClosed
    /\ LeaseLive(a)
    /\ attempt[a].status = "RUNNING"
    /\ lease' = [lease EXCEPT ![a].status = "RELEASED"]
    /\ attempt' = [attempt EXCEPT ![a].status = s]
    /\ UNCHANGED <<kernelVars, fuse, hostClaim, receipt, calls, host, crashes>>

-----------------------------------------------------------------------------
(* Host execution                                                           *)

Target(a) == claim[route[attempt[a].route].target]

\* What both the scope query and the claim transaction ask of the attempt.
Executable(a) ==
    /\ run = "RUNNING"
    /\ attempt[a].status = "RUNNING"
    /\ route[attempt[a].route].status = "ACTIVE"
    /\ Target(a).life = "ACTIVE"
    /\ lease[a].status = "ACTIVE"

\* host_execution_scope (and preflight_host_budget): a read before the claim.
ReadScope(h, a) ==
    /\ host[h].pc = "idle"
    /\ Executable(a)
    /\ lease[a].ttl > 0
    /\ Target(a).version = contract.version
    /\ route[attempt[a].route].version = contract.version
    /\ host' = [host EXCEPT ![h] = [pc |-> "scoped", attempt |-> a, version |-> contract.version]]
    /\ UNCHANGED <<kernelVars, fuse, attempt, lease, hostClaim, receipt, calls, crashes>>

\* Mutant: an attempt whose execution was fused may be claimed once more.
ClaimableAgain(a) == hostClaim[a].state \in {"NONE", "COMPLETED"}

\* host_execution_claims.attempt_id is the primary key: the right is burnt for good.
Claimable(a) == hostClaim[a].state = "NONE"

\* claim_host_execution.  Its `now` is the time of the scope read, so a lease that
\* lapsed since still counts, and recover_after may be nearer than the full timeout.
ClaimHostExecution(h, t) ==
    /\ host[h].pc = "scoped"
    /\ LET a == host[h].attempt IN
         /\ Executable(a)
         /\ Claimable(a)
         /\ hostClaim' = [hostClaim EXCEPT ![a] = [state |-> "PENDING", ttl |-> t]]
    /\ host' = [host EXCEPT ![h].pc = "claimed"]
    /\ UNCHANGED <<kernelVars, fuse, attempt, lease, receipt, calls, crashes>>

\* StorageConflict before the provider call: nothing happened, the process ends.
ClaimRefused(h) ==
    /\ host[h].pc = "scoped"
    /\ LET a == host[h].attempt IN ~(Executable(a) /\ Claimable(a))
    /\ host' = [host EXCEPT ![h] = Down]
    /\ UNCHANGED <<kernelVars, fuse, attempt, lease, hostClaim, receipt, calls, crashes>>

\* strategy.invoke starts.
Invoke(h) ==
    /\ host[h].pc = "claimed"
    /\ calls' = [calls EXCEPT ![host[h].attempt] = @ + 1]
    /\ host' = [host EXCEPT ![h].pc = "calling"]
    /\ UNCHANGED <<kernelVars, fuse, attempt, lease, hostClaim, receipt, crashes>>

\* heartbeat_host_execution, from the heartbeat thread.
HeartbeatHost(h) ==
    /\ host[h].pc \in {"claimed", "calling"}
    /\ hostClaim[host[h].attempt].state = "PENDING"
    /\ hostClaim' = [hostClaim EXCEPT ![host[h].attempt].ttl = RecoveryTicks]
    /\ UNCHANGED <<kernelVars, fuse, attempt, lease, receipt, calls, host, crashes>>

\* Mutant: only the scope is compared again after the call.
ScopeOnly(h) == host[h].version = contract.version

\* record_host_execution_atomic: neither SCOPE_DRIFT nor EXECUTION_STATE_DRIFT.
NoDrift(h) ==
    LET a == host[h].attempt IN
      /\ host[h].version = contract.version
      /\ Executable(a)
      /\ LeaseLive(a)

\* Mutant: the recording transaction does not look at the claim row.
AnyClaim(a) == TRUE

\* The claim row is still open (completed_at IS NULL).
ClaimOpen(a) == hostClaim[a].state = "PENDING"

\* record_host_execution_atomic: result, accounting and claim in one transaction.
\* The receipt is written in any case; ok and the budget only decide on authority.
RecordHostExecution(h, ok, overrun) ==
    /\ host[h].pc = "calling"
    /\ LET a == host[h].attempt IN
         /\ ClaimOpen(a)
         /\ receipt' = [receipt EXCEPT ![a] =
                          [count |-> receipt[a].count + 1,
                           eligible |-> ok /\ ~overrun /\ NoDrift(h),
                           version |-> host[h].version, consumed |-> 0]]
         /\ hostClaim' = [hostClaim EXCEPT ![a].state = "COMPLETED"]
    /\ fuse' = (fuse \/ overrun)
    /\ host' = [host EXCEPT ![h] = Down]
    /\ UNCHANGED <<kernelVars, attempt, lease, calls, crashes>>

\* The claim was settled by a recovery meanwhile: StorageConflict, no receipt.
RecordRefused(h) ==
    /\ host[h].pc = "calling"
    /\ ~ClaimOpen(host[h].attempt)
    /\ host' = [host EXCEPT ![h] = Down]
    /\ UNCHANGED <<kernelVars, fuse, attempt, lease, hostClaim, receipt, calls, crashes>>

\* Mutant: the recovery marks the claim and trips the fuse, nothing else.
FuseClaimOnly(S) ==
    /\ hostClaim' = [a \in Attempts |->
                       IF a \in S THEN [hostClaim[a] EXCEPT !.state = "UNKNOWN_FUSED"]
                                  ELSE hostClaim[a]]
    /\ UNCHANGED <<attempt, lease>>
    /\ fuse' = (fuse \/ S # {})

\* recover_incomplete_host_claims on the open claims S: never retry, fail closed.
FuseClaims(S) ==
    /\ hostClaim' = [a \in Attempts |->
                       IF a \in S THEN [hostClaim[a] EXCEPT !.state = "UNKNOWN_FUSED"]
                                  ELSE hostClaim[a]]
    /\ attempt' = [a \in Attempts |->
                     IF a \in S /\ attempt[a].status \in Live
                       THEN [attempt[a] EXCEPT !.status = "ENVIRONMENT_ERROR"] ELSE attempt[a]]
    /\ lease' = [a \in Attempts |->
                   IF a \in S /\ lease[a].status = "ACTIVE"
                     THEN [lease[a] EXCEPT !.status = "REVOKED"] ELSE lease[a]]
    /\ fuse' = (fuse \/ S # {})

\* _execute_claimed raised while the process is alive: forced recovery of its claim.
HostException(h) ==
    /\ host[h].pc \in {"claimed", "calling"}
    /\ LET a == host[h].attempt IN FuseClaims(IF ClaimOpen(a) THEN {a} ELSE {})
    /\ host' = [host EXCEPT ![h] = Down]
    /\ UNCHANGED <<kernelVars, receipt, calls, crashes>>

\* The process dies; its claim stays open until its deadline.
Crash(h) ==
    /\ host[h].pc # "down"
    /\ crashes < MaxCrashes
    /\ crashes' = crashes + 1
    /\ host' = [host EXCEPT ![h] = Down]
    /\ UNCHANGED <<kernelVars, fuse, attempt, lease, hostClaim, receipt, calls>>

\* Mutant: a new service never looks at the claims of an earlier one.
NoRecovery == {}

\* The open claims whose deadline has passed.
Overdue == {a \in Attempts : hostClaim[a].state = "PENDING" /\ hostClaim[a].ttl = 0}

\* A service is constructed: __init__ calls recover_incomplete.
Boot(h) ==
    /\ host[h].pc = "down"
    /\ FuseClaims(Overdue)
    /\ host' = [host EXCEPT ![h].pc = "idle"]
    /\ UNCHANGED <<kernelVars, receipt, calls, crashes>>

\* The process ends without an execution.
Exit(h) ==
    /\ host[h].pc = "idle"
    /\ host' = [host EXCEPT ![h] = Down]
    /\ UNCHANGED <<kernelVars, fuse, attempt, lease, hostClaim, receipt, calls, crashes>>

\* Mutant: the authority of the receipt is not looked at.
ConsumableAny(a) ==
    /\ receipt[a].count = 1
    /\ receipt[a].consumed = 0
    /\ receipt[a].version = contract.version
    /\ run = "RUNNING"
    /\ route[attempt[a].route].status = "ACTIVE"
    /\ Target(a).life = "ACTIVE"
    /\ attempt[a].status \in {"RUNNING", "SUCCEEDED"}

\* Mutant: the state of the run and of the claim is not read again at consumption.
ConsumableLater(a) ==
    /\ receipt[a].eligible
    /\ receipt[a].consumed = 0
    /\ attempt[a].status \in {"RUNNING", "SUCCEEDED"}

\* consume_host_lean_receipt_atomic and consume_host_checker_receipt_atomic.
Consumable(a) ==
    /\ receipt[a].eligible
    /\ receipt[a].consumed = 0
    /\ receipt[a].version = contract.version
    /\ run = "RUNNING"
    /\ route[attempt[a].route].status = "ACTIVE"
    /\ Target(a).life = "ACTIVE"
    /\ attempt[a].status \in {"RUNNING", "SUCCEEDED"}

Consume(a) ==
    /\ Consumable(a)
    /\ receipt' = [receipt EXCEPT ![a].consumed = @ + 1]
    /\ claim' = [claim EXCEPT ![route[attempt[a].route].target].verified = TRUE]
    /\ UNCHANGED <<run, contract, root, interrupted, fuse, route, attempt, lease, hostClaim,
                   calls, host, crashes>>

\* The clock: leases and open host claims come one tick closer to their deadline.
Tick ==
    /\ \E a \in Attempts : LeaseLive(a) \/ (ClaimOpen(a) /\ hostClaim[a].ttl > 0)
    /\ lease' = [a \in Attempts |->
                   IF LeaseLive(a) THEN [lease[a] EXCEPT !.ttl = @ - 1] ELSE lease[a]]
    /\ hostClaim' = [a \in Attempts |->
                       IF ClaimOpen(a) /\ hostClaim[a].ttl > 0
                         THEN [hostClaim[a] EXCEPT !.ttl = @ - 1] ELSE hostClaim[a]]
    /\ UNCHANGED <<kernelVars, fuse, attempt, receipt, calls, host, crashes>>

-----------------------------------------------------------------------------
ContractStep ==
    \/ FreezeContract \/ StartRun \/ Interrupt \/ Resume \/ Finalize \/ UsageOverrun
    \/ \E c \in Claims : RegisterClaim(c)
    \/ \E S \in SUBSET Claims : ProposeContractDefect(S)
    \/ \E D \in SUBSET Claims : AmendContract(D)
    \/ \E c \in Claims, D \in SUBSET Claims : RevokeFact(c, D)
    \/ \E r \in Routes : TripFuse(r)

AttemptStep ==
    \/ \E r \in Routes, c \in Claims : RegisterRoute(r, c)
    \/ \E a \in Attempts, r \in Routes : RegisterAttempt(a, r)
    \/ \E a \in Attempts : BindExecution(a) \/ AcquireLease(a) \/ HeartbeatLease(a)
    \/ \E a \in Attempts, s \in Released : ReleaseLease(a, s)
    \/ \E a \in Attempts : Consume(a)

\* A step that brings a host process nearer to its end.
HostStep(h) ==
    \/ Boot(h)
    \/ Exit(h)
    \/ \E t \in 0 .. RecoveryTicks : ClaimHostExecution(h, t)
    \/ ClaimRefused(h)
    \/ Invoke(h)
    \/ \E ok, overrun \in BOOLEAN : RecordHostExecution(h, ok, overrun)
    \/ RecordRefused(h)
    \/ HostException(h)

Next ==
    \/ ContractStep
    \/ AttemptStep
    \/ \E h \in Hosts : HostStep(h) \/ HeartbeatHost(h) \/ Crash(h)
    \/ \E h \in Hosts, a \in Attempts : ReadScope(h, a)
    \/ Tick

Spec == Init /\ [][Next]_vars

\* Every CLI process constructs a service and ends; provider calls have a timeout;
\* the clock advances.  Commands and consumption are up to the clients: no fairness.
Fairness == WF_vars(Tick) /\ \A h \in Hosts : WF_vars(HostStep(h))
FairSpec == Spec /\ Fairness

-----------------------------------------------------------------------------
(* Properties                                                               *)

\* Every row holds values its table's CHECK constraints allow.
TypeOK ==
    /\ run \in {"OPEN", "RUNNING", "PAUSED", "CLOSED"}
    /\ contract \in [version : Versions, status : {"DRAFT", "FROZEN", "DEFECT_PROPOSED"},
                     defect : SUBSET Claims]
    /\ root \in Roots \cup {None}
    /\ interrupted \in BOOLEAN /\ fuse \in BOOLEAN
    /\ claim \in [Claims -> [life : {"ABSENT", "ACTIVE", "SUPERSEDED", "INVALIDATED"},
                             version : Versions \cup {0}, text : Versions \cup {0},
                             verified : BOOLEAN]]
    /\ route \in [Routes -> [status : {"ABSENT", "ACTIVE", "BLOCKED", "RETIRED"},
                             version : Versions \cup {0}, target : Claims \cup {None}]]
    /\ attempt \in [Attempts -> [status : {"ABSENT"} \cup Live \cup Ended,
                                 route : Routes \cup {None}, bound : BOOLEAN]]
    /\ lease \in [Attempts -> [status : {"NONE", "ACTIVE", "RELEASED", "EXPIRED", "REVOKED"},
                               ttl : 0 .. LeaseTicks]]
    /\ hostClaim \in [Attempts -> [state : {"NONE", "PENDING", "COMPLETED", "UNKNOWN_FUSED"},
                                   ttl : 0 .. RecoveryTicks]]
    /\ receipt \in [Attempts -> [count : Nat, eligible : BOOLEAN,
                                 version : Versions \cup {0}, consumed : Nat]]
    /\ calls \in [Attempts -> Nat]
    /\ host \in [Hosts -> [pc : {"down", "idle", "scoped", "claimed", "calling"},
                           attempt : Attempts \cup {None}, version : Versions \cup {0}]]
    /\ crashes \in 0 .. MaxCrashes

\* The execution right of an attempt is burnt before the provider call: whatever
\* crashes, recoveries and concurrent hosts do, the provider is called at most once
\* per attempt, and never for an attempt without a claim row.
OneCallPerAttempt ==
    \A a \in Attempts :
        /\ calls[a] + Cardinality({h \in Hosts : host[h].attempt = a /\ host[h].pc = "claimed"}) <= 1
        /\ calls[a] = 1 => hostClaim[a].state # "NONE"

\* A host claim ends in exactly one of two ways: COMPLETED with exactly one receipt,
\* or UNKNOWN_FUSED with none; then the attempt is over, its lease is gone and the
\* budget fuse keeps the run from being resumed.
ClaimsSettleOneWay ==
    \A a \in Attempts :
        /\ receipt[a].count = (IF hostClaim[a].state = "COMPLETED" THEN 1 ELSE 0)
        /\ hostClaim[a].state = "UNKNOWN_FUSED" =>
              attempt[a].status \in Ended /\ lease[a].status # "ACTIVE" /\ fuse

\* An attempt is RUNNING exactly while it has an ACTIVE lease row, across interrupts,
\* amendments, releases and host recoveries.
RunningIffLeased ==
    \A a \in Attempts : attempt[a].status = "RUNNING" <=> lease[a].status = "ACTIVE"

\* Two attempts that are not over never share a path they may write.
DisjointWriteSets ==
    \A a, b \in Attempts :
        a # b /\ attempt[a].status \in Live /\ attempt[b].status \in Live =>
            WriteSet[a] \cap WriteSet[b] = {}

\* After any number of amendments, a claim or a route that is still ACTIVE belongs to
\* the current contract, and the run's root is a ROOT of the current contract.
ActiveIsCurrent ==
    /\ \A c \in Claims : claim[c].life = "ACTIVE" => claim[c].version = contract.version
    /\ \A r \in Routes : route[r].status = "ACTIVE" => route[r].version = contract.version
    /\ root # None => claim[root].version = contract.version

\* A machine verdict is earned: some attempt on the claim called the provider once,
\* its claim row completed, and its one authority-bearing receipt was consumed once.
VerdictsAreEarned ==
    /\ TypeOK /\ ActiveIsCurrent
    /\ \A c \in Claims : claim[c].verified =>
           \E a \in Attempts :
               /\ attempt[a].route # None /\ route[attempt[a].route].target = c
               /\ calls[a] = 1
               /\ hostClaim[a].state = "COMPLETED"
               /\ receipt[a] = [receipt[a] EXCEPT !.count = 1, !.eligible = TRUE, !.consumed = 1]

\* A verdict is raised only while the run is RUNNING, for a claim that is ACTIVE in the
\* current contract, from a call that began under that contract and was not fused.
VerdictsServeTheContract ==
    [][\A c \in Claims : claim'[c].verified /\ ~claim[c].verified =>
          run = "RUNNING" /\ CurrentClaim(c) /\ contract' = contract]_vars

\* Authority needs an unbroken execution state: when an eligible receipt is recorded the
\* attempt still holds an unexpired lease on a route of the contract it was read under.
EligibleMeansLeased ==
    [][\A a \in Attempts : receipt'[a].eligible /\ ~receipt[a].eligible =>
          /\ run = "RUNNING" /\ attempt[a].status = "RUNNING" /\ LeaseLive(a)
          /\ route[attempt[a].route].version = contract.version
          /\ Target(a).version = contract.version]_vars

\* A closed run is frozen: no later step, not even of a host that is still running or of
\* a late usage report, changes its status, contract, claims, routes or root.
ClosedRunIsFrozen ==
    [][run = "CLOSED" => UNCHANGED kernelVars]_vars

\* What is over stays over: an ended attempt keeps its status and a settled host claim
\* is not settled again, by a late result or by a second recovery.
EndedStays ==
    [][\A a \in Attempts :
          /\ attempt[a].status \in Ended => attempt'[a] = attempt[a]
          /\ hostClaim[a].state \in {"COMPLETED", "UNKNOWN_FUSED"} =>
                hostClaim'[a].state = hostClaim[a].state]_vars

\* No execution stays ambiguous: a claim that is opened is completed or fused.
PendingClaimsSettle ==
    \A a \in Attempts :
        hostClaim[a].state = "PENDING" ~> hostClaim[a].state \in {"COMPLETED", "UNKNOWN_FUSED"}

\* What the execution right, leases, write sets and host claims are for, together:
\* nothing is executed twice, by two or by nobody (storage.py claim_host_execution and
\* recover_host_executions, guard.py attempt and lease transitions).
AttemptsAreFenced ==
    OneCallPerAttempt /\ ClaimsSettleOneWay /\ RunningIffLeased /\ DisjointWriteSets

\* The current contract governs every step: verdicts and authority arise only under it and
\* nothing moves once the run is closed (guard.py, storage.py record_host_execution).
ContractGovernsSteps == VerdictsServeTheContract /\ EligibleMeansLeased /\ ClosedRunIsFrozen

\* A host claim that is opened is settled in the end, and for good.
ClaimsSettleForGood == EndedStays /\ PendingClaimsSettle

(* What the repository's documents say and the code does not do.            *)

\* docs/implementation-status.md: a run has only one ACTIVE ROOT.
OneActiveRoot ==
    Cardinality({c \in Roots : claim[c].life = "ACTIVE"}) <= 1

\* docs/spec/transitions.md, common preconditions: contract version and ownership of
\* claim, route and attempt agree.  An attempt that runs serves the current contract.
RunningServesCurrentContract ==
    \A a \in Attempts : attempt[a].status = "RUNNING" =>
        route[attempt[a].route].version = contract.version
=============================================================================
