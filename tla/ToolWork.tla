------------------------------ MODULE ToolWork ------------------------------
(***************************************************************************)
(* Tool runs and the interpreter processes that serve them: ToolRunStore   *)
(* (tool_runs.py), ManagedPythonExecutor (managed_python.py) and the pump  *)
(* that drives it in production (production_managed_python.py, the         *)
(* _ManagedCompute port, _ManagedReceiptPump).  The queue is reduced to    *)
(* what a tool sees of it: a state, a lease generation, an active lease.   *)
(*                                                                         *)
(* Identifiers of a tool run, an attempt and an execution are derived from *)
(* the job that asked for them, so a job names all three.                  *)
(***************************************************************************)
EXTENDS Naturals

CONSTANTS ToolJobs,       \* RUN_TOOL and CREATE_COMPUTE_TASK jobs
          ToolPumps,      \* daemons that drain the queue
          Requeued,       \* jobs whose retry policy puts them back after a lost lease
          MaxLeases,      \* leases each job is given (bound)
          NoTool          \* no row, no receipt, no job

VARIABLES queue,        \* rows of product_jobs with their leases
          toolRuns,     \* rows of product_tool_runs, by the job of the first attempt
          attempts,     \* rows of product_tool_attempts
          available,    \* the catalog says the function may be executed
          executions,   \* rows of product_managed_python_executions
          interpreters, \* jobs whose interpreter process is alive
          spawned,      \* history: processes started for a job
          toolPump,     \* what each daemon is doing
          clerk         \* a request between its read and its write

toolVars == <<queue, toolRuns, attempts, available, executions, interpreters,
              spawned, toolPump, clerk>>

ToolOutcomes == {"SUCCEEDED", "FAILED", "CANCELLED"}
JobEnds == ToolOutcomes \cup {"OUTCOME_UNKNOWN"}
JobStates == JobEnds \cup {"QUEUED", "RUNNING", "WAITING", "CANCEL_REQUESTED"}

ToolRunRow == [current : ToolJobs, invocation : JobStates,
               validation : {"NOT_SUBMITTED", "VALIDATION_ACCEPTED", "VALIDATION_REJECTED"}]
AttemptRow == [run : ToolJobs, status : JobStates, receipt : ToolOutcomes \cup {NoTool}]
ExecutionRow == [state : {"STARTING", "RUNNING", "RECEIPT_RECORDED", "ABANDONED"},
                 pending : ToolOutcomes \cup {NoTool}]

\* A missing row is no row.
ASSUME ToolInputs ==
    /\ Requeued \subseteq ToolJobs /\ MaxLeases \in [ToolJobs -> Nat]
    /\ NoTool \notin ToolOutcomes /\ NoTool \notin ToolRunRow /\ NoTool \notin AttemptRow
    /\ NoTool \notin ExecutionRow

IdlePump == [pc |-> "idle", job |-> NoTool, gen |-> 0, outcome |-> NoTool]
NoRequest == [pc |-> "idle", run |-> NoTool, attempt |-> NoTool, seen |-> NoTool]

PumpAt(p, pc) == toolPump[p].pc = pc
JobOf(p) == toolPump[p].job
PumpGoto(p, pc) == toolPump' = [toolPump EXCEPT ![p].pc = pc]

\* The lease that pump p was given is still the active one (ActiveLeaseResolver).
HoldsLease(p) == queue[JobOf(p)].leased /\ queue[JobOf(p)].gen = toolPump[p].gen

\* An exception leaves run_once: the job keeps its lease until it expires.
PumpRaises(p) == toolPump' = [toolPump EXCEPT ![p] = IdlePump]

-----------------------------------------------------------------------------
(* From the queue to a running interpreter *)

ClaimToolJob(p, j) ==
    /\ PumpAt(p, "idle") /\ queue[j].state = "QUEUED" /\ queue[j].gen < MaxLeases[j]
    /\ queue' = [queue EXCEPT ![j] = [state |-> "RUNNING", gen |-> @.gen + 1, leased |-> TRUE]]
    /\ toolPump' = [toolPump EXCEPT ![p] = [pc |-> "bind", job |-> j, gen |-> queue[j].gen + 1,
                                            outcome |-> NoTool]]
    /\ UNCHANGED <<toolRuns, attempts, available, executions, interpreters, spawned, clerk>>

\* A job id is unique among the attempts, and a request has one tool run whose current
\* attempt must still be this one: both conflicts raise.
BindingFits(j) == IF toolRuns[j] = NoTool THEN attempts[j] = NoTool
                  ELSE toolRuns[j].current = j

\* The run and its first attempt are inserted together; rows that exist stay.
InsertRun(j) ==
    /\ toolRuns' = IF toolRuns[j] # NoTool THEN toolRuns
                   ELSE [toolRuns EXCEPT ![j] = [current |-> j, invocation |-> "QUEUED",
                                                 validation |-> "NOT_SUBMITTED"]]
    /\ attempts' = IF attempts[j] # NoTool THEN attempts
                   ELSE [attempts EXCEPT ![j] = [run |-> j, status |-> "QUEUED",
                                                 receipt |-> NoTool]]

BindRequest(p) ==
    /\ PumpAt(p, "bind")
    /\ LET j == JobOf(p) IN
       IF HoldsLease(p) /\ queue[j].state = "RUNNING" /\ available /\ BindingFits(j)
       THEN InsertRun(j) /\ PumpGoto(p, "reserve")
       ELSE PumpRaises(p) /\ UNCHANGED <<toolRuns, attempts>>
    /\ UNCHANGED <<queue, available, executions, interpreters, spawned, clerk>>

\* The catalog, the profile or the arguments do not fit: a rejected decision, no process.
BindingRejected(p) ==
    /\ PumpAt(p, "bind") /\ HoldsLease(p)
    /\ toolPump' = [toolPump EXCEPT ![p].pc = "resolve", ![p].outcome = "FAILED"]
    /\ UNCHANGED <<queue, toolRuns, attempts, available, executions, interpreters, spawned, clerk>>

ValidBinding(p) == LET j == JobOf(p) IN toolRuns[j].current = j /\ queue[j].state = "RUNNING"

\* Mutant: an execution that was abandoned may be started once more.
ReserveAgain(p) ==
    /\ PumpAt(p, "reserve")
    /\ LET j == JobOf(p) IN
       IF ValidBinding(p) /\ (executions[j] = NoTool \/ executions[j].state = "ABANDONED")
       THEN /\ executions' = [executions EXCEPT ![j] = [state |-> "STARTING", pending |-> NoTool]]
            /\ PumpGoto(p, "spawn")
       ELSE PumpRaises(p) /\ UNCHANGED executions
    /\ UNCHANGED <<queue, toolRuns, attempts, available, interpreters, spawned, clerk>>

\* Whatever state a row of this execution is in, a second start is refused.
Reserve(p) ==
    /\ PumpAt(p, "reserve")
    /\ LET j == JobOf(p) IN
       IF ValidBinding(p) /\ executions[j] = NoTool
       THEN /\ executions' = [executions EXCEPT ![j] = [state |-> "STARTING", pending |-> NoTool]]
            /\ PumpGoto(p, "spawn")
       ELSE PumpRaises(p) /\ UNCHANGED executions
    /\ UNCHANGED <<queue, toolRuns, attempts, available, interpreters, spawned, clerk>>

MarkAbandoned(j) ==
    executions' = IF executions[j].state \in {"STARTING", "RUNNING"} /\ executions[j].pending = NoTool
                  THEN [executions EXCEPT ![j].state = "ABANDONED"] ELSE executions

\* Any failure inside execute: the row is abandoned unless its receipt is staged already.
ExecuteFails(p) ==
    /\ toolPump[p].pc \in {"spawn", "mark", "wait", "stage"}
    /\ MarkAbandoned(JobOf(p)) /\ PumpRaises(p)
    /\ UNCHANGED <<queue, toolRuns, attempts, available, interpreters, spawned, clerk>>

Spawn(p) ==
    /\ PumpAt(p, "spawn")
    /\ interpreters' = interpreters \cup {JobOf(p)}
    /\ spawned' = [spawned EXCEPT ![JobOf(p)] = @ + 1]
    /\ PumpGoto(p, "mark")
    /\ UNCHANGED <<queue, toolRuns, attempts, available, executions, clerk>>

MarkRunning(p) ==
    /\ PumpAt(p, "mark") /\ executions[JobOf(p)].state = "STARTING"
    /\ executions' = [executions EXCEPT ![JobOf(p)].state = "RUNNING"]
    /\ PumpGoto(p, "wait")
    /\ UNCHANGED <<queue, toolRuns, attempts, available, interpreters, spawned, clerk>>

\* The process ends, runs into a limit, or is terminated because the job is being
\* cancelled.  Outputs that do not match their manifest turn success into failure.
WaitForExit(p, o) ==
    /\ PumpAt(p, "wait")
    /\ o = "CANCELLED" => queue[JobOf(p)].state = "CANCEL_REQUESTED"
    /\ interpreters' = interpreters \ {JobOf(p)}
    /\ toolPump' = [toolPump EXCEPT ![p].pc = "stage", ![p].outcome = o]
    /\ UNCHANGED <<queue, toolRuns, attempts, available, executions, spawned, clerk>>

StageReceipt(p) ==
    /\ PumpAt(p, "stage") /\ executions[JobOf(p)].state = "RUNNING"
    /\ executions' = [executions EXCEPT ![JobOf(p)].pending = toolPump[p].outcome]
    /\ PumpGoto(p, "resolve")
    /\ UNCHANGED <<queue, toolRuns, attempts, available, interpreters, spawned, clerk>>

\* _ManagedCompute: whatever is not a success is a rejected execution, that is, FAILED.
TypedOutcome(o) == IF o = "SUCCEEDED" THEN "SUCCEEDED" ELSE "FAILED"

ResolveToolJob(p) ==
    /\ PumpAt(p, "resolve")
    /\ LET j == JobOf(p) IN
       IF HoldsLease(p) /\ queue[j].state \in {"RUNNING", "WAITING", "CANCEL_REQUESTED"}
       THEN /\ queue' = [queue EXCEPT ![j].state = TypedOutcome(toolPump[p].outcome),
                                      ![j].leased = FALSE]
            /\ toolPump' = [toolPump EXCEPT ![p] = [IdlePump EXCEPT !.pc = "harvest"]]
       ELSE UNCHANGED queue /\ PumpRaises(p)
    /\ UNCHANGED <<toolRuns, attempts, available, executions, interpreters, spawned, clerk>>

-----------------------------------------------------------------------------
(* Receipts are handed over after the job is resolved, or after a restart *)

IdleHarvest(p) ==
    /\ PumpAt(p, "idle") /\ PumpGoto(p, "harvest")
    /\ UNCHANGED <<queue, toolRuns, attempts, available, executions, interpreters, spawned, clerk>>

Harvesting(p) == toolPump[p].pc \in {"harvest", "restart"}
Harvestable(j) == executions[j] # NoTool /\ executions[j].state = "RUNNING"
                  /\ executions[j].pending # NoTool
JobAgrees(j) == queue[j].state = executions[j].pending

\* Mutant: the staged receipt is recorded whatever became of the job.
RecordWithoutJob(p, j) ==
    /\ Harvesting(p) /\ Harvestable(j)
    /\ toolRuns[attempts[j].run].current = j /\ attempts[j].receipt = NoTool
    /\ attempts' = [attempts EXCEPT ![j].status = executions[j].pending,
                                    ![j].receipt = executions[j].pending]
    /\ toolRuns' = [toolRuns EXCEPT ![attempts[j].run].invocation = executions[j].pending]
    /\ available' = (available \/ executions[j].pending = "SUCCEEDED")
    /\ UNCHANGED <<queue, executions, interpreters, spawned, toolPump, clerk>>

\* A receipt that no longer binds the current attempt raises and ends the harvest.
RecordToolReceipt(p, j) ==
    /\ Harvesting(p) /\ Harvestable(j) /\ JobAgrees(j)
    /\ toolRuns[attempts[j].run].current = j /\ attempts[j].receipt = NoTool
    /\ attempts' = [attempts EXCEPT ![j].status = executions[j].pending,
                                    ![j].receipt = executions[j].pending]
    /\ toolRuns' = [toolRuns EXCEPT ![attempts[j].run].invocation = executions[j].pending]
    /\ available' = (available \/ executions[j].pending = "SUCCEEDED")
    /\ UNCHANGED <<queue, executions, interpreters, spawned, toolPump, clerk>>

\* A receipt recorded before a crash is replayed: equal, it only finishes the execution.
FinishExecution(p, j) ==
    /\ Harvesting(p) /\ Harvestable(j) /\ JobAgrees(j)
    /\ toolRuns[attempts[j].run].current = j
    /\ attempts[j].receipt = executions[j].pending /\ attempts[j].status = executions[j].pending
    /\ executions' = [executions EXCEPT ![j].state = "RECEIPT_RECORDED"]
    /\ UNCHANGED <<queue, toolRuns, attempts, available, interpreters, spawned, toolPump, clerk>>

AbandonOrphan(p, j) ==
    /\ PumpAt(p, "restart") /\ executions[j] # NoTool
    /\ executions[j].state = "RUNNING" /\ executions[j].pending = NoTool
    /\ interpreters' = interpreters \ {j}
    /\ MarkAbandoned(j)
    /\ UNCHANGED <<queue, toolRuns, attempts, available, spawned, toolPump, clerk>>

EndHarvest(p) ==
    /\ Harvesting(p) /\ PumpRaises(p)
    /\ UNCHANGED <<queue, toolRuns, attempts, available, executions, interpreters, spawned, clerk>>

\* The daemon dies; an interpreter has a session of its own and survives it.
DaemonDies(p) ==
    /\ ~PumpAt(p, "idle") /\ toolPump' = [toolPump EXCEPT ![p] = [IdlePump EXCEPT !.pc = "restart"]]
    /\ UNCHANGED <<queue, toolRuns, attempts, available, executions, interpreters, spawned, clerk>>

-----------------------------------------------------------------------------
(* The queue's own moves *)

ToolLeaseExpires(j) ==
    /\ queue[j].leased
    /\ queue' = [queue EXCEPT ![j].leased = FALSE,
                     ![j].state = IF @ = "CANCEL_REQUESTED" \/ j \notin Requeued
                                  THEN "OUTCOME_UNKNOWN" ELSE "QUEUED"]
    /\ UNCHANGED <<toolRuns, attempts, available, executions, interpreters, spawned, toolPump, clerk>>

CancelToolJob(j) ==
    /\ queue[j].state \notin JobEnds
    /\ queue' = [queue EXCEPT ![j].state = IF @ = "QUEUED" THEN "CANCELLED" ELSE "CANCEL_REQUESTED"]
    /\ UNCHANGED <<toolRuns, attempts, available, executions, interpreters, spawned, toolPump, clerk>>

SetAvailability ==
    /\ available' = ~available
    /\ UNCHANGED <<queue, toolRuns, attempts, executions, interpreters, spawned, toolPump, clerk>>

-----------------------------------------------------------------------------
(* Requests that read outside their transaction and write inside it *)

ReconcileRead(r) ==
    /\ clerk.pc = "idle" /\ toolRuns[r] # NoTool
    /\ LET a == toolRuns[r].current IN
       clerk' = [pc |-> "reconcile", run |-> r, attempt |-> a,
                 seen |-> IF queue[a].state = "SUCCEEDED" /\ attempts[a].receipt = NoTool
                          THEN "WAITING" ELSE queue[a].state]
    /\ UNCHANGED <<queue, toolRuns, attempts, available, executions, interpreters, spawned, toolPump>>

ReconcileWrite ==
    /\ clerk.pc = "reconcile"
    /\ attempts' = [attempts EXCEPT ![clerk.attempt].status = clerk.seen]
    /\ toolRuns' = [toolRuns EXCEPT ![clerk.run].invocation = clerk.seen]
    /\ clerk' = NoRequest
    /\ UNCHANGED <<queue, available, executions, interpreters, spawned, toolPump>>

RerunRead(r, j) ==
    /\ clerk.pc = "idle" /\ toolRuns[r] # NoTool
    /\ attempts[toolRuns[r].current].status \in JobEnds /\ queue[j].state = "QUEUED"
    /\ clerk' = [NoRequest EXCEPT !.pc = "rerun", !.run = r, !.attempt = j]
    /\ UNCHANGED <<queue, toolRuns, attempts, available, executions, interpreters, spawned, toolPump>>

\* The insert fails when the job has been bound to an attempt meanwhile.
RerunWrite ==
    /\ clerk.pc = "rerun" /\ clerk' = NoRequest
    /\ IF attempts[clerk.attempt] # NoTool THEN UNCHANGED <<attempts, toolRuns>>
       ELSE /\ attempts' = [attempts EXCEPT ![clerk.attempt] =
                               [run |-> clerk.run, status |-> "QUEUED", receipt |-> NoTool]]
            /\ toolRuns' = [toolRuns EXCEPT ![clerk.run] =
                               [current |-> clerk.attempt, invocation |-> "QUEUED",
                                validation |-> "NOT_SUBMITTED"]]
    /\ UNCHANGED <<queue, available, executions, interpreters, spawned, toolPump>>

ValidationRead(r, v) ==
    /\ clerk.pc = "idle" /\ toolRuns[r] # NoTool
    /\ toolRuns[r].validation = "NOT_SUBMITTED" /\ toolRuns[r].invocation = "SUCCEEDED"
    /\ clerk' = [NoRequest EXCEPT !.pc = "validate", !.run = r, !.seen = v]
    /\ UNCHANGED <<queue, toolRuns, attempts, available, executions, interpreters, spawned, toolPump>>

ValidationWrite ==
    /\ clerk.pc = "validate" /\ clerk' = NoRequest
    /\ toolRuns' = IF toolRuns[clerk.run].validation # "NOT_SUBMITTED" THEN toolRuns
                   ELSE [toolRuns EXCEPT ![clerk.run].validation = clerk.seen]
    /\ UNCHANGED <<queue, attempts, available, executions, interpreters, spawned, toolPump>>

-----------------------------------------------------------------------------
ToolInit ==
    /\ queue = [j \in ToolJobs |-> [state |-> "QUEUED", gen |-> 0, leased |-> FALSE]]
    /\ toolRuns = [j \in ToolJobs |-> NoTool] /\ attempts = [j \in ToolJobs |-> NoTool]
    /\ executions = [j \in ToolJobs |-> NoTool] /\ spawned = [j \in ToolJobs |-> 0]
    /\ available = TRUE /\ interpreters = {}
    /\ toolPump = [p \in ToolPumps |-> IdlePump] /\ clerk = NoRequest

ToolPumpStep(p) ==
    \/ \E j \in ToolJobs : ClaimToolJob(p, j) \/ RecordToolReceipt(p, j)
                           \/ FinishExecution(p, j) \/ AbandonOrphan(p, j)
    \/ BindRequest(p) \/ BindingRejected(p) \/ Reserve(p) \/ ExecuteFails(p)
    \/ Spawn(p) \/ MarkRunning(p) \/ StageReceipt(p) \/ ResolveToolJob(p)
    \/ \E o \in ToolOutcomes : WaitForExit(p, o)
    \/ IdleHarvest(p) \/ EndHarvest(p) \/ DaemonDies(p)

ToolNext ==
    \/ \E p \in ToolPumps : ToolPumpStep(p)
    \/ \E j \in ToolJobs : \/ ToolLeaseExpires(j) \/ CancelToolJob(j) \/ ReconcileRead(j)
                           \/ \E k \in ToolJobs : RerunRead(j, k)
                           \/ \E v \in {"VALIDATION_ACCEPTED", "VALIDATION_REJECTED"} :
                                 ValidationRead(j, v)
    \/ SetAvailability \/ ReconcileWrite \/ RerunWrite \/ ValidationWrite

ToolSpec == ToolInit /\ [][ToolNext]_toolVars

-----------------------------------------------------------------------------
ToolTypeOK ==
    /\ queue \in [ToolJobs -> [state : JobStates, gen : Nat, leased : BOOLEAN]]
    /\ toolRuns \in [ToolJobs -> ToolRunRow \cup {NoTool}]
    /\ attempts \in [ToolJobs -> AttemptRow \cup {NoTool}]
    /\ executions \in [ToolJobs -> ExecutionRow \cup {NoTool}]
    /\ available \in BOOLEAN /\ interpreters \subseteq ToolJobs
    /\ spawned \in [ToolJobs -> Nat]

(***************************************************************************)
(* A job starts its interpreter at most once, over crashes, lost leases    *)
(* and retries, and a tool receipt says what that one process did and what *)
(* the queue recorded of the job, though process, execution row, job and   *)
(* attempt are written in five separate transactions.                      *)
(***************************************************************************)
ToolReceiptsAreTrue ==
    /\ ToolTypeOK
    /\ \A j \in ToolJobs :
          /\ spawned[j] <= 1
          /\ (attempts[j] # NoTool /\ attempts[j].receipt # NoTool) =>
                /\ spawned[j] = 1 /\ executions[j].pending = attempts[j].receipt
                /\ queue[j].state = attempts[j].receipt
          /\ (executions[j] # NoTool /\ executions[j].state = "RECEIPT_RECORDED") =>
                attempts[j].receipt = executions[j].pending
=============================================================================
