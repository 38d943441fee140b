----------------------------- MODULE StoresProofs -----------------------------
(***************************************************************************)
(* Proofs about the stores behind the product's commands: tool runs and    *)
(* their receipts (ToolWork), the executors of durable commands            *)
(* (Executors), the road from a finished run to the paper that is shown    *)
(* (PaperTrail), the receipts of immediate commands and the pages of the   *)
(* research list (DomainCommands), the sessions and capabilities a         *)
(* command's actor is known by (Sessions), and the pool of open problems   *)
(* with the batches of runs made from it (ProblemPool).                    *)
(* Each part has an inductive invariant, one lemma for every kind of step  *)
(* that disturbs it, and a theorem for the property the runs check.        *)
(***************************************************************************)
EXTENDS ToolWork, Executors, PaperTrail, DomainCommands, Sessions, ProblemPool, Integers, SequenceTheorems,
        FiniteSetTheorems, WellFoundedInduction, TLAPS

-----------------------------------------------------------------------------
(* Tool runs *)

PumpRow == [pc : {"idle", "bind", "reserve", "spawn", "mark", "wait", "stage", "resolve", "harvest", "restart"},
            job : ToolJobs \cup {NoTool}, gen : Nat, outcome : ToolOutcomes \cup {NoTool}]
ClerkRow == [pc : {"idle", "reconcile", "rerun", "validate"}, run : ToolJobs \cup {NoTool},
             attempt : ToolJobs \cup {NoTool},
             seen : JobStates \cup {NoTool, "VALIDATION_ACCEPTED", "VALIDATION_REJECTED"}]
QueueRow == [state : JobStates, gen : Nat, leased : BOOLEAN]
Busy == {"bind", "reserve", "spawn", "mark", "wait", "stage", "resolve"}
InExecute == {"spawn", "mark", "wait", "stage"}

\* The rows of one job: its row in the queue, its attempt, its execution, its processes.
RowsFit(q, a, e, n) ==
    /\ n \in {0, 1} /\ (e = NoTool => n = 0) /\ (e # NoTool => a # NoTool)
    /\ e # NoTool /\ e.pending # NoTool => n = 1
    /\ a # NoTool /\ a.receipt # NoTool => e # NoTool /\ e.pending = a.receipt /\ q.state = a.receipt
    /\ e # NoTool /\ e.state = "RECEIPT_RECORDED" => a.receipt = e.pending
    /\ q.leased => q.state \notin JobEnds /\ q.state # "QUEUED"
JobsFit == \A j \in ToolJobs : RowsFit(queue[j], attempts[j], executions[j], spawned[j])

\* Runs and attempts name each other.
Linked ==
    \A j \in ToolJobs : /\ toolRuns[j] # NoTool => attempts[toolRuns[j].current] # NoTool
                        /\ attempts[j] # NoTool => toolRuns[attempts[j].run] # NoTool

\* A pump inside execute is the only one for its job, and knows whether it has spawned.
PumpFits(u) ==
    /\ u.pc \in Busy => u.job \in ToolJobs
    /\ u.pc = "reserve" => attempts[u.job] # NoTool /\ toolRuns[u.job] # NoTool
    /\ u.pc \in InExecute => /\ executions[u.job] # NoTool /\ executions[u.job].pending = NoTool
                             /\ spawned[u.job] = IF u.pc = "spawn" THEN 0 ELSE 1
    /\ u.pc = "stage" => u.outcome # NoTool
Alone(p, u) == u.pc \in InExecute =>
    \A q \in ToolPumps \ {p} : toolPump[q].pc \in InExecute => toolPump[q].job # u.job
PumpsFit ==
    /\ toolPump \in [ToolPumps -> PumpRow]
    /\ \A p \in ToolPumps : PumpFits(toolPump[p]) /\ Alone(p, toolPump[p])

ClerkFits ==
    /\ clerk \in ClerkRow
    /\ clerk.pc # "idle" => clerk.run \in ToolJobs /\ toolRuns[clerk.run] # NoTool
    /\ clerk.pc = "reconcile" => clerk.attempt \in ToolJobs /\ attempts[clerk.attempt] # NoTool /\ clerk.seen \in JobStates
    /\ clerk.pc = "rerun" => clerk.attempt \in ToolJobs
    /\ clerk.pc = "validate" => clerk.seen \in {"VALIDATION_ACCEPTED", "VALIDATION_REJECTED"}

ToolInv == ToolTypeOK /\ JobsFit /\ Linked /\ PumpsFit /\ ClerkFits

\* Rows are not deleted.
RowsGrow ==
    \A k \in ToolJobs : /\ toolRuns[k] # NoTool => toolRuns'[k] # NoTool
                        /\ attempts[k] # NoTool => attempts'[k] # NoTool

\* The rows of one job change and fit: the rows of every job fit.
LEMMA OneJobFits ==
    ASSUME JobsFit, NEW j \in ToolJobs,
           \A k \in ToolJobs \ {j} : /\ queue'[k] = queue[k] /\ attempts'[k] = attempts[k]
                                     /\ executions'[k] = executions[k] /\ spawned'[k] = spawned[k],
           RowsFit(queue'[j], attempts'[j], executions'[j], spawned'[j])
    PROVE  JobsFit'
<1>1. ASSUME NEW k \in ToolJobs PROVE RowsFit(queue'[k], attempts'[k], executions'[k], spawned'[k])
  <2>1. CASE k = j
    BY <2>1
  <2>2. CASE k # j
    <3>1. k \in ToolJobs \ {j}
      BY <2>2
    <3>2. RowsFit(queue[k], attempts[k], executions[k], spawned[k])
      BY DEF JobsFit
    <3> QED BY <3>1, <3>2
  <2> QED BY <2>1, <2>2
<1>2. ASSUME NEW k \in ToolJobs PROVE RowsFit(queue[k], attempts[k], executions[k], spawned[k])'
  BY <1>1 DEF RowsFit
<1> QED BY <1>2 DEF JobsFit

\* Runs and attempts are left alone, and so is what they say of each other.
LEMMA LinksStay == ASSUME Linked, UNCHANGED <<toolRuns, attempts>> PROVE Linked'
BY DEF Linked

\* What a request has read stays true while rows are only added.
LEMMA ClerkStays == ASSUME ClerkFits, RowsGrow, UNCHANGED clerk PROVE ClerkFits'
BY DEF ClerkFits, RowsGrow

\* A pump row fits as long as rows are only added and its execution is left alone.
LEMMA PumpRowStays ==
    ASSUME NEW u \in PumpRow, PumpFits(u), RowsGrow,
           u.pc \in InExecute => /\ executions'[u.job] # NoTool
                                 /\ executions'[u.job].pending = executions[u.job].pending
                                 /\ spawned'[u.job] = spawned[u.job]
    PROVE  PumpFits(u)'
BY DEF PumpFits, RowsGrow, Busy, InExecute

\* No pump moves: every pump fits as long as no execution loses its staged receipt.
LEMMA PumpsStay ==
    ASSUME PumpsFit, RowsGrow, UNCHANGED <<toolPump, spawned>>,
           \A k \in ToolJobs : executions[k] # NoTool => /\ executions'[k] # NoTool
                                                         /\ executions'[k].pending = executions[k].pending
    PROVE  PumpsFit'
<1>1. ASSUME NEW p \in ToolPumps PROVE PumpFits(toolPump[p])'
  <2>1. PICK u \in PumpRow : u = toolPump[p] /\ PumpFits(u)
    BY DEF PumpsFit
  <2>2. u.pc \in InExecute => u.job \in ToolJobs /\ executions[u.job] # NoTool
    BY <2>1 DEF PumpFits, Busy, InExecute
  <2>3. PumpFits(u)'
    BY <2>1, <2>2, PumpRowStays
  <2>4. toolPump'[p] = u
    BY <2>1
  <2> QED BY <2>3, <2>4 DEF PumpFits
<1> QED BY <1>1 DEF PumpsFit, Alone

\* One pump moves, and touches the execution of at most one job, which is its own.
LEMMA OnePumpMoves ==
    ASSUME PumpsFit, NEW p \in ToolPumps, NEW u \in PumpRow, toolPump' = [toolPump EXCEPT ![p] = u], RowsGrow,
           NEW j, \A k \in ToolJobs \ {j} : executions'[k] = executions[k] /\ spawned'[k] = spawned[k],
           \/ executions' = executions /\ spawned' = spawned
           \/ \A q \in ToolPumps \ {p} : toolPump[q].pc \in InExecute => toolPump[q].job # j,
           PumpFits(u)',
           u.pc \in InExecute => \A q \in ToolPumps \ {p} : toolPump[q].pc \in InExecute => toolPump[q].job # u.job
    PROVE  PumpsFit'
<1>1. /\ toolPump' \in [ToolPumps -> PumpRow] /\ toolPump'[p] = u
      /\ \A q \in ToolPumps \ {p} : toolPump'[q] = toolPump[q]
  BY DEF PumpsFit
<1>2. ASSUME NEW q \in ToolPumps \ {p} PROVE PumpFits(toolPump[q])'
  <2>1. PICK v \in PumpRow : v = toolPump[q] /\ PumpFits(v) /\ v = toolPump'[q]
    BY <1>1 DEF PumpsFit
  <2>2. v.pc \in InExecute => v.job \in ToolJobs /\ executions[v.job] # NoTool
    BY <2>1 DEF PumpFits, Busy, InExecute
  <2>3. v.pc \in InExecute => executions'[v.job] = executions[v.job] /\ spawned'[v.job] = spawned[v.job]
    BY <2>1, <2>2
  <2>4. PumpFits(v)'
    BY <2>1, <2>2, <2>3, PumpRowStays
  <2> QED BY <2>1, <2>4 DEF PumpFits
<1>3. PumpFits(toolPump[p])'
  BY <1>1 DEF PumpFits
<1>4. ASSUME NEW q \in ToolPumps PROVE PumpFits(toolPump[q])'
  BY <1>2, <1>3
<1>5. ASSUME NEW q \in ToolPumps PROVE Alone(q, toolPump[q])'
  <2>1. CASE q = p
    BY <1>1, <2>1 DEF Alone
  <2>2. CASE q # p
    BY <1>1, <2>2 DEF Alone, PumpsFit
  <2> QED BY <2>1, <2>2
<1> QED BY <1>1, <1>4, <1>5 DEF PumpsFit

\* A pump that moves on without touching a row.
LEMMA PumpGoes ==
    ASSUME ToolInv, NEW p \in ToolPumps, NEW u \in PumpRow, toolPump' = [toolPump EXCEPT ![p] = u],
           UNCHANGED <<queue, toolRuns, attempts, available, executions, interpreters, spawned, clerk>>,
           PumpFits(u), u.pc \in InExecute => toolPump[p].pc \in InExecute /\ toolPump[p].job = u.job
    PROVE  ToolInv'
<1>1. ToolTypeOK' /\ JobsFit' /\ Linked' /\ RowsGrow
  BY DEF ToolInv, ToolTypeOK, JobsFit, Linked, RowsGrow
<1>2. ClerkFits'
  BY <1>1, ClerkStays DEF ToolInv
<1>3. PumpFits(u)'
  BY DEF PumpFits
<1>4. u.pc \in InExecute => \A q \in ToolPumps \ {p} : toolPump[q].pc \in InExecute => toolPump[q].job # u.job
  BY DEF ToolInv, PumpsFit, Alone
<1>5. PumpsFit'
  BY <1>1, <1>3, <1>4, OnePumpMoves DEF ToolInv
<1> QED BY <1>1, <1>2, <1>5 DEF ToolInv

\* A row of the queue changes: the outcome of a job that is over is final.
LEMMA QueueMoves ==
    ASSUME ToolInv, NEW j \in ToolJobs, NEW q \in QueueRow, queue' = [queue EXCEPT ![j] = q],
           UNCHANGED <<toolRuns, attempts, available, executions, interpreters, spawned>>,
           queue[j].state \notin ToolOutcomes, q.leased => q.state \notin JobEnds /\ q.state # "QUEUED"
    PROVE  ToolTypeOK' /\ JobsFit' /\ Linked' /\ RowsGrow
<1>1. ToolTypeOK' /\ Linked' /\ RowsGrow
  BY DEF ToolInv, ToolTypeOK, Linked, RowsGrow, QueueRow
<1>2. /\ \A k \in ToolJobs \ {j} : queue'[k] = queue[k]
      /\ queue'[j] = q
  BY DEF ToolInv, ToolTypeOK
<1>3. RowsFit(queue[j], attempts[j], executions[j], spawned[j]) /\ attempts[j] \in AttemptRow \cup {NoTool}
  BY DEF ToolInv, JobsFit, ToolTypeOK
<1>4. attempts[j] # NoTool => attempts[j].receipt = NoTool
  BY <1>3 DEF RowsFit, AttemptRow
<1>5. RowsFit(q, attempts[j], executions[j], spawned[j])
  BY <1>3, <1>4 DEF RowsFit
<1>6. JobsFit'
  BY <1>2, <1>5, OneJobFits DEF ToolInv
<1> QED BY <1>1, <1>6

\* A pump claims a queued tool job under a new lease (durable_runtime.py run_once).
LEMMA ClaimToolJobStep ==
    ASSUME ToolInv, NEW p \in ToolPumps, NEW j \in ToolJobs, ClaimToolJob(p, j)
    PROVE  ToolInv'
<1>1. PICK g \in Nat : g = queue[j].gen
  BY DEF ToolInv, ToolTypeOK
<1>2. PICK q : q = [state |-> "RUNNING", gen |-> g + 1, leased |-> TRUE]
  OBVIOUS
<1>3. q \in QueueRow /\ q.state = "RUNNING"
  BY <1>2 DEF QueueRow, JobStates
<1>4. PICK u : u = [pc |-> "bind", job |-> j, gen |-> g + 1, outcome |-> NoTool]
  OBVIOUS
<1>5. u \in PumpRow /\ u.pc = "bind" /\ u.job = j
  BY <1>4 DEF PumpRow
<1>6. /\ queue[j].state = "QUEUED" /\ queue' = [queue EXCEPT ![j] = q] /\ toolPump' = [toolPump EXCEPT ![p] = u]
      /\ UNCHANGED <<toolRuns, attempts, available, executions, interpreters, spawned, clerk>>
  BY <1>1, <1>2, <1>4 DEF ClaimToolJob, ToolInv, ToolTypeOK
<1>7. ToolTypeOK' /\ JobsFit' /\ Linked' /\ RowsGrow
  BY <1>3, <1>6, QueueMoves DEF JobEnds, ToolOutcomes
<1>8. PumpFits(u)'
  BY <1>5 DEF PumpFits, InExecute
<1>9. PumpsFit'
  BY <1>5, <1>6, <1>7, <1>8, OnePumpMoves DEF ToolInv, InExecute
<1> QED BY <1>6, <1>7, <1>9, ClerkStays DEF ToolInv

\* The queue takes the outcome of the pump that still has the lease.
LEMMA ResolveToolJobStep ==
    ASSUME ToolInv, NEW p \in ToolPumps, ResolveToolJob(p)
    PROVE  ToolInv'
<1>1. PICK j : j = JobOf(p) /\ j \in ToolJobs
  BY DEF ResolveToolJob, ToolInv, PumpsFit, PumpFits, PumpAt, JobOf, Busy
<1>2. UNCHANGED <<toolRuns, attempts, available, executions, interpreters, spawned, clerk>>
  BY DEF ResolveToolJob
<1>3. CASE HoldsLease(p) /\ queue[j].state \in {"RUNNING", "WAITING", "CANCEL_REQUESTED"}
  <2>1. PICK v \in QueueRow : v = queue[j]
    BY <1>1 DEF ToolInv, ToolTypeOK, QueueRow
  <2>2. PICK o \in {"SUCCEEDED", "FAILED"} : o = TypedOutcome(toolPump[p].outcome)
    BY DEF TypedOutcome
  <2>3. PICK q : q = [[v EXCEPT !.state = o] EXCEPT !.leased = FALSE]
    OBVIOUS
  <2>4. q \in QueueRow /\ q.leased = FALSE
    BY <2>1, <2>3 DEF QueueRow, JobStates, JobEnds, ToolOutcomes
  <2>5. PICK u : u = [IdlePump EXCEPT !.pc = "harvest"]
    OBVIOUS
  <2>6. u \in PumpRow /\ u.pc = "harvest"
    BY <2>5 DEF PumpRow, IdlePump
  <2>7. queue' = [queue EXCEPT ![j] = q] /\ toolPump' = [toolPump EXCEPT ![p] = u]
    BY <1>1, <1>3, <2>1, <2>2, <2>3, <2>5 DEF ResolveToolJob, ToolInv, ToolTypeOK
  <2>8. ToolTypeOK' /\ JobsFit' /\ Linked' /\ RowsGrow
    BY <1>1, <1>2, <1>3, <2>4, <2>7, QueueMoves DEF JobEnds, ToolOutcomes
  <2>9. PumpFits(u)'
    BY <2>6 DEF PumpFits, InExecute, Busy
  <2>10. PumpsFit'
    BY <1>2, <2>6, <2>7, <2>8, <2>9, OnePumpMoves DEF ToolInv, InExecute
  <2> QED BY <1>2, <2>8, <2>10, ClerkStays DEF ToolInv
<1>4. CASE ~(HoldsLease(p) /\ queue[j].state \in {"RUNNING", "WAITING", "CANCEL_REQUESTED"})
  <2>1. UNCHANGED queue /\ toolPump' = [toolPump EXCEPT ![p] = IdlePump]
    BY <1>1, <1>4 DEF ResolveToolJob, PumpRaises
  <2>2. IdlePump \in PumpRow /\ PumpFits(IdlePump) /\ IdlePump.pc \notin InExecute
    BY DEF IdlePump, PumpRow, PumpFits, InExecute, Busy
  <2> QED BY <1>2, <2>1, <2>2, PumpGoes
<1> QED BY <1>3, <1>4

\* Lease expiry and cancellation of a job.
LEMMA QueueStep ==
    ASSUME ToolInv, NEW j \in ToolJobs, ToolLeaseExpires(j) \/ CancelToolJob(j)
    PROVE  ToolInv'
<1>1. PICK v \in QueueRow : v = queue[j] /\ (v.leased => v.state \notin JobEnds /\ v.state # "QUEUED")
  BY DEF ToolInv, ToolTypeOK, QueueRow, JobsFit, RowsFit
<1>2. UNCHANGED <<toolRuns, attempts, available, executions, interpreters, spawned, toolPump, clerk>>
  BY DEF ToolLeaseExpires, CancelToolJob
<1>3. PICK q \in QueueRow : /\ queue' = [queue EXCEPT ![j] = q] /\ v.state \notin JobEnds
                            /\ q.leased => q.state \notin JobEnds /\ q.state # "QUEUED"
  <2>1. CASE ToolLeaseExpires(j)
    <3>1. PICK t \in JobStates : t = IF v.state = "CANCEL_REQUESTED" \/ j \notin Requeued
                                     THEN "OUTCOME_UNKNOWN" ELSE "QUEUED"
      BY DEF JobStates, JobEnds
    <3>2. PICK q : q = [[v EXCEPT !.leased = FALSE] EXCEPT !.state = t]
      OBVIOUS
    <3>3. q \in QueueRow /\ q.leased = FALSE
      BY <3>1, <3>2 DEF QueueRow
    <3>4. queue' = [queue EXCEPT ![j] = q] /\ v.leased
      BY <1>1, <2>1, <3>1, <3>2 DEF ToolLeaseExpires, ToolInv, ToolTypeOK
    <3> QED BY <1>1, <3>3, <3>4
  <2>2. CASE CancelToolJob(j)
    <3>1. PICK t \in JobStates : t = IF v.state = "QUEUED" THEN "CANCELLED" ELSE "CANCEL_REQUESTED"
      BY DEF JobStates, JobEnds, ToolOutcomes
    <3>2. PICK q : q = [v EXCEPT !.state = t]
      OBVIOUS
    <3>3. q \in QueueRow /\ q.leased = v.leased /\ q.state = t
      BY <3>1, <3>2 DEF QueueRow
    <3>4. queue' = [queue EXCEPT ![j] = q] /\ v.state \notin JobEnds
      BY <1>1, <2>2, <3>1, <3>2 DEF CancelToolJob, ToolInv, ToolTypeOK
    <3>5. q.leased => q.state = "CANCEL_REQUESTED"
      BY <1>1, <3>1, <3>3
    <3> QED BY <3>3, <3>4, <3>5 DEF JobEnds, ToolOutcomes
  <2> QED BY <2>1, <2>2
<1>4. ToolTypeOK' /\ JobsFit' /\ Linked' /\ RowsGrow
  BY <1>1, <1>2, <1>3, QueueMoves DEF JobEnds
<1>5. PumpsFit'
  BY <1>2, <1>4, PumpsStay DEF ToolInv
<1> QED BY <1>2, <1>4, <1>5, ClerkStays DEF ToolInv

\* The tool run a job is to serve is looked up before its process is thought of.
LEMMA BindRequestStep == ASSUME ToolInv, NEW p \in ToolPumps, BindRequest(p) PROVE ToolInv'
<1>1. PICK j : j = JobOf(p) /\ j \in ToolJobs
  BY DEF BindRequest, ToolInv, PumpsFit, PumpFits, PumpAt, JobOf, Busy
<1>2. UNCHANGED <<queue, available, executions, interpreters, spawned, clerk>>
  BY DEF BindRequest
<1>3. PICK v \in PumpRow : v = toolPump[p] /\ v.job = j /\ v.pc = "bind"
  BY <1>1 DEF ToolInv, PumpsFit, JobOf, BindRequest, PumpAt
<1>4. CASE InsertRun(j) /\ PumpGoto(p, "reserve") /\ BindingFits(j)
  <2>1. PICK u : u = [v EXCEPT !.pc = "reserve"]
    OBVIOUS
  <2>2. u \in PumpRow /\ u.pc = "reserve" /\ u.job = j /\ toolPump' = [toolPump EXCEPT ![p] = u]
    BY <1>3, <1>4, <2>1 DEF PumpRow, PumpGoto, ToolInv, PumpsFit
  <2>3. PICK w : w = [current |-> j, invocation |-> "QUEUED", validation |-> "NOT_SUBMITTED"]
    OBVIOUS
  <2>4. w \in ToolRunRow /\ w # NoTool /\ w.current = j
    BY <1>1, <2>3, ToolInputs DEF ToolRunRow, JobStates
  <2>5. PICK a : a = [run |-> j, status |-> "QUEUED", receipt |-> NoTool]
    OBVIOUS
  <2>6. a \in AttemptRow /\ a # NoTool /\ a.run = j /\ a.receipt = NoTool
    BY <1>1, <2>5, ToolInputs DEF AttemptRow, JobStates
  <2>7. toolRuns' = (IF toolRuns[j] # NoTool THEN toolRuns ELSE [toolRuns EXCEPT ![j] = w])
    BY <1>4, <2>3 DEF InsertRun
  <2>8. attempts' = (IF attempts[j] # NoTool THEN attempts ELSE [attempts EXCEPT ![j] = a])
    BY <1>4, <2>5 DEF InsertRun
  <2>9. ToolTypeOK'
    BY <1>1, <1>2, <2>4, <2>6, <2>7, <2>8 DEF ToolInv, ToolTypeOK
  <2>10. /\ toolRuns \in [ToolJobs -> ToolRunRow \cup {NoTool}] /\ attempts \in [ToolJobs -> AttemptRow \cup {NoTool}]
         /\ Linked
    BY DEF ToolInv, ToolTypeOK
  <2>11. toolRuns[j] # NoTool => attempts[j] # NoTool
    BY <1>1, <1>4, <2>10 DEF BindingFits, Linked
  <2>12. \/ toolRuns' = toolRuns /\ attempts' = attempts /\ toolRuns[j] # NoTool /\ attempts[j] # NoTool
         \/ /\ toolRuns' = [toolRuns EXCEPT ![j] = w] /\ attempts' = [attempts EXCEPT ![j] = a]
            /\ toolRuns[j] = NoTool /\ attempts[j] = NoTool
    BY <1>4, <2>7, <2>8, <2>11 DEF BindingFits
  <2>13. RowsGrow /\ toolRuns'[j] # NoTool /\ attempts'[j] # NoTool
    BY <1>1, <2>4, <2>6, <2>10, <2>12 DEF RowsGrow
  <2>14. Linked'
    <3>1. CASE toolRuns' = toolRuns /\ attempts' = attempts
      BY <2>10, <3>1 DEF Linked
    <3>2. CASE /\ toolRuns' = [toolRuns EXCEPT ![j] = w] /\ attempts' = [attempts EXCEPT ![j] = a]
               /\ toolRuns[j] = NoTool /\ attempts[j] = NoTool
      <4>1. ASSUME NEW k \in ToolJobs PROVE toolRuns'[k] # NoTool => attempts'[toolRuns'[k].current] # NoTool
        BY <1>1, <2>4, <2>6, <2>10, <3>2 DEF Linked, ToolRunRow
      <4>2. ASSUME NEW k \in ToolJobs PROVE attempts'[k] # NoTool => toolRuns'[attempts'[k].run] # NoTool
        BY <1>1, <2>4, <2>6, <2>10, <3>2 DEF Linked, AttemptRow
      <4> QED BY <4>1, <4>2 DEF Linked
    <3> QED BY <2>12, <3>1, <3>2
  <2>15. JobsFit'
    <3>1. RowsFit(queue[j], attempts[j], executions[j], spawned[j])
      BY <1>1 DEF ToolInv, JobsFit
    <3>2. attempts'[j] = attempts[j] \/ (attempts'[j] = a /\ attempts[j] = NoTool)
      BY <1>1, <2>10, <2>12
    <3>3. RowsFit(queue'[j], attempts'[j], executions'[j], spawned'[j])
      BY <1>2, <2>6, <3>1, <3>2 DEF RowsFit
    <3>4. \A k \in ToolJobs \ {j} : /\ queue'[k] = queue[k] /\ attempts'[k] = attempts[k]
                                    /\ executions'[k] = executions[k] /\ spawned'[k] = spawned[k]
      BY <1>2, <2>10, <2>12
    <3> QED BY <1>1, <3>3, <3>4, OneJobFits DEF ToolInv
  <2>16. PumpFits(u)'
    BY <1>1, <2>2, <2>13 DEF PumpFits, InExecute
  <2>17. PumpsFit'
    BY <1>2, <2>2, <2>13, <2>16, OnePumpMoves DEF ToolInv, InExecute
  <2> QED BY <1>2, <2>9, <2>13, <2>14, <2>15, <2>17, ClerkStays DEF ToolInv
<1>5. CASE PumpRaises(p) /\ UNCHANGED <<toolRuns, attempts>>
  <2>1. IdlePump \in PumpRow /\ PumpFits(IdlePump) /\ IdlePump.pc \notin InExecute
    BY DEF IdlePump, PumpRow, PumpFits, InExecute, Busy
  <2> QED BY <1>2, <1>5, <2>1, PumpGoes DEF PumpRaises
<1> QED BY <1>1, <1>4, <1>5 DEF BindRequest

\* The row of one execution changes.
LEMMA ExecutionMoves ==
    ASSUME ToolInv, NEW j \in ToolJobs, NEW e \in ExecutionRow, executions' = [executions EXCEPT ![j] = e],
           UNCHANGED <<queue, toolRuns, attempts, available, spawned, clerk>>, interpreters' \subseteq ToolJobs,
           RowsFit(queue[j], attempts[j], e, spawned[j])
    PROVE  /\ ToolTypeOK' /\ JobsFit' /\ Linked' /\ RowsGrow /\ ClerkFits'
           /\ executions'[j] = e /\ e # NoTool /\ \A k \in ToolJobs \ {j} : executions'[k] = executions[k]
<1>1. ToolTypeOK' /\ Linked' /\ RowsGrow
  BY DEF ToolInv, ToolTypeOK, Linked, RowsGrow
<1>2. executions'[j] = e /\ e # NoTool /\ \A k \in ToolJobs \ {j} : executions'[k] = executions[k]
  BY ToolInputs DEF ToolInv, ToolTypeOK
<1>3. JobsFit'
  BY <1>2, OneJobFits DEF ToolInv
<1>4. ClerkFits'
  BY <1>1, ClerkStays DEF ToolInv
<1> QED BY <1>1, <1>2, <1>3, <1>4

\* A pump without a job fits, before a step and after it.
LEMMA IdlePumpFits ==
    /\ IdlePump \in PumpRow /\ IdlePump.pc = "idle"
    /\ PumpFits(IdlePump) /\ PumpFits(IdlePump)'
BY DEF IdlePump, PumpRow, PumpFits, InExecute, Busy

\* Steps of a pump that read or write no row.
LEMMA PumpOnlyStep ==
    ASSUME ToolInv, NEW p \in ToolPumps,
           BindingRejected(p) \/ IdleHarvest(p) \/ EndHarvest(p) \/ DaemonDies(p)
    PROVE  ToolInv'
<1>1. UNCHANGED <<queue, toolRuns, attempts, available, executions, interpreters, spawned, clerk>>
  BY DEF BindingRejected, IdleHarvest, EndHarvest, DaemonDies
<1>2. PICK v \in PumpRow : v = toolPump[p] /\ PumpFits(v) /\ toolPump \in [ToolPumps -> PumpRow]
  BY DEF ToolInv, PumpsFit
<1>3. PICK u \in PumpRow : toolPump' = [toolPump EXCEPT ![p] = u] /\ PumpFits(u) /\ u.pc \notin InExecute
  <2>1. CASE BindingRejected(p)
    <3>1. PICK u : u = [[v EXCEPT !.pc = "resolve"] EXCEPT !.outcome = "FAILED"]
      OBVIOUS
    <3>2. u \in PumpRow /\ u.pc = "resolve" /\ u.job = v.job
      BY <1>2, <3>1 DEF PumpRow, ToolOutcomes
    <3>3. toolPump' = [toolPump EXCEPT ![p] = u] /\ v.pc = "bind"
      BY <1>2, <2>1, <3>1 DEF BindingRejected, PumpAt
    <3>4. PumpFits(u) /\ u.pc \notin InExecute
      BY <1>2, <3>2, <3>3 DEF PumpFits, InExecute, Busy
    <3> QED BY <3>2, <3>3, <3>4
  <2>2. CASE IdleHarvest(p)
    <3>1. PICK u : u = [v EXCEPT !.pc = "harvest"]
      OBVIOUS
    <3>2. u \in PumpRow /\ u.pc = "harvest"
      BY <1>2, <3>1 DEF PumpRow
    <3>3. toolPump' = [toolPump EXCEPT ![p] = u]
      BY <1>2, <2>2, <3>1 DEF IdleHarvest, PumpGoto
    <3>4. PumpFits(u) /\ u.pc \notin InExecute
      BY <3>2 DEF PumpFits, InExecute, Busy
    <3> QED BY <3>2, <3>3, <3>4
  <2>3. CASE EndHarvest(p)
    BY <2>3, IdlePumpFits DEF EndHarvest, PumpRaises, InExecute
  <2>4. CASE DaemonDies(p)
    <3>1. PICK u : u = [IdlePump EXCEPT !.pc = "restart"]
      OBVIOUS
    <3>2. u \in PumpRow /\ u.pc = "restart"
      BY <3>1 DEF PumpRow, IdlePump
    <3>3. toolPump' = [toolPump EXCEPT ![p] = u]
      BY <2>4, <3>1 DEF DaemonDies
    <3>4. PumpFits(u) /\ u.pc \notin InExecute
      BY <3>2 DEF PumpFits, InExecute, Busy
    <3> QED BY <3>2, <3>3, <3>4
  <2> QED BY <2>1, <2>2, <2>3, <2>4
<1> QED BY <1>1, <1>3, PumpGoes

\* One execution row for a job, reserved before its interpreter starts (managed_python.py _reserve).
LEMMA ReserveStep == ASSUME ToolInv, NEW p \in ToolPumps, Reserve(p) PROVE ToolInv'
<1>1. PICK v \in PumpRow : v = toolPump[p] /\ PumpFits(v) /\ v.pc = "reserve" /\ toolPump \in [ToolPumps -> PumpRow]
  BY DEF ToolInv, PumpsFit, Reserve, PumpAt
<1>2. PICK j \in ToolJobs : j = JobOf(p) /\ j = v.job /\ attempts[j] # NoTool
  BY <1>1 DEF PumpFits, Busy, JobOf
<1>3. UNCHANGED <<queue, toolRuns, attempts, available, interpreters, spawned, clerk>>
  BY DEF Reserve
<1>4. CASE ValidBinding(p) /\ executions[j] = NoTool
  <2>1. PICK e : e = [state |-> "STARTING", pending |-> NoTool]
    OBVIOUS
  <2>2. e \in ExecutionRow /\ e.state = "STARTING" /\ e.pending = NoTool
    BY <2>1 DEF ExecutionRow
  <2>3. PICK u : u = [v EXCEPT !.pc = "spawn"]
    OBVIOUS
  <2>4. u \in PumpRow /\ u.pc = "spawn" /\ u.job = j
    BY <1>1, <1>2, <2>3 DEF PumpRow
  <2>5. executions' = [executions EXCEPT ![j] = e] /\ toolPump' = [toolPump EXCEPT ![p] = u]
    BY <1>1, <1>2, <1>4, <2>1, <2>3 DEF Reserve, PumpGoto
  <2>6. RowsFit(queue[j], attempts[j], e, spawned[j]) /\ spawned[j] = 0
    <3>1. RowsFit(queue[j], attempts[j], executions[j], spawned[j])
      BY DEF ToolInv, JobsFit
    <3> QED BY <1>2, <1>4, <2>2, <3>1 DEF RowsFit
  <2>7. interpreters' \subseteq ToolJobs
    BY <1>3 DEF ToolInv, ToolTypeOK
  <2>8. /\ ToolTypeOK' /\ JobsFit' /\ Linked' /\ RowsGrow /\ ClerkFits'
        /\ executions'[j] = e /\ e # NoTool /\ \A k \in ToolJobs \ {j} : executions'[k] = executions[k]
    BY <1>3, <2>2, <2>5, <2>6, <2>7, ExecutionMoves
  <2>9. PumpFits(u)'
    BY <1>3, <2>2, <2>4, <2>6, <2>8 DEF PumpFits
  <2>10. \A q \in ToolPumps \ {p} : toolPump[q].pc \in InExecute => toolPump[q].job # j
    BY <1>4 DEF ToolInv, PumpsFit, PumpFits
  <2>11. \A k \in ToolJobs \ {j} : executions'[k] = executions[k] /\ spawned'[k] = spawned[k]
    BY <1>3, <2>8
  <2>12. PumpsFit'
    <3>1. u.pc \in InExecute => \A q \in ToolPumps \ {p} : toolPump[q].pc \in InExecute => toolPump[q].job # u.job
      BY <2>4, <2>10
    <3>2. PumpsFit /\ RowsGrow /\ u \in PumpRow /\ toolPump' = [toolPump EXCEPT ![p] = u]
      BY <2>4, <2>5, <2>8 DEF ToolInv
    <3> QED BY <2>9, <2>10, <2>11, <3>1, <3>2, OnePumpMoves
  <2> QED BY <2>8, <2>12 DEF ToolInv
<1>5. CASE PumpRaises(p) /\ UNCHANGED executions
  BY <1>3, <1>5, IdlePumpFits, PumpGoes DEF PumpRaises, InExecute
<1> QED BY <1>2, <1>4, <1>5 DEF Reserve

\* Abandoning an execution leaves its receipt alone.
LEMMA AbandonedFits ==
    ASSUME ToolInv, NEW j \in ToolJobs, executions[j] # NoTool, MarkAbandoned(j),
           UNCHANGED <<queue, toolRuns, attempts, available, spawned, clerk>>, interpreters' \subseteq ToolJobs
    PROVE  /\ ToolTypeOK' /\ JobsFit' /\ Linked' /\ RowsGrow /\ ClerkFits'
           /\ \A k \in ToolJobs : executions[k] # NoTool => /\ executions'[k] # NoTool
                                                            /\ executions'[k].pending = executions[k].pending
           /\ \A k \in ToolJobs \ {j} : executions'[k] = executions[k]
<1>1. PICK d \in ExecutionRow : d = executions[j] /\ executions \in [ToolJobs -> ExecutionRow \cup {NoTool}]
  BY DEF ToolInv, ToolTypeOK
<1>2. PICK e : e = IF d.state \in {"STARTING", "RUNNING"} /\ d.pending = NoTool THEN [d EXCEPT !.state = "ABANDONED"]
                   ELSE d
  OBVIOUS
<1>3. e \in ExecutionRow /\ e.pending = d.pending /\ (e.state = d.state \/ e.state = "ABANDONED")
  BY <1>1, <1>2 DEF ExecutionRow
<1>4. executions' = [executions EXCEPT ![j] = e]
  BY <1>1, <1>2 DEF MarkAbandoned
<1>5. RowsFit(queue[j], attempts[j], d, spawned[j])
  BY <1>1 DEF ToolInv, JobsFit
<1>6. RowsFit(queue[j], attempts[j], e, spawned[j])
  <2>1. d # NoTool /\ e # NoTool
    BY <1>1, <1>3, ToolInputs
  <2> QED BY <1>3, <1>5, <2>1 DEF RowsFit
<1>7. /\ ToolTypeOK' /\ JobsFit' /\ Linked' /\ RowsGrow /\ ClerkFits'
      /\ executions'[j] = e /\ e # NoTool /\ \A k \in ToolJobs \ {j} : executions'[k] = executions[k]
  BY <1>3, <1>4, <1>6, ExecutionMoves
<1>8. ASSUME NEW k \in ToolJobs, executions[k] # NoTool
      PROVE  executions'[k] # NoTool /\ executions'[k].pending = executions[k].pending
  <2>1. CASE k = j
    BY <1>1, <1>3, <1>7, <2>1
  <2>2. CASE k # j
    <3>1. k \in ToolJobs \ {j}
      BY <2>2
    <3> QED BY <1>7, <1>8, <3>1
  <2> QED BY <2>1, <2>2
<1> QED BY <1>7, <1>8

\* An execution that raised, or that nobody is left to finish, is marked abandoned.
LEMMA AbandonStep ==
    ASSUME ToolInv, NEW p \in ToolPumps, ExecuteFails(p) \/ \E j \in ToolJobs : AbandonOrphan(p, j)
    PROVE  ToolInv'
<1>1. CASE ExecuteFails(p)
  <2>1. toolPump[p].pc \in InExecute /\ PumpFits(toolPump[p]) /\ Alone(p, toolPump[p])
    BY <1>1 DEF ExecuteFails, InExecute, ToolInv, PumpsFit
  <2>2. PICK j \in ToolJobs : j = JobOf(p) /\ executions[j] # NoTool
    BY <2>1 DEF PumpFits, InExecute, Busy, JobOf
  <2>3. /\ UNCHANGED <<queue, toolRuns, attempts, available, spawned, clerk>> /\ MarkAbandoned(j)
        /\ toolPump' = [toolPump EXCEPT ![p] = IdlePump] /\ interpreters' \subseteq ToolJobs
    BY <1>1, <2>2 DEF ExecuteFails, PumpRaises, ToolInv, ToolTypeOK
  <2>4. /\ ToolTypeOK' /\ JobsFit' /\ Linked' /\ RowsGrow /\ ClerkFits'
        /\ \A k \in ToolJobs \ {j} : executions'[k] = executions[k] /\ spawned'[k] = spawned[k]
    BY <2>2, <2>3, AbandonedFits
  <2>5. \A q \in ToolPumps \ {p} : toolPump[q].pc \in InExecute => toolPump[q].job # j
    BY <2>1, <2>2 DEF Alone, JobOf
  <2>6. PumpsFit'
    <3>1. PICK u \in PumpRow : u = IdlePump /\ u.pc \notin InExecute
      BY IdlePumpFits DEF InExecute
    <3>2. PumpFits(u)'
      BY <3>1, IdlePumpFits
    <3>3. PumpsFit /\ RowsGrow /\ toolPump' = [toolPump EXCEPT ![p] = u]
      BY <2>3, <2>4, <3>1 DEF ToolInv
    <3>4. \A k \in ToolJobs \ {j} : executions'[k] = executions[k] /\ spawned'[k] = spawned[k]
      BY <2>4
    <3>5. u.pc \in InExecute => \A q \in ToolPumps \ {p} : toolPump[q].pc \in InExecute => toolPump[q].job # u.job
      BY <3>1
    <3> QED BY <2>5, <3>2, <3>3, <3>4, <3>5, OnePumpMoves
  <2> QED BY <2>4, <2>6 DEF ToolInv
<1>2. ASSUME NEW j \in ToolJobs, AbandonOrphan(p, j) PROVE ToolInv'
  <2>1. /\ executions[j] # NoTool /\ MarkAbandoned(j) /\ interpreters' \subseteq ToolJobs
        /\ UNCHANGED <<queue, toolRuns, attempts, available, spawned, toolPump, clerk>>
    BY <1>2 DEF AbandonOrphan, ToolInv, ToolTypeOK
  <2>2. /\ ToolTypeOK' /\ JobsFit' /\ Linked' /\ RowsGrow /\ ClerkFits'
        /\ \A k \in ToolJobs : executions[k] # NoTool => /\ executions'[k] # NoTool
                                                         /\ executions'[k].pending = executions[k].pending
    BY <2>1, AbandonedFits
  <2>3. PumpsFit'
    BY <2>1, <2>2, PumpsStay DEF ToolInv
  <2> QED BY <2>2, <2>3 DEF ToolInv
<1> QED BY <1>1, <1>2

\* The pump that executes a job: where it is, and that nobody else is there.
LEMMA Executor ==
    ASSUME ToolInv, NEW p \in ToolPumps, toolPump[p].pc \in InExecute
    PROVE  \E v \in PumpRow, j \in ToolJobs, e \in ExecutionRow :
              /\ v = toolPump[p] /\ v.job = j /\ JobOf(p) = j /\ e = executions[j] /\ e # NoTool /\ e.pending = NoTool
              /\ spawned[j] = (IF v.pc = "spawn" THEN 0 ELSE 1) /\ (v.pc = "stage" => v.outcome # NoTool)
              /\ attempts[j] # NoTool /\ (attempts[j].receipt = NoTool)
              /\ \A q \in ToolPumps \ {p} : toolPump[q].pc \in InExecute => toolPump[q].job # j
<1>1. PICK v \in PumpRow : v = toolPump[p] /\ PumpFits(v) /\ Alone(p, v) /\ v.pc \in InExecute
  BY DEF ToolInv, PumpsFit
<1>2. PICK j \in ToolJobs : j = v.job
  BY <1>1 DEF PumpFits, Busy, InExecute
<1>3. PICK e \in ExecutionRow : e = executions[j] /\ e # NoTool
  BY <1>1, <1>2 DEF PumpFits, ToolInv, ToolTypeOK
<1>4. RowsFit(queue[j], attempts[j], executions[j], spawned[j]) /\ attempts[j] \in AttemptRow \cup {NoTool}
  BY DEF ToolInv, JobsFit, ToolTypeOK
<1>5. e.pending = NoTool /\ spawned[j] = (IF v.pc = "spawn" THEN 0 ELSE 1) /\ (v.pc = "stage" => v.outcome # NoTool)
  BY <1>1, <1>2, <1>3 DEF PumpFits
<1>6. attempts[j] # NoTool /\ attempts[j].receipt = NoTool
  BY <1>3, <1>4, <1>5 DEF RowsFit, AttemptRow
<1>7. \A q \in ToolPumps \ {p} : toolPump[q].pc \in InExecute => toolPump[q].job # j
  BY <1>1, <1>2 DEF Alone
<1> QED BY <1>1, <1>2, <1>3, <1>5, <1>6, <1>7 DEF JobOf

\* The interpreter is started once: whoever starts it is alone in the execution.
LEMMA SpawnStep == ASSUME ToolInv, NEW p \in ToolPumps, Spawn(p) PROVE ToolInv'
<1>1. toolPump[p].pc = "spawn" /\ toolPump[p].pc \in InExecute
  BY DEF Spawn, PumpAt, InExecute
<1>2. PICK v \in PumpRow, j \in ToolJobs, e \in ExecutionRow :
         /\ v = toolPump[p] /\ v.job = j /\ JobOf(p) = j /\ e = executions[j] /\ e # NoTool /\ e.pending = NoTool
         /\ spawned[j] = (IF v.pc = "spawn" THEN 0 ELSE 1) /\ attempts[j] # NoTool /\ attempts[j].receipt = NoTool
         /\ \A q \in ToolPumps \ {p} : toolPump[q].pc \in InExecute => toolPump[q].job # j
  BY <1>1, Executor
<1>3. PICK u : u = [v EXCEPT !.pc = "mark"]
  OBVIOUS
<1>4. u \in PumpRow /\ u.pc = "mark" /\ u.job = j
  BY <1>2, <1>3 DEF PumpRow
<1>5. /\ toolPump' = [toolPump EXCEPT ![p] = u] /\ interpreters' = interpreters \cup {j}
      /\ spawned' = [spawned EXCEPT ![j] = spawned[j] + 1]
      /\ UNCHANGED <<queue, toolRuns, attempts, available, executions, clerk>>
  BY <1>2, <1>3 DEF Spawn, PumpGoto, ToolInv, ToolTypeOK, PumpsFit
<1>6. spawned[j] = 0 /\ spawned \in [ToolJobs -> Nat]
  BY <1>1, <1>2 DEF ToolInv, ToolTypeOK
<1>7. spawned' \in [ToolJobs -> Nat] /\ spawned'[j] = 1 /\ \A k \in ToolJobs \ {j} : spawned'[k] = spawned[k]
  BY <1>5, <1>6
<1>8. ToolTypeOK' /\ Linked' /\ RowsGrow
  BY <1>5, <1>7 DEF ToolInv, ToolTypeOK, Linked, RowsGrow
<1>9. RowsFit(queue[j], attempts[j], executions[j], 1)
  <2>1. RowsFit(queue[j], attempts[j], executions[j], spawned[j])
    BY DEF ToolInv, JobsFit
  <2> QED BY <1>2, <2>1 DEF RowsFit
<1>10. JobsFit'
  BY <1>5, <1>7, <1>9, OneJobFits DEF ToolInv
<1>11. PumpFits(u)'
  BY <1>2, <1>4, <1>5, <1>7 DEF PumpFits
<1>12. PumpsFit'
  <2>1. PumpsFit /\ \A k \in ToolJobs \ {j} : executions'[k] = executions[k] /\ spawned'[k] = spawned[k]
    BY <1>5, <1>7 DEF ToolInv
  <2>2. u.pc \in InExecute => \A q \in ToolPumps \ {p} : toolPump[q].pc \in InExecute => toolPump[q].job # u.job
    BY <1>2, <1>4
  <2> QED BY <1>2, <1>4, <1>5, <1>8, <1>11, <2>1, <2>2, OnePumpMoves
<1> QED BY <1>5, <1>8, <1>10, <1>12, ClerkStays DEF ToolInv

\* The process ends, with the outcome its pump goes on with.
LEMMA WaitForExitStep ==
    ASSUME ToolInv, NEW p \in ToolPumps, NEW o \in ToolOutcomes, WaitForExit(p, o)
    PROVE  ToolInv'
<1>1. toolPump[p].pc = "wait" /\ toolPump[p].pc \in InExecute
  BY DEF WaitForExit, PumpAt, InExecute
<1>2. PICK v \in PumpRow, j \in ToolJobs, e \in ExecutionRow :
         /\ v = toolPump[p] /\ v.job = j /\ JobOf(p) = j /\ e = executions[j] /\ e # NoTool /\ e.pending = NoTool
         /\ spawned[j] = (IF v.pc = "spawn" THEN 0 ELSE 1)
         /\ \A q \in ToolPumps \ {p} : toolPump[q].pc \in InExecute => toolPump[q].job # j
  BY <1>1, Executor
<1>3. PICK u : u = [[v EXCEPT !.pc = "stage"] EXCEPT !.outcome = o]
  OBVIOUS
<1>4. u \in PumpRow /\ u.pc = "stage" /\ u.job = j /\ u.outcome = o /\ o # NoTool
  BY <1>2, <1>3, ToolInputs DEF PumpRow
<1>5. /\ toolPump' = [toolPump EXCEPT ![p] = u] /\ interpreters' = interpreters \ {j}
      /\ UNCHANGED <<queue, toolRuns, attempts, available, executions, spawned, clerk>>
  BY <1>2, <1>3 DEF WaitForExit, ToolInv, PumpsFit
<1>6. ToolTypeOK' /\ JobsFit' /\ Linked' /\ RowsGrow
  BY <1>5 DEF ToolInv, ToolTypeOK, JobsFit, Linked, RowsGrow
<1>7. PumpFits(u)'
  BY <1>1, <1>2, <1>4, <1>5 DEF PumpFits
<1>8. PumpsFit'
  <2>1. PumpsFit /\ executions' = executions /\ spawned' = spawned
    BY <1>5 DEF ToolInv
  <2>2. u.pc \in InExecute => \A q \in ToolPumps \ {p} : toolPump[q].pc \in InExecute => toolPump[q].job # u.job
    BY <1>2, <1>4
  <2> QED BY <1>4, <1>5, <1>6, <1>7, <2>1, <2>2, OnePumpMoves
<1> QED BY <1>5, <1>6, <1>8, ClerkStays DEF ToolInv

\* The process is marked running, and its receipt is staged.
LEMMA ExecutionStep ==
    ASSUME ToolInv, NEW p \in ToolPumps, MarkRunning(p) \/ StageReceipt(p)
    PROVE  ToolInv'
<1>1. toolPump[p].pc \in {"mark", "stage"} /\ toolPump[p].pc \in InExecute
  BY DEF MarkRunning, StageReceipt, PumpAt, InExecute
<1>2. PICK v \in PumpRow, j \in ToolJobs, d \in ExecutionRow :
         /\ v = toolPump[p] /\ v.job = j /\ JobOf(p) = j /\ d = executions[j] /\ d # NoTool /\ d.pending = NoTool
         /\ spawned[j] = (IF v.pc = "spawn" THEN 0 ELSE 1) /\ (v.pc = "stage" => v.outcome # NoTool)
         /\ attempts[j] # NoTool /\ attempts[j].receipt = NoTool
         /\ \A q \in ToolPumps \ {p} : toolPump[q].pc \in InExecute => toolPump[q].job # j
  BY <1>1, Executor
<1>3. PICK e \in ExecutionRow, pc \in {"wait", "resolve"} :
         /\ executions' = [executions EXCEPT ![j] = e] /\ PumpGoto(p, pc) /\ e.state = "RUNNING"
         /\ pc = "wait" => e.pending = NoTool
  <2>1. CASE MarkRunning(p)
    <3>1. PICK e : e = [d EXCEPT !.state = "RUNNING"]
      OBVIOUS
    <3>2. e \in ExecutionRow /\ e.state = "RUNNING" /\ e.pending = NoTool
      BY <1>2, <3>1 DEF ExecutionRow
    <3>3. executions' = [executions EXCEPT ![j] = e] /\ PumpGoto(p, "wait")
      BY <1>2, <2>1, <3>1 DEF MarkRunning, ToolInv, ToolTypeOK
    <3> QED BY <3>2, <3>3
  <2>2. CASE StageReceipt(p)
    <3>1. PICK e : e = [d EXCEPT !.pending = v.outcome]
      OBVIOUS
    <3>2. e \in ExecutionRow /\ e.state = d.state
      BY <1>2, <3>1 DEF ExecutionRow, PumpRow
    <3>3. executions' = [executions EXCEPT ![j] = e] /\ PumpGoto(p, "resolve") /\ d.state = "RUNNING"
      BY <1>2, <2>2, <3>1 DEF StageReceipt, ToolInv, ToolTypeOK
    <3> QED BY <3>2, <3>3
  <2> QED BY <2>1, <2>2
<1>4. /\ UNCHANGED <<queue, toolRuns, attempts, available, spawned, clerk>> /\ interpreters' \subseteq ToolJobs
  BY DEF MarkRunning, StageReceipt, ToolInv, ToolTypeOK
<1>5. PICK u : u = [v EXCEPT !.pc = pc]
  OBVIOUS
<1>6. u \in PumpRow /\ u.pc = pc /\ u.job = j /\ toolPump' = [toolPump EXCEPT ![p] = u]
  BY <1>2, <1>3, <1>5 DEF PumpRow, PumpGoto, ToolInv, PumpsFit
<1>7. RowsFit(queue[j], attempts[j], e, spawned[j])
  <2>1. RowsFit(queue[j], attempts[j], executions[j], spawned[j])
    BY DEF ToolInv, JobsFit
  <2>2. spawned[j] = 1 /\ e # NoTool /\ e.state # "RECEIPT_RECORDED"
    BY <1>1, <1>2, <1>3, ToolInputs
  <2> QED BY <1>2, <2>1, <2>2 DEF RowsFit
<1>8. /\ ToolTypeOK' /\ JobsFit' /\ Linked' /\ RowsGrow /\ ClerkFits'
      /\ executions'[j] = e /\ e # NoTool /\ \A k \in ToolJobs \ {j} : executions'[k] = executions[k]
  BY <1>3, <1>4, <1>7, ExecutionMoves
<1>9. PumpFits(u)'
  BY <1>1, <1>2, <1>3, <1>4, <1>6, <1>8 DEF PumpFits, InExecute
<1>10. PumpsFit'
  <2>1. PumpsFit /\ \A k \in ToolJobs \ {j} : executions'[k] = executions[k] /\ spawned'[k] = spawned[k]
    BY <1>4, <1>8 DEF ToolInv
  <2>2. u.pc \in InExecute => \A q \in ToolPumps \ {p} : toolPump[q].pc \in InExecute => toolPump[q].job # u.job
    BY <1>2, <1>6
  <2> QED BY <1>2, <1>6, <1>8, <1>9, <2>1, <2>2, OnePumpMoves
<1> QED BY <1>8, <1>10 DEF ToolInv

\* What the harvest may record: an execution whose process has ended and whose receipt is staged.
LEMMA FinishExecutionStep ==
    ASSUME ToolInv, NEW p \in ToolPumps, NEW j \in ToolJobs, FinishExecution(p, j)
    PROVE  ToolInv'
<1>1. PICK d \in ExecutionRow : d = executions[j] /\ d # NoTool /\ d.pending # NoTool /\ d.pending = attempts[j].receipt
  BY DEF FinishExecution, Harvestable, ToolInv, ToolTypeOK
<1>2. PICK e : e = [d EXCEPT !.state = "RECEIPT_RECORDED"]
  OBVIOUS
<1>3. e \in ExecutionRow /\ e.pending = d.pending /\ e # NoTool
  BY <1>1, <1>2, ToolInputs DEF ExecutionRow
<1>4. /\ executions' = [executions EXCEPT ![j] = e] /\ interpreters' \subseteq ToolJobs
      /\ UNCHANGED <<queue, toolRuns, attempts, available, spawned, toolPump, clerk>>
  BY <1>1, <1>2 DEF FinishExecution, ToolInv, ToolTypeOK
<1>5. RowsFit(queue[j], attempts[j], e, spawned[j])
  <2>1. RowsFit(queue[j], attempts[j], executions[j], spawned[j])
    BY DEF ToolInv, JobsFit
  <2> QED BY <1>1, <1>3, <2>1 DEF RowsFit
<1>6. /\ ToolTypeOK' /\ JobsFit' /\ Linked' /\ RowsGrow /\ ClerkFits'
      /\ executions'[j] = e /\ e # NoTool /\ \A k \in ToolJobs \ {j} : executions'[k] = executions[k]
  BY <1>3, <1>4, <1>5, ExecutionMoves
<1>7. ASSUME NEW k \in ToolJobs, executions[k] # NoTool
      PROVE  executions'[k] # NoTool /\ executions'[k].pending = executions[k].pending
  <2>1. CASE k = j
    BY <1>1, <1>3, <1>6, <2>1
  <2>2. CASE k # j
    <3>1. k \in ToolJobs \ {j}
      BY <2>2
    <3> QED BY <1>6, <1>7, <3>1
  <2> QED BY <2>1, <2>2
<1>8. PumpsFit'
  BY <1>4, <1>6, <1>7, PumpsStay DEF ToolInv
<1> QED BY <1>6, <1>8 DEF ToolInv

\* One attempt and one run are written; what they name is there.
LEMMA RowsMove ==
    ASSUME ToolInv, NEW x \in ToolJobs, NEW a \in AttemptRow, attempts' = [attempts EXCEPT ![x] = a],
           NEW r \in ToolJobs, NEW w \in ToolRunRow, toolRuns' = [toolRuns EXCEPT ![r] = w],
           UNCHANGED <<queue, executions, interpreters, spawned, toolPump>>, available' \in BOOLEAN,
           w.current = x \/ attempts[w.current] # NoTool, a.run = r \/ toolRuns[a.run] # NoTool,
           RowsFit(queue[x], a, executions[x], spawned[x]), clerk' = clerk \/ clerk' = NoRequest
    PROVE  ToolInv'
<1>1. /\ attempts \in [ToolJobs -> AttemptRow \cup {NoTool}] /\ toolRuns \in [ToolJobs -> ToolRunRow \cup {NoTool}]
      /\ Linked
  BY DEF ToolInv, ToolTypeOK
<1>2. a # NoTool /\ w # NoTool
  BY ToolInputs
<1>3. /\ attempts' \in [ToolJobs -> AttemptRow \cup {NoTool}] /\ attempts'[x] = a
      /\ \A k \in ToolJobs \ {x} : attempts'[k] = attempts[k]
  BY <1>1
<1>4. /\ toolRuns' \in [ToolJobs -> ToolRunRow \cup {NoTool}] /\ toolRuns'[r] = w
      /\ \A k \in ToolJobs \ {r} : toolRuns'[k] = toolRuns[k]
  BY <1>1
<1>5. /\ \A k \in ToolJobs : attempts[k] # NoTool => attempts'[k] # NoTool
      /\ \A k \in ToolJobs : toolRuns[k] # NoTool => toolRuns'[k] # NoTool
  BY <1>2, <1>3, <1>4
<1>6. RowsGrow
  BY <1>5 DEF RowsGrow
<1>7. ToolTypeOK'
  BY <1>3, <1>4 DEF ToolInv, ToolTypeOK
<1>8. Linked'
  <2>1. ASSUME NEW k \in ToolJobs, toolRuns'[k] # NoTool PROVE attempts'[toolRuns'[k].current] # NoTool
    <3>1. CASE k = r
      <4>1. w.current \in ToolJobs /\ toolRuns'[k] = w
        BY <1>4, <3>1 DEF ToolRunRow
      <4> QED BY <1>2, <1>3, <1>5, <4>1
    <3>2. CASE k # r
      <4>1. toolRuns'[k] = toolRuns[k] /\ toolRuns[k] \in ToolRunRow /\ attempts[toolRuns[k].current] # NoTool
        BY <1>1, <1>4, <2>1, <3>2 DEF Linked
      <4>2. toolRuns[k].current \in ToolJobs
        BY <4>1 DEF ToolRunRow
      <4> QED BY <1>5, <4>1, <4>2
    <3> QED BY <3>1, <3>2
  <2>2. ASSUME NEW k \in ToolJobs, attempts'[k] # NoTool PROVE toolRuns'[attempts'[k].run] # NoTool
    <3>1. CASE k = x
      <4>1. a.run \in ToolJobs /\ attempts'[k] = a
        BY <1>3, <3>1 DEF AttemptRow
      <4> QED BY <1>2, <1>4, <1>5, <4>1
    <3>2. CASE k # x
      <4>1. attempts'[k] = attempts[k] /\ attempts[k] \in AttemptRow /\ toolRuns[attempts[k].run] # NoTool
        BY <1>1, <1>3, <2>2, <3>2 DEF Linked
      <4>2. attempts[k].run \in ToolJobs
        BY <4>1 DEF AttemptRow
      <4> QED BY <1>5, <4>1, <4>2
    <3> QED BY <3>1, <3>2
  <2> QED BY <2>1, <2>2 DEF Linked
<1>9. JobsFit'
  BY <1>3, OneJobFits DEF ToolInv
<1>10. PumpsFit'
  BY <1>6, PumpsStay DEF ToolInv
<1>11. ClerkFits'
  <2>1. CASE clerk' = clerk
    BY <1>6, <2>1, ClerkStays DEF ToolInv
  <2>2. CASE clerk' = NoRequest
    BY <2>2 DEF ClerkFits, NoRequest, ClerkRow
  <2> QED BY <2>1, <2>2
<1> QED BY <1>7, <1>8, <1>9, <1>10, <1>11 DEF ToolInv

\* The harvest gives an attempt the receipt that was staged and the state the queue recorded.
LEMMA RecordToolReceiptStep ==
    ASSUME ToolInv, NEW p \in ToolPumps, NEW j \in ToolJobs, RecordToolReceipt(p, j)
    PROVE  ToolInv'
<1>1. PICK e \in ExecutionRow : /\ e = executions[j] /\ e # NoTool /\ e.state = "RUNNING" /\ e.pending # NoTool
                                /\ queue[j].state = e.pending
  BY DEF RecordToolReceipt, Harvestable, JobAgrees, ToolInv, ToolTypeOK
<1>2. RowsFit(queue[j], attempts[j], e, spawned[j])
  BY <1>1 DEF ToolInv, JobsFit
<1>3. PICK b \in AttemptRow : b = attempts[j]
  BY <1>1, <1>2 DEF RowsFit, ToolInv, ToolTypeOK
<1>4. PICK r \in ToolJobs : r = b.run /\ toolRuns[r] # NoTool
  BY <1>3, ToolInputs DEF AttemptRow, ToolInv, Linked
<1>5. PICK v \in ToolRunRow : v = toolRuns[r] /\ v.current = j
  BY <1>3, <1>4 DEF ToolInv, ToolTypeOK, RecordToolReceipt
<1>6. PICK a : a = [[b EXCEPT !.status = e.pending] EXCEPT !.receipt = e.pending]
  OBVIOUS
<1>7. a \in AttemptRow /\ a.run = r /\ a.receipt = e.pending /\ a # NoTool
  <2>1. e.pending \in ToolOutcomes /\ e.pending \in JobStates
    BY <1>1 DEF ExecutionRow, JobStates, JobEnds
  <2> QED BY <1>3, <1>4, <1>6, <2>1, ToolInputs DEF AttemptRow
<1>8. PICK w : w = [v EXCEPT !.invocation = e.pending]
  OBVIOUS
<1>9. w \in ToolRunRow /\ w.current = j
  <2>1. e.pending \in JobStates
    BY <1>1 DEF ExecutionRow, JobStates, JobEnds
  <2> QED BY <1>5, <1>8, <2>1 DEF ToolRunRow
<1>10. /\ attempts' = [attempts EXCEPT ![j] = a] /\ toolRuns' = [toolRuns EXCEPT ![r] = w]
       /\ UNCHANGED <<queue, executions, interpreters, spawned, toolPump, clerk>> /\ available' \in BOOLEAN
  BY <1>1, <1>3, <1>4, <1>5, <1>6, <1>8 DEF RecordToolReceipt, ToolInv, ToolTypeOK
<1>11. RowsFit(queue[j], a, executions[j], spawned[j])
  BY <1>1, <1>2, <1>7 DEF RowsFit
<1> QED BY <1>7, <1>9, <1>10, <1>11, RowsMove

\* A request reads, and the catalog changes its mind: no row is written.
LEMMA NoRowStep ==
    ASSUME ToolInv, UNCHANGED <<queue, toolRuns, attempts, executions, interpreters, spawned, toolPump>>,
           available' \in BOOLEAN, ClerkFits'
    PROVE  ToolInv'
<1>1. ToolTypeOK' /\ JobsFit' /\ Linked' /\ PumpsFit'
  BY DEF ToolInv, ToolTypeOK, JobsFit, Linked, PumpsFit, PumpFits, Alone
<1> QED BY <1>1 DEF ToolInv

\* A request reads the rows it will later write from.
LEMMA RequestReads ==
    ASSUME ToolInv, NEW r \in ToolJobs,
           \/ ReconcileRead(r) \/ \E k \in ToolJobs : RerunRead(r, k)
           \/ \E v \in {"VALIDATION_ACCEPTED", "VALIDATION_REJECTED"} : ValidationRead(r, v)
    PROVE  ToolInv'
<1>1. /\ UNCHANGED <<queue, toolRuns, attempts, executions, interpreters, spawned, toolPump>>
      /\ available' \in BOOLEAN /\ toolRuns[r] # NoTool
  BY DEF ReconcileRead, RerunRead, ValidationRead, ToolInv, ToolTypeOK
<1>2. CASE ReconcileRead(r)
  <2>1. PICK a \in ToolJobs : a = toolRuns[r].current /\ attempts[a] # NoTool
    BY <1>1 DEF ToolInv, ToolTypeOK, Linked, ToolRunRow
  <2>2. PICK s \in JobStates : s = IF queue[a].state = "SUCCEEDED" /\ attempts[a].receipt = NoTool
                                   THEN "WAITING" ELSE queue[a].state
    BY DEF ToolInv, ToolTypeOK, JobStates
  <2>3. clerk' = [pc |-> "reconcile", run |-> r, attempt |-> a, seen |-> s]
    BY <1>2, <2>1, <2>2 DEF ReconcileRead
  <2>4. ClerkFits'
    BY <1>1, <2>1, <2>3 DEF ClerkFits, ClerkRow
  <2> QED BY <1>1, <2>4, NoRowStep
<1>3. ASSUME NEW k \in ToolJobs, RerunRead(r, k) PROVE ToolInv'
  <2>1. clerk' = [pc |-> "rerun", run |-> r, attempt |-> k, seen |-> NoTool]
    BY <1>3 DEF RerunRead, NoRequest
  <2>2. ClerkFits'
    BY <1>1, <2>1 DEF ClerkFits, ClerkRow
  <2> QED BY <1>1, <2>2, NoRowStep
<1>4. ASSUME NEW v \in {"VALIDATION_ACCEPTED", "VALIDATION_REJECTED"}, ValidationRead(r, v) PROVE ToolInv'
  <2>1. clerk' = [pc |-> "validate", run |-> r, attempt |-> NoTool, seen |-> v]
    BY <1>4 DEF ValidationRead, NoRequest
  <2>2. ClerkFits'
    BY <1>1, <2>1 DEF ClerkFits, ClerkRow
  <2> QED BY <1>1, <2>2, NoRowStep
<1> QED BY <1>2, <1>3, <1>4

\* A request writes what its reading said: reconciliation, rerun or validation.
LEMMA RequestWrites == ASSUME ToolInv, ReconcileWrite \/ RerunWrite \/ ValidationWrite PROVE ToolInv'
<1>1. /\ UNCHANGED <<queue, executions, interpreters, spawned, toolPump>> /\ available' \in BOOLEAN
      /\ clerk' = NoRequest
  BY DEF ReconcileWrite, RerunWrite, ValidationWrite, ToolInv, ToolTypeOK
<1>2. PICK r \in ToolJobs : r = clerk.run /\ toolRuns[r] # NoTool
  BY DEF ReconcileWrite, RerunWrite, ValidationWrite, ToolInv, ClerkFits
<1>3. PICK v \in ToolRunRow : v = toolRuns[r] /\ v.current \in ToolJobs /\ attempts[v.current] # NoTool
  BY <1>2 DEF ToolInv, ToolTypeOK, Linked, ToolRunRow
<1>4. /\ attempts \in [ToolJobs -> AttemptRow \cup {NoTool}] /\ toolRuns \in [ToolJobs -> ToolRunRow \cup {NoTool}]
      /\ \A k \in ToolJobs : attempts[k] # NoTool => toolRuns[attempts[k].run] # NoTool
  BY DEF ToolInv, ToolTypeOK, Linked
<1>5. CASE ReconcileWrite
  <2>1. PICK x \in ToolJobs, s \in JobStates : x = clerk.attempt /\ s = clerk.seen /\ attempts[x] # NoTool
    BY <1>5 DEF ReconcileWrite, ToolInv, ClerkFits
  <2>2. PICK b \in AttemptRow : b = attempts[x] /\ toolRuns[b.run] # NoTool
    BY <1>4, <2>1
  <2>3. PICK a : a = [b EXCEPT !.status = s]
    OBVIOUS
  <2>4. a \in AttemptRow /\ a.run = b.run /\ a.receipt = b.receipt /\ a # NoTool
    BY <2>2, <2>3, ToolInputs DEF AttemptRow
  <2>5. PICK w : w = [v EXCEPT !.invocation = s]
    OBVIOUS
  <2>6. w \in ToolRunRow /\ w.current = v.current
    BY <1>3, <2>5 DEF ToolRunRow
  <2>7. attempts' = [attempts EXCEPT ![x] = a] /\ toolRuns' = [toolRuns EXCEPT ![r] = w]
    BY <1>2, <1>3, <1>5, <2>1, <2>2, <2>3, <2>5 DEF ReconcileWrite
  <2>8. RowsFit(queue[x], a, executions[x], spawned[x])
    <3>1. RowsFit(queue[x], b, executions[x], spawned[x])
      BY <2>2 DEF ToolInv, JobsFit
    <3>2. b # NoTool
      BY <2>1, <2>2
    <3> QED BY <2>4, <3>1, <3>2 DEF RowsFit
  <2> QED BY <1>1, <1>3, <2>2, <2>4, <2>6, <2>7, <2>8, RowsMove
<1>6. CASE RerunWrite
  <2>1. PICK x \in ToolJobs : x = clerk.attempt
    BY <1>6 DEF RerunWrite, ToolInv, ClerkFits
  <2>2. CASE attempts[x] # NoTool
    <3>1. UNCHANGED <<attempts, toolRuns>>
      BY <1>6, <2>1, <2>2 DEF RerunWrite
    <3>2. ClerkFits'
      BY <1>1 DEF ClerkFits, NoRequest, ClerkRow
    <3> QED BY <1>1, <3>1, <3>2, NoRowStep
  <2>3. CASE attempts[x] = NoTool
    <3>1. PICK a : a = [run |-> r, status |-> "QUEUED", receipt |-> NoTool]
      OBVIOUS
    <3>2. a \in AttemptRow /\ a.run = r /\ a.receipt = NoTool /\ a # NoTool
      BY <3>1, ToolInputs DEF AttemptRow, JobStates
    <3>3. PICK w : w = [current |-> x, invocation |-> "QUEUED", validation |-> "NOT_SUBMITTED"]
      OBVIOUS
    <3>4. w \in ToolRunRow /\ w.current = x
      BY <3>3 DEF ToolRunRow, JobStates
    <3>5. attempts' = [attempts EXCEPT ![x] = a] /\ toolRuns' = [toolRuns EXCEPT ![r] = w]
      BY <1>2, <1>6, <2>1, <2>3, <3>1, <3>3 DEF RerunWrite
    <3>6. RowsFit(queue[x], a, executions[x], spawned[x])
      <4>1. RowsFit(queue[x], attempts[x], executions[x], spawned[x])
        BY DEF ToolInv, JobsFit
      <4> QED BY <2>3, <3>2, <4>1 DEF RowsFit
    <3> QED BY <1>1, <3>2, <3>4, <3>5, <3>6, RowsMove
  <2> QED BY <2>2, <2>3
<1>7. CASE ValidationWrite
  <2>1. PICK x \in ToolJobs : x = v.current /\ attempts[x] # NoTool
    BY <1>3
  <2>2. PICK a \in AttemptRow : a = attempts[x] /\ toolRuns[a.run] # NoTool
    BY <1>4, <2>1
  <2>3. PICK w \in ToolRunRow : w.current = v.current /\ toolRuns' = [toolRuns EXCEPT ![r] = w]
    <3>1. CASE v.validation # "NOT_SUBMITTED"
      <4>1. toolRuns' = toolRuns
        BY <1>2, <1>3, <1>7, <3>1 DEF ValidationWrite
      <4> QED BY <1>3, <1>4, <4>1
    <3>2. CASE v.validation = "NOT_SUBMITTED"
      <4>1. PICK s \in {"VALIDATION_ACCEPTED", "VALIDATION_REJECTED"} : s = clerk.seen
        BY <1>7 DEF ValidationWrite, ToolInv, ClerkFits
      <4>2. PICK w : w = [v EXCEPT !.validation = s]
        OBVIOUS
      <4>3. w \in ToolRunRow /\ w.current = v.current
        BY <1>3, <4>2 DEF ToolRunRow
      <4>4. toolRuns' = [toolRuns EXCEPT ![r] = w]
        BY <1>2, <1>3, <1>7, <3>2, <4>1, <4>2 DEF ValidationWrite
      <4> QED BY <4>3, <4>4
    <3> QED BY <3>1, <3>2
  <2>4. attempts' = [attempts EXCEPT ![x] = a]
    BY <1>4, <1>7, <2>2 DEF ValidationWrite
  <2>5. RowsFit(queue[x], a, executions[x], spawned[x])
    BY <2>2 DEF ToolInv, JobsFit
  <2> QED BY <1>1, <2>1, <2>2, <2>3, <2>4, <2>5, RowsMove
<1> QED BY <1>5, <1>6, <1>7

\* No job has been claimed and no process started.
LEMMA ToolInitially == ToolInit => ToolInv
<1> SUFFICES ASSUME ToolInit PROVE ToolInv
  OBVIOUS
<1>1. ToolTypeOK
  BY DEF ToolInit, ToolTypeOK, JobStates
<1>2. JobsFit
  BY DEF ToolInit, JobsFit, RowsFit
<1>3. Linked
  BY DEF ToolInit, Linked
<1>4. PumpsFit
  BY IdlePumpFits DEF ToolInit, PumpsFit, Alone, InExecute
<1>5. ClerkFits
  BY DEF ToolInit, ClerkFits, NoRequest, ClerkRow
<1> QED BY <1>1, <1>2, <1>3, <1>4, <1>5 DEF ToolInv

\* Every step of the pumps, the queue, the harvest and the requests.
LEMMA ToolInductive == ToolInv /\ [ToolNext]_toolVars => ToolInv'
<1> SUFFICES ASSUME ToolInv, [ToolNext]_toolVars PROVE ToolInv'
  OBVIOUS
<1>1. CASE UNCHANGED toolVars
  BY <1>1 DEF toolVars, ToolInv, ToolTypeOK, JobsFit, Linked, PumpsFit, PumpFits, Alone, ClerkFits
<1>2. ASSUME NEW p \in ToolPumps, ToolPumpStep(p) PROVE ToolInv'
  <2>1. ASSUME NEW j \in ToolJobs, \/ ClaimToolJob(p, j) \/ RecordToolReceipt(p, j)
                                   \/ FinishExecution(p, j) \/ AbandonOrphan(p, j)
        PROVE  ToolInv'
    BY <2>1, ClaimToolJobStep, RecordToolReceiptStep, FinishExecutionStep, AbandonStep
  <2>2. CASE BindRequest(p) \/ Reserve(p) \/ Spawn(p) \/ ResolveToolJob(p)
    BY <2>2, BindRequestStep, ReserveStep, SpawnStep, ResolveToolJobStep
  <2>3. CASE BindingRejected(p) \/ IdleHarvest(p) \/ EndHarvest(p) \/ DaemonDies(p)
    BY <2>3, PumpOnlyStep
  <2>4. CASE ExecuteFails(p)
    BY <2>4, AbandonStep
  <2>5. CASE MarkRunning(p) \/ StageReceipt(p)
    BY <2>5, ExecutionStep
  <2>6. ASSUME NEW o \in ToolOutcomes, WaitForExit(p, o) PROVE ToolInv'
    BY <2>6, WaitForExitStep
  <2> QED BY <1>2, <2>1, <2>2, <2>3, <2>4, <2>5, <2>6 DEF ToolPumpStep
<1>3. ASSUME NEW j \in ToolJobs,
             \/ ToolLeaseExpires(j) \/ CancelToolJob(j) \/ ReconcileRead(j)
             \/ \E k \in ToolJobs : RerunRead(j, k)
             \/ \E v \in {"VALIDATION_ACCEPTED", "VALIDATION_REJECTED"} : ValidationRead(j, v)
      PROVE  ToolInv'
  BY <1>3, QueueStep, RequestReads
<1>4. CASE ReconcileWrite \/ RerunWrite \/ ValidationWrite
  BY <1>4, RequestWrites
<1>5. CASE SetAvailability
  <2>1. /\ UNCHANGED <<queue, toolRuns, attempts, executions, interpreters, spawned, toolPump, clerk>>
        /\ available' \in BOOLEAN
    BY <1>5 DEF SetAvailability, ToolInv, ToolTypeOK
  <2>2. ClerkFits'
    BY <2>1 DEF ToolInv, ClerkFits
  <2> QED BY <2>1, <2>2, NoRowStep
<1> QED BY <1>1, <1>2, <1>3, <1>4, <1>5 DEF ToolNext

\* Over any crashes, lost leases and retries a job starts its interpreter at most once, and a
\* recorded tool receipt is what that process staged and what the queue says of the job
\* (tool_runs.py record_receipt, managed_python.py).
THEOREM ToolReceiptsAlwaysTrue == ToolSpec => []ToolReceiptsAreTrue
<1>1. ToolInit => ToolInv
  BY ToolInitially
<1>2. ToolInv /\ [ToolNext]_toolVars => ToolInv'
  BY ToolInductive
<1>3. ToolInv => ToolReceiptsAreTrue
  <2> SUFFICES ASSUME ToolInv, NEW j \in ToolJobs
               PROVE  /\ spawned[j] <= 1
                      /\ (attempts[j] # NoTool /\ attempts[j].receipt # NoTool) =>
                            /\ spawned[j] = 1 /\ executions[j].pending = attempts[j].receipt
                            /\ queue[j].state = attempts[j].receipt
                      /\ (executions[j] # NoTool /\ executions[j].state = "RECEIPT_RECORDED") =>
                            attempts[j].receipt = executions[j].pending
    BY DEF ToolReceiptsAreTrue, ToolInv
  <2>1. RowsFit(queue[j], attempts[j], executions[j], spawned[j])
    BY DEF ToolInv, JobsFit
  <2>2. spawned[j] <= 1
    BY <2>1 DEF RowsFit
  <2> QED BY <2>1, <2>2 DEF RowsFit
<1> QED BY <1>1, <1>2, <1>3, PTL DEF ToolSpec

-----------------------------------------------------------------------------
(* Executors *)

AnswerRow == [outcome : {"SUCCEEDED", "FAILED", "OUTCOME_UNKNOWN"},
              decision : {"accepted", "rejected", NoOutcome}, kernel : BOOLEAN]
Committing == {"BACKUP", "RESTORE", "UPGRADE_EXECUTE"}

\* What a job that succeeded has left behind.
Delivered(j) ==
    CASE Type(j) = "RUN_LITERATURE_QUERY" -> EffectsOf(j) = {<<j, p>> : p \in Range(order[j].profiles)}
      [] Type(j) = "RETRY_UNKNOWN_OUTCOME" ->
           order[j].strategy = "MARK_ABANDONED" /\ execReceipt[order[j].about] = "OUTCOME_UNKNOWN"
      [] Type(j) = "DEPLOYMENT_OPERATION" ->
           order[j].action = "UPGRADE_PREFLIGHT" \/ EffectsOf(j) = {<<j, order[j].action>>}
      [] OTHER -> EffectsOf(j) # {}
LeftNothing(j) == \A e \in EffectsOf(j) : Type(j) = "RUN_LITERATURE_QUERY" /\ e[2] \in Connectors

\* What a job that has no answer yet may have left behind.
Underway(j) ==
    /\ Type(j) \notin deployed => EffectsOf(j) = {}
    /\ Type(j) = "RUN_LITERATURE_QUERY" =>
         /\ asked[j] \in Seq(Range(order[j].profiles))
         /\ EffectsOf(j) \cup {<<j, p>> : p \in Range(asked[j])} = {<<j, p>> : p \in Range(order[j].profiles)}
         /\ LeftNothing(j)
    /\ Type(j) = "DEPLOYMENT_OPERATION" =>
         /\ EffectsOf(j) \subseteq {<<j, order[j].action>>}
         /\ order[j].action \notin Committing => EffectsOf(j) = {}
    /\ Type(j) \notin StoreKinds \cup PaperKinds \cup {"RUN_LITERATURE_QUERY", "DEPLOYMENT_OPERATION"} =>
         EffectsOf(j) = {}

JobFits(j) ==
    /\ execState[j] = "QUEUED" => answer[j] = NoOutcome /\ EffectsOf(j) = {}
    /\ (execState[j] \in {"QUEUED", "RUNNING"}) = (execReceipt[j] = "PENDING")
    /\ (execState[j] \in {"SUCCEEDED", "FAILED"}) = (execReceipt[j] = "DECIDED")
    /\ execState[j] \in {"SUCCEEDED", "FAILED"} => answer[j] # NoOutcome /\ answer[j].outcome = execState[j]
    /\ answer[j] # NoOutcome => /\ answer[j].outcome = "SUCCEEDED" => Delivered(j)
                                /\ answer[j].outcome = "FAILED" => LeftNothing(j)
    /\ execState[j] = "RUNNING" /\ answer[j] = NoOutcome => Underway(j)

RowsOK ==
    /\ order \in Orders
    /\ execState \in [ExecJobs -> {"QUEUED", "RUNNING", "SUCCEEDED", "FAILED", "OUTCOME_UNKNOWN"}]
    /\ execReceipt \in [ExecJobs -> {"PENDING", "DECIDED", "OUTCOME_UNKNOWN"}]
    /\ answer \in [ExecJobs -> AnswerRow \cup {NoOutcome}]
    /\ DOMAIN asked = ExecJobs

ExecutorInv == RowsOK /\ \A j \in ExecJobs : JobFits(j)

\* A step of one job disturbs no other: an unknown outcome stays one.
LEMMA OneJobMoves ==
    ASSUME ExecutorInv, NEW j \in ExecJobs, RowsOK', JobFits(j)', UNCHANGED <<order, deployed>>,
           \A k \in ExecJobs \ {j} : /\ execState'[k] = execState[k] /\ execReceipt'[k] = execReceipt[k]
                                     /\ answer'[k] = answer[k] /\ asked'[k] = asked[k],
           \A k \in ExecJobs \ {j} : EffectsOf(k)' = EffectsOf(k),
           execReceipt[j] = "OUTCOME_UNKNOWN" => execReceipt'[j] = "OUTCOME_UNKNOWN"
    PROVE  ExecutorInv'
<1>1. \A k \in ExecJobs : execReceipt[k] = "OUTCOME_UNKNOWN" => execReceipt'[k] = "OUTCOME_UNKNOWN"
  OBVIOUS
<1>2. ASSUME NEW k \in ExecJobs \ {j} PROVE JobFits(k)'
  <2>1. JobFits(k) /\ EffectsOf(k)' = EffectsOf(k) /\ Type(k)' = Type(k) /\ order'[k] = order[k]
    BY DEF ExecutorInv, Type
  <2>2. LeftNothing(k)' = LeftNothing(k)
    BY <2>1 DEF LeftNothing
  <2>3. Delivered(k) => Delivered(k)'
    <3>1. Type(k) = "RETRY_UNKNOWN_OUTCOME" => order[k].about \in ExecJobs
      BY ExecutorInputs DEF ExecutorInv, RowsOK, Type
    <3> QED BY <1>1, <2>1, <3>1 DEF Delivered
  <2>4. Underway(k) => Underway(k)'
    BY <2>1, <2>2 DEF Underway
  <2>5. /\ execState'[k] = execState[k] /\ execReceipt'[k] = execReceipt[k] /\ answer'[k] = answer[k]
    OBVIOUS
  <2> QED BY <2>1, <2>2, <2>3, <2>4, <2>5 DEF JobFits
<1>3. ASSUME NEW k \in ExecJobs PROVE JobFits(k)'
  <2>1. CASE k = j
    BY <2>1
  <2>2. CASE k # j
    <3>1. k \in ExecJobs \ {j}
      BY <2>2
    <3> QED BY <1>2, <3>1
  <2> QED BY <2>1, <2>2
<1> QED BY <1>3 DEF ExecutorInv

\* An executor answers without touching a store, or with one effect of its own.
LEMMA JobAnswers ==
    ASSUME ExecutorInv, NEW j \in ExecJobs, Working(j), NEW a \in AnswerRow, Answers(j, a),
           UNCHANGED <<order, deployed, execState, execReceipt, asked>>,
           \A k \in ExecJobs \ {j} : EffectsOf(k)' = EffectsOf(k),
           a.outcome = "SUCCEEDED" => Delivered(j)', a.outcome = "FAILED" => LeftNothing(j)'
    PROVE  ExecutorInv'
<1>1. answer' = [answer EXCEPT ![j] = a] /\ a # NoOutcome
  BY ExecutorInputs DEF Answers, AnswerRow
<1>2. RowsOK' /\ answer'[j] = a /\ \A k \in ExecJobs \ {j} : answer'[k] = answer[k]
  BY <1>1 DEF ExecutorInv, RowsOK
<1>3. execState[j] = "RUNNING" /\ execState'[j] = "RUNNING" /\ execReceipt'[j] = execReceipt[j] /\ JobFits(j)
  BY DEF Working, ExecutorInv
<1>4. JobFits(j)'
  BY <1>1, <1>2, <1>3 DEF JobFits
<1> QED BY <1>2, <1>3, <1>4, OneJobMoves

\* The effects of a step are the job's own.
LEMMA OwnEffect ==
    ASSUME NEW j \in ExecJobs, NEW x, done' = done \cup {<<j, x>>}
    PROVE  /\ EffectsOf(j)' = EffectsOf(j) \cup {<<j, x>>}
           /\ \A k \in ExecJobs \ {j} : EffectsOf(k)' = EffectsOf(k)
BY DEF EffectsOf

\* A step that commits nothing leaves the effects of every job as they are.
LEMMA NoEffect == ASSUME done' = done PROVE \A k \in ExecJobs : EffectsOf(k)' = EffectsOf(k)
BY DEF EffectsOf

\* The answers of the executors and the outcomes they carry.
LEMMA AnswersAreRows ==
    /\ DomainSuccess \in AnswerRow /\ RejectedExecution \in AnswerRow /\ UnknownOutcome \in AnswerRow
    /\ \A a \in BOOLEAN : KernelExecution(a) \in AnswerRow
    /\ DomainSuccess.outcome = "SUCCEEDED" /\ RejectedExecution.outcome = "FAILED"
    /\ UnknownOutcome.outcome = "OUTCOME_UNKNOWN"
    /\ KernelExecution(TRUE).outcome = "SUCCEEDED" /\ KernelExecution(FALSE).outcome = "FAILED"
BY DEF DomainSuccess, RejectedExecution, UnknownOutcome, KernelExecution, AnswerRow

\* A job that is worked on has left what its kind allows.
LEMMA WorkingJob ==
    ASSUME ExecutorInv, NEW j \in ExecJobs, Working(j)
    PROVE  Underway(j) /\ Type(j) \in DurableCommandTypes
BY ExecutorInputs DEF ExecutorInv, JobFits, Working, RowsOK, Type

\* A job is claimed: its executor starts with nothing done.
LEMMA ClaimJobStep == ASSUME ExecutorInv, NEW j \in ExecJobs, ClaimJob(j) PROVE ExecutorInv'
<1>1. /\ execState[j] = "QUEUED" /\ execState' = [execState EXCEPT ![j] = "RUNNING"]
      /\ UNCHANGED <<order, deployed, execReceipt, answer, done>>
      /\ asked' = [asked EXCEPT ![j] = IF Type(j) = "RUN_LITERATURE_QUERY" THEN order[j].profiles ELSE <<>>]
  BY DEF ClaimJob
<1>2. /\ RowsOK' /\ execState'[j] = "RUNNING" /\ execReceipt'[j] = execReceipt[j]
      /\ Type(j) = "RUN_LITERATURE_QUERY" => asked'[j] = order[j].profiles
      /\ \A k \in ExecJobs \ {j} : /\ execState'[k] = execState[k] /\ asked'[k] = asked[k]
                                   /\ execReceipt'[k] = execReceipt[k] /\ answer'[k] = answer[k]
  BY <1>1 DEF ExecutorInv, RowsOK
<1>3. \A k \in ExecJobs : EffectsOf(k)' = EffectsOf(k)
  BY <1>1, NoEffect
<1>4. JobFits(j) /\ EffectsOf(j)' = {} /\ answer'[j] = NoOutcome
  BY <1>1, <1>3 DEF ExecutorInv, JobFits
<1>5. Type(j)' = Type(j) /\ order'[j] = order[j]
  BY <1>1 DEF Type
<1>6. Type(j) = "RUN_LITERATURE_QUERY" => order[j].profiles \in Seq(Range(order[j].profiles))
  BY ExecutorInputs DEF ExecutorInv, RowsOK, Type
<1>7. Underway(j)'
  BY <1>2, <1>4, <1>5, <1>6 DEF Underway, LeftNothing
<1>8. JobFits(j)'
  BY <1>1, <1>2, <1>4, <1>7 DEF JobFits
<1> QED BY <1>1, <1>2, <1>3, <1>8, OneJobMoves

\* An executor without a port refuses and touches nothing.
LEMMA RunUndeployedStep == ASSUME ExecutorInv, NEW j \in ExecJobs, RunUndeployed(j) PROVE ExecutorInv'
<1>1. /\ Working(j) /\ Type(j) \notin deployed /\ Answers(j, RejectedExecution)
      /\ UNCHANGED <<order, deployed, execState, execReceipt, done, asked>>
  BY DEF RunUndeployed
<1>2. \A k \in ExecJobs : EffectsOf(k)' = EffectsOf(k)
  BY <1>1, NoEffect
<1>3. LeftNothing(j)'
  BY <1>1, <1>2, WorkingJob DEF Underway, LeftNothing
<1> QED BY <1>1, <1>2, <1>3, AnswersAreRows, JobAnswers

\* The kernel starts or resumes a run, or refuses.
LEMMA RunLifecycleStep == ASSUME ExecutorInv, NEW j \in ExecJobs, RunLifecycle(j) PROVE ExecutorInv'
<1>1. /\ Working(j) /\ Type(j) \in KernelKinds
      /\ UNCHANGED <<order, deployed, execState, execReceipt, asked>>
  BY DEF RunLifecycle
<1>2. EffectsOf(j) = {}
  BY <1>1, WorkingJob DEF Underway, KernelKinds, StoreKinds, PaperKinds
<1>3. Type(j)' = Type(j)
  BY <1>1 DEF Type
<1>4. CASE Answers(j, KernelExecution(TRUE)) /\ done' = done \cup {<<j, "kernel">>}
  <2>1. Delivered(j)'
    BY <1>1, <1>3, <1>4, OwnEffect DEF Delivered, KernelKinds
  <2> QED BY <1>1, <1>4, <2>1, OwnEffect, AnswersAreRows, JobAnswers
<1>5. CASE Answers(j, KernelExecution(FALSE)) /\ done' = done
  <2>1. LeftNothing(j)' /\ \A k \in ExecJobs : EffectsOf(k)' = EffectsOf(k)
    BY <1>2, <1>5, NoEffect DEF LeftNothing
  <2> QED BY <1>1, <1>5, <2>1, AnswersAreRows, JobAnswers
<1> QED BY <1>4, <1>5 DEF RunLifecycle

\* A service commits; its executor answers or dies, and may then run again.
LEMMA ServiceCommitsStep ==
    ASSUME ExecutorInv, NEW j \in ExecJobs, Working(j), NEW x, ServiceCommits(j, x), Type(j) \in deployed,
           \/ Type(j) \in StoreKinds \cup PaperKinds
           \/ Type(j) = "DEPLOYMENT_OPERATION" /\ order[j].action \in Committing /\ x = order[j].action
    PROVE  ExecutorInv'
<1>1. /\ done' = done \cup {<<j, x>>} /\ UNCHANGED <<order, deployed, execState, execReceipt, asked>>
      /\ Answers(j, DomainSuccess) \/ UNCHANGED answer
  BY DEF ServiceCommits
<1>2. /\ EffectsOf(j)' = EffectsOf(j) \cup {<<j, x>>}
      /\ \A k \in ExecJobs \ {j} : EffectsOf(k)' = EffectsOf(k)
  BY <1>1, OwnEffect
<1>3. Type(j)' = Type(j) /\ order'[j] = order[j] /\ Underway(j)
  BY <1>1, WorkingJob DEF Type
<1>4. CASE Answers(j, DomainSuccess)
  <2>1. Delivered(j)'
    <3>1. CASE Type(j) \in StoreKinds \cup PaperKinds
      BY <1>2, <1>3, <3>1 DEF Delivered, StoreKinds, PaperKinds
    <3>2. CASE Type(j) = "DEPLOYMENT_OPERATION" /\ x = order[j].action
      <4>1. EffectsOf(j)' = {<<j, order[j].action>>}
        BY <1>2, <1>3, <3>2 DEF Underway
      <4> QED BY <1>3, <3>2, <4>1 DEF Delivered
    <3> QED BY <3>1, <3>2
  <2> QED BY <1>1, <1>2, <1>4, <2>1, AnswersAreRows, JobAnswers
<1>5. CASE UNCHANGED answer
  <2>1. RowsOK' /\ execState[j] = "RUNNING" /\ answer[j] = NoOutcome /\ JobFits(j)
    BY <1>1, <1>5 DEF ExecutorInv, RowsOK, Working
  <2>2. Underway(j)'
    BY <1>1, <1>2, <1>3 DEF Underway, StoreKinds, PaperKinds, Committing
  <2>3. JobFits(j)'
    BY <1>1, <1>5, <2>1, <2>2 DEF JobFits
  <2> QED BY <1>1, <1>2, <1>5, <2>1, <2>3, OneJobMoves
<1> QED BY <1>1, <1>4, <1>5

\* A store, the compiler or the deployment service does the work of a job.
LEMMA RunServiceStep ==
    ASSUME ExecutorInv, NEW j \in ExecJobs, RunStore(j) \/ RunPaper(j) \/ RunDeployment(j)
    PROVE  ExecutorInv'
<1>1. CASE RunStore(j)
  BY <1>1, ServiceCommitsStep DEF RunStore
<1>2. CASE RunPaper(j)
  BY <1>2, ServiceCommitsStep DEF RunPaper
<1>3. CASE RunDeployment(j)
  <2>1. Working(j) /\ Type(j) = "DEPLOYMENT_OPERATION" /\ Type(j) \in deployed
    BY <1>3 DEF RunDeployment
  <2>2. CASE order[j].action \in Committing
    <3>1. ServiceCommits(j, order[j].action)
      BY <1>3, <2>2 DEF RunDeployment, Committing
    <3> QED BY <2>1, <2>2, <3>1, ServiceCommitsStep
  <2>3. CASE order[j].action \notin Committing
    <3>1. /\ UNCHANGED <<order, deployed, execState, execReceipt, done, asked>>
          /\ \/ order[j].action = "UPGRADE_PREFLIGHT" /\ Answers(j, DomainSuccess)
             \/ Answers(j, RejectedExecution)
      BY <1>3, <2>3 DEF RunDeployment, Committing
    <3>2. \A k \in ExecJobs : EffectsOf(k)' = EffectsOf(k)
      BY <3>1, NoEffect
    <3>3. EffectsOf(j)' = {} /\ Type(j)' = Type(j)
      BY <2>1, <2>3, <3>1, <3>2, WorkingJob DEF Underway, Type
    <3>4. LeftNothing(j)' /\ (order[j].action = "UPGRADE_PREFLIGHT" => Delivered(j)')
      BY <2>1, <3>1, <3>3 DEF LeftNothing, Delivered
    <3> QED BY <2>1, <3>1, <3>2, <3>4, AnswersAreRows, JobAnswers
  <2> QED BY <2>2, <2>3
<1> QED BY <1>1, <1>2, <1>3

\* A computation or a replay writes the output of a job.
LEMMA RunOutputStep ==
    ASSUME ExecutorInv, NEW j \in ExecJobs, RunCompute(j) \/ RunReplay(j)
    PROVE  ExecutorInv'
<1>1. /\ Working(j) /\ Type(j) \in ComputeKinds \cup {"REPLAY_SOURCE_SNAPSHOT"}
      /\ UNCHANGED <<order, deployed, execState, execReceipt, asked>>
  BY DEF RunCompute, RunReplay
<1>2. EffectsOf(j) = {} /\ Type(j)' = Type(j)
  BY <1>1, WorkingJob DEF Underway, ComputeKinds, StoreKinds, PaperKinds, Type
<1>3. CASE Answers(j, RejectedExecution) /\ UNCHANGED done
  <2>1. LeftNothing(j)' /\ \A k \in ExecJobs : EffectsOf(k)' = EffectsOf(k)
    BY <1>2, <1>3, NoEffect DEF LeftNothing
  <2> QED BY <1>1, <1>3, <2>1, AnswersAreRows, JobAnswers
<1>4. ASSUME NEW x, Answers(j, DomainSuccess), done' = done \cup {<<j, x>>} PROVE ExecutorInv'
  <2>1. Delivered(j)'
    BY <1>1, <1>2, <1>4, OwnEffect DEF Delivered, ComputeKinds
  <2> QED BY <1>1, <1>4, <2>1, OwnEffect, AnswersAreRows, JobAnswers
<1> QED BY <1>3, <1>4 DEF RunCompute, RunReplay

\* One connector of a literature query answers.
LEMMA AskConnectorStep == ASSUME ExecutorInv, NEW j \in ExecJobs, AskConnector(j) PROVE ExecutorInv'
<1>1. /\ Working(j) /\ Type(j) = "RUN_LITERATURE_QUERY" /\ Type(j) \in deployed /\ asked[j] # << >>
      /\ UNCHANGED <<order, deployed, execState, execReceipt>>
  BY DEF AskConnector
<1>2. Underway(j) /\ Type(j)' = Type(j) /\ order'[j] = order[j]
  BY <1>1, WorkingJob DEF Type
<1>3. CASE Head(asked[j]) \notin Connectors
  <2>1. Answers(j, RejectedExecution) /\ UNCHANGED <<done, asked>>
    BY <1>3 DEF AskConnector
  <2>2. \A k \in ExecJobs : EffectsOf(k)' = EffectsOf(k)
    BY <2>1, NoEffect
  <2>3. LeftNothing(j)'
    BY <1>1, <1>2, <2>2 DEF Underway, LeftNothing
  <2> QED BY <1>1, <2>1, <2>2, <2>3, AnswersAreRows, JobAnswers
<1>4. CASE Head(asked[j]) \in Connectors
  <2>1. PICK h, t : h = Head(asked[j]) /\ t = Tail(asked[j])
    OBVIOUS
  <2>2. done' = done \cup {<<j, h>>} /\ asked' = [asked EXCEPT ![j] = t] /\ UNCHANGED answer
    BY <1>4, <2>1 DEF AskConnector, ExecutorInv, RowsOK
  <2>3. PICK S : S = Range(order[j].profiles)
    OBVIOUS
  <2>4. PICK u \in Seq(S) : u = asked[j] /\ u # << >>
    BY <1>1, <1>2, <2>3 DEF Underway
  <2>5. t \in Seq(S) /\ Range(u) = {h} \cup Range(t)
    <3>1. PICK n \in Nat : n = Len(u) /\ DOMAIN u = 1 .. n
      BY <2>4, LenProperties
    <3>2. t \in Seq(S) /\ Len(t) = n - 1 /\ (\A i \in 1 .. Len(t) : t[i] = u[i + 1]) /\ DOMAIN t = 1 .. Len(t)
      BY <2>1, <2>4, <3>1, HeadTailProperties, LenProperties
    <3>3. h = u[1] /\ n > 0
      <4>1. n # 0
        BY <2>4, <3>1, EmptySeq
      <4> QED BY <2>1, <2>4, <3>1, <4>1
    <3>4. Range(t) = {u[i + 1] : i \in 1 .. (n - 1)}
      BY <3>2 DEF Range
    <3>5. Range(u) = {u[i] : i \in 1 .. n}
      BY <3>1 DEF Range
    <3>6. \A i \in 1 .. n : i = 1 \/ (i - 1 \in 1 .. (n - 1) /\ u[(i - 1) + 1] = u[i])
      OBVIOUS
    <3>7. \A i \in 1 .. (n - 1) : i + 1 \in 1 .. n
      BY <3>1
    <3>8. 1 \in 1 .. n
      BY <3>3
    <3>9. Range(u) \subseteq {h} \cup Range(t)
      BY <3>3, <3>4, <3>5, <3>6
    <3>10. {h} \cup Range(t) \subseteq Range(u)
      BY <3>3, <3>4, <3>5, <3>7, <3>8
    <3> QED BY <3>2, <3>9, <3>10
  <2>6. /\ EffectsOf(j)' = EffectsOf(j) \cup {<<j, h>>}
        /\ \A k \in ExecJobs \ {j} : EffectsOf(k)' = EffectsOf(k)
    BY <2>2, OwnEffect
  <2>7. /\ RowsOK' /\ asked'[j] = t /\ answer'[j] = NoOutcome /\ execState[j] = "RUNNING"
        /\ \A k \in ExecJobs \ {j} : asked'[k] = asked[k]
    BY <1>1, <2>2 DEF ExecutorInv, RowsOK, Working
  <2>8. EffectsOf(j) \cup {<<j, p>> : p \in Range(u)} = {<<j, p>> : p \in S} /\ LeftNothing(j)
    BY <1>1, <1>2, <2>3, <2>4 DEF Underway
  <2>9. EffectsOf(j)' \cup {<<j, p>> : p \in Range(t)} = {<<j, p>> : p \in S}
    BY <2>5, <2>6, <2>8
  <2>10. LeftNothing(j)'
    BY <1>1, <1>2, <1>4, <2>1, <2>6, <2>8 DEF LeftNothing
  <2>11. Underway(j)'
    BY <1>1, <1>2, <2>3, <2>5, <2>7, <2>9, <2>10 DEF Underway, StoreKinds, PaperKinds
  <2>12. JobFits(j)'
    BY <1>1, <2>7, <2>11 DEF JobFits, ExecutorInv
  <2> QED BY <1>1, <2>2, <2>6, <2>7, <2>12, OneJobMoves
<1> QED BY <1>3, <1>4

\* All connectors of a query have answered.
LEMMA QueryAnsweredStep == ASSUME ExecutorInv, NEW j \in ExecJobs, QueryAnswered(j) PROVE ExecutorInv'
<1>1. /\ Working(j) /\ Type(j) = "RUN_LITERATURE_QUERY" /\ asked[j] = << >> /\ Answers(j, DomainSuccess)
      /\ UNCHANGED <<order, deployed, execState, execReceipt, done, asked>>
  BY DEF QueryAnswered
<1>2. Underway(j) /\ Type(j)' = Type(j) /\ order'[j] = order[j]
  BY <1>1, WorkingJob DEF Type
<1>3. Range(<< >>) = {}
  BY DEF Range
<1>4. EffectsOf(j) = {<<j, p>> : p \in Range(order[j].profiles)}
  BY <1>1, <1>2, <1>3 DEF Underway
<1>5. \A k \in ExecJobs : EffectsOf(k)' = EffectsOf(k)
  BY <1>1, NoEffect
<1>6. Delivered(j)'
  BY <1>1, <1>2, <1>4, <1>5 DEF Delivered
<1> QED BY <1>1, <1>5, <1>6, AnswersAreRows, JobAnswers

\* A retry settles the unknown outcome of the job it names.
LEMMA RunRetryUnknownStep == ASSUME ExecutorInv, NEW j \in ExecJobs, RunRetryUnknown(j) PROVE ExecutorInv'
<1>1. /\ Working(j) /\ Type(j) = "RETRY_UNKNOWN_OUTCOME"
      /\ UNCHANGED <<order, deployed, execState, execReceipt, done, asked>>
  BY DEF RunRetryUnknown
<1>2. EffectsOf(j) = {} /\ Type(j)' = Type(j) /\ order'[j] = order[j]
  BY <1>1, WorkingJob DEF Underway, StoreKinds, PaperKinds, Type
<1>3. \A k \in ExecJobs : EffectsOf(k)' = EffectsOf(k)
  BY <1>1, NoEffect
<1>4. LeftNothing(j)'
  BY <1>2, <1>3 DEF LeftNothing
<1>5. PICK a : a = IF execReceipt[order[j].about] = "OUTCOME_UNKNOWN" THEN Dispose(order[j].strategy)
                   ELSE RejectedExecution
  OBVIOUS
<1>6. a \in AnswerRow /\ Answers(j, a)
  BY <1>5, AnswersAreRows DEF Dispose, RunRetryUnknown
<1>7. a.outcome = "SUCCEEDED" => order[j].strategy = "MARK_ABANDONED" /\ execReceipt[order[j].about] = "OUTCOME_UNKNOWN"
  BY <1>5, AnswersAreRows DEF Dispose
<1>8. a.outcome = "SUCCEEDED" => Delivered(j)'
  BY <1>1, <1>2, <1>7 DEF Delivered
<1> QED BY <1>1, <1>3, <1>4, <1>6, <1>8, JobAnswers

\* The queue records an answer, or loses the executor that had one.
LEMMA SettleStep ==
    ASSUME ExecutorInv, NEW j \in ExecJobs, SettleJob(j) \/ LeaseLapses(j)
    PROVE  ExecutorInv'
<1>1. execState[j] = "RUNNING" /\ UNCHANGED <<order, deployed, answer, done, asked>> /\ JobFits(j)
  BY DEF SettleJob, LeaseLapses, ExecutorInv
<1>2. PICK o \in {"SUCCEEDED", "FAILED", "OUTCOME_UNKNOWN"}, r \in {"DECIDED", "OUTCOME_UNKNOWN"} :
         /\ execState' = [execState EXCEPT ![j] = o] /\ execReceipt' = [execReceipt EXCEPT ![j] = r]
         /\ (o \in {"SUCCEEDED", "FAILED"}) = (r = "DECIDED")
         /\ o # "OUTCOME_UNKNOWN" => answer[j] # NoOutcome /\ answer[j].outcome = o
  <2>1. CASE LeaseLapses(j)
    BY <2>1 DEF LeaseLapses
  <2>2. CASE SettleJob(j)
    <3>1. answer[j] \in AnswerRow /\ answer[j] # NoOutcome /\ TypedExecution(Type(j), answer[j])
      BY <2>2 DEF SettleJob, ExecutorInv, RowsOK
    <3>2. PICK o \in {"SUCCEEDED", "FAILED", "OUTCOME_UNKNOWN"}, d \in {"accepted", "rejected", NoOutcome} :
             o = answer[j].outcome /\ d = answer[j].decision
      BY <3>1 DEF AnswerRow
    <3>3. (o \in {"SUCCEEDED", "FAILED"}) = (d # NoOutcome)
      BY <3>1, <3>2, ExecutorInputs DEF TypedExecution
    <3>4. /\ execState' = [execState EXCEPT ![j] = o]
          /\ execReceipt' = [execReceipt EXCEPT ![j] = IF d = NoOutcome THEN "OUTCOME_UNKNOWN" ELSE "DECIDED"]
      BY <2>2, <3>2 DEF SettleJob
    <3> QED BY <3>1, <3>2, <3>3, <3>4
  <2> QED BY <2>1, <2>2
<1>3. /\ RowsOK' /\ execState'[j] = o /\ execReceipt'[j] = r
      /\ \A k \in ExecJobs \ {j} : execState'[k] = execState[k] /\ execReceipt'[k] = execReceipt[k]
  BY <1>1, <1>2 DEF ExecutorInv, RowsOK
<1>4. \A k \in ExecJobs : EffectsOf(k)' = EffectsOf(k)
  BY <1>1, NoEffect
<1>5. execReceipt[j] = "PENDING"
  BY <1>1 DEF JobFits
<1>6. Type(j)' = Type(j) /\ order'[j] = order[j] /\ EffectsOf(j)' = EffectsOf(j)
  BY <1>1, <1>4 DEF Type
<1>7. Delivered(j) => Delivered(j)'
  <2>1. \A k \in ExecJobs : execReceipt[k] = "OUTCOME_UNKNOWN" => execReceipt'[k] = "OUTCOME_UNKNOWN"
    BY <1>3, <1>5
  <2>2. Type(j) = "RETRY_UNKNOWN_OUTCOME" => order[j].about \in ExecJobs
    BY ExecutorInputs DEF ExecutorInv, RowsOK, Type
  <2> QED BY <1>6, <2>1, <2>2 DEF Delivered
<1>8. LeftNothing(j)' = LeftNothing(j)
  BY <1>6 DEF LeftNothing
<1>9. JobFits(j)'
  BY <1>1, <1>2, <1>3, <1>7, <1>8 DEF JobFits
<1> QED BY <1>1, <1>3, <1>4, <1>5, <1>9, OneJobMoves

\* A job that succeeded left what its answer names, one that failed left nothing but snapshots
\* of profiles asked before, and an outcome is given up only while it is unknown
\* (production_executors.py, durable_executors.py _assert_typed_execution).
THEOREM OutcomesAlwaysMatchEffects == ExecutorSpec => []OutcomesMatchEffects
<1>1. ExecutorInit => ExecutorInv
  BY DEF ExecutorInit, ExecutorInv, RowsOK, JobFits, EffectsOf
<1>2. ExecutorInv /\ [ExecutorNext]_executorVars => ExecutorInv'
  <2> SUFFICES ASSUME ExecutorInv, [ExecutorNext]_executorVars PROVE ExecutorInv'
    OBVIOUS
  <2>1. CASE UNCHANGED executorVars
    BY <2>1 DEF executorVars, ExecutorInv, RowsOK, JobFits, EffectsOf, Delivered, LeftNothing, Underway, Type
  <2>2. CASE ExecutorNext
    BY <2>2, ClaimJobStep, RunUndeployedStep, RunLifecycleStep, RunServiceStep, RunOutputStep, AskConnectorStep,
       QueryAnsweredStep, RunRetryUnknownStep, SettleStep DEF ExecutorNext
  <2> QED BY <2>1, <2>2
<1>3. ExecutorInv => OutcomesMatchEffects
  <2> SUFFICES ASSUME ExecutorInv PROVE OutcomesMatchEffects
    OBVIOUS
  <2>1. ExecutorTypeOK
    BY ExecutorInputs DEF ExecutorInv, RowsOK, ExecutorTypeOK, Type
  <2>2. ASSUME NEW j \in ExecJobs
        PROVE  /\ execState[j] = "SUCCEEDED" => Delivered(j)
               /\ execState[j] = "FAILED" => LeftNothing(j)
               /\ (execState[j] \in {"SUCCEEDED", "FAILED"}) = (execReceipt[j] = "DECIDED")
    BY DEF ExecutorInv, JobFits
  <2> QED BY <2>1, <2>2 DEF OutcomesMatchEffects, Delivered, LeftNothing
<1> QED BY <1>1, <1>2, <1>3, PTL DEF ExecutorSpec

-----------------------------------------------------------------------------
(* Papers *)

\* A set of naturals that is not empty has a least member.
LEMMA LeastNatural ==
    ASSUME NEW T, T \subseteq Nat, T # {}
    PROVE  \E x \in T : \A y \in T : x <= y
<1> DEFINE R == {ss \in Nat \X Nat : ss[1] < ss[2]}
<1>1. R = OpToRel(<, Nat)
  BY DEF OpToRel
<1>2. IsWellFoundedOn(R, Nat)
  BY <1>1, NatLessThanWellFounded
<1>3. \E x \in T : \A y \in T : ~(<<y, x>> \in R)
  <2> HIDE DEF R
  <2> QED BY <1>2, WFMin
<1>4. \A x, y \in T : (~(<<y, x>> \in R)) => x <= y
  OBVIOUS
<1> HIDE DEF R
<1> QED BY <1>3, <1>4

\* A bounded set of naturals that is not empty has a greatest member.
LEMMA GreatestNatural ==
    ASSUME NEW n \in Nat, NEW S, S \subseteq 0 .. n, S # {}
    PROVE  \E x \in S : \A y \in S : y <= x
<1> DEFINE T == {m \in 0 .. n : n - m \in S}
<1>1. T \subseteq Nat /\ T # {}
  <2>1. PICK x \in S : TRUE
    OBVIOUS
  <2>2. x \in 0 .. n /\ n - x \in 0 .. n /\ n - (n - x) = x
    OBVIOUS
  <2>3. PICK m \in 0 .. n : m = n - x /\ n - m = x
    BY <2>2
  <2>4. m \in T
    BY <2>1, <2>3
  <2>5. \A j \in T : j \in Nat
    OBVIOUS
  <2> HIDE DEF T
  <2> QED BY <2>4, <2>5
<1>2. PICK m \in T : \A y \in T : m <= y
  <2> HIDE DEF T
  <2> QED BY <1>1, LeastNatural
<1>3. n - m \in S /\ m \in 0 .. n
  OBVIOUS
<1>4. ASSUME NEW y \in S PROVE y <= n - m
  <2>1. y \in 0 .. n /\ n - y \in 0 .. n /\ n - (n - y) = y
    OBVIOUS
  <2>2. m <= n - y
    BY <1>2, <2>1
  <2> QED BY <1>3, <2>1, <2>2
<1> QED BY <1>3, <1>4

ImportRow == [pc : {"idle", "record", "kernel"}, review : SignedReviews \cup {NoPaper},
              via : {"none", "route", "command"}]
PublicationRow == [review : ReviewRow, pdf : Texts]

\* The task of a review is closed by that review, which no author signed.
Settled(s) ==
    /\ reviewTasks[s.text] # NoPaper /\ reviewTasks[s.text].status = "SUBMITTED"
    /\ reviewTasks[s.text].signed = s /\ s.signer \notin reviewTasks[s.text].authors

PaperTyped == PaperTypeOK /\ importing \in [PaperReviewers -> ImportRow] /\ publications \in Seq(PublicationRow)

\* Texts exist once the run was finalized with an outcome that its root supports.
Chained ==
    /\ finalization # NoPaper => FinalizationMutation(finalization.root, finalization.outcome)
    /\ renders \cup candidates # {} => AssertChain

\* A task is about a rendered candidate and assigned to somebody who did not write it.
TaskFits(t) ==
    reviewTasks[t] # NoPaper => t \in renders \cap candidates /\ reviewTasks[t].assignee \notin reviewTasks[t].authors

\* What a half-finished import has read still holds of the authors.
ImportFits(m) ==
    m.pc # "idle" =>
       /\ m.review \in SignedReviews /\ reviewTasks[m.review.text] # NoPaper
       /\ m.review.signer \notin reviewTasks[m.review.text].authors
       /\ m.pc = "kernel" => Settled(m.review)

ReviewFits(v) == Settled(v.signed) /\ v.reviewer \notin reviewTasks[v.signed.text].authors

Published == \A i \in DOMAIN publications : /\ publications[i].review \in paperReviews
                                            /\ publications[i].review.signed.verdict = "ACCEPT"

PaperInv ==
    /\ PaperTyped /\ Chained /\ Published
    /\ \A t \in Texts : TaskFits(t)
    /\ \A r \in PaperReviewers : ImportFits(importing[r])
    /\ \A v \in paperReviews : ReviewFits(v)

\* The authors of a task do not change, and a task that has its review is closed.
TasksGrow ==
    \A t \in Texts : reviewTasks[t] # NoPaper =>
       /\ reviewTasks'[t] # NoPaper /\ reviewTasks'[t].authors = reviewTasks[t].authors
       /\ reviewTasks[t].status = "SUBMITTED" => /\ reviewTasks'[t].status = "SUBMITTED"
                                                 /\ reviewTasks'[t].signed = reviewTasks[t].signed

\* What is settled stays settled.
LEMMA SettledStays ==
    ASSUME TasksGrow, NEW s \in SignedReviews
    PROVE  Settled(s) => Settled(s)'
<1>1. s.text \in Texts
  BY ReviewsAreSigned
<1> QED BY <1>1 DEF TasksGrow, Settled

\* An import row that fits keeps fitting.
LEMMA ImportStays ==
    ASSUME TasksGrow, NEW m, ImportFits(m)
    PROVE  ImportFits(m)'
<1> SUFFICES ASSUME m.pc # "idle" PROVE ImportFits(m)'
  BY DEF ImportFits
<1>1. PICK s \in SignedReviews : /\ s = m.review /\ reviewTasks[s.text] # NoPaper
                                 /\ s.signer \notin reviewTasks[s.text].authors
                                 /\ m.pc = "kernel" => Settled(s)
  BY DEF ImportFits
<1>2. s.text \in Texts
  BY ReviewsAreSigned
<1>3. reviewTasks'[s.text] # NoPaper /\ s.signer \notin reviewTasks'[s.text].authors
  BY <1>1, <1>2 DEF TasksGrow
<1>4. m.pc = "kernel" => Settled(s)'
  BY <1>1, SettledStays
<1> QED BY <1>1, <1>3, <1>4 DEF ImportFits, Settled

\* A review that fits keeps fitting.
LEMMA ReviewStays ==
    ASSUME TasksGrow, NEW v \in ReviewRow, ReviewFits(v)
    PROVE  ReviewFits(v)'
<1>1. v.signed \in SignedReviews /\ v.signed.text \in Texts
  BY ReviewsAreSigned DEF ReviewRow
<1>2. Settled(v.signed)'
  BY <1>1, SettledStays DEF ReviewFits
<1>3. v.reviewer \notin reviewTasks'[v.signed.text].authors
  BY <1>1 DEF ReviewFits, Settled, TasksGrow
<1> QED BY <1>2, <1>3 DEF ReviewFits

\* No task is written: every row keeps fitting.
LEMMA NoTaskWritten ==
    ASSUME PaperInv, UNCHANGED <<reviewTasks, importing, paperReviews>>, renders \subseteq renders',
           candidates \subseteq candidates'
    PROVE  /\ \A t \in Texts : TaskFits(t)'
           /\ \A r \in PaperReviewers : ImportFits(importing[r])'
           /\ \A v \in paperReviews' : ReviewFits(v)'
<1>1. ASSUME NEW t \in Texts PROVE TaskFits(t)'
  BY DEF PaperInv, TaskFits
<1>2. ASSUME NEW r \in PaperReviewers PROVE ImportFits(importing[r])'
  BY DEF PaperInv, ImportFits, Settled
<1>3. ASSUME NEW v \in paperReviews' PROVE ReviewFits(v)'
  BY DEF PaperInv, ReviewFits, Settled
<1> QED BY <1>1, <1>2, <1>3

\* Finalization, rendering, candidates, expiry dates, reviewers and compilations write no task.
LEMMA OutsideTheTasks ==
    ASSUME PaperInv,
           \/ \E root \in RootEvidence, o \in Outcomes : ApplyFinalization(root, o)
           \/ \E t \in Texts : RenderCandidate(t) \/ ApplyCandidate(t) \/ TaskOverdue(t)
           \/ \E r \in PaperReviewers : DisableReviewer(r)
           \/ \E review \in paperReviews : \/ \E ok \in BOOLEAN : CompileReviewed(review, ok)
                                           \/ \E pdf \in Texts : ApplyCompilation(review, pdf)
    PROVE  PaperInv'
<1>1. /\ UNCHANGED <<reviewTasks, importing, paperReviews>> /\ renders \subseteq renders'
      /\ candidates \subseteq candidates'
  BY DEF ApplyFinalization, RenderCandidate, ApplyCandidate, TaskOverdue, DisableReviewer, CompileReviewed,
         ApplyCompilation
<1>2. /\ \A t \in Texts : TaskFits(t)'
      /\ \A r \in PaperReviewers : ImportFits(importing[r])'
      /\ \A v \in paperReviews' : ReviewFits(v)'
  BY <1>1, NoTaskWritten
<1>3. ASSUME NEW root \in RootEvidence, NEW o \in Outcomes, ApplyFinalization(root, o)
      PROVE  PaperTyped' /\ Chained' /\ Published'
  <2>1. PICK f : f = [outcome |-> o, root |-> root]
    OBVIOUS
  <2>2. /\ f \in [outcome : Outcomes, root : Evidence] /\ f.root = root /\ f.outcome = o
        /\ finalization' = f /\ finalization = NoPaper /\ FinalizationMutation(root, o)
        /\ UNCHANGED <<renders, candidates, reviewTasks, overdue, importing, paperReviews, publications>>
    BY <1>3, <2>1, PaperInputs DEF ApplyFinalization, Finalize
  <2>3. renders \cup candidates = {}
    BY <2>2 DEF PaperInv, Chained, AssertChain
  <2> QED BY <2>2, <2>3 DEF PaperInv, PaperTyped, PaperTypeOK, Chained, Published
<1>4. ASSUME NEW t \in Texts, RenderCandidate(t) \/ ApplyCandidate(t) \/ TaskOverdue(t)
      PROVE  PaperTyped' /\ Chained' /\ Published'
  <2>1. /\ UNCHANGED <<finalization, reviewTasks, importing, paperReviews, publications>>
        /\ renders' \subseteq Texts /\ candidates' \subseteq Texts /\ overdue' \subseteq Texts
        /\ AssertChain \/ UNCHANGED <<renders, candidates>>
    BY <1>4 DEF RenderCandidate, ApplyCandidate, GenerateCandidateTex, TaskOverdue, PaperInv, PaperTyped, PaperTypeOK
  <2> QED BY <2>1 DEF PaperInv, PaperTyped, PaperTypeOK, Chained, Published, AssertChain
<1>5. ASSUME NEW r \in PaperReviewers, DisableReviewer(r) PROVE PaperTyped' /\ Chained' /\ Published'
  BY <1>5 DEF DisableReviewer, PaperInv, PaperTyped, PaperTypeOK, Chained, Published, AssertChain
<1>6. ASSUME NEW review \in paperReviews, NEW ok \in BOOLEAN, CompileReviewed(review, ok)
      PROVE  PaperTyped' /\ Chained' /\ Published'
  BY <1>6 DEF CompileReviewed, PaperInv, PaperTyped, PaperTypeOK, Chained, Published, AssertChain
<1>7. ASSUME NEW review \in paperReviews, NEW pdf \in Texts, ApplyCompilation(review, pdf)
      PROVE  PaperTyped' /\ Chained' /\ Published'
  <2>1. PICK p : p = [review |-> review, pdf |-> pdf]
    OBVIOUS
  <2>2. p \in PublicationRow /\ p.review = review /\ review.signed.verdict = "ACCEPT" /\ publications \in Seq(PublicationRow)
    BY <1>7, <2>1 DEF PaperInv, PaperTyped, PaperTypeOK, PublicationRow, ApplyCompilation, CompileReviewedPaper
  <2>3. /\ publications' = Append(publications, p)
        /\ UNCHANGED <<finalization, renders, candidates, reviewTasks, overdue, importing, paperReviews>>
    BY <1>7, <2>1 DEF ApplyCompilation
  <2>4. /\ publications' \in Seq(PublicationRow) /\ Len(publications') = Len(publications) + 1
        /\ publications'[Len(publications) + 1] = p
        /\ \A i \in 1 .. Len(publications) : publications'[i] = publications[i]
    BY <2>2, <2>3, AppendProperties
  <2>5. Published'
    <3> SUFFICES ASSUME NEW i \in DOMAIN publications'
                 PROVE  publications'[i].review \in paperReviews' /\ publications'[i].review.signed.verdict = "ACCEPT"
      BY DEF Published
    <3>1. Len(publications) \in Nat /\ i \in 1 .. Len(publications) + 1
      BY <2>2, <2>4, LenProperties
    <3>2. CASE i = Len(publications) + 1
      BY <2>2, <2>3, <2>4, <3>2
    <3>3. CASE i # Len(publications) + 1
      <4>1. i \in 1 .. Len(publications)
        BY <3>1, <3>3
      <4>2. i \in DOMAIN publications
        BY <2>2, <4>1, LenProperties
      <4> QED BY <2>3, <2>4, <4>1, <4>2 DEF PaperInv, Published
    <3> QED BY <3>2, <3>3
  <2>6. PaperTyped' /\ Chained'
    BY <2>3, <2>4 DEF PaperInv, PaperTyped, PaperTypeOK, Chained, AssertChain
  <2> QED BY <2>5, <2>6
<1>8. PaperTyped' /\ Chained' /\ Published'
  BY <1>3, <1>4, <1>5, <1>6, <1>7
<1> QED BY <1>2, <1>8 DEF PaperInv

\* One task is written.
LEMMA TaskWritten ==
    ASSUME PaperInv, NEW t \in Texts, NEW w \in TaskRow, reviewTasks' = [reviewTasks EXCEPT ![t] = w],
           UNCHANGED <<finalization, renders, candidates, paperReviews, publications>>, overdue' \subseteq Texts,
           t \in renders \cap candidates, w.assignee \notin w.authors,
           reviewTasks[t] # NoPaper =>
              /\ w.authors = reviewTasks[t].authors
              /\ reviewTasks[t].status = "SUBMITTED" => w.status = "SUBMITTED" /\ w.signed = reviewTasks[t].signed
    PROVE  /\ TasksGrow /\ PaperTypeOK' /\ publications' \in Seq(PublicationRow) /\ Chained' /\ Published'
           /\ \A k \in Texts : TaskFits(k)'
           /\ \A v \in paperReviews' : ReviewFits(v)'
           /\ reviewTasks'[t] = w /\ w # NoPaper
<1>1. /\ reviewTasks \in [Texts -> TaskRow \cup {NoPaper}] /\ w # NoPaper
  BY PaperInputs DEF PaperInv, PaperTyped, PaperTypeOK
<1>2. reviewTasks'[t] = w /\ \A k \in Texts \ {t} : reviewTasks'[k] = reviewTasks[k]
  BY <1>1
<1>3. TasksGrow
  BY <1>1, <1>2 DEF TasksGrow
<1>4. PaperTypeOK' /\ publications' \in Seq(PublicationRow)
  BY <1>1 DEF PaperInv, PaperTyped, PaperTypeOK
<1>5. Chained' /\ Published'
  BY DEF PaperInv, Chained, AssertChain, Published
<1>6. ASSUME NEW k \in Texts PROVE TaskFits(k)'
  <2>1. CASE k = t
    BY <1>2, <2>1 DEF TaskFits
  <2>2. CASE k # t
    <3>1. reviewTasks'[k] = reviewTasks[k]
      BY <1>2, <2>2
    <3> QED BY <3>1 DEF TaskFits, PaperInv
  <2> QED BY <2>1, <2>2
<1>7. ASSUME NEW v \in paperReviews' PROVE ReviewFits(v)'
  BY <1>3, ReviewStays DEF PaperInv, PaperTyped, PaperTypeOK
<1> QED BY <1>1, <1>2, <1>3, <1>4, <1>5, <1>6, <1>7

\* A task is created, claimed or given to another reviewer.
LEMMA TaskStep ==
    ASSUME PaperInv, NEW t \in Texts, NEW r \in PaperReviewers,
           \/ ClaimReviewTask(t, r) \/ ReassignReviewTask(t, r)
           \/ \E a \in AuthorLists : CreatePaperReviewTask(t, r, a)
    PROVE  PaperInv'
<1>1. /\ UNCHANGED <<finalization, renders, candidates, paperReviews, publications, importing>>
      /\ overdue' \subseteq Texts
  BY DEF ClaimReviewTask, ReassignReviewTask, CreatePaperReviewTask, PaperInv, PaperTyped, PaperTypeOK
<1>2. PICK w \in TaskRow :
         /\ reviewTasks' = [reviewTasks EXCEPT ![t] = w]
         /\ t \in renders \cap candidates /\ w.assignee \notin w.authors
         /\ reviewTasks[t] # NoPaper =>
               /\ w.authors = reviewTasks[t].authors
               /\ reviewTasks[t].status = "SUBMITTED" => w.status = "SUBMITTED" /\ w.signed = reviewTasks[t].signed
  <2>1. ASSUME NEW a \in AuthorLists, CreatePaperReviewTask(t, r, a)
        PROVE  \E w \in TaskRow : /\ reviewTasks' = [reviewTasks EXCEPT ![t] = w]
                                  /\ t \in renders \cap candidates /\ w.assignee \notin w.authors
                                  /\ reviewTasks[t] = NoPaper
    <3>1. PICK w : w = [assignee |-> r, authors |-> a, status |-> "OPEN", signed |-> NoPaper]
      OBVIOUS
    <3>2. w \in TaskRow /\ w.assignee = r /\ w.authors = a
      BY <3>1 DEF TaskRow
    <3> QED BY <2>1, <3>1, <3>2 DEF CreatePaperReviewTask, CreateTask, RenderForCandidate, Independent
  <2>2. CASE ClaimReviewTask(t, r) \/ ReassignReviewTask(t, r)
    <3>1. PICK v \in TaskRow : v = reviewTasks[t] /\ v # NoPaper
      BY <2>2 DEF ClaimReviewTask, ReassignReviewTask, PaperInv, PaperTyped, PaperTypeOK
    <3>2. t \in renders \cap candidates
      BY <3>1 DEF PaperInv, TaskFits
    <3>3. CASE ClaimReviewTask(t, r)
      <4>1. PICK x \in {"EXPIRED", "CLAIMED"} : x = IF t \in overdue THEN "EXPIRED" ELSE "CLAIMED"
        OBVIOUS
      <4>2. PICK w : w = [v EXCEPT !.status = x]
        OBVIOUS
      <4>3. w \in TaskRow /\ w.assignee = v.assignee /\ w.authors = v.authors
        BY <3>1, <4>2 DEF TaskRow
      <4>4. reviewTasks' = [reviewTasks EXCEPT ![t] = w] /\ v.status # "SUBMITTED" /\ v.assignee = r /\ r \notin v.authors
        BY <3>1, <3>3, <4>1, <4>2 DEF ClaimReviewTask, Claimable, Independent
      <4> QED BY <3>1, <3>2, <4>3, <4>4
    <3>4. CASE ReassignReviewTask(t, r)
      <4>1. PICK w : w = [[v EXCEPT !.assignee = r] EXCEPT !.status = "REASSIGNED"]
        OBVIOUS
      <4>2. w \in TaskRow /\ w.assignee = r /\ w.authors = v.authors
        BY <3>1, <4>1 DEF TaskRow
      <4>3. reviewTasks' = [reviewTasks EXCEPT ![t] = w] /\ v.status # "SUBMITTED" /\ r \notin v.authors
        BY <3>1, <3>4, <4>1 DEF ReassignReviewTask, Independent, PaperInv, PaperTyped, PaperTypeOK
      <4> QED BY <3>1, <3>2, <4>2, <4>3
    <3> QED BY <2>2, <3>3, <3>4
  <2> QED BY <2>1, <2>2
<1>3. /\ TasksGrow /\ PaperTypeOK' /\ publications' \in Seq(PublicationRow) /\ Chained' /\ Published'
      /\ \A k \in Texts : TaskFits(k)'
      /\ \A v \in paperReviews' : ReviewFits(v)'
  BY <1>1, <1>2, TaskWritten
<1>4. PaperTyped'
  BY <1>1, <1>3 DEF PaperInv, PaperTyped
<1>5. ASSUME NEW q \in PaperReviewers PROVE ImportFits(importing[q])'
  <2>1. ImportFits(importing[q]) /\ importing'[q] = importing[q] /\ TasksGrow
    BY <1>1, <1>3 DEF PaperInv
  <2>2. PICK m : m = importing[q] /\ m = importing'[q] /\ ImportFits(m)
    BY <2>1
  <2>3. ImportFits(m)'
    BY <2>1, <2>2, ImportStays
  <2> QED BY <2>2, <2>3 DEF ImportFits
<1> QED BY <1>3, <1>4, <1>5 DEF PaperInv

\* The row of one import changes.
LEMMA ImportMoves ==
    ASSUME PaperInv, TasksGrow, NEW r \in PaperReviewers, NEW m \in ImportRow,
           importing' = [importing EXCEPT ![r] = m], ImportFits(m)'
    PROVE  importing' \in [PaperReviewers -> ImportRow] /\ \A q \in PaperReviewers : ImportFits(importing[q])'
<1>1. importing \in [PaperReviewers -> ImportRow]
  BY DEF PaperInv, PaperTyped
<1>2. importing'[r] = m /\ \A q \in PaperReviewers \ {r} : importing'[q] = importing[q]
  BY <1>1
<1>3. ASSUME NEW q \in PaperReviewers PROVE ImportFits(importing[q])'
  <2>1. CASE q = r
    BY <1>2, <2>1 DEF ImportFits
  <2>2. CASE q # r
    <3>1. PICK n : n = importing[q] /\ n = importing'[q] /\ ImportFits(n)
      BY <1>2, <2>2 DEF PaperInv
    <3>2. ImportFits(n)'
      BY <3>1, ImportStays
    <3> QED BY <3>1, <3>2 DEF ImportFits
  <2> QED BY <2>1, <2>2
<1> QED BY <1>1, <1>3

\* Only an import changes.
LEMMA OnlyImportMoves ==
    ASSUME PaperInv, NEW r \in PaperReviewers, NEW m \in ImportRow, importing' = [importing EXCEPT ![r] = m],
           ImportFits(m), UNCHANGED <<finalization, renders, candidates, reviewTasks, overdue, paperReviews, publications>>
    PROVE  PaperInv'
<1>1. TasksGrow /\ ImportFits(m)'
  BY DEF TasksGrow, ImportFits, Settled
<1>2. importing' \in [PaperReviewers -> ImportRow] /\ \A q \in PaperReviewers : ImportFits(importing[q])'
  BY <1>1, ImportMoves
<1>3. PaperTyped' /\ Chained' /\ Published'
  BY <1>2 DEF PaperInv, PaperTyped, PaperTypeOK, Chained, AssertChain, Published
<1>4. ASSUME NEW t \in Texts PROVE TaskFits(t)'
  BY DEF PaperInv, TaskFits
<1>5. ASSUME NEW v \in paperReviews' PROVE ReviewFits(v)'
  BY DEF PaperInv, ReviewFits, Settled
<1> QED BY <1>2, <1>3, <1>4, <1>5 DEF PaperInv

\* A reviewer who imports nothing fits, before a step and after it.
LEMMA NotImportingFits == NotImporting \in ImportRow /\ ImportFits(NotImporting) /\ ImportFits(NotImporting)'
BY DEF NotImporting, ImportRow, ImportFits

\* A review is handed in by a command or at the route, or its import dies.
LEMMA ImportStep ==
    ASSUME PaperInv, NEW r \in PaperReviewers,
           \/ ImportDies(r)
           \/ \E s \in SignedReviews : ImportReview(r, s, "command") \/ SubmitAtRoute(r, s)
    PROVE  PaperInv'
<1>1. CASE ImportDies(r)
  BY <1>1, NotImportingFits, OnlyImportMoves DEF ImportDies
<1>2. ASSUME NEW s \in SignedReviews, NEW via \in {"command", "route"}, ImportReview(r, s, via) PROVE PaperInv'
  <2>1. PICK m : m = [pc |-> "record", review |-> s, via |-> via]
    OBVIOUS
  <2>2. m \in ImportRow /\ m.pc = "record" /\ m.review = s
    BY <2>1 DEF ImportRow
  <2>3. ImportFits(m)
    BY <1>2, <2>2 DEF ImportReview, VerifyTaskBinding, ImportFits
  <2> QED BY <1>2, <2>1, <2>2, <2>3, OnlyImportMoves DEF ImportReview
<1> QED BY <1>1, <1>2 DEF SubmitAtRoute

\* The verified review is recorded as the answer to its task.
LEMMA RecordVerifiedArtifactStep ==
    ASSUME PaperInv, NEW r \in PaperReviewers, RecordVerifiedArtifact(r)
    PROVE  PaperInv'
<1>1. PICK m \in ImportRow : m = importing[r] /\ ImportFits(m) /\ m.pc = "record"
  BY DEF PaperInv, PaperTyped, RecordVerifiedArtifact
<1>2. PICK s \in SignedReviews : /\ s = m.review /\ reviewTasks[s.text] # NoPaper
                                 /\ s.signer \notin reviewTasks[s.text].authors
  BY <1>1 DEF ImportFits
<1>3. PICK t \in Texts : t = s.text
  BY ReviewsAreSigned
<1>4. PICK v \in TaskRow : v = reviewTasks[t] /\ v # NoPaper /\ t \in renders \cap candidates /\ v.assignee \notin v.authors
  BY <1>2, <1>3 DEF PaperInv, PaperTyped, PaperTypeOK, TaskFits
<1>5. UNCHANGED <<finalization, renders, candidates, overdue, paperReviews, publications>>
  BY DEF RecordVerifiedArtifact
<1>6. PICK n \in ImportRow : n = AfterRecord(r) /\ (n.pc = "idle" \/ (n.pc = "kernel" /\ n.review = s))
  <2>1. PICK k : k = [m EXCEPT !.pc = "kernel"]
    OBVIOUS
  <2>2. k \in ImportRow /\ k.pc = "kernel" /\ k.review = s
    BY <1>1, <1>2, <2>1 DEF ImportRow
  <2> QED BY <1>1, <2>1, <2>2, NotImportingFits DEF AfterRecord, NotImporting
<1>7. CASE v.status = "SUBMITTED" /\ v.signed = s /\ importing' = [importing EXCEPT ![r] = AfterRecord(r)] /\ UNCHANGED reviewTasks
  <2>1. ImportFits(n)
    BY <1>2, <1>3, <1>4, <1>6, <1>7 DEF ImportFits, Settled
  <2> QED BY <1>5, <1>6, <1>7, <2>1, OnlyImportMoves
<1>8. CASE /\ v.status = "CLAIMED"
           /\ reviewTasks' = [reviewTasks EXCEPT ![s.text].status = "SUBMITTED", ![s.text].signed = s]
           /\ importing' = [importing EXCEPT ![r] = AfterRecord(r)]
  <2>1. PICK w : w = [[v EXCEPT !.status = "SUBMITTED"] EXCEPT !.signed = s]
    OBVIOUS
  <2>2. /\ w \in TaskRow /\ w.assignee = v.assignee /\ w.authors = v.authors
        /\ w.status = "SUBMITTED" /\ w.signed = s
    BY <1>4, <2>1 DEF TaskRow
  <2>3. reviewTasks' = [reviewTasks EXCEPT ![t] = w]
    BY <1>3, <1>4, <1>8, <2>1 DEF PaperInv, PaperTyped, PaperTypeOK
  <2>4. overdue' \subseteq Texts /\ w.assignee \notin w.authors
    BY <1>4, <1>5, <2>2 DEF PaperInv, PaperTyped, PaperTypeOK
  <2>5. /\ TasksGrow /\ PaperTypeOK' /\ publications' \in Seq(PublicationRow) /\ Chained' /\ Published'
        /\ \A k \in Texts : TaskFits(k)'
        /\ \A x \in paperReviews' : ReviewFits(x)'
        /\ reviewTasks'[t] = w /\ w # NoPaper
    BY <1>4, <1>5, <1>8, <2>2, <2>3, <2>4, TaskWritten
  <2>6. ImportFits(n)'
    BY <1>2, <1>3, <1>4, <1>6, <2>2, <2>5 DEF ImportFits, Settled
  <2>7. importing' \in [PaperReviewers -> ImportRow] /\ \A q \in PaperReviewers : ImportFits(importing[q])'
    BY <1>6, <1>8, <2>5, <2>6, ImportMoves
  <2>8. PaperTyped'
    BY <2>5, <2>7 DEF PaperTyped
  <2> QED BY <2>5, <2>7, <2>8 DEF PaperInv
<1>9. CASE importing' = [importing EXCEPT ![r] = NotImporting] /\ UNCHANGED reviewTasks
  BY <1>5, <1>9, NotImportingFits, OnlyImportMoves
<1> QED BY <1>1, <1>2, <1>3, <1>4, <1>7, <1>8, <1>9 DEF RecordVerifiedArtifact

\* The recorded review is applied: it joins the reviews a publication may rest on.
LEMMA ApplyReviewStep == ASSUME PaperInv, NEW r \in PaperReviewers, ApplyReview(r) PROVE PaperInv'
<1>1. PICK m \in ImportRow : m = importing[r] /\ ImportFits(m) /\ m.pc = "kernel"
  BY DEF PaperInv, PaperTyped, ApplyReview
<1>2. PICK s \in SignedReviews : s = m.review /\ Settled(s)
  BY <1>1 DEF ImportFits
<1>3. UNCHANGED <<finalization, renders, candidates, reviewTasks, overdue, publications>>
  BY DEF ApplyReview
<1>4. PICK x : x = [signed |-> s, reviewer |-> r]
  OBVIOUS
<1>5. x \in ReviewRow /\ x.signed = s /\ x.reviewer = r
  BY <1>4 DEF ReviewRow
<1>6. paperReviews' \subseteq paperReviews \cup {x} /\ paperReviews \subseteq paperReviews'
  BY <1>1, <1>2, <1>4 DEF ApplyReview
<1>7. x \in paperReviews' => x \in paperReviews \/ reviewTasks[s.text].assignee = r
  BY <1>1, <1>2, <1>4 DEF ApplyReview, SubmitPaperReview
<1>8. x \in paperReviews' => ReviewFits(x)
  <2>1. s.text \in Texts
    BY ReviewsAreSigned
  <2>2. reviewTasks[s.text].assignee \notin reviewTasks[s.text].authors
    BY <1>2, <2>1 DEF PaperInv, TaskFits, Settled
  <2> QED BY <1>2, <1>5, <1>7, <2>2 DEF ReviewFits, PaperInv
<1>9. ASSUME NEW v \in paperReviews' PROVE ReviewFits(v)'
  <2>1. ReviewFits(v)
    BY <1>6, <1>8 DEF PaperInv
  <2> QED BY <1>3, <2>1 DEF ReviewFits, Settled
<1>10. TasksGrow
  BY <1>3 DEF TasksGrow
<1>11. importing' \in [PaperReviewers -> ImportRow] /\ \A q \in PaperReviewers : ImportFits(importing[q])'
  <2>1. importing' = [importing EXCEPT ![r] = NotImporting]
    BY DEF ApplyReview
  <2> QED BY <1>10, <2>1, NotImportingFits, ImportMoves
<1>12. PaperTyped'
  <2>1. paperReviews' \subseteq ReviewRow
    BY <1>5, <1>6 DEF PaperInv, PaperTyped, PaperTypeOK
  <2> QED BY <1>3, <1>11, <2>1 DEF PaperInv, PaperTyped, PaperTypeOK
<1>13. Chained' /\ Published'
  BY <1>3, <1>6 DEF PaperInv, Chained, AssertChain, Published
<1>14. ASSUME NEW t \in Texts PROVE TaskFits(t)'
  BY <1>3 DEF PaperInv, TaskFits
<1> QED BY <1>9, <1>11, <1>12, <1>13, <1>14 DEF PaperInv

\* Nothing is finalized, reviewed or published.
LEMMA PaperInitially == PaperInit => PaperInv
<1> SUFFICES ASSUME PaperInit PROVE PaperInv
  OBVIOUS
<1>1. publications \in Seq(PublicationRow) /\ DOMAIN publications = {}
  BY DEF PaperInit
<1>2. PaperTyped /\ Chained /\ Published
  BY <1>1, NotImportingFits DEF PaperInit, PaperTyped, PaperTypeOK, Chained, Published
<1> QED BY <1>2, NotImportingFits DEF PaperInit, PaperInv, TaskFits

\* Every step of the finalization, the reviewers, the imports and the compiler.
LEMMA PaperInductive == PaperInv /\ [PaperNext]_paperVars => PaperInv'
<1> SUFFICES ASSUME PaperInv, [PaperNext]_paperVars PROVE PaperInv'
  OBVIOUS
<1>1. CASE UNCHANGED paperVars
  BY <1>1 DEF paperVars, PaperInv, PaperTyped, PaperTypeOK, Chained, AssertChain, Published, TaskFits, ImportFits,
              ReviewFits, Settled
<1>2. CASE PaperNext
  BY <1>2, OutsideTheTasks, TaskStep, ImportStep, RecordVerifiedArtifactStep, ApplyReviewStep DEF PaperNext
<1> QED BY <1>1, <1>2

\* The invariant says what the home page shows.
LEMMA ShownFits == PaperInv => ShownPaperIsReviewed
<1> SUFFICES ASSUME PaperInv, Homepage # NoPaper
             PROVE  LET review == Homepage.review  task == reviewTasks[review.signed.text] IN
                    /\ AssertChain /\ RootSupports(finalization.root, finalization.outcome)
                    /\ Homepage.pdf = review.signed.text /\ Homepage.pdf \in renders \cap candidates
                    /\ review.signed.verdict = "ACCEPT" /\ task.signed = review.signed
                    /\ task.authors \cap {review.reviewer, review.signed.signer} = {}
  BY DEF ShownPaperIsReviewed, PaperInv, PaperTyped
<1>1. Presentable # {} /\ Homepage = publications[CHOOSE i \in Presentable : \A k \in Presentable : k <= i]
  BY DEF Homepage
<1>2. Len(publications) \in Nat /\ Presentable \subseteq 0 .. Len(publications)
  <2>1. publications \in Seq(PublicationRow)
    BY DEF PaperInv, PaperTyped
  <2>2. Len(publications) \in Nat /\ DOMAIN publications = 1 .. Len(publications)
    BY <2>1, LenProperties
  <2>3. Presentable \subseteq 1 .. Len(publications)
    BY <2>2 DEF Presentable
  <2> QED BY <2>2, <2>3
<1>3. \E i \in Presentable : \A k \in Presentable : k <= i
  BY <1>1, <1>2, GreatestNatural
<1>4. PICK i \in Presentable : Homepage = publications[i]
  BY <1>1, <1>3
<1>5. PICK p : p = publications[i] /\ p = Homepage /\ p \in PublicationRow /\ p.review \in paperReviews
               /\ p.review.signed.verdict = "ACCEPT" /\ p.pdf = p.review.signed.text
  <2>1. i \in DOMAIN publications
    BY <1>4 DEF Presentable
  <2>2. publications[i] \in PublicationRow
    BY <2>1 DEF PaperInv, PaperTyped
  <2>3. publications[i].pdf = publications[i].review.signed.text
    BY <1>4 DEF Presentable
  <2> QED BY <1>4, <2>1, <2>2, <2>3 DEF PaperInv, Published
<1>6. PICK v \in paperReviews : v = p.review /\ ReviewFits(v)
  BY <1>5 DEF PaperInv
<1>7. v.signed.text \in renders \cap candidates
  <2>1. v.signed.text \in Texts
    BY <1>5, <1>6 DEF PublicationRow
  <2> QED BY <1>6, <2>1 DEF ReviewFits, Settled, PaperInv, TaskFits
<1>8. AssertChain /\ RootSupports(finalization.root, finalization.outcome)
  BY <1>7 DEF PaperInv, Chained, AssertChain, FinalizationMutation
<1> QED BY <1>5, <1>6, <1>7, <1>8 DEF ReviewFits, Settled

\* The paper on the home page was compiled from the text that an accepting review of a person
\* who is no author signs, in a run finalized with an outcome its root supports, whatever
\* reassignments and half-finished imports came first (attestation_import.py, reviews.py, publication.py homepage).
THEOREM ShownPaperAlwaysReviewed == PaperSpec => []ShownPaperIsReviewed
<1>1. PaperInit => PaperInv
  BY PaperInitially
<1>2. PaperInv /\ [PaperNext]_paperVars => PaperInv'
  BY PaperInductive
<1>3. PaperInv => ShownPaperIsReviewed
  BY ShownFits
<1> QED BY <1>1, <1>2, <1>3, PTL DEF PaperSpec

-----------------------------------------------------------------------------
(* Commands *)

Steps == {"none", "authorize", "handle", "decide", "done", "dead", "raised", "unanswered",
          "catalog", "draft", "materials", "summarize", "kernel", "follow", "rows"}
NamedMaterials == UNION {Range(MaterialsOf[c]) : c \in CommandIds}
NamedRoutes == UNION {Range(RoutesOf[c]) : c \in CommandIds}
Items == CommandIds \cup NamedMaterials \cup NamedRoutes
CallRow == [at : Steps, run : Researches \cup {NoCommand}, expected : Nat, version : {0, 1},
            role : CallerRoles \cup {NoCommand}, left : Seq(Items), decision : DecisionRow \cup {NoCommand}]
ResearchRow == [kernel : {"NONE", "DRAFT", "CONFIRMED"}, revision : 0 .. MaxKernelRevision, listed : BOOLEAN,
                contract : {"NONE", "DRAFT", "CONFIRMED"}, materials : SUBSET Items,
                summary : SummaryRow \cup {NoCommand}]

Written(c) == {row[2] : row \in {x \in domainRows : x[1] = c}}
RowsFor(c, k) == IF k = "SUBMIT_GUIDANCE" THEN RoutesOf[c] ELSE <<c>>
EventOf(c, u, n) == [command |-> c, run |-> u.run, revision |-> n]

\* What a decision claims about request c of kind k: own is the research of the same name,
\* its the research it is about, ev its kernel events, wr its rows.
Told(c, k, u, own, its, ev, wr) ==
    IF ~u.decision.accepted THEN ev = {} /\ u.decision.before = u.decision.after
    ELSE /\ k \in Creating => /\ own.kernel # "NONE" /\ own.listed /\ own.contract # "NONE"
                              /\ own.materials = Range(MaterialsOf[c]) /\ own.summary # NoCommand
         /\ k \in KernelRequired => /\ ev = {EventOf(c, u, u.decision.after)}
                                    /\ u.decision.after = u.decision.before + 1
                                    /\ k = "CONFIRM_CONTRACT" => its.contract = "CONFIRMED"
         /\ k \in DomainOnly => ev = {} /\ u.decision.after = u.decision.before /\ wr = Range(RowsFor(c, k))

\* How far a creation has come.
CreationFits(c, u, own) ==
    /\ u.at \in {"none", "authorize", "handle"} => own = Absent
    /\ u.at \in {"catalog", "draft", "materials", "summarize"} => own.summary = NoCommand /\ own.kernel = "DRAFT"
    /\ u.at \in {"catalog", "draft"} => own.materials = {}
    /\ u.at \in {"draft", "materials", "summarize"} => own.listed
    /\ u.at \in {"materials", "summarize"} => own.contract # "NONE"
    /\ u.at = "materials" => /\ u.left \in Seq(Range(MaterialsOf[c]))
                             /\ own.materials \cup Range(u.left) = Range(MaterialsOf[c])
    /\ u.at = "summarize" => own.materials = Range(MaterialsOf[c])

\* Which command may stand where, and what has been done when it does.
Fits(c, k, u, rc, own, its, ev, wr) ==
    /\ rc = NoCommand <=> u.at = "none"
    /\ rc # NoCommand /\ rc.state # "PENDING" => rc.state = "DECIDED" /\ u.at = "done" /\ rc.decision = u.decision
    /\ u.at # "none" => u.run \in Researches
    /\ u.at # "none" /\ k \in GlobalScope => u.run = c
    /\ u.at \in {"catalog", "draft", "materials"} => k \in Creating
    /\ u.at = "kernel" => k \in KernelRequired
    /\ u.at = "follow" => k = "CONFIRM_CONTRACT"
    /\ u.at = "summarize" => k \in Creating \cup {"CONFIRM_CONTRACT"}
    /\ u.at = "rows" => k \in DomainOnly
    /\ u.at \in {"none", "authorize", "handle", "kernel", "catalog", "draft", "materials", "rows"} => ev = {}
    /\ u.at = "summarize" /\ k \in Creating => ev = {}
    /\ u.at \in {"none", "authorize", "handle"} => wr = {}
    /\ k \in Creating => CreationFits(c, u, own)
    /\ k \notin GlobalScope /\ u.at \in {"handle", "kernel", "follow", "summarize", "rows"} => its.summary # NoCommand
    /\ k = "CONFIRM_CONTRACT" /\ u.at \in {"follow", "summarize"} =>
          /\ its.kernel = "CONFIRMED" /\ ev = {EventOf(c, u, u.expected + 1)}
          /\ u.at = "summarize" => its.contract = "CONFIRMED"
    /\ u.at = "rows" => u.left \in Seq(Range(RowsFor(c, k))) /\ wr \cup Range(u.left) = Range(RowsFor(c, k))
    /\ u.at \in {"decide", "done"} => u.decision \in DecisionRow /\ Told(c, k, u, own, its, ev, wr)

CallFits(c) == Fits(c, kindOf[c], call[c], cmdReceipt[c], research[c], research[call[c].run], EventsOf(c), Written(c))

\* The product follows the kernel, and the summary follows the product.
ResearchFits(x) ==
    /\ x.contract = "CONFIRMED" => x.kernel = "CONFIRMED"
    /\ x.summary # NoCommand /\ x.summary.state = "CONTRACT_CONFIRMED" => x.contract = "CONFIRMED"
    /\ x.summary = NoCommand => x.kernel # "CONFIRMED"

CommandsTyped ==
    /\ kindOf \in [CommandIds -> ImmediateCommands]
    /\ call \in [CommandIds -> CallRow] /\ research \in [Researches -> ResearchRow]
    /\ cmdReceipt \in [CommandIds -> ReceiptRow \cup {NoCommand}]
    /\ catalogRevision \in Nat
    /\ domainRows \subseteq CommandIds \X (CommandIds \cup UNION {Range(RoutesOf[c]) : c \in CommandIds})

CommandInv ==
    /\ CommandsTyped
    /\ \A r \in Researches : ResearchFits(research[r])
    /\ \A c \in CommandIds : CallFits(c)

\* Rows only grow; a row without a summary is its creator's alone, and so are its materials.
RowGrows(x, y) ==
    /\ x.kernel = "CONFIRMED" => y.kernel = "CONFIRMED"
    /\ x.contract = "CONFIRMED" => y.contract = "CONFIRMED"
    /\ x.summary # NoCommand => y.summary # NoCommand
RowSpared(x, y) ==
    /\ y.materials = x.materials
    /\ x.summary = NoCommand => y = x
    /\ x.kernel # "NONE" => y.kernel # "NONE"
    /\ x.listed => y.listed
    /\ x.contract # "NONE" => y.contract # "NONE"
    /\ x.summary # NoCommand => y.summary # NoCommand

\* Where a command stands depends on rows that only grow.
LEMMA FitsStays ==
    ASSUME NEW c, NEW k \in ImmediateCommands, NEW u \in CallRow, NEW rc, NEW ev, NEW wr, NEW own, NEW its, NEW own2, NEW its2,
           Fits(c, k, u, rc, own, its, ev, wr), RowSpared(own, own2), RowGrows(its, its2)
    PROVE  Fits(c, k, u, rc, own2, its2, ev, wr)
<1>1. k \in Creating => CreationFits(c, u, own2)
  BY DEF Fits, RowSpared, CreationFits, Absent
<1>2. u.at \in {"decide", "done"} => Told(c, k, u, own2, its2, ev, wr)
  BY DEF Fits, RowSpared, RowGrows, Told
<1> QED BY <1>1, <1>2 DEF Fits, RowGrows

\* A command moves: the others see rows that grow.
LEMMA OneCallMoves ==
    ASSUME CommandInv, NEW c \in CommandIds, NEW u \in CallRow, call' = [call EXCEPT ![c] = u], NEW rc \in ReceiptRow \cup {NoCommand},
           cmdReceipt' = [cmdReceipt EXCEPT ![c] = rc], kindOf' = kindOf, CommandsTyped',
           \A r \in Researches : ResearchFits(research'[r]) /\ RowGrows(research[r], research'[r]),
           \A k \in CommandIds \ {c} : RowSpared(research[k], research'[k]),
           \A k \in CommandIds \ {c} : EventsOf(k)' = EventsOf(k) /\ Written(k)' = Written(k),
           Fits(c, kindOf[c], u, rc, research'[c], research'[u.run], EventsOf(c)', Written(c)')
    PROVE  CommandInv'
<1>1. /\ call'[c] = u /\ cmdReceipt'[c] = rc
      /\ \A k \in CommandIds \ {c} : call'[k] = call[k] /\ cmdReceipt'[k] = cmdReceipt[k]
  BY DEF CommandInv, CommandsTyped
<1>2. ASSUME NEW k \in CommandIds PROVE CallFits(k)'
  <2>1. CASE k = c
    BY <1>1, <2>1 DEF CallFits, Fits, Told, CreationFits, EventOf, RowsFor
  <2>2. CASE k # c
    <3>1. /\ k \in CommandIds \ {c} /\ call'[k] = call[k] /\ cmdReceipt'[k] = cmdReceipt[k]
          /\ EventsOf(k)' = EventsOf(k) /\ Written(k)' = Written(k)
      BY <1>1, <2>2
    <3>2. PICK v \in CallRow : v = call[k] /\ v = call'[k]
      BY <3>1 DEF CommandInv, CommandsTyped
    <3>3. PICK t \in ImmediateCommands : t = kindOf[k]
      BY DEF CommandInv, CommandsTyped
    <3>4. Fits(k, t, v, cmdReceipt[k], research[k], research[v.run], EventsOf(k), Written(k))
      BY <3>2, <3>3 DEF CommandInv, CallFits
    <3>5. v.run \in Researches => RowGrows(research[v.run], research'[v.run])
      OBVIOUS
    <3>6. Fits(k, t, v, cmdReceipt[k], research'[k], research'[v.run], EventsOf(k), Written(k))
      <4>1. CASE v.run \in Researches
        BY <3>1, <3>4, <3>5, <4>1, FitsStays
      <4>2. CASE v.run \notin Researches
        <5>1. v.at = "none"
          BY <3>4, <4>2 DEF Fits
        <5>2. t \in Creating => CreationFits(k, v, research'[k])
          BY <3>1, <3>4, <5>1 DEF Fits, RowSpared, CreationFits, Absent
        <5> QED BY <3>4, <5>1, <5>2 DEF Fits
      <4> QED BY <4>1, <4>2
    <3> QED BY <3>1, <3>2, <3>3, <3>6 DEF CallFits, Fits, Told, CreationFits, EventOf, RowsFor
  <2> QED BY <2>1, <2>2
<1>3. \A r \in Researches : ResearchFits(research[r])'
  BY DEF ResearchFits
<1> QED BY <1>2, <1>3 DEF CommandInv

\* A step that leaves every research and every store as it is.
LEMMA OnlyCallMoves ==
    ASSUME CommandInv, NEW c \in CommandIds, NEW u \in CallRow, call' = [call EXCEPT ![c] = u], NEW rc \in ReceiptRow \cup {NoCommand},
           cmdReceipt' = [cmdReceipt EXCEPT ![c] = rc],
           UNCHANGED <<kindOf, research, catalogRevision, kernelEvents, domainRows>>,
           Fits(c, kindOf[c], u, rc, research[c], research[u.run], EventsOf(c), Written(c))
    PROVE  CommandInv'
<1>1. \A k \in CommandIds : EventsOf(k)' = EventsOf(k) /\ Written(k)' = Written(k)
  BY DEF EventsOf, Written
<1>2. CommandsTyped'
  BY DEF CommandInv, CommandsTyped
<1>3. \A r \in Researches : ResearchFits(research'[r]) /\ RowGrows(research[r], research'[r])
  BY DEF CommandInv, RowGrows
<1>4. \A k \in CommandIds : RowSpared(research[k], research'[k])
  BY DEF RowSpared
<1>5. Fits(c, kindOf[c], u, rc, research'[c], research'[u.run], EventsOf(c)', Written(c)')
  BY <1>1
<1> QED BY <1>1, <1>2, <1>3, <1>4, <1>5, OneCallMoves

\* Where a command is.
LEMMA CallOf ==
    ASSUME CommandInv, NEW c \in CommandIds
    PROVE  \E u \in CallRow, k \in ImmediateCommands :
              /\ u = call[c] /\ k = kindOf[c]
              /\ Fits(c, k, u, cmdReceipt[c], research[c], research[u.run], EventsOf(c), Written(c))
              /\ cmdReceipt[c] \in ReceiptRow \cup {NoCommand}
              /\ (u.at # "none" => cmdReceipt[c] # NoCommand) /\ cmdReceipt = [cmdReceipt EXCEPT ![c] = cmdReceipt[c]]
              /\ (u.at \notin {"none", "done"} => cmdReceipt[c].state = "PENDING")
<1>1. PICK u \in CallRow, k \in ImmediateCommands :
         /\ u = call[c] /\ k = kindOf[c]
         /\ Fits(c, k, u, cmdReceipt[c], research[c], research[u.run], EventsOf(c), Written(c))
  BY DEF CommandInv, CommandsTyped, CallFits
<1>2. cmdReceipt = [cmdReceipt EXCEPT ![c] = cmdReceipt[c]] /\ cmdReceipt[c] \in ReceiptRow \cup {NoCommand}
  BY DEF CommandInv, CommandsTyped
<1> QED BY <1>1, <1>2 DEF Fits

\* The receipt is reserved before the authority is asked.
LEMMA SubmitStep == ASSUME CommandInv, NEW c \in CommandIds, Submit(c) PROVE CommandInv'
<1>1. PICK v \in CallRow, k \in ImmediateCommands :
         /\ v = call[c] /\ k = kindOf[c]
         /\ Fits(c, k, v, cmdReceipt[c], research[c], research[v.run], EventsOf(c), Written(c))
  BY CallOf
<1>2. v.at = "none"
  BY <1>1 DEF Submit, Fits
<1>3. PICK role \in CallerRoles, run \in Researches, version \in {0, 1}, expected \in Nat :
         /\ call' = [call EXCEPT ![c] = [NotCalled EXCEPT !.at = "authorize", !.run = run, !.role = role,
                                             !.expected = expected, !.version = version]]
         /\ k \in GlobalScope => run = c
  <2>1. PICK role \in CallerRoles, run \in Researches, version \in {0, 1} :
           /\ IF kindOf[c] \in GlobalScope THEN run = c /\ version = 0 ELSE research[run].kernel # "NONE"
           /\ \E expected \in IF kindOf[c] \in GlobalScope THEN {catalogRevision} ELSE 0..research[run].revision :
                call' = [call EXCEPT ![c] = [NotCalled EXCEPT !.at = "authorize", !.run = run, !.role = role,
                                             !.expected = expected, !.version = version]]
    BY DEF Submit
  <2>2. catalogRevision \in Nat /\ 0 .. research[run].revision \subseteq Nat
    BY CommandInputs DEF CommandInv, CommandsTyped, ResearchRow
  <2> QED BY <1>1, <2>1, <2>2
<1>4. PICK e : e = << >> /\ e \in Seq(Items)
  BY EmptySeq
<1>5. PICK w : w = NotCalled /\ w \in CallRow
  <2>1. NotCalled = [at |-> "none", run |-> NoCommand, expected |-> 0, version |-> 0, role |-> NoCommand,
                     left |-> e, decision |-> NoCommand]
    BY <1>4 DEF NotCalled
  <2>2. "none" \in Steps
    BY DEF Steps
  <2>3. NotCalled \in CallRow
    BY <1>4, <2>1, <2>2 DEF CallRow
  <2> QED BY <2>3
<1>6. PICK u : /\ u = [w EXCEPT !.at = "authorize", !.run = run, !.role = role, !.expected = expected, !.version = version]
               /\ u \in CallRow /\ u.at = "authorize" /\ u.run = run
  <2>1. "authorize" \in Steps
    BY DEF Steps
  <2>2. PICK x : x = [w EXCEPT !.at = "authorize", !.run = run, !.role = role, !.expected = expected, !.version = version]
    OBVIOUS
  <2>3. x \in CallRow
    BY <1>5, <2>1, <2>2 DEF CallRow
  <2>4. x.at = "authorize" /\ x.run = run
    BY <1>5, <2>2 DEF CallRow
  <2> QED BY <2>2, <2>3, <2>4
<1>7. call' = [call EXCEPT ![c] = u]
  BY <1>3, <1>5, <1>6
<1>8. PICK rc : rc = [state |-> "PENDING", decision |-> NoCommand]
  OBVIOUS
<1>9. rc \in ReceiptRow /\ rc # NoCommand /\ rc.state = "PENDING"
  BY <1>8, CommandInputs DEF ReceiptRow
<1>10. /\ cmdReceipt' = [cmdReceipt EXCEPT ![c] = rc]
       /\ UNCHANGED <<kindOf, research, catalogRevision, kernelEvents, domainRows>>
  BY <1>8 DEF Submit
<1>11. k \in Creating => CreationFits(c, u, research[c])
  BY <1>1, <1>2, <1>6 DEF Fits, CreationFits
<1>12. Fits(c, k, u, rc, research[c], research[u.run], EventsOf(c), Written(c))
  BY <1>1, <1>2, <1>3, <1>6, <1>9, <1>11 DEF Fits
<1> QED BY <1>1, <1>6, <1>7, <1>9, <1>10, <1>12, OnlyCallMoves

\* A rejection before anything was sent to the kernel, and an acceptance, are decisions.
LEMMA Decisions ==
    /\ \A n \in Nat : \A code \in {"CAPABILITY_DENIED", "REVISION_CONFLICT", "CONTRACT_VERSION_MISMATCH",
                        "MATERIAL_ARTIFACT_DIGEST_MISMATCH", "CONTRACT_BINDING_MISSING", "BINDING_MISMATCH",
                        "KERNEL_REJECTED", "GUIDANCE_ROUTE_REQUIRED", "PROBLEM_POOL_DENOMINATOR_MISMATCH"} :
         /\ Rejected(code, n) \in DecisionRow /\ Rejected(code, n).accepted = FALSE
         /\ Rejected(code, n).before = n /\ Rejected(code, n).after = n
    /\ \A n, m \in Nat : /\ Accepted(n, m) \in DecisionRow /\ Accepted(n, m).accepted = TRUE
                         /\ Accepted(n, m).before = n /\ Accepted(n, m).after = m
BY DEF Rejected, Accepted, DecisionRow

\* A command that has told the kernel nothing may be rejected.
LEMMA RejectStep ==
    ASSUME CommandInv, NEW c \in CommandIds, NEW d \in DecisionRow, d.accepted = FALSE, d.before = d.after,
           call[c].at \in {"authorize", "handle", "kernel", "materials", "rows"}, DecideAs(c, d),
           UNCHANGED <<kindOf, cmdReceipt, research, catalogRevision, kernelEvents, domainRows>>
    PROVE  CommandInv'
<1>1. PICK v \in CallRow, k \in ImmediateCommands :
         /\ v = call[c] /\ k = kindOf[c]
         /\ Fits(c, k, v, cmdReceipt[c], research[c], research[v.run], EventsOf(c), Written(c))
         /\ cmdReceipt[c] \in ReceiptRow \cup {NoCommand}
         /\ cmdReceipt = [cmdReceipt EXCEPT ![c] = cmdReceipt[c]] /\ cmdReceipt[c].state = "PENDING"
  BY CallOf
<1>2. PICK u : u = [[v EXCEPT !.at = "decide"] EXCEPT !.decision = d]
  OBVIOUS
<1>3. u \in CallRow /\ u.at = "decide" /\ u.decision = d /\ u.run = v.run
  BY <1>1, <1>2 DEF CallRow, Steps
<1>4. call' = [call EXCEPT ![c] = u]
  BY <1>1, <1>2 DEF DecideAs, CommandInv, CommandsTyped
<1>5. Told(c, k, u, research[c], research[u.run], EventsOf(c), Written(c))
  BY <1>1, <1>3 DEF Fits, Told
<1>6. k \in Creating => CreationFits(c, u, research[c])
  BY <1>3 DEF CreationFits
<1>7. Fits(c, k, u, cmdReceipt[c], research[c], research[u.run], EventsOf(c), Written(c))
  BY <1>1, <1>3, <1>5, <1>6 DEF Fits
<1> QED BY <1>1, <1>3, <1>4, <1>7, OnlyCallMoves

\* A command gives up: nobody is told anything.
LEMMA StopStep ==
    ASSUME CommandInv, NEW c \in CommandIds, NEW s \in {"dead", "raised", "unanswered"}, GoTo(c, s),
           call[c].at \notin {"none", "done"},
           UNCHANGED <<kindOf, cmdReceipt, research, catalogRevision, kernelEvents, domainRows>>
    PROVE  CommandInv'
<1>1. PICK v \in CallRow, k \in ImmediateCommands :
         /\ v = call[c] /\ k = kindOf[c]
         /\ Fits(c, k, v, cmdReceipt[c], research[c], research[v.run], EventsOf(c), Written(c))
         /\ cmdReceipt[c] \in ReceiptRow \cup {NoCommand}
         /\ cmdReceipt = [cmdReceipt EXCEPT ![c] = cmdReceipt[c]] /\ cmdReceipt[c].state = "PENDING"
  BY CallOf
<1>2. PICK u : u = [v EXCEPT !.at = s]
  OBVIOUS
<1>3. u \in CallRow /\ u.at = s /\ u.run = v.run
  BY <1>1, <1>2 DEF CallRow, Steps
<1>4. call' = [call EXCEPT ![c] = u]
  BY <1>1, <1>2 DEF GoTo
<1>5. k \in Creating => CreationFits(c, u, research[c])
  BY <1>3 DEF CreationFits
<1>6. Fits(c, k, u, cmdReceipt[c], research[c], research[u.run], EventsOf(c), Written(c))
  BY <1>1, <1>3, <1>5 DEF Fits
<1> QED BY <1>1, <1>3, <1>4, <1>6, OnlyCallMoves

\* The handler takes a command whose fence holds.
LEMMA AuthorizeStep == ASSUME CommandInv, NEW c \in CommandIds, Authorize(c) PROVE CommandInv'
<1>1. PICK v \in CallRow, k \in ImmediateCommands :
         /\ v = call[c] /\ k = kindOf[c]
         /\ Fits(c, k, v, cmdReceipt[c], research[c], research[v.run], EventsOf(c), Written(c))
         /\ cmdReceipt[c] \in ReceiptRow \cup {NoCommand}
         /\ cmdReceipt = [cmdReceipt EXCEPT ![c] = cmdReceipt[c]]
         /\ (v.at \notin {"none", "done"} => cmdReceipt[c].state = "PENDING")
  BY CallOf
<1>2. v.at = "authorize" /\ v.run \in Researches
  BY <1>1 DEF Authorize, Fits
<1>3. UNCHANGED <<kindOf, cmdReceipt, research, catalogRevision, kernelEvents, domainRows>>
  BY DEF Authorize
<1>4. CASE v.role \notin RolesFor(k)
  <2>1. DecideAs(c, Rejected("CAPABILITY_DENIED", v.expected)) /\ v.expected \in Nat
    BY <1>1, <1>4 DEF Authorize, CallRow
  <2>2. PICK d \in DecisionRow : d = Rejected("CAPABILITY_DENIED", v.expected) /\ d.accepted = FALSE /\ d.before = d.after
    BY <2>1, Decisions
  <2> QED BY <1>1, <1>2, <1>3, <2>1, <2>2, RejectStep
<1>5. CASE v.role \in RolesFor(k) /\ k \notin GlobalScope /\ research[v.run].summary = NoCommand
  <2>1. GoTo(c, "raised")
    BY <1>1, <1>5 DEF Authorize, Raises, GoTo
  <2> QED BY <1>1, <1>2, <1>3, <2>1, StopStep
<1>6. CASE v.role \in RolesFor(k) /\ (k \in GlobalScope \/ research[v.run].summary # NoCommand)
  <2>1. PICK n \in Nat : n = FenceOf(c).revision
    BY <1>1, <1>2, <1>6 DEF FenceOf, CommandInv, CommandsTyped, ResearchRow, SummaryRow
  <2>2. \/ \E code \in {"REVISION_CONFLICT", "CONTRACT_VERSION_MISMATCH"} : DecideAs(c, Rejected(code, n))
        \/ GoTo(c, "handle")
    BY <1>1, <1>6, <2>1 DEF Authorize
  <2>3. CASE \E code \in {"REVISION_CONFLICT", "CONTRACT_VERSION_MISMATCH"} : DecideAs(c, Rejected(code, n))
    <3>1. PICK d \in DecisionRow : DecideAs(c, d) /\ d.accepted = FALSE /\ d.before = d.after
      BY <2>3, Decisions
    <3> QED BY <1>1, <1>2, <1>3, <3>1, RejectStep
  <2>4. CASE GoTo(c, "handle")
    <3>1. PICK u : u = [v EXCEPT !.at = "handle"]
      OBVIOUS
    <3>2. u \in CallRow /\ u.at = "handle" /\ u.run = v.run
      BY <1>1, <3>1 DEF CallRow, Steps
    <3>3. call' = [call EXCEPT ![c] = u]
      BY <1>1, <2>4, <3>1 DEF GoTo
    <3>4. k \in Creating => CreationFits(c, u, research[c])
      BY <1>1, <1>2, <3>2 DEF Fits, CreationFits
    <3>5. Fits(c, k, u, cmdReceipt[c], research[c], research[u.run], EventsOf(c), Written(c))
      BY <1>1, <1>2, <1>6, <3>2, <3>4 DEF Fits
    <3> QED BY <1>1, <1>3, <3>2, <3>3, <3>5, OnlyCallMoves
  <2> QED BY <2>2, <2>3, <2>4
<1> QED BY <1>4, <1>5, <1>6

\* The receipt takes over the decision.
LEMMA RecordDecisionStep == ASSUME CommandInv, NEW c \in CommandIds, RecordDecision(c) PROVE CommandInv'
<1>1. PICK v \in CallRow, k \in ImmediateCommands :
         /\ v = call[c] /\ k = kindOf[c]
         /\ Fits(c, k, v, cmdReceipt[c], research[c], research[v.run], EventsOf(c), Written(c))
  BY CallOf
<1>2. v.at = "decide" /\ v.decision \in DecisionRow
  BY <1>1 DEF RecordDecision, Fits
<1>3. UNCHANGED <<kindOf, research, catalogRevision, kernelEvents, domainRows>>
  BY DEF RecordDecision
<1>4. CASE DecisionFits(c, v.decision)
  <2>1. PICK u : u = [v EXCEPT !.at = "done"]
    OBVIOUS
  <2>2. u \in CallRow /\ u.at = "done" /\ u.run = v.run /\ u.decision = v.decision
    BY <1>1, <2>1 DEF CallRow, Steps
  <2>3. PICK rc : rc = [state |-> "DECIDED", decision |-> v.decision]
    OBVIOUS
  <2>4. rc \in ReceiptRow /\ rc.state = "DECIDED" /\ rc.decision = v.decision
    BY <1>2, <2>3 DEF ReceiptRow
  <2>5. rc # NoCommand
    BY <2>4, CommandInputs DEF ReceiptRow
  <2>6. call' = [call EXCEPT ![c] = u] /\ cmdReceipt' = [cmdReceipt EXCEPT ![c] = rc]
    BY <1>1, <1>4, <2>1, <2>3 DEF RecordDecision, GoTo
  <2>7. Told(c, k, u, research[c], research[u.run], EventsOf(c), Written(c))
    BY <1>1, <1>2, <2>2 DEF Fits, Told, EventOf
  <2>8. k \in Creating => CreationFits(c, u, research[c])
    BY <2>2 DEF CreationFits
  <2>9. Fits(c, k, u, rc, research[c], research[u.run], EventsOf(c), Written(c))
    BY <1>1, <1>2, <2>2, <2>4, <2>5, <2>7, <2>8 DEF Fits
  <2> QED BY <1>1, <1>3, <2>2, <2>4, <2>6, <2>9, OnlyCallMoves
<1>5. CASE ~DecisionFits(c, v.decision)
  <2>1. GoTo(c, "unanswered") /\ UNCHANGED cmdReceipt
    BY <1>1, <1>5 DEF RecordDecision, Raises, GoTo
  <2> QED BY <1>1, <1>2, <1>3, <2>1, StopStep
<1> QED BY <1>4, <1>5

\* A command moves and writes the row of one research, its own or one that others may see.
LEMMA RowMoves ==
    ASSUME CommandInv, NEW c \in CommandIds, NEW u \in CallRow, call' = [call EXCEPT ![c] = u],
           NEW r \in Researches, NEW x \in ResearchRow, research' = [research EXCEPT ![r] = x],
           UNCHANGED <<kindOf, cmdReceipt, domainRows>>, catalogRevision' \in Nat,
           \A k \in CommandIds \ {c} : EventsOf(k)' = EventsOf(k),
           ResearchFits(x), RowGrows(research[r], x), r = c \/ RowSpared(research[r], x),
           Fits(c, kindOf[c], u, cmdReceipt[c], research'[c], research'[u.run], EventsOf(c)', Written(c))
    PROVE  CommandInv'
<1>1. /\ research \in [Researches -> ResearchRow] /\ research' \in [Researches -> ResearchRow] /\ research'[r] = x
      /\ \A q \in Researches \ {r} : research'[q] = research[q]
  BY DEF CommandInv, CommandsTyped
<1>2. CommandsTyped'
  BY <1>1 DEF CommandInv, CommandsTyped
<1>3. ASSUME NEW q \in Researches PROVE ResearchFits(research'[q]) /\ RowGrows(research[q], research'[q])
  <2>1. CASE q = r
    BY <1>1, <2>1
  <2>2. CASE q # r
    BY <1>1, <2>2 DEF CommandInv, RowGrows
  <2> QED BY <2>1, <2>2
<1>4. ASSUME NEW k \in CommandIds \ {c} PROVE RowSpared(research[k], research'[k])
  <2>1. k \in Researches
    BY DEF Researches
  <2>2. CASE k = r
    BY <1>1, <2>2
  <2>3. CASE k # r
    BY <1>1, <2>1, <2>3 DEF RowSpared
  <2> QED BY <2>2, <2>3
<1>5. \A k \in CommandIds : Written(k)' = Written(k)
  BY DEF Written
<1>6. cmdReceipt' = [cmdReceipt EXCEPT ![c] = cmdReceipt[c]] /\ cmdReceipt[c] \in ReceiptRow \cup {NoCommand}
  BY CallOf
<1> QED BY <1>2, <1>3, <1>4, <1>5, <1>6, OneCallMoves, ZenonT(40)

\* A step of a creation on the research it creates.
LEMMA CreationMoves ==
    ASSUME CommandInv, NEW c \in CommandIds, kindOf[c] = "CREATE_RESEARCH",
           NEW u \in CallRow, call' = [call EXCEPT ![c] = u], u.run = c,
           call[c].at \in {"handle", "catalog", "draft", "materials", "summarize"},
           NEW x \in ResearchRow, research' = [research EXCEPT ![c] = x],
           UNCHANGED <<kindOf, cmdReceipt, kernelEvents, domainRows>>, catalogRevision' \in Nat,
           x.kernel # "CONFIRMED", x.contract # "CONFIRMED", x.summary # NoCommand => x.summary.state = "CONTRACT_DRAFT",
           u.at \in {"catalog", "draft", "materials", "summarize", "decide"}, CreationFits(c, u, x),
           u.at = "decide" => u.decision \in DecisionRow /\ Told(c, "CREATE_RESEARCH", u, x, x, {}, Written(c))
    PROVE  CommandInv'
<1>1. PICK v \in CallRow, k \in ImmediateCommands :
         /\ v = call[c] /\ k = kindOf[c]
         /\ Fits(c, k, v, cmdReceipt[c], research[c], research[v.run], EventsOf(c), Written(c))
         /\ cmdReceipt[c].state = "PENDING" /\ cmdReceipt[c] # NoCommand
  BY CallOf
<1>2. k = "CREATE_RESEARCH" /\ k \in Creating /\ k \in GlobalScope /\ k \notin KernelRequired /\ k \notin DomainOnly
  BY <1>1 DEF Creating, GlobalScope, KernelRequired, DomainOnly
<1>3. c \in Researches /\ research'[c] = x /\ research[c] \in ResearchRow
  BY DEF Researches, CommandInv, CommandsTyped
<1>4. research[c].summary = NoCommand /\ research[c].kernel # "CONFIRMED" /\ research[c].contract # "CONFIRMED"
  BY <1>1, <1>2, <1>3 DEF Fits, CreationFits, Absent, CommandInv, ResearchFits
<1>5. ResearchFits(x) /\ RowGrows(research[c], x)
  BY <1>4 DEF ResearchFits, RowGrows
<1>6. \A q \in CommandIds : EventsOf(q)' = EventsOf(q)
  BY DEF EventsOf
<1>7. EventsOf(c) = {}
  BY <1>1, <1>2 DEF Fits
<1>8. Fits(c, k, u, cmdReceipt[c], x, x, {}, Written(c))
  BY <1>1, <1>2, <1>3 DEF Fits, Creating
<1>9. Fits(c, kindOf[c], u, cmdReceipt[c], research'[c], research'[u.run], EventsOf(c)', Written(c))
  BY <1>1, <1>3, <1>6, <1>7, <1>8
<1> QED BY <1>3, <1>5, <1>6, <1>9, RowMoves

\* What is left of a sequence of items.
LEMMA HeadAndRest ==
    ASSUME NEW S, NEW s \in Seq(S), s # << >>
    PROVE  Head(s) \in S /\ Tail(s) \in Seq(S) /\ Range(s) = {Head(s)} \cup Range(Tail(s))
<1>1. Head(s) \in S /\ Tail(s) \in Seq(S)
  BY HeadTailProperties
<1>2. PICK n \in Nat : n = Len(s) /\ n >= 1 /\ Len(Tail(s)) = n - 1
  BY HeadTailProperties, LenProperties, EmptySeq
<1>3. DOMAIN s = 1 .. n /\ DOMAIN Tail(s) = 1 .. n - 1 /\ \A i \in 1 .. n - 1 : Tail(s)[i] = s[i + 1]
  BY <1>1, <1>2, HeadTailProperties, LenProperties
<1>4. Head(s) = s[1]
  BY <1>2
<1>5. ASSUME NEW y \in Range(s) PROVE y \in {Head(s)} \cup Range(Tail(s))
  <2>1. PICK i \in 1 .. n : y = s[i]
    BY <1>3 DEF Range
  <2>2. CASE i = 1
    BY <1>4, <2>1, <2>2
  <2>3. CASE i # 1
    <3>1. i - 1 \in 1 .. n - 1 /\ (i - 1) + 1 = i
      BY <2>3
    <3>2. Tail(s)[i - 1] = s[i] /\ i - 1 \in DOMAIN Tail(s)
      BY <1>3, <3>1
    <3> QED BY <2>1, <3>2 DEF Range
  <2> QED BY <2>2, <2>3
<1>6. ASSUME NEW y \in Range(Tail(s)) PROVE y \in Range(s)
  <2>1. PICK i \in 1 .. n - 1 : y = Tail(s)[i]
    BY <1>3 DEF Range
  <2>2. i + 1 \in 1 .. n /\ y = s[i + 1]
    BY <1>2, <1>3, <2>1
  <2> QED BY <1>3, <2>2 DEF Range
<1>7. Head(s) \in Range(s)
  <2>1. 1 \in DOMAIN s
    BY <1>2, <1>3
  <2> QED BY <1>4, <2>1 DEF Range
<1> QED BY <1>1, <1>5, <1>6, <1>7

\* The kernel knows the research, the catalogue lists it, the contract is drafted.
LEMMA CreateStep ==
    ASSUME CommandInv, NEW c \in CommandIds, CreateInKernel(c) \/ RegisterInCatalog(c) \/ DraftContract(c)
    PROVE  CommandInv'
<1>1. PICK v \in CallRow, k \in ImmediateCommands :
         /\ v = call[c] /\ k = kindOf[c]
         /\ Fits(c, k, v, cmdReceipt[c], research[c], research[v.run], EventsOf(c), Written(c))
  BY CallOf
<1>2. v.at \in {"handle", "catalog", "draft"} /\ k = "CREATE_RESEARCH"
  BY <1>1 DEF CreateInKernel, RegisterInCatalog, DraftContract, Fits, Creating
<1>3. v.run = c /\ CreationFits(c, v, research[c]) /\ "CREATE_RESEARCH" \in Creating
  BY <1>1, <1>2 DEF Fits, Creating, GlobalScope
<1>4. PICK y \in ResearchRow : y = research[c] /\ research \in [Researches -> ResearchRow]
  BY DEF CommandInv, CommandsTyped, Researches
<1>5. y.summary = NoCommand /\ y.kernel # "CONFIRMED" /\ y.contract # "CONFIRMED" /\ y.materials = {}
  BY <1>2, <1>3, <1>4 DEF CreationFits, Absent, CommandInv, ResearchFits, Researches
<1>6. UNCHANGED <<kindOf, cmdReceipt, kernelEvents, domainRows>> /\ catalogRevision' \in Nat
  BY DEF CreateInKernel, RegisterInCatalog, DraftContract, CommandInv, CommandsTyped
<1>7. CASE CreateInKernel(c)
  <2>1. PICK x : x = [y EXCEPT !.kernel = "DRAFT"]
    OBVIOUS
  <2>2. x \in ResearchRow /\ x.kernel = "DRAFT" /\ x.summary = NoCommand /\ x.contract = y.contract /\ x.materials = {}
    BY <1>4, <1>5, <2>1 DEF ResearchRow
  <2>3. PICK u : u = [v EXCEPT !.at = "catalog"]
    OBVIOUS
  <2>4. u \in CallRow /\ u.at = "catalog" /\ u.run = c
    BY <1>1, <1>3, <2>3 DEF CallRow, Steps
  <2>5. call' = [call EXCEPT ![c] = u] /\ research' = [research EXCEPT ![c] = x]
    BY <1>1, <1>4, <1>7, <2>1, <2>3 DEF CreateInKernel, GoTo
  <2>6. CreationFits(c, u, x)
    BY <2>2, <2>4 DEF CreationFits
  <2> QED BY <1>1, <1>2, <1>5, <1>6, <2>2, <2>4, <2>5, <2>6, CreationMoves
<1>8. CASE RegisterInCatalog(c)
  <2>1. PICK x : x = [y EXCEPT !.listed = TRUE]
    OBVIOUS
  <2>2. /\ x \in ResearchRow /\ x.kernel = y.kernel /\ x.summary = NoCommand /\ x.contract = y.contract
        /\ x.materials = {} /\ x.listed
    BY <1>4, <1>5, <2>1 DEF ResearchRow
  <2>3. PICK u : u = [v EXCEPT !.at = "draft"]
    OBVIOUS
  <2>4. u \in CallRow /\ u.at = "draft" /\ u.run = c
    BY <1>1, <1>3, <2>3 DEF CallRow, Steps
  <2>5. call' = [call EXCEPT ![c] = u] /\ research' = [research EXCEPT ![c] = x] /\ v.at = "catalog"
    BY <1>1, <1>4, <1>8, <2>1, <2>3 DEF RegisterInCatalog, GoTo
  <2>6. CreationFits(c, u, x)
    BY <1>3, <1>4, <2>2, <2>4, <2>5 DEF CreationFits
  <2> QED BY <1>1, <1>2, <1>5, <1>6, <2>2, <2>4, <2>5, <2>6, CreationMoves
<1>9. CASE DraftContract(c)
  <2>1. PICK x : x = [y EXCEPT !.contract = "DRAFT"]
    OBVIOUS
  <2>2. /\ x \in ResearchRow /\ x.kernel = y.kernel /\ x.summary = NoCommand /\ x.contract = "DRAFT"
        /\ x.materials = {} /\ x.listed = y.listed
    BY <1>4, <1>5, <2>1 DEF ResearchRow
  <2>3. PICK m : m = MaterialsOf[c] /\ m \in Seq(Range(m)) /\ m \in Seq(Items)
    <3>1. MaterialsOf[c] \in Seq(Range(MaterialsOf[c])) /\ Range(MaterialsOf[c]) \subseteq Items
      <4>1. Range(MaterialsOf[c]) \subseteq NamedMaterials
        BY DEF NamedMaterials
      <4> QED BY <4>1, CommandInputs DEF Items
    <3> QED BY <3>1
  <2>4. PICK u : u = [[v EXCEPT !.at = "materials"] EXCEPT !.left = m]
    OBVIOUS
  <2>5. u \in CallRow /\ u.at = "materials" /\ u.run = c /\ u.left = m
    BY <1>1, <1>3, <2>3, <2>4 DEF CallRow, Steps
  <2>6. call' = [call EXCEPT ![c] = u] /\ research' = [research EXCEPT ![c] = x] /\ v.at = "draft"
    BY <1>1, <1>4, <1>9, <2>1, <2>3, <2>4 DEF DraftContract, CommandInv, CommandsTyped
  <2>7. CreationFits(c, u, x)
    BY <1>3, <1>4, <2>2, <2>3, <2>5, <2>6 DEF CreationFits
  <2> QED BY <1>1, <1>2, <1>5, <1>6, <2>2, <2>5, <2>6, <2>7, CreationMoves
<1> QED BY <1>7, <1>8, <1>9

\* A material is bound, or its digest is wrong.
LEMMA BindMaterialStep == ASSUME CommandInv, NEW c \in CommandIds, BindMaterial(c) PROVE CommandInv'
<1>1. PICK v \in CallRow, k \in ImmediateCommands :
         /\ v = call[c] /\ k = kindOf[c]
         /\ Fits(c, k, v, cmdReceipt[c], research[c], research[v.run], EventsOf(c), Written(c))
  BY CallOf
<1>2. v.at = "materials" /\ k = "CREATE_RESEARCH" /\ v.left # << >>
  BY <1>1 DEF BindMaterial, Fits, Creating
<1>3. v.run = c /\ CreationFits(c, v, research[c]) /\ v.expected \in Nat
  BY <1>1, <1>2 DEF Fits, Creating, GlobalScope, CallRow
<1>4. UNCHANGED <<kindOf, cmdReceipt, catalogRevision, kernelEvents, domainRows>> /\ catalogRevision' \in Nat
  BY DEF BindMaterial, CommandInv, CommandsTyped
<1>5. CASE Head(v.left) \in WrongDigest
  <2>1. PICK d \in DecisionRow : /\ d = Rejected("MATERIAL_ARTIFACT_DIGEST_MISMATCH", v.expected)
                                 /\ d.accepted = FALSE /\ d.before = d.after
    BY <1>3, Decisions
  <2> QED BY <1>1, <1>2, <1>4, <1>5, <2>1, RejectStep DEF BindMaterial
<1>6. CASE Head(v.left) \notin WrongDigest
  <2>1. PICK y \in ResearchRow : y = research[c] /\ research \in [Researches -> ResearchRow] /\ c \in Researches
    BY DEF CommandInv, CommandsTyped, Researches
  <2>2. /\ y.summary = NoCommand /\ y.kernel = "DRAFT" /\ y.contract # "CONFIRMED" /\ y.contract # "NONE" /\ y.listed
        /\ v.left \in Seq(Range(MaterialsOf[c])) /\ y.materials \cup Range(v.left) = Range(MaterialsOf[c])
    BY <1>2, <1>3, <2>1 DEF CreationFits, CommandInv, ResearchFits
  <2>3. PICK h, t : h = Head(v.left) /\ t = Tail(v.left)
    OBVIOUS
  <2>4. h \in Range(MaterialsOf[c]) /\ t \in Seq(Range(MaterialsOf[c])) /\ Range(v.left) = {h} \cup Range(t)
    BY <1>2, <2>2, <2>3, HeadAndRest
  <2>5. h \in Items /\ t \in Seq(Items)
    <3>1. v.left \in Seq(Items)
      BY DEF CallRow
    <3> QED BY <1>2, <2>3, <3>1, HeadAndRest
  <2>6. PICK m : m = y.materials \cup {h}
    OBVIOUS
  <2>7. m \subseteq Items /\ m \cup Range(t) = Range(MaterialsOf[c])
    BY <2>1, <2>2, <2>4, <2>5, <2>6 DEF ResearchRow
  <2>8. PICK x : x = [y EXCEPT !.materials = m]
    OBVIOUS
  <2>9. /\ x \in ResearchRow /\ x.kernel = "DRAFT" /\ x.summary = NoCommand /\ x.contract = y.contract
        /\ x.materials = m /\ x.listed
    BY <2>1, <2>2, <2>7, <2>8 DEF ResearchRow
  <2>10. PICK u : u = [v EXCEPT !.left = t]
    OBVIOUS
  <2>11. u \in CallRow /\ u.at = "materials" /\ u.run = c /\ u.left = t
    BY <1>1, <1>2, <1>3, <2>5, <2>10 DEF CallRow
  <2>12. call' = [call EXCEPT ![c] = u]
    BY <1>1, <1>6, <2>3, <2>10 DEF BindMaterial, CommandInv, CommandsTyped
  <2>13. research' = [research EXCEPT ![c] = x]
    BY <1>1, <1>6, <2>1, <2>3, <2>6, <2>8 DEF BindMaterial
  <2>14. CreationFits(c, u, x)
    BY <2>2, <2>4, <2>7, <2>9, <2>11 DEF CreationFits
  <2> QED BY <1>1, <1>2, <1>4, <2>2, <2>9, <2>11, <2>12, <2>13, <2>14, CreationMoves
<1> QED BY <1>5, <1>6

\* The summary row is looked for, and written.
LEMMA SummarizeStep ==
    ASSUME CommandInv, NEW c \in CommandIds, LookForSummary(c) \/ SummarizeNew(c)
    PROVE  CommandInv'
<1>1. PICK v \in CallRow, k \in ImmediateCommands :
         /\ v = call[c] /\ k = kindOf[c]
         /\ Fits(c, k, v, cmdReceipt[c], research[c], research[v.run], EventsOf(c), Written(c))
  BY CallOf
<1>2. v.at \in {"materials", "summarize"} /\ k = "CREATE_RESEARCH"
  BY <1>1 DEF LookForSummary, SummarizeNew, Fits, Creating
<1>3. v.run = c /\ CreationFits(c, v, research[c]) /\ v.expected \in Nat
  BY <1>1, <1>2 DEF Fits, Creating, GlobalScope, CallRow
<1>4. PICK y \in ResearchRow : y = research[c] /\ research \in [Researches -> ResearchRow] /\ c \in Researches
  BY DEF CommandInv, CommandsTyped, Researches
<1>5. y.summary = NoCommand /\ y.kernel = "DRAFT" /\ y.contract # "CONFIRMED" /\ y.contract # "NONE" /\ y.listed
  BY <1>2, <1>3, <1>4 DEF CreationFits, CommandInv, ResearchFits
<1>6. UNCHANGED <<kindOf, cmdReceipt, kernelEvents, domainRows>> /\ catalogRevision' \in Nat /\ catalogRevision + 1 \in Nat
  BY DEF LookForSummary, SummarizeNew, Project, CommandInv, CommandsTyped
<1>7. CASE LookForSummary(c)
  <2>1. v.at = "materials" /\ v.left = << >> /\ GoTo(c, "summarize") /\ research' = research
    BY <1>1, <1>4, <1>5, <1>7 DEF LookForSummary
  <2>2. PICK u : u = [v EXCEPT !.at = "summarize"]
    OBVIOUS
  <2>3. u \in CallRow /\ u.at = "summarize" /\ u.run = c
    BY <1>1, <1>3, <2>2 DEF CallRow, Steps
  <2>4. call' = [call EXCEPT ![c] = u] /\ research' = [research EXCEPT ![c] = y]
    BY <1>1, <1>4, <2>1, <2>2 DEF GoTo
  <2>5. Range(v.left) = {}
    BY <2>1 DEF Range
  <2>6. y.materials = Range(MaterialsOf[c])
    BY <1>3, <1>4, <2>1, <2>5 DEF CreationFits
  <2>7. CreationFits(c, u, y)
    BY <1>5, <2>3, <2>6 DEF CreationFits
  <2> QED BY <1>1, <1>2, <1>4, <1>5, <1>6, <2>3, <2>4, <2>7, CreationMoves
<1>8. CASE SummarizeNew(c)
  <2>1. PICK s : s = [state |-> "CONTRACT_DRAFT", revision |-> 0, recent |-> catalogRevision + 1]
    OBVIOUS
  <2>2. s \in SummaryRow /\ s.state = "CONTRACT_DRAFT" /\ s # NoCommand
    BY <1>6, <2>1, CommandInputs DEF SummaryRow
  <2>3. PICK x : x = [y EXCEPT !.summary = s]
    OBVIOUS
  <2>4. /\ x \in ResearchRow /\ x.kernel = "DRAFT" /\ x.summary = s /\ x.contract = y.contract
        /\ x.materials = y.materials /\ x.listed
    BY <1>4, <1>5, <2>2, <2>3 DEF ResearchRow
  <2>5. PICK d \in DecisionRow : d = Accepted(v.expected, v.expected) /\ d.accepted
    BY <1>3, Decisions
  <2>6. PICK u : u = [[v EXCEPT !.at = "decide"] EXCEPT !.decision = d]
    OBVIOUS
  <2>7. u \in CallRow /\ u.at = "decide" /\ u.run = c /\ u.decision = d
    BY <1>1, <1>3, <2>5, <2>6 DEF CallRow, Steps
  <2>8. call' = [call EXCEPT ![c] = u] /\ v.at = "summarize"
    BY <1>1, <1>8, <2>5, <2>6 DEF SummarizeNew, DecideAs, CommandInv, CommandsTyped
  <2>9. research' = [research EXCEPT ![c] = x]
    BY <1>4, <1>8, <2>1, <2>3 DEF SummarizeNew, Project
  <2>10. x.materials = Range(MaterialsOf[c])
    BY <1>3, <1>4, <2>4, <2>8 DEF CreationFits
  <2>11. CreationFits(c, u, x)
    BY <2>7 DEF CreationFits
  <2>12. Told(c, "CREATE_RESEARCH", u, x, x, {}, Written(c))
    BY <1>5, <2>2, <2>4, <2>5, <2>7, <2>10 DEF Told, KernelRequired, DomainOnly
  <2> QED BY <1>1, <1>2, <1>5, <1>6, <2>2, <2>4, <2>5, <2>7, <2>8, <2>9, <2>11, <2>12, CreationMoves
<1> QED BY <1>7, <1>8

\* A command goes to the kernel, or is refused before.
LEMMA PrepareForKernelStep == ASSUME CommandInv, NEW c \in CommandIds, PrepareForKernel(c) PROVE CommandInv'
<1>1. PICK v \in CallRow, k \in ImmediateCommands :
         /\ v = call[c] /\ k = kindOf[c]
         /\ Fits(c, k, v, cmdReceipt[c], research[c], research[v.run], EventsOf(c), Written(c))
         /\ cmdReceipt[c] \in ReceiptRow \cup {NoCommand}
         /\ cmdReceipt = [cmdReceipt EXCEPT ![c] = cmdReceipt[c]]
         /\ (v.at \notin {"none", "done"} => cmdReceipt[c].state = "PENDING")
  BY CallOf
<1>2. v.at = "handle" /\ k \in KernelRequired /\ v.expected \in Nat
  BY <1>1 DEF PrepareForKernel, CallRow
<1>3. UNCHANGED <<kindOf, cmdReceipt, research, catalogRevision, kernelEvents, domainRows>>
  BY DEF PrepareForKernel
<1>4. \/ \E code \in {"CONTRACT_BINDING_MISSING", "BINDING_MISMATCH"} : DecideAs(c, Rejected(code, v.expected))
      \/ GoTo(c, "kernel")
  BY <1>1 DEF PrepareForKernel
<1>5. CASE \E code \in {"CONTRACT_BINDING_MISSING", "BINDING_MISMATCH"} : DecideAs(c, Rejected(code, v.expected))
  <2>1. PICK d \in DecisionRow : DecideAs(c, d) /\ d.accepted = FALSE /\ d.before = d.after
    BY <1>2, <1>5, Decisions
  <2> QED BY <1>1, <1>2, <1>3, <2>1, RejectStep
<1>6. CASE GoTo(c, "kernel")
  <2>1. PICK u : u = [v EXCEPT !.at = "kernel"]
    OBVIOUS
  <2>2. u \in CallRow /\ u.at = "kernel" /\ u.run = v.run
    BY <1>1, <2>1 DEF CallRow, Steps
  <2>3. call' = [call EXCEPT ![c] = u] /\ k \notin Creating
    BY <1>1, <1>2, <1>6, <2>1 DEF GoTo, Creating, KernelRequired
  <2>4. Fits(c, k, u, cmdReceipt[c], research[c], research[u.run], EventsOf(c), Written(c))
    BY <1>1, <1>2, <2>2, <2>3 DEF Fits
  <2> QED BY <1>1, <1>3, <2>2, <2>3, <2>4, OnlyCallMoves
<1> QED BY <1>4, <1>5, <1>6

\* The kernel refuses: no event, and a rejection at the revision the kernel is at.
LEMMA KernelRejectsStep == ASSUME CommandInv, NEW c \in CommandIds, KernelRejects(c) PROVE CommandInv'
<1>1. PICK v \in CallRow, k \in ImmediateCommands :
         /\ v = call[c] /\ k = kindOf[c]
         /\ Fits(c, k, v, cmdReceipt[c], research[c], research[v.run], EventsOf(c), Written(c))
  BY CallOf
<1>2. v.at = "kernel" /\ v.run \in Researches
  BY <1>1 DEF KernelRejects, Fits
<1>3. PICK n \in Nat : n = research[v.run].revision
  BY <1>2, CommandInputs DEF CommandInv, CommandsTyped, ResearchRow
<1>4. PICK d \in DecisionRow : d = Rejected("KERNEL_REJECTED", n) /\ d.accepted = FALSE /\ d.before = d.after
  BY Decisions
<1>5. DecideAs(c, d) /\ UNCHANGED <<kindOf, cmdReceipt, research, catalogRevision, kernelEvents, domainRows>>
  BY <1>1, <1>3, <1>4 DEF KernelRejects
<1> QED BY <1>1, <1>2, <1>4, <1>5, RejectStep

\* The one kernel event of a command.
LEMMA KernelAcceptsStep == ASSUME CommandInv, NEW c \in CommandIds, KernelAccepts(c) PROVE CommandInv'
<1>1. PICK v \in CallRow, k \in ImmediateCommands :
         /\ v = call[c] /\ k = kindOf[c]
         /\ Fits(c, k, v, cmdReceipt[c], research[c], research[v.run], EventsOf(c), Written(c))
         /\ (v.at \notin {"none", "done"} => cmdReceipt[c].state = "PENDING")
  BY CallOf
<1>2. v.at = "kernel" /\ k \in KernelRequired /\ v.expected \in Nat /\ EventsOf(c) = {}
  BY <1>1 DEF KernelAccepts, CallRow, Fits
<1>3. k \notin GlobalScope /\ k \notin Creating /\ k \notin DomainOnly
  BY <1>2 DEF KernelRequired, GlobalScope, Creating, DomainOnly
<1>4. PICK r \in Researches : r = v.run /\ research[r].summary # NoCommand
  BY <1>1, <1>2, <1>3 DEF Fits
<1>5. PICK y \in ResearchRow : y = research[r] /\ ResearchFits(y) /\ research \in [Researches -> ResearchRow]
  BY DEF CommandInv, CommandsTyped
<1>6. PICK n \in 0 .. MaxKernelRevision : n = y.revision + 1 /\ n = v.expected + 1 /\ n \in Nat
  BY <1>1, <1>4, <1>5, CommandInputs DEF KernelAccepts, ResearchRow
<1>7. PICK s : s = (IF k = "CONFIRM_CONTRACT" THEN "CONFIRMED" ELSE y.kernel)
  OBVIOUS
<1>8. PICK x : x = [[y EXCEPT !.revision = n] EXCEPT !.kernel = s]
  OBVIOUS
<1>9. /\ x \in ResearchRow /\ x.kernel = s /\ x.contract = y.contract /\ x.summary = y.summary
      /\ x.listed = y.listed /\ x.materials = y.materials
  BY <1>5, <1>6, <1>7, <1>8 DEF ResearchRow
<1>10. ResearchFits(x) /\ RowGrows(y, x) /\ RowSpared(y, x)
  BY <1>4, <1>5, <1>7, <1>9 DEF ResearchFits, RowGrows, RowSpared
<1>11. research' = [research EXCEPT ![r] = x]
  BY <1>1, <1>4, <1>5, <1>6, <1>7, <1>8 DEF KernelAccepts
<1>12. PICK e : e = [command |-> c, run |-> r, revision |-> n]
  OBVIOUS
<1>13. kernelEvents' = kernelEvents \cup {e} /\ e.command = c
  BY <1>1, <1>4, <1>5, <1>6, <1>12 DEF KernelAccepts
<1>14. EventsOf(c)' = {e}
  BY <1>2, <1>13 DEF EventsOf
<1>15. \A q \in CommandIds \ {c} : EventsOf(q)' = EventsOf(q)
  BY <1>13 DEF EventsOf
<1>16. UNCHANGED <<kindOf, cmdReceipt, domainRows>> /\ catalogRevision' \in Nat
  BY DEF KernelAccepts, CommandInv, CommandsTyped
<1>17. research'[r] = x
  BY <1>5, <1>11
<1>18. CASE k = "CONFIRM_CONTRACT"
  <2>1. PICK u : u = [v EXCEPT !.at = "follow"]
    OBVIOUS
  <2>2. u \in CallRow /\ u.at = "follow" /\ u.run = r /\ u.expected = v.expected
    BY <1>1, <1>4, <2>1 DEF CallRow, Steps
  <2>3. call' = [call EXCEPT ![c] = u]
    BY <1>1, <1>18, <2>1 DEF KernelAccepts, GoTo
  <2>4. {e} = {EventOf(c, u, u.expected + 1)}
    BY <1>6, <1>12, <2>2 DEF EventOf
  <2>5. Fits(c, k, u, cmdReceipt[c], research'[c], x, {e}, Written(c))
    BY <1>1, <1>2, <1>3, <1>4, <1>5, <1>7, <1>9, <1>18, <2>2, <2>4 DEF Fits
  <2> QED BY <1>1, <1>5, <1>9, <1>10, <1>11, <1>14, <1>15, <1>16, <1>17, <2>2, <2>3, <2>5, RowMoves
<1>19. CASE k # "CONFIRM_CONTRACT"
  <2>1. PICK d \in DecisionRow : d = Accepted(v.expected, n) /\ d.accepted /\ d.before = v.expected /\ d.after = n
    BY <1>2, <1>6, Decisions
  <2>2. PICK u : u = [[v EXCEPT !.at = "decide"] EXCEPT !.decision = d]
    OBVIOUS
  <2>3. u \in CallRow /\ u.at = "decide" /\ u.run = r /\ u.decision = d
    BY <1>1, <1>4, <2>1, <2>2 DEF CallRow, Steps
  <2>4. call' = [call EXCEPT ![c] = u]
    <3>1. DecideAs(c, d)
      BY <1>1, <1>4, <1>5, <1>6, <1>19, <2>1 DEF KernelAccepts
    <3> QED BY <1>1, <2>2, <3>1 DEF DecideAs, CommandInv, CommandsTyped
  <2>5. {e} = {EventOf(c, u, u.decision.after)} /\ u.decision.after = u.decision.before + 1
    BY <1>6, <1>12, <2>1, <2>3 DEF EventOf
  <2>6. Told(c, k, u, research'[c], x, {e}, Written(c))
    BY <1>3, <1>19, <2>1, <2>3, <2>5 DEF Told
  <2>7. Fits(c, k, u, cmdReceipt[c], research'[c], x, {e}, Written(c))
    BY <1>1, <1>2, <1>3, <2>3, <2>6 DEF Fits
  <2>8. /\ u \in CallRow /\ x \in ResearchRow /\ k = kindOf[c]
        /\ ResearchFits(x) /\ RowGrows(research[r], x) /\ RowSpared(research[r], x)
        /\ x = research'[u.run] /\ {e} = EventsOf(c)'
    BY <1>1, <1>5, <1>9, <1>10, <1>14, <1>17, <2>3
  <2>9. Fits(c, kindOf[c], u, cmdReceipt[c], research'[c], research'[u.run], EventsOf(c)', Written(c))
    BY <2>7, <2>8
  <2> QED BY <1>11, <1>15, <1>16, <2>4, <2>8, <2>9, RowMoves
<1> QED BY <1>18, <1>19

\* The product's contract and its summary follow the kernel.
LEMMA ConfirmStep ==
    ASSUME CommandInv, NEW c \in CommandIds, ConfirmProduct(c) \/ SummarizeConfirmed(c)
    PROVE  CommandInv'
<1>1. PICK v \in CallRow, k \in ImmediateCommands :
         /\ v = call[c] /\ k = kindOf[c]
         /\ Fits(c, k, v, cmdReceipt[c], research[c], research[v.run], EventsOf(c), Written(c))
         /\ (v.at \notin {"none", "done"} => cmdReceipt[c].state = "PENDING")
  BY CallOf
<1>2. v.at \in {"follow", "summarize"} /\ k = "CONFIRM_CONTRACT" /\ v.expected \in Nat
  BY <1>1 DEF ConfirmProduct, SummarizeConfirmed, CallRow
<1>3. k \notin GlobalScope /\ k \notin Creating /\ k \notin DomainOnly /\ k \in KernelRequired
  BY <1>2 DEF KernelRequired, GlobalScope, Creating, DomainOnly
<1>4. PICK r \in Researches : /\ r = v.run /\ research[r].summary # NoCommand /\ research[r].kernel = "CONFIRMED"
                              /\ EventsOf(c) = {EventOf(c, v, v.expected + 1)}
                              /\ v.at = "summarize" => research[r].contract = "CONFIRMED"
  BY <1>1, <1>2, <1>3 DEF Fits
<1>5. PICK y \in ResearchRow : y = research[r] /\ ResearchFits(y) /\ research \in [Researches -> ResearchRow]
  BY DEF CommandInv, CommandsTyped
<1>6. UNCHANGED <<kindOf, cmdReceipt, kernelEvents, domainRows>> /\ catalogRevision' \in Nat /\ catalogRevision + 1 \in Nat
  BY DEF ConfirmProduct, SummarizeConfirmed, Project, CommandInv, CommandsTyped
<1>7. \A q \in CommandIds : EventsOf(q)' = EventsOf(q)
  BY <1>6 DEF EventsOf
<1>8. CASE ConfirmProduct(c)
  <2>1. PICK x : x = [y EXCEPT !.contract = "CONFIRMED"]
    OBVIOUS
  <2>2. /\ x \in ResearchRow /\ x.kernel = y.kernel /\ x.contract = "CONFIRMED" /\ x.summary = y.summary
        /\ x.listed = y.listed /\ x.materials = y.materials
    BY <1>5, <2>1 DEF ResearchRow
  <2>3. ResearchFits(x) /\ RowGrows(y, x) /\ RowSpared(y, x)
    BY <1>4, <1>5, <2>2 DEF ResearchFits, RowGrows, RowSpared
  <2>4. research' = [research EXCEPT ![r] = x]
    BY <1>1, <1>4, <1>5, <1>8, <2>1 DEF ConfirmProduct
  <2>5. PICK u : u = [v EXCEPT !.at = "summarize"]
    OBVIOUS
  <2>6. u \in CallRow /\ u.at = "summarize" /\ u.run = r /\ u.expected = v.expected
    BY <1>1, <1>4, <2>5 DEF CallRow, Steps
  <2>7. call' = [call EXCEPT ![c] = u] /\ research'[r] = x
    BY <1>1, <1>5, <1>8, <2>4, <2>5 DEF ConfirmProduct, GoTo
  <2>8. EventsOf(c) = {EventOf(c, u, u.expected + 1)}
    BY <1>4, <2>6 DEF EventOf
  <2>9. Fits(c, k, u, cmdReceipt[c], research'[c], x, EventsOf(c), Written(c))
    BY <1>1, <1>2, <1>3, <1>4, <1>5, <2>2, <2>6, <2>8 DEF Fits
  <2> QED BY <1>1, <1>5, <1>6, <1>7, <2>2, <2>3, <2>4, <2>6, <2>7, <2>9, RowMoves
<1>9. CASE SummarizeConfirmed(c)
  <2>1. PICK s : s = [state |-> "CONTRACT_CONFIRMED", revision |-> v.expected + 1, recent |-> catalogRevision + 1]
    OBVIOUS
  <2>2. s \in SummaryRow /\ s # NoCommand
    BY <1>2, <1>6, <2>1, CommandInputs DEF SummaryRow
  <2>3. PICK x : x = [y EXCEPT !.summary = s]
    OBVIOUS
  <2>4. /\ x \in ResearchRow /\ x.kernel = y.kernel /\ x.contract = y.contract /\ x.summary = s
        /\ x.listed = y.listed /\ x.materials = y.materials
    BY <1>5, <2>2, <2>3 DEF ResearchRow
  <2>5. v.at = "summarize" /\ research' = [research EXCEPT ![r] = x]
    BY <1>1, <1>4, <1>5, <1>9, <2>1, <2>3 DEF SummarizeConfirmed, Project
  <2>6. ResearchFits(x) /\ RowGrows(y, x) /\ RowSpared(y, x)
    BY <1>4, <1>5, <2>2, <2>4, <2>5 DEF ResearchFits, RowGrows, RowSpared
  <2>7. PICK n \in Nat : n = v.expected + 1
    BY <1>2
  <2>8. PICK d \in DecisionRow : d = Accepted(v.expected, n) /\ d.accepted /\ d.before = v.expected /\ d.after = n
    BY <1>2, Decisions
  <2>9. PICK u : u = [[v EXCEPT !.at = "decide"] EXCEPT !.decision = d]
    OBVIOUS
  <2>10. u \in CallRow /\ u.at = "decide" /\ u.run = r /\ u.decision = d
    BY <1>1, <1>4, <2>8, <2>9 DEF CallRow, Steps
  <2>11. call' = [call EXCEPT ![c] = u] /\ research'[r] = x
    BY <1>1, <1>5, <1>9, <2>5, <2>7, <2>8, <2>9 DEF SummarizeConfirmed, DecideAs, CommandInv, CommandsTyped
  <2>12. EventsOf(c) = {EventOf(c, u, u.decision.after)} /\ u.decision.after = u.decision.before + 1
    BY <1>4, <2>7, <2>8, <2>10 DEF EventOf
  <2>13. Told(c, k, u, research'[c], x, EventsOf(c), Written(c))
    BY <1>3, <1>4, <1>5, <2>4, <2>5, <2>8, <2>10, <2>12 DEF Told
  <2>14. Fits(c, k, u, cmdReceipt[c], research'[c], x, EventsOf(c), Written(c))
    BY <1>1, <1>2, <1>3, <2>8, <2>10, <2>13 DEF Fits
  <2> QED BY <1>1, <1>5, <1>6, <1>7, <2>4, <2>5, <2>6, <2>10, <2>11, <2>14, RowMoves
<1> QED BY <1>8, <1>9

\* Another writer of the kernel moves the revision on.
LEMMA LifecycleStep == ASSUME CommandInv, NEW r \in Researches, LifecycleMoves(r) PROVE CommandInv'
<1>1. PICK y \in ResearchRow : y = research[r] /\ ResearchFits(y) /\ research \in [Researches -> ResearchRow]
  BY DEF CommandInv, CommandsTyped
<1>2. PICK n \in 0 .. MaxKernelRevision : n = y.revision + 1
  BY <1>1, CommandInputs DEF LifecycleMoves, ResearchRow
<1>3. PICK x : x = [y EXCEPT !.revision = n]
  OBVIOUS
<1>4. /\ x \in ResearchRow /\ x.kernel = y.kernel /\ x.contract = y.contract /\ x.summary = y.summary
      /\ x.listed = y.listed /\ x.materials = y.materials
  BY <1>1, <1>3 DEF ResearchRow
<1>5. y.kernel = "CONFIRMED" /\ y.summary # NoCommand
  BY <1>1 DEF LifecycleMoves, ResearchFits
<1>6. ResearchFits(x) /\ RowGrows(y, x) /\ RowSpared(y, x)
  BY <1>1, <1>4, <1>5 DEF ResearchFits, RowGrows, RowSpared
<1>7. /\ research' = [research EXCEPT ![r] = x]
      /\ UNCHANGED <<kindOf, cmdReceipt, call, catalogRevision, kernelEvents, domainRows>>
  BY <1>1, <1>2, <1>3 DEF LifecycleMoves
<1>8. research'[r] = x /\ \A q \in Researches \ {r} : research'[q] = research[q]
  BY <1>1, <1>7
<1>9. CommandsTyped'
  BY <1>1, <1>4, <1>7 DEF CommandInv, CommandsTyped
<1>10. ASSUME NEW q \in Researches
       PROVE  ResearchFits(research'[q]) /\ RowGrows(research[q], research'[q]) /\ RowSpared(research[q], research'[q])
  <2>1. CASE q = r
    BY <1>1, <1>6, <1>8, <2>1
  <2>2. CASE q # r
    <3>1. research'[q] = research[q]
      BY <1>8, <2>2
    <3> QED BY <3>1 DEF CommandInv, RowGrows, RowSpared
  <2> QED BY <2>1, <2>2
<1>11. ASSUME NEW c \in CommandIds PROVE CallFits(c)'
  <2>1. PICK v \in CallRow, k \in ImmediateCommands :
           /\ v = call[c] /\ k = kindOf[c] /\ v = call'[c] /\ k = kindOf'[c]
           /\ Fits(c, k, v, cmdReceipt[c], research[c], research[v.run], EventsOf(c), Written(c))
    BY <1>7, CallOf
  <2>2. c \in Researches /\ RowSpared(research[c], research'[c])
    BY <1>10 DEF Researches
  <2>3. Fits(c, k, v, cmdReceipt[c], research'[c], research'[v.run], EventsOf(c), Written(c))
    <3>1. CASE v.run \in Researches
      BY <1>10, <2>1, <2>2, <3>1, FitsStays
    <3>2. CASE v.run \notin Researches
      <4>1. v.at = "none"
        BY <2>1, <3>2 DEF Fits
      <4>2. k \in Creating => CreationFits(c, v, research'[c])
        BY <2>1, <2>2, <4>1 DEF Fits, RowSpared, CreationFits, Absent
      <4> QED BY <2>1, <4>1, <4>2 DEF Fits
    <3> QED BY <3>1, <3>2
  <2>4. EventsOf(c)' = EventsOf(c) /\ Written(c)' = Written(c)
    BY <1>7 DEF EventsOf, Written
  <2> QED BY <1>7, <2>1, <2>3, <2>4 DEF CallFits, Fits, Told, CreationFits, EventOf, RowsFor
<1>12. \A q \in Researches : ResearchFits(research[q])'
  BY <1>10 DEF ResearchFits
<1> QED BY <1>9, <1>11, <1>12 DEF CommandInv

\* A store is asked, or the command is refused before.
LEMMA PrepareForDomainStep == ASSUME CommandInv, NEW c \in CommandIds, PrepareForDomain(c) PROVE CommandInv'
<1>1. PICK v \in CallRow, k \in ImmediateCommands :
         /\ v = call[c] /\ k = kindOf[c]
         /\ Fits(c, k, v, cmdReceipt[c], research[c], research[v.run], EventsOf(c), Written(c))
         /\ cmdReceipt[c] \in ReceiptRow \cup {NoCommand}
         /\ cmdReceipt = [cmdReceipt EXCEPT ![c] = cmdReceipt[c]]
         /\ (v.at \notin {"none", "done"} => cmdReceipt[c].state = "PENDING")
  BY CallOf
<1>2. v.at = "handle" /\ k \in DomainOnly /\ v.expected \in Nat /\ RowsOf(c) = RowsFor(c, k)
  BY <1>1 DEF PrepareForDomain, CallRow, RowsOf, RowsFor
<1>3. UNCHANGED <<kindOf, cmdReceipt, research, catalogRevision, kernelEvents, domainRows>>
  BY DEF PrepareForDomain
<1>4. \/ \E code \in {"BINDING_MISMATCH", "GUIDANCE_ROUTE_REQUIRED"} : DecideAs(c, Rejected(code, v.expected))
      \/ call' = [call EXCEPT ![c].at = "rows", ![c].left = RowsOf(c)]
  BY <1>1 DEF PrepareForDomain
<1>5. CASE \E code \in {"BINDING_MISMATCH", "GUIDANCE_ROUTE_REQUIRED"} : DecideAs(c, Rejected(code, v.expected))
  <2>1. PICK d \in DecisionRow : DecideAs(c, d) /\ d.accepted = FALSE /\ d.before = d.after
    BY <1>2, <1>5, Decisions
  <2> QED BY <1>1, <1>2, <1>3, <2>1, RejectStep
<1>6. CASE call' = [call EXCEPT ![c].at = "rows", ![c].left = RowsOf(c)]
  <2>1. PICK m : m = RowsFor(c, k) /\ m \in Seq(Range(m)) /\ m \in Seq(Items)
    <3>1. CASE k = "SUBMIT_GUIDANCE"
      <4>1. PICK R : R = Range(RoutesOf[c])
        OBVIOUS
      <4>2. RoutesOf[c] \in Seq(R)
        BY <4>1, CommandInputs
      <4>3. R \in {Range(RoutesOf[d]) : d \in CommandIds}
        BY <4>1
      <4>4. R \subseteq Items
        <5>1. R \subseteq NamedRoutes
          BY <4>3 DEF NamedRoutes
        <5> QED BY <5>1 DEF Items
      <4>5. RoutesOf[c] \in Seq(Items)
        BY <4>2, <4>4
      <4> QED BY <3>1, <4>1, <4>2, <4>5 DEF RowsFor
    <3>2. CASE k # "SUBMIT_GUIDANCE"
      <4>1. c \in Items
        BY DEF Items
      <4>2. PICK n : n = <<c>> /\ n \in Seq({c}) /\ n \in Seq(Items)
        <5>1. <<c>> \in Seq({c})
          OBVIOUS
        <5>2. <<c>> \in Seq(Items)
          BY <4>1
        <5> QED BY <5>1, <5>2
      <4>3. Range(<<c>>) = {c}
        BY DEF Range
      <4>4. n \in Seq(Range(n))
        BY <4>2, <4>3
      <4> QED BY <3>2, <4>2, <4>4 DEF RowsFor
    <3> QED BY <3>1, <3>2
  <2>2. PICK u : u = [[v EXCEPT !.at = "rows"] EXCEPT !.left = m]
    OBVIOUS
  <2>3. u \in CallRow /\ u.at = "rows" /\ u.run = v.run /\ u.left = m
    BY <1>1, <2>1, <2>2 DEF CallRow, Steps
  <2>4. call' = [call EXCEPT ![c] = u] /\ k \notin Creating /\ k # "CONFIRM_CONTRACT"
    BY <1>1, <1>2, <1>6, <2>1, <2>2 DEF Creating, DomainOnly, CommandInv, CommandsTyped
  <2>5. Fits(c, k, u, cmdReceipt[c], research[c], research[u.run], EventsOf(c), Written(c))
    BY <1>1, <1>2, <2>1, <2>3, <2>4 DEF Fits
  <2> QED BY <1>1, <1>3, <2>3, <2>4, <2>5, OnlyCallMoves
<1> QED BY <1>4, <1>5, <1>6

\* A store writes a row, or raises.
LEMMA WriteRowStep == ASSUME CommandInv, NEW c \in CommandIds, WriteRow(c) PROVE CommandInv'
<1>1. PICK v \in CallRow, k \in ImmediateCommands :
         /\ v = call[c] /\ k = kindOf[c]
         /\ Fits(c, k, v, cmdReceipt[c], research[c], research[v.run], EventsOf(c), Written(c))
         /\ cmdReceipt[c] \in ReceiptRow \cup {NoCommand}
         /\ cmdReceipt = [cmdReceipt EXCEPT ![c] = cmdReceipt[c]]
         /\ (v.at \notin {"none", "done"} => cmdReceipt[c].state = "PENDING")
  BY CallOf
<1>2. /\ v.at = "rows" /\ k \in DomainOnly /\ v.left # << >>
      /\ v.left \in Seq(Range(RowsFor(c, k))) /\ Written(c) \cup Range(v.left) = Range(RowsFor(c, k))
  BY <1>1 DEF WriteRow, Fits
<1>3. UNCHANGED <<kindOf, cmdReceipt, research, catalogRevision, kernelEvents>>
  BY DEF WriteRow
<1>4. CASE GoTo(c, "raised") /\ UNCHANGED domainRows
  BY <1>1, <1>2, <1>3, <1>4, StopStep
<1>5. CASE domainRows' = domainRows \cup {<<c, Head(v.left)>>} /\ call' = [call EXCEPT ![c].left = Tail(@)]
  <2>1. PICK h, t : h = Head(v.left) /\ t = Tail(v.left)
    OBVIOUS
  <2>2. h \in Range(RowsFor(c, k)) /\ t \in Seq(Range(RowsFor(c, k))) /\ Range(v.left) = {h} \cup Range(t)
    BY <1>2, <2>1, HeadAndRest
  <2>3. t \in Seq(Items)
    <3>1. v.left \in Seq(Items)
      BY DEF CallRow
    <3> QED BY <1>2, <2>1, <3>1, HeadAndRest
  <2>4. PICK u : u = [v EXCEPT !.left = t]
    OBVIOUS
  <2>5. u \in CallRow /\ u.at = "rows" /\ u.run = v.run /\ u.left = t
    BY <1>1, <1>2, <2>3, <2>4 DEF CallRow
  <2>6. call' = [call EXCEPT ![c] = u] /\ k \notin Creating /\ k # "CONFIRM_CONTRACT"
    BY <1>1, <1>2, <1>5, <2>1, <2>4 DEF Creating, DomainOnly, CommandInv, CommandsTyped
  <2>7. domainRows' = domainRows \cup {<<c, h>>}
    BY <1>5, <2>1
  <2>8. Written(c)' = Written(c) \cup {h}
    <3>1. ASSUME NEW y PROVE y \in Written(c) <=> <<c, y>> \in domainRows
      BY DEF CommandInv, CommandsTyped, Written
    <3>2. ASSUME NEW y PROVE (y \in Written(c)') <=> <<c, y>> \in domainRows'
      <4>1. PICK W : domainRows \subseteq CommandIds \X W
        BY DEF CommandInv, CommandsTyped
      <4>2. domainRows' \subseteq CommandIds \X (W \cup {h})
        BY <2>7, <4>1
      <4> QED BY <4>2 DEF Written
    <3> QED BY <2>7, <3>1, <3>2
  <2>9. \A q \in CommandIds \ {c} : EventsOf(q)' = EventsOf(q) /\ Written(q)' = Written(q)
    BY <1>3, <2>7 DEF Written, EventsOf
  <2>10. EventsOf(c)' = EventsOf(c)
    BY <1>3 DEF EventsOf
  <2>11. Fits(c, k, u, cmdReceipt[c], research[c], research[u.run], EventsOf(c), Written(c) \cup {h})
    <3>1. (Written(c) \cup {h}) \cup Range(t) = Range(RowsFor(c, k))
      BY <1>2, <2>2
    <3> QED BY <1>1, <1>2, <2>2, <2>5, <2>6, <3>1 DEF Fits
  <2>12. CommandsTyped'
    <3>1. h \in CommandIds \cup UNION {Range(RoutesOf[d]) : d \in CommandIds}
      <4>1. CASE k = "SUBMIT_GUIDANCE"
        BY <2>2, <4>1 DEF RowsFor
      <4>2. CASE k # "SUBMIT_GUIDANCE"
        <5>1. Range(<<c>>) = {c}
          BY DEF Range
        <5> QED BY <2>2, <4>2, <5>1 DEF RowsFor
      <4> QED BY <4>1, <4>2
    <3>2. domainRows' \subseteq CommandIds \X (CommandIds \cup UNION {Range(RoutesOf[d]) : d \in CommandIds})
      BY <2>7, <3>1 DEF CommandInv, CommandsTyped
    <3>3. call' \in [CommandIds -> CallRow]
      BY <2>5, <2>6 DEF CommandInv, CommandsTyped
    <3> QED BY <1>3, <3>2, <3>3 DEF CommandInv, CommandsTyped
  <2>13. \A r \in Researches : ResearchFits(research'[r]) /\ RowGrows(research[r], research'[r])
    BY <1>3 DEF CommandInv, RowGrows
  <2>14. \A q \in CommandIds \ {c} : RowSpared(research[q], research'[q])
    BY <1>3 DEF RowSpared
  <2>15. Fits(c, kindOf[c], u, cmdReceipt[c], research'[c], research'[u.run], EventsOf(c)', Written(c)')
    BY <1>1, <1>3, <2>8, <2>10, <2>11
  <2>16. cmdReceipt' = [cmdReceipt EXCEPT ![c] = cmdReceipt[c]] /\ kindOf' = kindOf
    BY <1>1, <1>3
  <2> QED BY <1>1, <2>5, <2>6, <2>9, <2>12, <2>13, <2>14, <2>15, <2>16, OneCallMoves
<1> QED BY <1>1, <1>4, <1>5 DEF WriteRow, Raises, GoTo

\* All rows are written.
LEMMA AnswerDomainStep == ASSUME CommandInv, NEW c \in CommandIds, AnswerDomain(c) PROVE CommandInv'
<1>1. PICK v \in CallRow, k \in ImmediateCommands :
         /\ v = call[c] /\ k = kindOf[c]
         /\ Fits(c, k, v, cmdReceipt[c], research[c], research[v.run], EventsOf(c), Written(c))
         /\ cmdReceipt[c] \in ReceiptRow \cup {NoCommand}
         /\ cmdReceipt = [cmdReceipt EXCEPT ![c] = cmdReceipt[c]]
         /\ (v.at \notin {"none", "done"} => cmdReceipt[c].state = "PENDING")
  BY CallOf
<1>2. /\ v.at = "rows" /\ k \in DomainOnly /\ v.left = << >> /\ v.expected \in Nat
      /\ Written(c) \cup Range(v.left) = Range(RowsFor(c, k)) /\ EventsOf(c) = {}
  BY <1>1 DEF AnswerDomain, Fits, CallRow
<1>3. UNCHANGED <<kindOf, cmdReceipt, research, catalogRevision, kernelEvents, domainRows>>
  BY DEF AnswerDomain
<1>4. CASE DecideAs(c, Rejected("PROBLEM_POOL_DENOMINATOR_MISMATCH", v.expected))
  <2>1. PICK d \in DecisionRow : DecideAs(c, d) /\ d.accepted = FALSE /\ d.before = d.after
    BY <1>2, <1>4, Decisions
  <2> QED BY <1>1, <1>2, <1>3, <2>1, RejectStep
<1>5. CASE DecideAs(c, Accepted(v.expected, v.expected))
  <2>1. PICK d \in DecisionRow : d = Accepted(v.expected, v.expected) /\ d.accepted /\ d.before = d.after
    BY <1>2, Decisions
  <2>2. PICK u : u = [[v EXCEPT !.at = "decide"] EXCEPT !.decision = d]
    OBVIOUS
  <2>3. u \in CallRow /\ u.at = "decide" /\ u.run = v.run /\ u.decision = d
    BY <1>1, <2>1, <2>2 DEF CallRow, Steps
  <2>4. call' = [call EXCEPT ![c] = u] /\ k \notin Creating /\ k \notin KernelRequired
    BY <1>1, <1>2, <1>5, <2>1, <2>2 DEF DecideAs, Creating, KernelRequired, DomainOnly, CommandInv, CommandsTyped
  <2>5. Range(v.left) = {}
    BY <1>2 DEF Range
  <2>6. Told(c, k, u, research[c], research[u.run], EventsOf(c), Written(c))
    BY <1>2, <2>1, <2>3, <2>4, <2>5 DEF Told
  <2>7. Fits(c, k, u, cmdReceipt[c], research[c], research[u.run], EventsOf(c), Written(c))
    BY <1>1, <1>2, <2>3, <2>4, <2>6 DEF Fits
  <2> QED BY <1>1, <1>3, <2>3, <2>4, <2>7, OnlyCallMoves
<1> QED BY <1>1, <1>4, <1>5 DEF AnswerDomain

\* No command has been submitted: only the standing researches have rows.
LEMMA CommandsInitially == CommandInit => CommandInv
<1> SUFFICES ASSUME CommandInit PROVE CommandInv
  OBVIOUS
<1>1. PICK e : e = << >> /\ e \in Seq(Items)
  BY EmptySeq
<1>2. PICK w : w = NotCalled /\ w \in CallRow /\ w.at = "none"
  <2>1. NotCalled = [at |-> "none", run |-> NoCommand, expected |-> 0, version |-> 0, role |-> NoCommand,
                     left |-> e, decision |-> NoCommand]
    BY <1>1 DEF NotCalled
  <2>2. "none" \in Steps
    BY DEF Steps
  <2>3. NotCalled \in CallRow
    BY <1>1, <2>1, <2>2 DEF CallRow
  <2>4. NotCalled.at = "none"
    BY <2>1
  <2> QED BY <2>3, <2>4
<1>3. Absent \in ResearchRow /\ ResearchFits(Absent)
  BY CommandInputs DEF Absent, ResearchRow, ResearchFits
<1>4. Drafted \in ResearchRow /\ ResearchFits(Drafted)
  BY CommandInputs DEF Drafted, ResearchRow, ResearchFits, SummaryRow
<1>5. \A r \in Researches : research[r] \in ResearchRow /\ ResearchFits(research[r])
  BY <1>3, <1>4 DEF CommandInit
<1>6. research \in [Researches -> ResearchRow] /\ call \in [CommandIds -> CallRow]
  BY <1>2, <1>3, <1>4 DEF CommandInit
<1>7. catalogRevision \in Nat
  BY CommandInputs, FS_CardinalityType DEF CommandInit
<1>8. CommandsTyped
  BY <1>6, <1>7, CommandInputs DEF CommandInit, CommandsTyped
<1>9. ASSUME NEW c \in CommandIds PROVE CallFits(c)
  <2>1. call[c] = w /\ cmdReceipt[c] = NoCommand /\ research[c] = Absent /\ EventsOf(c) = {} /\ Written(c) = {}
    BY <1>2, CommandInputs DEF CommandInit, EventsOf, Written, Researches
  <2>2. CreationFits(c, w, Absent)
    BY <1>2 DEF CreationFits
  <2>3. Fits(c, kindOf[c], w, NoCommand, Absent, research[w.run], {}, {})
    BY <1>2, <2>2 DEF Fits
  <2> QED BY <2>1, <2>3 DEF CallFits
<1> QED BY <1>5, <1>8, <1>9 DEF CommandInv

\* Every step of a client, of the service, of the kernel's other writers and of a reader.
LEMMA CommandsInductive == CommandInv /\ [CommandNext]_commandVars => CommandInv'
<1> SUFFICES ASSUME CommandInv, [CommandNext]_commandVars PROVE CommandInv'
  OBVIOUS
<1>1. ASSUME UNCHANGED <<kindOf, cmdReceipt, call, research, catalogRevision, kernelEvents, domainRows>>
      PROVE  CommandInv'
  <2>1. CommandsTyped' /\ \A r \in Researches : ResearchFits(research[r])'
    BY <1>1 DEF CommandInv, CommandsTyped, ResearchFits
  <2>2. ASSUME NEW c \in CommandIds PROVE CallFits(c)'
    <3>1. CallFits(c) /\ EventsOf(c)' = EventsOf(c) /\ Written(c)' = Written(c)
      BY <1>1 DEF CommandInv, EventsOf, Written
    <3> QED BY <1>1, <3>1 DEF CallFits, Fits, Told, CreationFits, EventOf, RowsFor
  <2> QED BY <2>1, <2>2 DEF CommandInv
<1>2. CASE UNCHANGED commandVars
  BY <1>1, <1>2 DEF commandVars
<1>3. ASSUME NEW d \in CatalogReaders, ListFirst(d) \/ ListNext(d) PROVE CommandInv'
  BY <1>1, <1>3 DEF ListFirst, ListNext
<1>4. ASSUME NEW c \in CommandIds, CallDies(c) PROVE CommandInv'
  BY <1>4, StopStep DEF CallDies
<1>5. CASE CommandNext
  BY <1>3, <1>4, <1>5, SubmitStep, AuthorizeStep, RecordDecisionStep, CreateStep, BindMaterialStep, SummarizeStep,
     PrepareForKernelStep, KernelAcceptsStep, KernelRejectsStep, ConfirmStep, PrepareForDomainStep, WriteRowStep,
     AnswerDomainStep, LifecycleStep DEF CommandNext
<1> QED BY <1>2, <1>5

\* The invariant says what the receipts tell.
LEMMA ReceiptsFit == CommandInv => ReceiptsTellWhatWasDone
<1> SUFFICES ASSUME CommandInv PROVE ReceiptsTellWhatWasDone
  OBVIOUS
<1>1. CommandTypeOK
  <2>1. \A c \in CommandIds : cmdReceipt[c] = NoCommand \/ cmdReceipt[c].state \in {"PENDING", "DECIDED"}
    BY DEF CommandInv, CommandsTyped, ReceiptRow
  <2>2. \A r \in Researches : research[r].revision \in 0 .. MaxKernelRevision
    BY DEF CommandInv, CommandsTyped, ResearchRow
  <2> QED BY <2>1, <2>2 DEF CommandInv, CommandsTyped, CommandTypeOK
<1>2. ASSUME NEW r \in Researches
      PROVE  /\ research[r].contract = "CONFIRMED" => research[r].kernel = "CONFIRMED"
             /\ research[r].summary # NoCommand /\ research[r].summary.state = "CONTRACT_CONFIRMED"
                  => research[r].contract = "CONFIRMED"
  BY DEF CommandInv, ResearchFits
<1>3. ASSUME NEW c \in CommandIds, Decided(c)
      PROVE  LET d == cmdReceipt[c].decision IN
             IF ~d.accepted THEN EventsOf(c) = {} /\ d.before = d.after
             ELSE CASE kindOf[c] \in Creating ->
                         /\ research[c].kernel # "NONE" /\ research[c].listed /\ research[c].contract # "NONE"
                         /\ research[c].materials = Range(MaterialsOf[c]) /\ research[c].summary # NoCommand
                    [] kindOf[c] \in KernelRequired ->
                         /\ EventsOf(c) = {[command |-> c, run |-> call[c].run, revision |-> d.after]}
                         /\ d.after = d.before + 1
                         /\ kindOf[c] = "CONFIRM_CONTRACT" => research[call[c].run].contract = "CONFIRMED"
                    [] OTHER -> EventsOf(c) = {} /\ d.after = d.before
                                /\ Range(RowsOf(c)) = {row[2] : row \in {x \in domainRows : x[1] = c}}
  <2>1. PICK v \in CallRow, k \in ImmediateCommands :
           /\ v = call[c] /\ k = kindOf[c]
           /\ Fits(c, k, v, cmdReceipt[c], research[c], research[v.run], EventsOf(c), Written(c))
    BY CallOf
  <2>2. PICK d : d = cmdReceipt[c].decision
    OBVIOUS
  <2>3. v.decision = d /\ Told(c, k, v, research[c], research[v.run], EventsOf(c), Written(c))
    BY <1>3, <2>1, <2>2 DEF Fits, Decided
  <2>4. CASE ~d.accepted
    BY <2>2, <2>3, <2>4 DEF Told
  <2>5. CASE d.accepted /\ k \in Creating
    <3>1. /\ research[c].kernel # "NONE" /\ research[c].listed /\ research[c].contract # "NONE"
          /\ research[c].materials = Range(MaterialsOf[c]) /\ research[c].summary # NoCommand
      BY <2>3, <2>5 DEF Told
    <3>2. k \notin KernelRequired
      BY <2>5 DEF KernelRequired, Creating
    <3> QED BY <2>1, <2>2, <2>5, <3>1, <3>2
  <2>6. CASE d.accepted /\ k \in KernelRequired
    <3>1. k \notin Creating
      BY <2>6 DEF KernelRequired, Creating
    <3>2. /\ EventsOf(c) = {[command |-> c, run |-> v.run, revision |-> d.after]} /\ d.after = d.before + 1
          /\ k = "CONFIRM_CONTRACT" => research[v.run].contract = "CONFIRMED"
      BY <2>3, <2>6 DEF Told, EventOf
    <3> QED BY <2>1, <2>2, <2>6, <3>1, <3>2
  <2>7. CASE d.accepted /\ k \in DomainOnly
    <3>1. k \notin Creating /\ k \notin KernelRequired
      BY <2>7 DEF KernelRequired, Creating, DomainOnly
    <3>2. EventsOf(c) = {} /\ d.after = d.before /\ Written(c) = Range(RowsFor(c, k))
      BY <2>3, <2>7 DEF Told
    <3>3. RowsFor(c, k) = RowsOf(c)
      BY <2>1 DEF RowsFor, RowsOf
    <3> QED BY <2>1, <2>2, <2>7, <3>1, <3>2, <3>3 DEF Written
  <2> QED BY <2>1, <2>4, <2>5, <2>6, <2>7 DEF ImmediateCommands
<1> QED BY <1>1, <1>2, <1>3 DEF ReceiptsTellWhatWasDone

\* An accepted receipt names work that is all there and a rejected one no kernel event, though
\* kernel, catalogue, contract, materials, summary and receipt are separate transactions and
\* the service may die between any two (domain_command_handlers.py, domain_commands.py
\* _assert_decision).
THEOREM ReceiptsAlwaysTellWhatWasDone == DomainSpec => []ReceiptsTellWhatWasDone
<1>1. CommandInit => CommandInv
  BY CommandsInitially
<1>2. CommandInv /\ [CommandNext]_commandVars => CommandInv'
  BY CommandsInductive
<1>3. CommandInv => ReceiptsTellWhatWasDone
  BY ReceiptsFit
<1> QED BY <1>1, <1>2, <1>3, PTL DEF DomainSpec

-----------------------------------------------------------------------------
(* Pages of the research list *)


\* A sequence that holds every member of a set, the greatest key first.
Ordered(key, S, s) ==
    /\ s \in [1..Cardinality(S) -> S]
    /\ \A r \in S : \E i \in 1..Cardinality(S) : s[i] = r
    /\ \A i, j \in 1..Cardinality(S) : i < j => key[s[i]] > key[s[j]]

Keyed(key, D) == key \in [D -> Nat] /\ \A r, q \in D : key[r] = key[q] => r = q

\* A set without members is in order.
LEMMA NothingIsOrdered ==
    ASSUME NEW key
    PROVE  IsFiniteSet({}) /\ \E s : Ordered(key, {}, s)
<1>1. IsFiniteSet({}) /\ Cardinality({}) = 0
  BY FS_EmptySet
<1>2. PICK s : s = [i \in 1..0 |-> 0]
  OBVIOUS
<1>3. Ordered(key, {}, s)
  BY <1>1, <1>2 DEF Ordered
<1> QED BY <1>1, <1>3

\* A row with a greater key than all others goes to the front.
LEMMA GreatestGoesFirst ==
    ASSUME NEW D, NEW key, Keyed(key, D), NEW S, S \subseteq D, NEW r \in S, IsFiniteSet(S \ {r}),
           \A q \in S : q # r => key[q] < key[r],
           NEW t, Ordered(key, S \ {r}, t)
    PROVE  IsFiniteSet(S) /\ \E s : Ordered(key, S, s)
<1>1. PICK n \in Nat : n = Cardinality(S \ {r})
  BY FS_CardinalityType
<1>2. PICK U : U = S \ {r} /\ S = U \cup {r}
  OBVIOUS
<1>3. IsFiniteSet(S) /\ Cardinality(S) = n + 1
  BY <1>1, <1>2, FS_AddElement
<1>4. PICK s : s = [i \in 1..(n + 1) |-> IF i = 1 THEN r ELSE t[i - 1]]
  OBVIOUS
<1>5. /\ t \in [1..n -> S \ {r}]
      /\ \A q \in S \ {r} : \E i \in 1..n : t[i] = q
      /\ \A i, j \in 1..n : i < j => key[t[i]] > key[t[j]]
  BY <1>1 DEF Ordered
<1>6. s[1] = r /\ \A i \in 1..n : i + 1 \in 1..(n + 1) /\ s[i + 1] = t[i]
  BY <1>4
<1>7. \A i \in 1..(n + 1) : i = 1 \/ (\E k \in 1..n : i = k + 1 /\ s[i] = t[k])
  <2>1. ASSUME NEW i \in 1..(n + 1), i # 1
        PROVE  \E k \in 1..n : i = k + 1 /\ s[i] = t[k]
    <3>1. i - 1 \in 1..n /\ i = (i - 1) + 1
      BY <2>1
    <3> QED BY <3>1, <1>6
  <2> QED BY <2>1
<1>8. s \in [1..(n + 1) -> S]
  BY <1>4, <1>5, <1>7
<1>9. \A q \in S : \E i \in 1..(n + 1) : s[i] = q
  <2>1. ASSUME NEW q \in S PROVE \E i \in 1..(n + 1) : s[i] = q
    <3>1. CASE q = r
      BY <3>1, <1>6
    <3>2. CASE q # r
      BY <3>2, <1>5, <1>6
    <3> QED BY <3>1, <3>2
  <2> QED BY <2>1
<1>10. \A i, j \in 1..(n + 1) : i < j => key[s[i]] > key[s[j]]
  <2>1. ASSUME NEW i \in 1..(n + 1), NEW j \in 1..(n + 1), i < j PROVE key[s[i]] > key[s[j]]
    <3>1. PICK k \in 1..n : j = k + 1 /\ s[j] = t[k]
      BY <2>1, <1>7
    <3>2. t[k] \in S /\ t[k] # r
      BY <1>5
    <3>3. CASE i = 1
      <4>1. key[t[k]] < key[r] /\ key[t[k]] \in Nat /\ key[r] \in Nat
        BY <3>2 DEF Keyed
      <4> QED BY <4>1, <3>3, <3>1, <1>6
    <3>4. CASE i # 1
      <4>1. PICK l \in 1..n : i = l + 1 /\ s[i] = t[l]
        BY <3>4, <1>7
      <4>2. l < k
        BY <2>1, <3>1, <4>1
      <4> QED BY <4>1, <4>2, <3>1, <1>5
    <3> QED BY <3>3, <3>4
  <2> QED BY <2>1
<1> QED BY <1>3, <1>8, <1>9, <1>10 DEF Ordered

\* Rows whose keys are different and below a bound can be put in order.
LEMMA OrderExists ==
    ASSUME NEW D, NEW key, Keyed(key, D), NEW n \in Nat, NEW S, S \subseteq D, \A r \in S : key[r] < n
    PROVE  IsFiniteSet(S) /\ \E s : Ordered(key, S, s)
<1> DEFINE P(m, U) == (\A r \in U : key[r] < m) => IsFiniteSet(U) /\ \E s : Ordered(key, U, s)
           T == {m \in Nat : ~(\A U \in SUBSET D : P(m, U))}
<1>1. ASSUME T # {} PROVE FALSE
  <2>1. PICK m \in T : \A y \in T : m <= y
    <3>1. T \subseteq Nat
      OBVIOUS
    <3> HIDE DEF T
    <3> QED BY <1>1, <3>1, LeastNatural
  <2>2. m \in Nat /\ ~(\A U \in SUBSET D : P(m, U))
    OBVIOUS
  <2>3. PICK U \in SUBSET D : ~P(m, U)
    BY <2>2
  <2>4. \A r \in U : key[r] < m /\ key[r] \in Nat
    BY <2>3 DEF Keyed
  <2>5. CASE m = 0
    <3>1. U = {}
      BY <2>4, <2>5
    <3> QED BY <3>1, <2>3, NothingIsOrdered
  <2>6. CASE m # 0
    <3>1. m - 1 \in Nat /\ m - 1 < m
      BY <2>2, <2>6
    <3>2. m - 1 \notin T
      <4> HIDE DEF T
      <4> QED BY <2>1, <2>2, <3>1
    <3>3. \A V \in SUBSET D : P(m - 1, V)
      BY <3>1, <3>2
    <3>4. CASE \A r \in U : key[r] # m - 1
      <4>1. \A r \in U : key[r] < m - 1
        BY <3>4, <2>2, <2>4
      <4>2. P(m - 1, U)
        BY <3>3
      <4> QED BY <4>1, <4>2, <2>3
    <3>5. ASSUME NEW r \in U, key[r] = m - 1 PROVE FALSE
      <4>1. \A q \in U : q # r => key[q] < m - 1
        <5>1. ASSUME NEW q \in U, q # r PROVE key[q] < m - 1
          <6>1. key[q] # key[r]
            BY <5>1 DEF Keyed
          <6> QED BY <6>1, <3>5, <2>2, <2>4
        <5> QED BY <5>1
      <4>2. P(m - 1, U \ {r})
        BY <3>3
      <4>3. IsFiniteSet(U \ {r}) /\ \E t : Ordered(key, U \ {r}, t)
        BY <4>1, <4>2
      <4>4. IsFiniteSet(U) /\ \E s : Ordered(key, U, s)
        BY <4>1, <4>3, <3>5, GreatestGoesFirst
      <4> QED BY <4>4, <2>3
    <3> QED BY <3>4, <3>5
  <2> QED BY <2>5, <2>6
<1>2. P(n, S)
  <2>1. n \notin T
    <3> HIDE DEF T
    <3> QED BY <1>1
  <2> QED BY <2>1
<1> QED BY <1>2

\* And in one order only.
LEMMA OrderUnique ==
    ASSUME NEW D, NEW key, Keyed(key, D), NEW S, S \subseteq D, Cardinality(S) \in Nat,
           NEW s, NEW t, Ordered(key, S, s), Ordered(key, S, t)
    PROVE  s = t
<1>1. PICK n \in Nat : n = Cardinality(S)
  OBVIOUS
<1>2. /\ s \in [1..n -> S] /\ (\A r \in S : \E i \in 1..n : s[i] = r)
      /\ \A i, j \in 1..n : i < j => key[s[i]] > key[s[j]]
      /\ t \in [1..n -> S] /\ (\A r \in S : \E i \in 1..n : t[i] = r)
      /\ \A i, j \in 1..n : i < j => key[t[i]] > key[t[j]]
  BY <1>1 DEF Ordered
<1> DEFINE B == {i \in 1..n : s[i] # t[i]}
<1>3. ASSUME B # {} PROVE FALSE
  <2>1. PICK i \in B : \A y \in B : i <= y
    <3>1. B \subseteq Nat
      OBVIOUS
    <3> HIDE DEF B
    <3> QED BY <1>3, <3>1, LeastNatural
  <2>2. i \in 1..n /\ s[i] # t[i] /\ \A k \in 1..n : k < i => s[k] = t[k]
    <3>1. \A k \in 1..n : k < i => k \notin B
      <4>1. i \in 1..n
        OBVIOUS
      <4> HIDE DEF B
      <4> QED BY <2>1, <4>1
    <3> QED BY <3>1
  <2>3. \A r \in S : key[r] \in Nat
    BY DEF Keyed
  <2>4. PICK j \in 1..n : t[j] = s[i]
    BY <1>2, <2>2
  <2>5. PICK k \in 1..n : s[k] = t[i]
    BY <1>2, <2>2
  <2>6. s[i] \in S /\ t[i] \in S /\ key[s[i]] \in Nat /\ key[t[i]] \in Nat
    BY <1>2, <2>2, <2>3
  <2>7. j > i
    <3>1. j # i
      BY <2>2, <2>4
    <3>2. ASSUME j < i PROVE FALSE
      <4>1. s[j] = s[i]
        BY <3>2, <2>2, <2>4
      <4>2. key[s[j]] > key[s[i]]
        BY <3>2, <2>2, <1>2
      <4> QED BY <4>1, <4>2, <2>6
    <3> QED BY <3>1, <3>2, <2>2
  <2>8. k > i
    <3>1. k # i
      BY <2>2, <2>5
    <3>2. ASSUME k < i PROVE FALSE
      <4>1. t[k] = t[i]
        BY <3>2, <2>2, <2>5
      <4>2. key[t[k]] > key[t[i]]
        BY <3>2, <2>2, <1>2
      <4> QED BY <4>1, <4>2, <2>6
    <3> QED BY <3>1, <3>2, <2>2
  <2>9. key[t[i]] > key[s[i]]
    BY <2>2, <2>4, <2>7, <1>2
  <2>10. key[s[i]] > key[t[i]]
    BY <2>2, <2>5, <2>8, <1>2
  <2> QED BY <2>6, <2>9, <2>10
<1>4. \A i \in 1..n : s[i] = t[i]
  BY <1>3
<1> QED BY <1>2, <1>4

\* The rows below the key of one row are the rest of the order behind it.
LEMMA OrderBehind ==
    ASSUME NEW D, NEW key, Keyed(key, D), NEW S, S \subseteq D, NEW n \in Nat, n = Cardinality(S),
           NEW s, Ordered(key, S, s), NEW p \in 1..n,
           NEW U, U = {r \in S : key[r] < key[s[p]]}
    PROVE  Cardinality(U) = n - p /\ Ordered(key, U, [i \in 1..(n - p) |-> s[p + i]])
<1>1. /\ s \in [1..n -> S] /\ (\A r \in S : \E i \in 1..n : s[i] = r)
      /\ \A i, j \in 1..n : i < j => key[s[i]] > key[s[j]]
  BY DEF Ordered
<1>2. PICK m \in Nat : m = n - p
  OBVIOUS
<1>3. PICK t : t = [i \in 1..m |-> s[p + i]]
  OBVIOUS
<1>4. \A i \in 1..m : p + i \in 1..n /\ t[i] = s[p + i] /\ p < p + i
  BY <1>2, <1>3
<1>5. \A i \in 1..n : key[s[i]] \in Nat
  BY <1>1 DEF Keyed
<1>6. t \in [1..m -> U]
  <2>1. \A i \in 1..m : s[p + i] \in S /\ key[s[p + i]] < key[s[p]]
    BY <1>1, <1>4, <1>5
  <2> QED BY <2>1, <1>3
<1>7. \A i, j \in 1..m : i < j => key[t[i]] > key[t[j]]
  <2>1. ASSUME NEW i \in 1..m, NEW j \in 1..m, i < j PROVE key[t[i]] > key[t[j]]
    <3>1. p + i < p + j
      BY <2>1
    <3> QED BY <3>1, <1>4, <1>1
  <2> QED BY <2>1
<1>8. \A r \in U : \E i \in 1..m : t[i] = r
  <2>1. ASSUME NEW r \in U PROVE \E i \in 1..m : t[i] = r
    <3>1. PICK k \in 1..n : s[k] = r
      BY <1>1
    <3>2. k > p
      <4>1. ASSUME k <= p PROVE FALSE
        <5>1. key[s[k]] < key[s[p]]
          BY <3>1
        <5>2. k # p => key[s[k]] > key[s[p]]
          BY <4>1, <1>1
        <5> QED BY <5>1, <5>2, <1>5
      <4> QED BY <4>1
    <3>3. k - p \in 1..m /\ p + (k - p) = k
      BY <3>2, <1>2
    <3> QED BY <3>1, <3>3, <1>4
  <2> QED BY <2>1
<1>9. t \in Bijection(1..m, U)
  <2>1. ASSUME NEW i \in 1..m, NEW j \in 1..m, t[i] = t[j] PROVE i = j
    <3>1. key[t[i]] \in Nat
      BY <1>4, <1>5
    <3>2. ~(i < j) /\ ~(j < i)
      BY <2>1, <3>1, <1>7
    <3> QED BY <3>2
  <2> QED BY <1>6, <1>8, <2>1 DEF Bijection, Injection, IsInjective, Surjection
<1>10. Cardinality(U) = m
  BY <1>9, FS_CountingElements DEF ExistsBijection
<1> QED BY <1>2, <1>3, <1>6, <1>7, <1>8, <1>10 DEF Ordered

-----------------------------------------------------------------------------
\* The time of last activity by which the catalogue is ordered.
Recent == [r \in Listed |-> research[r].summary.recent]

\* The summaries carry different times, none later than the catalogue's revision.
TimesFit ==
    /\ \A r \in Researches : research[r].summary # NoCommand => research[r].summary.recent <= catalogRevision
    /\ \A r, q \in Researches :
          research[r].summary # NoCommand /\ research[q].summary # NoCommand /\ r # q
            => research[r].summary.recent # research[q].summary.recent

\* What a reader was given is the first k rows, and its cursor is the time of row k.
ReadSoFar(seen, after) ==
    \E k \in 0..Len(CatalogRows) :
      /\ seen = SubSeq(CatalogRows, 1, k)
      /\ \/ k = Len(CatalogRows) /\ after = NoCommand
         \/ k \in 1..(Len(CatalogRows) - 1) /\ after = research[CatalogRows[k]].summary.recent

ReaderFits(d) ==
    \/ listing[d] = NotReading
    \/ /\ listing[d].fence \in Nat /\ listing[d].fence <= catalogRevision
       /\ listing[d].fence = catalogRevision => ReadSoFar(listing[d].seen, listing[d].after)

ReadersFit == DOMAIN listing = CatalogReaders /\ \A d \in CatalogReaders : ReaderFits(d)

CatalogInv == CommandInv /\ TimesFit /\ ReadersFit

\* The order of the listed rows, and of those after a key.
LEMMA ListedInOrder ==
    ASSUME CommandsTyped, TimesFit
    PROVE  /\ Keyed(Recent, Listed) /\ IsFiniteSet(Listed)
           /\ \A U \in SUBSET Listed : Cardinality(U) \in Nat /\ Ordered(Recent, U, InOrder(U))
<1>1. \A r \in Listed : /\ r \in Researches /\ research[r].summary # NoCommand
                        /\ research[r].summary.recent \in Nat
                        /\ research[r].summary.recent < catalogRevision + 1
  BY DEF CommandsTyped, TimesFit, Listed, ResearchRow, SummaryRow
<1>2. Keyed(Recent, Listed)
  BY <1>1 DEF Keyed, Recent, TimesFit
<1>3. \A r \in Listed : Recent[r] = research[r].summary.recent
  BY DEF Recent
<1>4. catalogRevision + 1 \in Nat
  BY DEF CommandsTyped
<1>5. ASSUME NEW U \in SUBSET Listed
      PROVE  IsFiniteSet(U) /\ Cardinality(U) \in Nat /\ Ordered(Recent, U, InOrder(U))
  <2>1. \A r \in U : Recent[r] < catalogRevision + 1
    BY <1>1, <1>3
  <2>2. IsFiniteSet(U) /\ \E s : Ordered(Recent, U, s)
    BY <1>2, <1>4, <2>1, OrderExists
  <2>3. PICK n \in Nat : n = Cardinality(U)
    BY <2>2, FS_CardinalityType
  <2>4. PICK s : Ordered(Recent, U, s)
    BY <2>2
  <2>5. /\ s \in [1..n -> U] /\ (\A r \in U : \E i \in 1..n : s[i] = r)
        /\ \A i, j \in 1..n : i < j => Recent[s[i]] > Recent[s[j]]
    BY <2>3, <2>4 DEF Ordered
  <2>6. \A i, j \in 1..n : s[i] = s[j] => i = j
    <3>1. ASSUME NEW i \in 1..n, NEW j \in 1..n, s[i] = s[j] PROVE i = j
      <4>1. Recent[s[i]] \in Nat
        BY <2>5, <1>2 DEF Keyed
      <4>2. ~(i < j) /\ ~(j < i)
        BY <2>5, <3>1, <4>1
      <4> QED BY <4>2
    <3> QED BY <3>1
  <2>7. s \in Bijection(1..n, U)
    BY <2>5, <2>6 DEF Bijection, Injection, IsInjective, Surjection
  <2>8. \A i, j \in DOMAIN s : i < j => Precedes(s[i], s[j])
    <3>1. \A i \in 1..n : s[i] \in Listed
      BY <2>5
    <3> QED BY <2>5, <3>1, <1>3 DEF Precedes
  <2>9. PICK t : t = InOrder(U)
    OBVIOUS
  <2>10. /\ t \in Bijection(1..n, U)
         /\ \A i, j \in DOMAIN t : i < j => Precedes(t[i], t[j])
    BY <2>3, <2>7, <2>8, <2>9 DEF InOrder
  <2>11. t \in [1..n -> U] /\ \A r \in U : \E i \in 1..n : t[i] = r
    BY <2>10 DEF Bijection, Injection, Surjection
  <2>12. \A i, j \in 1..n : i < j => Recent[t[i]] > Recent[t[j]]
    <3>1. \A i \in 1..n : t[i] \in Listed
      BY <2>11
    <3> QED BY <2>10, <2>11, <3>1, <1>3 DEF Precedes
  <2>13. Ordered(Recent, U, t)
    BY <2>3, <2>11, <2>12 DEF Ordered
  <2> QED BY <2>2, <2>3, <2>9, <2>13
<1> QED BY <1>2, <1>5

\* The catalogue as a sequence.
LEMMA RowsAreASequence ==
    ASSUME CommandsTyped, TimesFit
    PROVE  /\ CatalogRows \in Seq(Listed) /\ Len(CatalogRows) = Cardinality(Listed)
           /\ Len(CatalogRows) \in Nat
           /\ \A i \in 1..Len(CatalogRows) : CatalogRows[i] \in Listed
<1>1. PICK n, s : /\ n \in Nat /\ n = Cardinality(Listed) /\ s = CatalogRows
                  /\ Ordered(Recent, Listed, s)
  BY ListedInOrder DEF CatalogRows
<1>2. s \in [1..n -> Listed]
  BY <1>1 DEF Ordered
<1>3. s \in Seq(Listed) /\ Len(s) = n
  BY <1>1, <1>2
<1> QED BY <1>1, <1>2, <1>3

\* After no key come all rows, after the time of row k the rows behind it.
LEMMA RowsAfterRest ==
    ASSUME CommandsTyped, TimesFit, NEW n \in Nat, n = Len(CatalogRows), NEW k \in 0..n, NEW key,
           \/ k = 0 /\ key = NoCommand
           \/ k > 0 /\ key = research[CatalogRows[k]].summary.recent
    PROVE  RowsAfter(key) = [i \in 1..(n - k) |-> CatalogRows[k + i]]
<1>1. /\ CatalogRows \in [1..n -> Listed] /\ n = Cardinality(Listed)
      /\ \A i \in 1..n : CatalogRows[i] \in Listed
  BY RowsAreASequence
<1>2. CASE k = 0 /\ key = NoCommand
  <2>1. RowsAfter(key) = CatalogRows
    <3>1. {r \in Listed : key = NoCommand \/ research[r].summary.recent < key} = Listed
      BY <1>2
    <3> QED BY <3>1 DEF RowsAfter, CatalogRows
  <2>2. CatalogRows = [i \in 1..(n - k) |-> CatalogRows[k + i]]
    BY <1>1, <1>2
  <2> QED BY <2>1, <2>2
<1>3. CASE k > 0 /\ key = research[CatalogRows[k]].summary.recent
  <2>1. k \in 1..n /\ CatalogRows[k] \in Listed
    BY <1>1, <1>3
  <2>2. key \in Nat /\ key # NoCommand
    BY <1>3, <2>1, CommandInputs DEF CommandsTyped, Listed, ResearchRow, SummaryRow
  <2>3. PICK s, S : s = CatalogRows /\ S = Listed /\ Ordered(Recent, S, s) /\ Keyed(Recent, Listed)
    BY ListedInOrder DEF CatalogRows
  <2>4. PICK U : U = {r \in S : Recent[r] < Recent[s[k]]}
    OBVIOUS
  <2>5. U = {r \in Listed : key = NoCommand \/ research[r].summary.recent < key}
    <3>1. Recent[s[k]] = key
      BY <2>1, <2>3, <1>3 DEF Recent
    <3>2. \A r \in Listed : Recent[r] = research[r].summary.recent
      BY DEF Recent
    <3> QED BY <2>2, <2>3, <2>4, <3>1, <3>2
  <2>6. Cardinality(U) = n - k /\ Ordered(Recent, U, [i \in 1..(n - k) |-> s[k + i]])
    <3>1. S \subseteq Listed /\ n = Cardinality(S) /\ k \in 1..n
      BY <1>1, <2>1, <2>3
    <3>2. Keyed(Recent, Listed) /\ Ordered(Recent, S, s)
      BY <2>3
    <3> QED BY ONLY n \in Nat, <2>4, <3>1, <3>2, OrderBehind
  <2>7. Ordered(Recent, U, InOrder(U))
    <3>1. U \in SUBSET Listed
      BY <2>5
    <3> QED BY <3>1, ListedInOrder
  <2>8. Cardinality(U) \in Nat
    BY <2>1, <2>6
  <2>9. InOrder(U) = [i \in 1..(n - k) |-> s[k + i]]
    <3>1. U \subseteq Listed
      BY <2>5
    <3> QED BY <2>3, <2>6, <2>7, <2>8, <3>1, OrderUnique
  <2> QED BY <2>3, <2>5, <2>9 DEF RowsAfter
<1> QED BY <1>2, <1>3

\* The smaller of the page's limit and the rows that are left.
LEMMA MinOfTwo ==
    ASSUME NEW a \in Nat, NEW b \in Nat
    PROVE  /\ Min({a, b}) \in {a, b} /\ Min({a, b}) <= a /\ Min({a, b}) <= b
<1>1. \E x \in {a, b} : \A y \in {a, b} : x <= y
  <2>1. CASE a <= b
    BY <2>1
  <2>2. CASE b <= a
    BY <2>2
  <2> QED BY <2>1, <2>2
<1> QED BY <1>1 DEF Min

\* t is the first m members of s; u is s, of length k, followed by t, of length m.
BeginsAs(T, t, s, m) == t \in Seq(T) /\ Len(t) = m /\ \A i \in 1..m : t[i] = s[i]
FollowedBy(T, u, s, t, k, m) ==
    /\ u \in Seq(T) /\ Len(u) = k + m
    /\ \A i \in 1..k : u[i] = s[i]
    /\ \A i \in 1..m : u[k + i] = t[i]

\* The first part of a sequence.
LEMMA FirstPart ==
    ASSUME NEW T, NEW s \in Seq(T), NEW m \in Nat, m <= Len(s)
    PROVE  BeginsAs(T, SubSeq(s, 1, m), s, m)
<1>1. \A i \in 1..m : s[i] \in T
  BY ElementOfSeq, LenProperties
<1>2. PICK t : t = SubSeq(s, 1, m)
  OBVIOUS
<1>3. /\ t \in Seq(T) /\ Len(t) = IF 1 <= m THEN m - 1 + 1 ELSE 0
      /\ \A i \in 1..(m - 1 + 1) : t[i] = s[1 + i - 1]
  BY <1>1, <1>2, SubSeqProperties
<1> QED BY <1>2, <1>3 DEF BeginsAs

\* Two sequences put together.
LEMMA PutTogether ==
    ASSUME NEW T, NEW s \in Seq(T), NEW t \in Seq(T), NEW k \in Nat, NEW m \in Nat, Len(s) = k, Len(t) = m
    PROVE  FollowedBy(T, s \o t, s, t, k, m)
<1>1. PICK u : u = s \o t
  OBVIOUS
<1>2. /\ u \in Seq(T) /\ Len(u) = k + m
      /\ \A i \in 1..(k + m) : u[i] = IF i <= k THEN s[i] ELSE t[i - k]
  BY <1>1, ConcatProperties
<1>3. \A i \in 1..k : u[i] = s[i]
  BY <1>2
<1>4. \A i \in 1..m : u[k + i] = t[i]
  BY <1>2
<1> QED BY <1>1, <1>2, <1>3, <1>4 DEF FollowedBy

\* One more page, from row k on, is the next part of the catalogue.
LEMMA PageGoesOn ==
    ASSUME CommandsTyped, TimesFit, NEW n \in Nat, n = Len(CatalogRows), NEW k \in 0..n, NEW key,
           \/ k = 0 /\ key = NoCommand
           \/ k > 0 /\ key = research[CatalogRows[k]].summary.recent,
           NEW seen, seen = SubSeq(CatalogRows, 1, k), NEW rows, rows = RowsAfter(key),
           NEW page, page = SubSeq(rows, 1, Min({PageLimit, Len(rows)}))
    PROVE  ReadSoFar(seen \o page,
                     IF Len(rows) > PageLimit THEN research[Last(page)].summary.recent ELSE NoCommand)
<1>1. PICK s : s = CatalogRows /\ s \in Seq(Listed) /\ Len(s) = n /\ \A i \in 1..n : s[i] \in Listed
  BY RowsAreASequence
<1>2. rows = [i \in 1..(n - k) |-> s[k + i]]
  BY <1>1, RowsAfterRest
<1>3. PICK l \in Nat : l = n - k
  OBVIOUS
<1>4. rows \in Seq(Listed) /\ Len(rows) = l /\ \A i \in 1..l : rows[i] = s[k + i]
  <2>1. rows = [i \in 1..l |-> s[k + i]] /\ \A i \in 1..l : k + i \in 1..n
    BY ONLY n \in Nat, k \in 0..n, <1>2, <1>3
  <2>2. rows \in [1..l -> Listed] /\ \A i \in 1..l : rows[i] = s[k + i]
    BY ONLY <1>1, <2>1
  <2> QED BY ONLY l \in Nat, <2>2
<1>5. PageLimit \in Nat /\ PageLimit > 0
  BY CommandInputs
<1>6. PICK m \in Nat : m = Min({PageLimit, l}) /\ m \in {PageLimit, l} /\ m <= PageLimit /\ m <= l
  BY <1>5, MinOfTwo
<1>7. page = SubSeq(rows, 1, m)
  BY <1>4, <1>6
<1>8. page \in Seq(Listed) /\ Len(page) = m /\ \A i \in 1..m : page[i] = s[k + i]
  <2>1. page \in Seq(Listed) /\ Len(page) = m /\ \A i \in 1..m : page[i] = rows[i]
    <3>1. rows \in Seq(Listed) /\ m \in Nat /\ m <= Len(rows)
      BY <1>4, <1>6
    <3>2. BeginsAs(Listed, SubSeq(rows, 1, m), rows, m)
      BY ONLY <3>1, FirstPart
    <3> QED BY ONLY <1>7, <3>2 DEF BeginsAs
  <2>2. \A i \in 1..m : i \in 1..l
    BY <1>6
  <2> QED BY <2>1, <2>2, <1>4
<1>9. seen \in Seq(Listed) /\ Len(seen) = k /\ \A i \in 1..k : seen[i] = s[i]
  BY <1>1
<1>10. PICK given : given = seen \o page
  OBVIOUS
<1>11. given \in Seq(Listed) /\ Len(given) = k + m /\ \A i \in 1..(k + m) : given[i] = s[i]
  <2>0. /\ seen \o page \in Seq(Listed) /\ Len(seen \o page) = k + m
        /\ \A i \in 1..k : (seen \o page)[i] = seen[i]
        /\ \A i \in 1..m : (seen \o page)[k + i] = page[i]
    <3>1. k \in Nat /\ m \in Nat
      BY ONLY n \in Nat, k \in 0..n, m \in Nat
    <3>2. seen \in Seq(Listed) /\ page \in Seq(Listed) /\ Len(seen) = k /\ Len(page) = m
      BY ONLY <1>8, <1>9
    <3>3. FollowedBy(Listed, seen \o page, seen, page, k, m)
      BY ONLY <3>1, <3>2, PutTogether
    <3> QED BY ONLY <3>3 DEF FollowedBy
  <2>1. given \in Seq(Listed) /\ Len(given) = k + m
    BY <2>0, <1>10
  <2>2. ASSUME NEW i \in 1..(k + m) PROVE given[i] = s[i]
    <3>1. CASE i <= k
      <4>1. i \in 1..k
        BY <3>1
      <4> QED BY ONLY <4>1, <2>0, <1>9, <1>10
    <3>2. CASE i > k
      <4>1. PICK j \in 1..m : i = k + j
        <5>1. i - k \in 1..m /\ i = k + (i - k)
          BY <3>2
        <5> QED BY <5>1
      <4>2. given[i] = page[j]
        BY ONLY j \in 1..m, <4>1, <2>0, <1>10
      <4> QED BY <4>1, <4>2, <1>8
    <3> QED BY <3>1, <3>2
  <2> QED BY <2>1, <2>2
<1>12. k + m \in 0..n /\ given = SubSeq(s, 1, k + m)
  <2>1. k + m \in 0..n
    BY <1>3, <1>6
  <2>2. PICK t : t = SubSeq(s, 1, k + m)
    OBVIOUS
  <2>3. t \in Seq(Listed) /\ Len(t) = k + m /\ \A i \in 1..(k + m) : t[i] = s[i]
    BY <1>1, <2>1, <2>2
  <2>4. t = given
    BY <2>3, <1>11, SeqEqual
  <2> QED BY <2>1, <2>2, <2>4
<1>13. CASE Len(rows) > PageLimit
  <2>1. m = PageLimit /\ k + m \in 1..(n - 1) /\ m \in 1..m
    BY <1>13, <1>3, <1>4, <1>5, <1>6
  <2>2. Last(page) = s[k + m]
    BY <2>1, <1>8 DEF Last
  <2> QED BY <2>1, <2>2, <1>1, <1>10, <1>12, <1>13 DEF ReadSoFar
<1>14. CASE ~(Len(rows) > PageLimit)
  <2>1. k + m = n
    BY <1>14, <1>3, <1>4, <1>5, <1>6
  <2> QED BY <2>1, <1>1, <1>10, <1>12, <1>14 DEF ReadSoFar
<1> QED BY <1>13, <1>14

\* A page is served.
LEMMA ServedNext ==
    ASSUME CatalogInv, NEW d \in CatalogReaders, NEW n \in Nat, n = Len(CatalogRows), NEW k \in 0..n, NEW key,
           \/ k = 0 /\ key = NoCommand
           \/ k > 0 /\ key = research[CatalogRows[k]].summary.recent,
           listing[d].seen = SubSeq(CatalogRows, 1, k), Serve(d, RowsAfter(key)),
           UNCHANGED <<kindOf, cmdReceipt, call, research, catalogRevision, kernelEvents, domainRows>>
    PROVE  ReadersFit'
<1>1. CommandsTyped /\ TimesFit
  BY DEF CatalogInv, CommandInv
<1>5. PICK rows, page, seen, after :
          /\ rows = RowsAfter(key) /\ page = SubSeq(rows, 1, Min({PageLimit, Len(rows)}))
          /\ seen = listing[d].seen \o page
          /\ after = IF Len(rows) > PageLimit THEN research[Last(page)].summary.recent ELSE NoCommand
  OBVIOUS
<1>6. ReadSoFar(seen, after)
  BY <1>1, <1>5, PageGoesOn
<1>7. listing' = [listing EXCEPT ![d] = [fence |-> catalogRevision, seen |-> seen, after |-> after]]
  BY <1>5 DEF Serve
<1>8. DOMAIN listing = CatalogReaders
  BY DEF CatalogInv, ReadersFit
<1>9. Listed' = Listed /\ CatalogRows' = CatalogRows
  BY <1>1 DEF Listed, CatalogRows, InOrder, Precedes
<1>10. ASSUME NEW e \in CatalogReaders PROVE ReaderFits(e)'
  <2>1. CASE e = d
    <3>1. listing'[e].fence = catalogRevision /\ listing'[e].seen = seen /\ listing'[e].after = after
      BY <2>1, <1>7, <1>8
    <3>2. ReadSoFar(seen, after)'
      BY <1>1, <1>6, <1>9 DEF ReadSoFar
    <3>3. catalogRevision \in Nat /\ catalogRevision' = catalogRevision
      BY <1>1 DEF CommandsTyped
    <3> QED BY <3>1, <3>2, <3>3 DEF ReaderFits
  <2>2. CASE e # d
    <3>1. listing'[e] = listing[e] /\ ReaderFits(e)
      BY <2>2, <1>7, <1>8 DEF CatalogInv, ReadersFit
    <3> QED BY <3>1, <1>1, <1>9 DEF ReaderFits, ReadSoFar
  <2> QED BY <2>1, <2>2
<1> QED BY <1>7, <1>8, <1>10 DEF ReadersFit

\* The first page, or a page behind a cursor that holds.
LEMMA ServeStep ==
    ASSUME CatalogInv, NEW d \in CatalogReaders, ListFirst(d) \/ ListNext(d)
    PROVE  ReadersFit'
<1>1. /\ UNCHANGED <<kindOf, cmdReceipt, call, research, catalogRevision, kernelEvents, domainRows>>
      /\ CommandsTyped /\ TimesFit /\ ReaderFits(d)
  BY DEF CatalogInv, CommandInv, ReadersFit, ListFirst, ListNext
<1>2. PICK n \in Nat : n = Len(CatalogRows)
  BY <1>1, RowsAreASequence
<1>3. CASE ListFirst(d)
  <2>1. listing[d].seen = <<>> /\ Serve(d, RowsAfter(NoCommand))
    BY <1>3 DEF ListFirst, NotReading
  <2>2. SubSeq(CatalogRows, 1, 0) = <<>> /\ 0 \in 0..n
    BY <1>1, SubSeqEmpty
  <2> QED BY <1>1, <1>2, <2>1, <2>2, ServedNext
<1>4. CASE ListNext(d)
  <2>1. PICK key : /\ key = listing[d].after /\ key # NoCommand /\ listing[d].fence = catalogRevision
                   /\ Serve(d, RowsAfter(key))
    BY <1>4 DEF ListNext, CursorHolds
  <2>2. listing[d] # NotReading
    BY <2>1 DEF NotReading
  <2>3. ReadSoFar(listing[d].seen, key)
    BY <2>1, <2>2, <1>1 DEF ReaderFits
  <2>4. PICK k \in 0..n : /\ listing[d].seen = SubSeq(CatalogRows, 1, k) /\ k \in 1..(n - 1)
                          /\ key = research[CatalogRows[k]].summary.recent
    BY <2>1, <2>3, <1>2 DEF ReadSoFar
  <2>5. k > 0
    BY <2>4
  <2> QED BY <1>1, <1>2, <2>1, <2>4, <2>5, ServedNext
<1> QED BY <1>3, <1>4

-----------------------------------------------------------------------------
\* The rows and times of the catalogue stay as they are, or its revision moves and at most
\* one summary takes the new revision as its time.
CatalogKept ==
    /\ catalogRevision' = catalogRevision /\ listing' = listing
    /\ \A r \in Researches : research'[r].listed = research[r].listed /\ research'[r].summary = research[r].summary

CatalogMoves ==
    /\ catalogRevision' = catalogRevision + 1 /\ listing' = listing
    /\ \E q \in Researches : \A r \in Researches :
         \/ research'[r].summary = research[r].summary
         \/ r = q /\ research'[r].summary # NoCommand /\ research'[r].summary.recent = catalogRevision + 1

\* The order of the rows is the one the times give.
LEMMA RowsAreOrdered ==
    CommandsTyped /\ TimesFit => /\ Keyed(Recent, Listed) /\ Cardinality(Listed) \in Nat
                                 /\ Ordered(Recent, Listed, CatalogRows)
  BY ListedInOrder DEF CatalogRows

\* The same rows with the same times are in the same order.
LEMMA KeptRows ==
    ASSUME CommandsTyped, TimesFit, CommandsTyped', TimesFit', CatalogKept
    PROVE  CatalogRows' = CatalogRows /\ Listed' = Listed
<1>1. Keyed(Recent, Listed) /\ Cardinality(Listed) \in Nat /\ Ordered(Recent, Listed, CatalogRows)
  BY RowsAreOrdered
<1>2. (CommandsTyped /\ TimesFit => /\ Keyed(Recent, Listed) /\ Cardinality(Listed) \in Nat
                                    /\ Ordered(Recent, Listed, CatalogRows))'
  BY RowsAreOrdered, PTL
<1>3. Listed' = Listed
  BY DEF CatalogKept, Listed
<1>4. Recent' = Recent
  <2>1. \A r \in Listed : r \in Researches
    BY DEF Listed
  <2> QED BY <1>3, <2>1 DEF CatalogKept, Recent
<1>5. Ordered(Recent, Listed, CatalogRows')
  <2>1. (Keyed(Recent, Listed) /\ Cardinality(Listed) \in Nat /\ Ordered(Recent, Listed, CatalogRows))'
    BY <1>2
  <2> QED BY <2>1, <1>3, <1>4 DEF Ordered
<1> QED BY <1>1, <1>3, <1>5, OrderUnique

\* A catalogue that is kept leaves the readers where they are.
LEMMA KeptStep ==
    ASSUME CatalogInv, CommandInv', CatalogKept
    PROVE  TimesFit' /\ ReadersFit'
<1>1. CommandsTyped /\ TimesFit /\ CommandsTyped' /\ ReadersFit
  BY DEF CatalogInv, CommandInv
<1>2. TimesFit'
  BY <1>1 DEF TimesFit, CatalogKept
<1>3. CatalogRows' = CatalogRows
  BY <1>1, <1>2, KeptRows
<1>4. \A i \in 1..Len(CatalogRows) : CatalogRows[i] \in Researches
  BY <1>1, RowsAreASequence DEF Listed
<1>5. Len(CatalogRows) \in Nat
  BY <1>1, RowsAreASequence
<1>6. ASSUME NEW d \in CatalogReaders PROVE ReaderFits(d)'
  <2>1. ReaderFits(d) /\ listing' = listing /\ catalogRevision' = catalogRevision
    BY <1>1 DEF ReadersFit, CatalogKept
  <2>2. ASSUME NEW seen, NEW after, ReadSoFar(seen, after) PROVE ReadSoFar(seen, after)'
    <3>1. PICK k \in 0..Len(CatalogRows) :
            /\ seen = SubSeq(CatalogRows, 1, k)
            /\ \/ k = Len(CatalogRows) /\ after = NoCommand
               \/ k \in 1..(Len(CatalogRows) - 1) /\ after = research[CatalogRows[k]].summary.recent
      BY <2>2 DEF ReadSoFar
    <3>2. k \in 1..(Len(CatalogRows) - 1) => CatalogRows[k] \in Researches
      BY <1>4, <1>5
    <3>3. k \in 1..(Len(CatalogRows) - 1) => research'[CatalogRows[k]].summary = research[CatalogRows[k]].summary
      BY <3>2 DEF CatalogKept
    <3> QED BY <3>1, <3>3, <1>3 DEF ReadSoFar
  <2> QED BY <2>1, <2>2 DEF ReaderFits
<1> QED BY <1>1, <1>2, <1>6 DEF ReadersFit, CatalogKept

\* A catalogue that moves leaves every cursor behind.
LEMMA MovesStep ==
    ASSUME CatalogInv, CatalogMoves
    PROVE  TimesFit' /\ ReadersFit'
<1>1. CommandsTyped /\ TimesFit /\ ReadersFit
  BY DEF CatalogInv, CommandInv
<1>2. catalogRevision \in Nat
  BY <1>1 DEF CommandsTyped
<1>3. TimesFit'
  <2>1. PICK q \in Researches : \A r \in Researches :
         \/ research'[r].summary = research[r].summary
         \/ r = q /\ research'[r].summary # NoCommand /\ research'[r].summary.recent = catalogRevision + 1
    BY DEF CatalogMoves
  <2>2. \A r \in Researches : research[r].summary # NoCommand =>
            research[r].summary.recent \in Nat /\ research[r].summary.recent <= catalogRevision
    BY <1>1 DEF CommandsTyped, TimesFit, ResearchRow, SummaryRow
  <2>3. ASSUME NEW r \in Researches, research'[r].summary # NoCommand
        PROVE  research'[r].summary.recent <= catalogRevision + 1
    BY <2>1, <2>2, <2>3, <1>2
  <2>4. ASSUME NEW r \in Researches, NEW p \in Researches, research'[r].summary # NoCommand,
               research'[p].summary # NoCommand, r # p
        PROVE  research'[r].summary.recent # research'[p].summary.recent
    <3>1. CASE research'[r].summary = research[r].summary /\ research'[p].summary = research[p].summary
      BY <2>4, <3>1, <1>1 DEF TimesFit
    <3>2. CASE research'[r].summary # research[r].summary
      <4>1. research'[r].summary.recent = catalogRevision + 1 /\ research'[p].summary = research[p].summary
        BY <2>1, <2>4, <3>2
      <4> QED BY <4>1, <2>2, <2>4, <1>2
    <3>3. CASE research'[p].summary # research[p].summary
      <4>1. research'[p].summary.recent = catalogRevision + 1 /\ research'[r].summary = research[r].summary
        BY <2>1, <2>4, <3>3
      <4> QED BY <4>1, <2>2, <2>4, <1>2
    <3> QED BY <3>1, <3>2, <3>3
  <2>5. catalogRevision' = catalogRevision + 1
    BY DEF CatalogMoves
  <2> QED BY <2>3, <2>4, <2>5 DEF TimesFit
<1>4. ASSUME NEW d \in CatalogReaders PROVE ReaderFits(d)'
  <2>1. ReaderFits(d) /\ listing' = listing /\ catalogRevision' = catalogRevision + 1
    BY <1>1 DEF ReadersFit, CatalogMoves
  <2>2. listing[d].fence \in Nat /\ listing[d].fence <= catalogRevision
          => listing[d].fence <= catalogRevision + 1 /\ listing[d].fence # catalogRevision + 1
    BY <1>2
  <2> QED BY <2>1, <2>2 DEF ReaderFits
<1> QED BY <1>1, <1>3, <1>4 DEF ReadersFit, CatalogMoves

\* Every command keeps the catalogue or moves it.
LEMMA CommandsKeepOrMove ==
    ASSUME CommandInv, CommandNext, \A d \in CatalogReaders : ~ListFirst(d) /\ ~ListNext(d)
    PROVE  CatalogKept \/ CatalogMoves
<1>1. research \in [Researches -> ResearchRow] /\ \A c \in CommandIds : c \in Researches
  BY DEF CommandInv, CommandsTyped, Researches
<1>2. \A c \in CommandIds : call[c].at = "summarize" => call[c].run \in Researches
  BY DEF CommandInv, CallFits, Fits
<1>3. ASSUME research' = research, catalogRevision' = catalogRevision, listing' = listing PROVE CatalogKept
  BY <1>3 DEF CatalogKept
<1>4. ASSUME NEW c \in CommandIds,
             \/ Submit(c) \/ Authorize(c) \/ RecordDecision(c) \/ CallDies(c) \/ LookForSummary(c)
             \/ PrepareForKernel(c) \/ KernelRejects(c) \/ PrepareForDomain(c) \/ WriteRow(c) \/ AnswerDomain(c)
      PROVE  CatalogKept
  BY <1>3, <1>4 DEF Submit, Authorize, RecordDecision, CallDies, LookForSummary, PrepareForKernel, KernelRejects,
                    PrepareForDomain, WriteRow, AnswerDomain
<1>5. \A r \in Researches : research[r] \in ResearchRow
  BY <1>1
<1>6. ASSUME NEW c \in CommandIds, CreateInKernel(c) PROVE CatalogKept
  BY <1>1, <1>5, <1>6 DEF CreateInKernel, CatalogKept, ResearchRow
<1>7. ASSUME NEW c \in CommandIds, DraftContract(c) PROVE CatalogKept
  BY <1>1, <1>5, <1>7 DEF DraftContract, CatalogKept, ResearchRow
<1>8. ASSUME NEW c \in CommandIds, BindMaterial(c) PROVE CatalogKept
  <2>1. research' = research \/ \E h : research' = [research EXCEPT ![c].materials = @ \cup h]
    BY <1>8 DEF BindMaterial
  <2>2. catalogRevision' = catalogRevision /\ listing' = listing
    BY <1>8 DEF BindMaterial
  <2> QED BY <1>1, <1>3, <1>5, <2>1, <2>2 DEF CatalogKept, ResearchRow
<1>9. ASSUME NEW c \in CommandIds, KernelAccepts(c) PROVE CatalogKept
  <2>1. PICK run, after, state : research' = [research EXCEPT ![run].revision = after, ![run].kernel = state]
    BY <1>9 DEF KernelAccepts
  <2>2. catalogRevision' = catalogRevision /\ listing' = listing
    BY <1>9 DEF KernelAccepts
  <2> QED BY <1>1, <1>5, <2>1, <2>2 DEF CatalogKept, ResearchRow
<1>10. ASSUME NEW c \in CommandIds, ConfirmProduct(c) PROVE CatalogKept
  <2>1. PICK run : research' = [research EXCEPT ![run].contract = "CONFIRMED"]
    BY <1>10 DEF ConfirmProduct
  <2>2. catalogRevision' = catalogRevision /\ listing' = listing
    BY <1>10 DEF ConfirmProduct
  <2> QED BY <1>1, <1>5, <2>1, <2>2 DEF CatalogKept, ResearchRow
<1>11. ASSUME NEW r \in Researches, LifecycleMoves(r) PROVE CatalogKept
  BY <1>1, <1>5, <1>11 DEF LifecycleMoves, CatalogKept, ResearchRow
<1>12. ASSUME NEW c \in CommandIds, RegisterInCatalog(c) PROVE CatalogMoves
  <2>1. \A r \in Researches : research'[r].summary = research[r].summary
    BY <1>1, <1>5, <1>12 DEF RegisterInCatalog, ResearchRow
  <2>2. c \in Researches /\ catalogRevision' = catalogRevision + 1 /\ listing' = listing
    BY <1>1, <1>12 DEF RegisterInCatalog
  <2> QED BY <2>1, <2>2 DEF CatalogMoves
<1>13. ASSUME NEW run \in Researches, NEW state \in {"CONTRACT_DRAFT", "CONTRACT_CONFIRMED"}, NEW revision \in Nat,
              Project(run, state, revision), listing' = listing
       PROVE  CatalogMoves
  <2>1. PICK x : /\ x = [state |-> state, revision |-> revision, recent |-> catalogRevision + 1]
                 /\ research' = [research EXCEPT ![run].summary = x]
    BY <1>13 DEF Project
  <2>2. x.recent = catalogRevision + 1 /\ x # NoCommand
    <3>1. x.recent = catalogRevision + 1 /\ catalogRevision + 1 \in Nat
      BY <2>1 DEF CommandInv, CommandsTyped
    <3>2. x \in SummaryRow
      BY <2>1, <3>1 DEF SummaryRow
    <3> QED BY <3>1, <3>2, CommandInputs
  <2>3. \A r \in Researches : r # run => research'[r].summary = research[r].summary
    BY <1>1, <2>1
  <2>4. research'[run].summary = x
    BY <1>1, <1>5, <2>1 DEF ResearchRow
  <2>5. catalogRevision' = catalogRevision + 1
    BY <1>13 DEF Project
  <2> QED BY <1>13, <2>2, <2>3, <2>4, <2>5 DEF CatalogMoves
<1>14. ASSUME NEW c \in CommandIds, SummarizeNew(c) \/ SummarizeConfirmed(c) PROVE CatalogMoves
  <2>1. CASE SummarizeNew(c)
    <3>1. Project(c, "CONTRACT_DRAFT", 0) /\ listing' = listing
      BY <2>1 DEF SummarizeNew
    <3> QED BY <1>1, <1>13, <3>1
  <2>2. CASE SummarizeConfirmed(c)
    <3>1. Project(call[c].run, "CONTRACT_CONFIRMED", call[c].expected + 1) /\ listing' = listing
      BY <2>2 DEF SummarizeConfirmed
    <3>2. call[c].run \in Researches /\ call[c].expected + 1 \in Nat
      BY <1>2, <2>2 DEF SummarizeConfirmed, CommandInv, CommandsTyped, CallRow
    <3> QED BY <1>13, <3>1, <3>2
  <2> QED BY <1>14, <2>1, <2>2
<1> QED BY <1>4, <1>6, <1>7, <1>8, <1>9, <1>10, <1>11, <1>12, <1>14 DEF CommandNext

\* The rows of the catalogue and what its readers were given go together at the start.
LEMMA CatalogInitially == CommandInit => CatalogInv
<1> SUFFICES ASSUME CommandInit PROVE CatalogInv
  OBVIOUS
<1>1. CommandInv
  BY CommandsInitially
<1>2. \A r, q \in Standing : r = q
  <2>1. ASSUME NEW r \in Standing, NEW q \in Standing, r # q PROVE FALSE
    <3>1. {r, q} \subseteq Standing /\ IsFiniteSet(Standing)
      BY CommandInputs
    <3>2. Cardinality({r, q}) = 2
      <4>1. IsFiniteSet({r}) /\ Cardinality({r}) = 1
        BY FS_Singleton
      <4>2. q \notin {r} /\ {r, q} = {r} \cup {q}
        BY <2>1
      <4>3. Cardinality({r} \cup {q}) = Cardinality({r}) + 1
        BY <4>1, <4>2, FS_AddElement
      <4> QED BY <4>1, <4>2, <4>3
    <3>3. Cardinality({r, q}) <= Cardinality(Standing) /\ Cardinality(Standing) \in Nat
      BY <3>1, FS_Subset, FS_CardinalityType
    <3> QED BY <3>2, <3>3, OneStanding
  <2> QED BY <2>1
<1>3. \A r \in Researches : IF r \in Standing THEN research[r].summary.recent = 0 ELSE research[r].summary = NoCommand
  BY DEF CommandInit, Drafted, Absent
<1>4. catalogRevision \in Nat
  BY <1>1 DEF CommandInv, CommandsTyped
<1>5. TimesFit
  BY <1>2, <1>3, <1>4 DEF TimesFit
<1>6. ReadersFit
  BY DEF CommandInit, ReadersFit, ReaderFits
<1> QED BY <1>1, <1>5, <1>6 DEF CatalogInv

\* Every step keeps it so.
LEMMA CatalogInductive == CatalogInv /\ [CommandNext]_commandVars => CatalogInv'
<1> SUFFICES ASSUME CatalogInv, [CommandNext]_commandVars PROVE CatalogInv'
  OBVIOUS
<1>1. CommandInv /\ CommandInv'
  BY CommandsInductive DEF CatalogInv
<1>2. CASE UNCHANGED commandVars
  BY <1>1, <1>2, KeptStep DEF CatalogKept, commandVars, CatalogInv
<1>3. ASSUME NEW d \in CatalogReaders, ListFirst(d) \/ ListNext(d) PROVE CatalogInv'
  <2>1. research' = research /\ catalogRevision' = catalogRevision
    BY <1>3 DEF ListFirst, ListNext
  <2>2. TimesFit'
    BY <2>1 DEF CatalogInv, TimesFit
  <2> QED BY <1>1, <1>3, <2>2, ServeStep DEF CatalogInv
<1>4. CASE CommandNext /\ \A d \in CatalogReaders : ~ListFirst(d) /\ ~ListNext(d)
  BY <1>1, <1>4, CommandsKeepOrMove, KeptStep, MovesStep DEF CatalogInv
<1> QED BY <1>2, <1>3, <1>4

\* The invariant says what the pages are.
LEMMA PagesFit == CatalogInv => PagesAreTheCatalogue
<1> SUFFICES ASSUME CatalogInv, NEW d \in CatalogReaders, listing[d].fence # NoCommand,
                    listing[d].fence = catalogRevision
             PROVE  /\ IsPrefix(listing[d].seen, CatalogRows)
                    /\ listing[d].after = NoCommand => listing[d].seen = CatalogRows
  BY DEF PagesAreTheCatalogue
<1>1. CommandsTyped /\ TimesFit /\ ReaderFits(d)
  BY DEF CatalogInv, CommandInv, ReadersFit
<1>2. ReadSoFar(listing[d].seen, listing[d].after)
  BY <1>1 DEF ReaderFits, NotReading
<1>3. PICK s, n : s = CatalogRows /\ s \in Seq(Listed) /\ Len(s) = n /\ n \in Nat /\ \A i \in 1..n : s[i] \in Listed
  BY <1>1, RowsAreASequence
<1>4. PICK k \in 0..n : /\ listing[d].seen = SubSeq(s, 1, k)
                        /\ \/ k = n /\ listing[d].after = NoCommand
                           \/ k \in 1..(n - 1) /\ listing[d].after = research[s[k]].summary.recent
  BY <1>2, <1>3 DEF ReadSoFar
<1>5. PICK t : t = SubSeq(s, 1, k) /\ t \in Seq(Listed) /\ Len(t) = k /\ \A i \in 1..k : t[i] = s[i]
  <2>1. k \in Nat /\ k <= Len(s)
    BY <1>3
  <2>2. s \in Seq(Listed)
    BY <1>3
  <2>3. /\ SubSeq(s, 1, k) \in Seq(Listed) /\ Len(SubSeq(s, 1, k)) = k
        /\ \A i \in 1..k : SubSeq(s, 1, k)[i] = s[i]
    BY ONLY <2>1, <2>2, FirstPart DEF BeginsAs
  <2> QED BY <2>3
<1>6. IsPrefix(t, s)
  <2>1. PICK u : u = SubSeq(t, 1, k) /\ u \in Seq(Listed) /\ Len(u) = k /\ \A i \in 1..k : u[i] = t[i]
    BY <1>5, FirstPart DEF BeginsAs
  <2>2. u = t
    BY <1>5, <2>1, SeqEqual
  <2> QED BY <1>3, <1>5, <2>1, <2>2 DEF IsPrefix
<1>7. k = n => t = s
  BY <1>3, <1>5, SeqEqual
<1>8. k \in 1..(n - 1) => research[s[k]].summary.recent # NoCommand
  <2>1. k \in 1..(n - 1) => s[k] \in Listed
    BY <1>3
  <2>2. \A r \in Listed : research[r].summary.recent \in Nat
    BY <1>1 DEF CommandsTyped, Listed, ResearchRow, SummaryRow
  <2> QED BY <2>1, <2>2, CommandInputs
<1> QED BY <1>3, <1>4, <1>5, <1>6, <1>7, <1>8

\* However many readers page through it and however commands move it between two pages: the
\* pages given at one revision are the head of the catalogue, and all of it at the last page
\* (listing.py list, _decode).
THEOREM PagesAreAlwaysTheCatalogue == DomainSpec => []PagesAreTheCatalogue
<1>1. CommandInit => CatalogInv
  BY CatalogInitially
<1>2. CatalogInv /\ [CommandNext]_commandVars => CatalogInv'
  BY CatalogInductive
<1>3. CatalogInv => PagesAreTheCatalogue
  BY PagesFit
<1> QED BY <1>1, <1>2, <1>3, PTL DEF DomainSpec

-----------------------------------------------------------------------------
(* Sessions and capabilities *)


\* What a request remembers is a row that exists, a known identity once it was checked,
\* and disabled identities that are still disabled: an identity is never enabled again.
RequestsRemember ==
    \A r \in Requests :
        /\ requests[r].session # NoSession => sessions[requests[r].session] # NoSession
        /\ requests[r].pc \in {"proved", "granted"} => requests[r].who \in Identities
        /\ requests[r].pc = "granted" => requests[r].session # NoSession
        /\ requests[r].gone \cap enabled = {}

\* An identity is linked to a session that is not shared only with its secret.
LinksAreProved ==
    \A s \in SessionIds :
        sessions[s] # NoSession /\ ~sessions[s].shared => linked[s] \subseteq proofs[s]

CallGranted(r) ==
    LET q == requests[r] IN
      /\ q.who \in proofs[q.session]
      /\ ~sessions[q.session].shared
      /\ q.who \notin q.gone
      /\ \E c \in RoleActions[RoleOf[q.who]] : KernelBinding[c] = q.kernel

SessionInv ==
    /\ SessionTypeOK
    /\ proofs \in [SessionIds -> SUBSET Identities]
    /\ RequestsRemember
    /\ LinksAreProved
    /\ \A r \in Requests : RequestAt(r, "granted") => CallGranted(r)

-----------------------------------------------------------------------------
\* How the rows of two states may differ so that what a request remembers stays true:
\* no row disappears or becomes shared, no proof is forgotten, nobody is enabled.
SessionRowsGrow ==
    /\ \A s \in SessionIds :
          /\ sessions[s] # NoSession =>
                sessions'[s] # NoSession /\ sessions'[s].shared = sessions[s].shared
          /\ proofs[s] \subseteq proofs'[s]
    /\ enabled' \subseteq enabled

\* A request that is not touched keeps what it remembers and rests on.
LEMMA UntouchedKeeps ==
    ASSUME SessionInv, SessionRowsGrow, NEW r \in Requests, requests'[r] = requests[r]
    PROVE  /\ requests'[r].session # NoSession => sessions'[requests'[r].session] # NoSession
           /\ requests'[r].pc \in {"proved", "granted"} => requests'[r].who \in Identities
           /\ requests'[r].pc = "granted" => requests'[r].session # NoSession
           /\ requests'[r].gone \cap enabled' = {}
           /\ RequestAt(r, "granted")' => CallGranted(r)'
<1>1. requests[r] \in RequestState
  BY DEF SessionInv, SessionTypeOK
<1>2. requests[r].session \in SessionIds \cup {NoSession}
  BY <1>1 DEF RequestState
<1>3. requests[r].session # NoSession => sessions'[requests[r].session] # NoSession
  BY <1>2 DEF SessionInv, RequestsRemember, SessionRowsGrow
<1>4. ASSUME requests[r].pc = "granted" PROVE CallGranted(r)'
  <2>1. CallGranted(r) /\ requests[r].session \in SessionIds
                   /\ sessions[requests[r].session] # NoSession
    BY <1>2, <1>4 DEF SessionInv, RequestsRemember, RequestAt
  <2>2. /\ proofs[requests[r].session] \subseteq proofs'[requests[r].session]
        /\ sessions'[requests[r].session].shared = sessions[requests[r].session].shared
    BY <2>1 DEF SessionRowsGrow
  <2> QED BY <2>1, <2>2 DEF CallGranted
<1> QED BY <1>3, <1>4 DEF SessionInv, RequestsRemember, SessionRowsGrow, RequestAt

\* Answering a request clears it.
LEMMA ClearedIsTrivial ==
    ASSUME SessionInv, NEW r \in Requests, requests'[r] = NewRequest
    PROVE  /\ requests'[r].session = NoSession
           /\ requests'[r].pc = "new"
           /\ requests'[r].gone = {}
           /\ requests'[r] \in RequestState
  BY DEF NewRequest, RequestState

\* A step that lets the rows grow and keeps or clears every request.
LEMMA AnsweredKeeps ==
    ASSUME SessionInv, SessionRowsGrow, DOMAIN requests' = Requests, requests' = [q \in Requests |-> requests'[q]],
           \A q \in Requests : requests'[q] = requests[q] \/ requests'[q] = NewRequest
    PROVE  /\ requests' \in [Requests -> RequestState]
           /\ RequestsRemember'
           /\ \A q \in Requests : RequestAt(q, "granted")' => CallGranted(q)'
<1>1. ASSUME NEW q \in Requests
      PROVE  /\ requests'[q] \in RequestState
             /\ requests'[q].session # NoSession => sessions'[requests'[q].session] # NoSession
             /\ requests'[q].pc \in {"proved", "granted"} => requests'[q].who \in Identities
             /\ requests'[q].pc = "granted" => requests'[q].session # NoSession
             /\ requests'[q].gone \cap enabled' = {}
             /\ RequestAt(q, "granted")' => CallGranted(q)'
  <2>1. CASE requests'[q] = requests[q]
    <3>1. requests'[q] \in RequestState
      BY <2>1 DEF SessionInv, SessionTypeOK
    <3> QED BY <2>1, <3>1, UntouchedKeeps
  <2>2. CASE requests'[q] = NewRequest
    BY <2>2, ClearedIsTrivial DEF RequestAt
  <2> QED BY <2>1, <2>2
<1>2. requests' \in [Requests -> RequestState]
  BY <1>1
<1> QED BY <1>1, <1>2 DEF RequestsRemember

-----------------------------------------------------------------------------
\* The rows stay as they are.
RowsStay == UNCHANGED <<enabled, sessions, linked, proofs>>

\* Unchanged rows grow.
LEMMA StayingGrows == ASSUME SessionInv, RowsStay PROVE SessionRowsGrow
  BY DEF RowsStay, SessionRowsGrow

\* Steps of one request on unchanged rows keep the invariant if they keep it for the request.
LEMMA OneRequestMoves ==
    ASSUME SessionInv, RowsStay, NEW r \in Requests, NEW q,
           requests' = [requests EXCEPT ![r] = q],
           q \in RequestState,
           q.session # NoSession => sessions[q.session] # NoSession,
           q.pc \in {"proved", "granted"} => q.who \in Identities,
           q.pc = "granted" => /\ q.session # NoSession
                               /\ q.who \in proofs[q.session]
                               /\ ~sessions[q.session].shared
                               /\ q.who \notin q.gone
                               /\ \E c \in RoleActions[RoleOf[q.who]] : KernelBinding[c] = q.kernel,
           q.gone \cap enabled = {}
    PROVE  SessionInv'
<1>1. requests'[r] = q /\ \A p \in Requests \ {r} : requests'[p] = requests[p]
  BY DEF SessionInv, SessionTypeOK
<1>2. SessionRowsGrow
  BY StayingGrows
<1>3. SessionTypeOK' /\ (proofs \in [SessionIds -> SUBSET Identities])' /\ LinksAreProved'
  BY DEF SessionInv, SessionTypeOK, RowsStay, LinksAreProved
<1>4. ASSUME NEW p \in Requests
      PROVE  /\ requests'[p].session # NoSession => sessions'[requests'[p].session] # NoSession
             /\ requests'[p].pc \in {"proved", "granted"} => requests'[p].who \in Identities
             /\ requests'[p].pc = "granted" => requests'[p].session # NoSession
             /\ requests'[p].gone \cap enabled' = {}
             /\ RequestAt(p, "granted")' => CallGranted(p)'
  <2>1. CASE p = r
    <3>1. requests'[p] = q
      BY <1>1, <2>1
    <3> QED BY <3>1 DEF RowsStay, RequestAt, CallGranted
  <2>2. CASE p # r
    <3>1. requests'[p] = requests[p]
      BY <1>1, <2>2
    <3> QED BY <3>1, <1>2, UntouchedKeeps
  <2> QED BY <2>1, <2>2
<1> QED BY <1>3, <1>4 DEF SessionInv, RequestsRemember

\* The step answers a request or touches none.
Answered == UNCHANGED requests \/ \E r \in Requests : Answer(r)

\* A step that answers a request or none and changes rows.
LEMMA RowsChange ==
    ASSUME SessionInv, SessionRowsGrow, Answered,
           enabled' \subseteq Identities,
           sessions' \in [SessionIds -> SessionRow \cup {NoSession}],
           linked' \in [SessionIds -> SUBSET Identities],
           proofs' \in [SessionIds -> SUBSET Identities],
           LinksAreProved'
    PROVE  SessionInv'
<1>1. /\ \A q \in Requests : requests'[q] = requests[q] \/ requests'[q] = NewRequest
      /\ DOMAIN requests' = Requests
      /\ requests' = [q \in Requests |-> requests'[q]]
  BY DEF SessionInv, SessionTypeOK, Answered, Answer
<1> QED BY <1>1, AnsweredKeeps DEF SessionInv, SessionTypeOK

-----------------------------------------------------------------------------
\* SessionStore.derive: a request remembers the row, its identity and who is disabled.
LEMMA ArriveStep ==
    ASSUME SessionInv, NEW r \in Requests, NEW s \in SessionIds \cup {NoSession}, Arrive(r, s)
    PROVE  SessionInv'
<1>1. RowsStay
  BY DEF Arrive, RowsStay
<1>2. requests[r] \in RequestState /\ enabled \subseteq Identities
  BY DEF SessionInv, SessionTypeOK
<1>3. ASSUME s # NoSession, NEW i \in Identities, Resolved(s, i),
             requests' = [requests EXCEPT ![r] = [@ EXCEPT !.pc = "arrived", !.session = s,
                                 !.who = i, !.gone = Identities \ enabled]]
      PROVE  SessionInv'
  <2> DEFINE q == [requests[r] EXCEPT !.pc = "arrived", !.session = s, !.who = i,
                                      !.gone = Identities \ enabled]
  <2>1. requests' = [requests EXCEPT ![r] = q]
    BY <1>3
  <2>2. /\ q \in RequestState /\ q.pc = "arrived" /\ q.session = s
        /\ q.gone = Identities \ enabled
    BY <1>2, <1>3 DEF RequestState
  <2>3. sessions[s] # NoSession
    BY <1>3 DEF Resolved, ActiveRow
  <2> HIDE DEF q
  <2> QED BY <1>1, <2>1, <2>2, <2>3, OneRequestMoves
<1>4. ASSUME requests' = [requests EXCEPT ![r] = [@ EXCEPT !.pc = "current",
                                                  !.gone = Identities \ enabled]]
      PROVE  SessionInv'
  <2> DEFINE q == [requests[r] EXCEPT !.pc = "current", !.gone = Identities \ enabled]
  <2>1. requests' = [requests EXCEPT ![r] = q]
    BY <1>4
  <2>2. /\ q \in RequestState /\ q.pc = "current" /\ q.session = requests[r].session
        /\ q.gone = Identities \ enabled
    BY <1>2 DEF RequestState
  <2>3. q.session # NoSession => sessions[q.session] # NoSession
    BY <2>2 DEF SessionInv, RequestsRemember
  <2> HIDE DEF q
  <2> QED BY <1>1, <2>1, <2>2, <2>3, OneRequestMoves
<1> QED BY <1>3, <1>4 DEF Arrive

\* A request whose program counter moves to a state without a capability.
LEMMA MovesOn ==
    ASSUME SessionInv, RowsStay, NEW r \in Requests, NEW w \in Identities \cup {NoSession},
           NEW pc \in {"current", "proved"}, pc = "proved" => w \in Identities,
           requests' = [requests EXCEPT ![r].pc = pc, ![r].who = w]
    PROVE  SessionInv'
<1> DEFINE q == [requests[r] EXCEPT !.pc = pc, !.who = w]
<1>1. requests[r] \in RequestState
  BY DEF SessionInv, SessionTypeOK
<1>2. requests' = [requests EXCEPT ![r] = q]
  BY DEF SessionInv, SessionTypeOK
<1>3. /\ q \in RequestState /\ q.pc = pc /\ q.session = requests[r].session
      /\ q.who = w /\ q.gone = requests[r].gone
  BY <1>1 DEF RequestState
<1>4. /\ q.session # NoSession => sessions[q.session] # NoSession
      /\ q.gone \cap enabled = {}
  BY <1>3 DEF SessionInv, RequestsRemember
<1> HIDE DEF q
<1> QED BY <1>2, <1>3, <1>4, OneRequestMoves

\* Answering a request on unchanged rows.
LEMMA AnswerStep ==
    ASSUME SessionInv, NEW r \in Requests, Answer(r), RowsStay
    PROVE  SessionInv'
  BY StayingGrows, RowsChange DEF Answered, RowsStay, SessionInv, SessionTypeOK, LinksAreProved

\* A stale principal is refused, a current one goes on.
LEMMA RequireCurrentStep ==
    ASSUME SessionInv, NEW r \in Requests, RequireCurrent(r)
    PROVE  SessionInv'
<1>1. RowsStay
  BY DEF RequireCurrent, RowsStay
<1>2. ASSUME requests' = [requests EXCEPT ![r].pc = "current"] PROVE SessionInv'
  <2>1. requests[r] \in RequestState
    BY DEF SessionInv, SessionTypeOK
  <2>2. requests[r].who \in Identities \cup {NoSession}
    BY <2>1 DEF RequestState
  <2>3. requests' = [requests EXCEPT ![r].pc = "current", ![r].who = requests[r].who]
    BY <1>2, <2>1 DEF SessionInv, SessionTypeOK, RequestState
  <2> QED BY <1>1, <2>2, <2>3, MovesOn
<1> QED BY <1>1, <1>2, AnswerStep DEF RequireCurrent

\* Only an enabled, hence known, identity gives its secret.
LEMMA AuthenticateStep ==
    ASSUME SessionInv, NEW r \in Requests, NEW i \in Identities, Authenticate(r, i)
    PROVE  SessionInv'
  BY MovesOn DEF Authenticate, RowsStay

-----------------------------------------------------------------------------
\* A new row takes a free session id: no request knows it.
LEMMA NewRow ==
    ASSUME SessionInv, NEW r \in Requests, NEW t \in FreshSessions, NEW i \in Identities,
           NEW shared \in BOOLEAN, EnterNew(t, i, shared), Answer(r), enabled' = enabled,
           proofs' = IF shared THEN proofs ELSE [proofs EXCEPT ![t] = @ \cup {i}]
    PROVE  SessionInv'
<1>1. t \in SessionIds /\ sessions[t] = NoSession
  BY DEF FreshSessions
<1>2. /\ sessions' = [sessions EXCEPT ![t] = [shared |-> shared, active |-> i, live |-> TRUE]]
      /\ linked' = [linked EXCEPT ![t] = {i}]
  BY DEF EnterNew
<1>3. /\ sessions' \in [SessionIds -> SessionRow \cup {NoSession}]
      /\ linked' \in [SessionIds -> SUBSET Identities]
      /\ proofs' \in [SessionIds -> SUBSET Identities]
  BY <1>1, <1>2 DEF SessionInv, SessionTypeOK, SessionRow
<1>4. SessionRowsGrow
  BY <1>1, <1>2 DEF SessionRowsGrow, SessionInv, SessionTypeOK
<1>5. ASSUME NEW s \in SessionIds, sessions'[s] # NoSession, ~sessions'[s].shared
      PROVE  linked'[s] \subseteq proofs'[s]
  <2>1. CASE s = t
    <3>1. ~shared /\ linked'[s] = {i}
      BY <1>1, <1>2, <1>5, <2>1 DEF SessionInv, SessionTypeOK
    <3> QED BY <3>1, <1>1, <2>1 DEF SessionInv
  <2>2. CASE s # t
    <3>1. sessions'[s] = sessions[s] /\ linked'[s] = linked[s] /\ proofs'[s] = proofs[s]
      BY <1>1, <1>2, <2>2 DEF SessionInv, SessionTypeOK
    <3> QED BY <3>1, <1>5 DEF SessionInv, LinksAreProved
  <2> QED BY <2>1, <2>2
<1>6. LinksAreProved'
  BY <1>5 DEF LinksAreProved
<1> QED BY <1>3, <1>4, <1>6, RowsChange DEF Answered, SessionInv, SessionTypeOK

\* A row that exists is switched, entered or ended; who it is linked to was proved.
LEMMA SessionRowMoves ==
    ASSUME SessionInv, Answered, NEW s \in SessionIds, sessions[s] # NoSession,
           NEW row \in SessionRow, row.shared = sessions[s].shared,
           sessions' = [sessions EXCEPT ![s] = row], enabled' = enabled,
           NEW new \in SUBSET Identities,
           linked' = [linked EXCEPT ![s] = @ \cup new],
           proofs' = [proofs EXCEPT ![s] = @ \cup new]
    PROVE  SessionInv'
<1>1. row # NoSession
  BY SessionAssumption
<1>2. /\ sessions' \in [SessionIds -> SessionRow \cup {NoSession}]
      /\ linked' \in [SessionIds -> SUBSET Identities]
      /\ proofs' \in [SessionIds -> SUBSET Identities]
  BY DEF SessionInv, SessionTypeOK
<1>3. SessionRowsGrow
  BY <1>1 DEF SessionRowsGrow, SessionInv, SessionTypeOK
<1>4. ASSUME NEW u \in SessionIds, sessions'[u] # NoSession, ~sessions'[u].shared
      PROVE  linked'[u] \subseteq proofs'[u]
  <2>1. sessions[u] # NoSession /\ ~sessions[u].shared
    BY <1>4 DEF SessionInv, SessionTypeOK
  <2>2. linked[u] \subseteq proofs[u]
    BY <2>1 DEF SessionInv, LinksAreProved
  <2> QED BY <2>2 DEF SessionInv, SessionTypeOK
<1>5. LinksAreProved'
  BY <1>4 DEF LinksAreProved
<1> QED BY <1>2, <1>3, <1>5, RowsChange DEF Answered, SessionInv, SessionTypeOK

\* SessionStore.login: a new row or a further identity in the row, with its proof.
LEMMA LoginStep ==
    ASSUME SessionInv, NEW r \in Requests, Login(r)
    PROVE  SessionInv'
<1> DEFINE s == requests[r].session
           i == requests[r].who
<1>1. i \in Identities /\ s \in SessionIds \cup {NoSession}
  BY DEF Login, RequestAt, SessionInv, RequestsRemember, SessionTypeOK, RequestState
<1>2. ASSUME NEW t \in FreshSessions, EnterNew(t, i, FALSE),
             proofs' = [proofs EXCEPT ![t] = @ \cup {i}]
      PROVE  SessionInv'
  BY <1>1, <1>2, NewRow DEF Login
<1>3. ASSUME s # NoSession, ActiveRow(s), sessions' = [sessions EXCEPT ![s].active = i],
             linked' = [linked EXCEPT ![s] = @ \cup {i}],
             proofs' = [proofs EXCEPT ![s] = @ \cup {i}]
      PROVE  SessionInv'
  <2> DEFINE row == [sessions[s] EXCEPT !.active = i]
  <2>1. s \in SessionIds /\ sessions[s] # NoSession /\ sessions[s] \in SessionRow
    BY <1>1, <1>3 DEF ActiveRow, SessionInv, SessionTypeOK
  <2>2. row \in SessionRow /\ row.shared = sessions[s].shared
    BY <1>1, <2>1 DEF SessionRow
  <2>3. sessions' = [sessions EXCEPT ![s] = row]
    BY <1>3
  <2>4. enabled' = enabled /\ Answered
    BY DEF Login, Answered
  <2>5. {i} \in SUBSET Identities
    BY <1>1
  <2> HIDE DEF row, s, i
  <2> QED BY <1>3, <2>1, <2>2, <2>3, <2>4, <2>5, SessionRowMoves, Zenon
<1>4. ASSUME UNCHANGED <<sessions, linked, proofs>> PROVE SessionInv'
  BY <1>4, AnswerStep DEF Login, RowsStay
<1> QED BY <1>2, <1>3, <1>4 DEF Login

\* A shared row is linked to an identity without a proof, but it is shared for good.
LEMMA EnterSharedStep ==
    ASSUME SessionInv, NEW r \in Requests, EnterShared(r)
    PROVE  SessionInv'
<1>1. PICK t \in FreshSessions, i \in enabled : EnterNew(t, i, TRUE)
  BY DEF EnterShared
<1>2. i \in Identities
  BY DEF SessionInv, SessionTypeOK
<1> QED BY <1>1, <1>2, NewRow DEF EnterShared

\* A row that exists gets another active identity or ends, its links stay.
LEMMA SameLinks ==
    ASSUME SessionInv, Answered, NEW s \in SessionIds, sessions[s] # NoSession,
           NEW row \in SessionRow, row.shared = sessions[s].shared,
           sessions' = [sessions EXCEPT ![s] = row],
           UNCHANGED <<enabled, linked, proofs>>
    PROVE  SessionInv'
<1>1. /\ linked' = [linked EXCEPT ![s] = @ \cup {}]
      /\ proofs' = [proofs EXCEPT ![s] = @ \cup {}]
      /\ enabled' = enabled
      /\ {} \in SUBSET Identities
  BY DEF SessionInv, SessionTypeOK
<1> QED BY <1>1, SessionRowMoves, Zenon

\* Switching chooses among the linked identities.
LEMMA SwitchStep ==
    ASSUME SessionInv, NEW r \in Requests, NEW i \in Identities, Switch(r, i)
    PROVE  SessionInv'
<1> DEFINE s == requests[r].session
           row == [sessions[s] EXCEPT !.active = i]
<1>1. s \in SessionIds
  BY DEF Switch, SessionInv, SessionTypeOK, RequestState
<1>2. sessions[s] # NoSession /\ sessions[s] \in SessionRow
  BY <1>1 DEF Switch, ActiveRow, SessionInv, SessionTypeOK
<1>3. row \in SessionRow /\ row.shared = sessions[s].shared
  BY <1>2 DEF SessionRow
<1>4. /\ sessions' = [sessions EXCEPT ![s] = row]
      /\ UNCHANGED <<enabled, linked, proofs>> /\ Answered
  BY DEF Switch, Answered
<1> HIDE DEF row, s
<1> QED BY <1>1, <1>2, <1>3, <1>4, SameLinks

\* A row that ends still exists for the requests that remember it.
LEMMA EndRow ==
    ASSUME SessionInv, Answered, NEW s \in SessionIds, ActiveRow(s),
           sessions' = [sessions EXCEPT ![s].live = FALSE],
           UNCHANGED <<enabled, linked, proofs>>
    PROVE  SessionInv'
<1> DEFINE row == [sessions[s] EXCEPT !.live = FALSE]
<1>1. sessions[s] # NoSession /\ sessions[s] \in SessionRow
  BY DEF ActiveRow, SessionInv, SessionTypeOK
<1>2. row \in SessionRow /\ row.shared = sessions[s].shared
  BY <1>1 DEF SessionRow
<1>3. sessions' = [sessions EXCEPT ![s] = row]
  OBVIOUS
<1> HIDE DEF row
<1> QED BY <1>1, <1>2, <1>3, SameLinks

\* Logging out ends a row.
LEMMA LogoutStep ==
    ASSUME SessionInv, NEW r \in Requests, Logout(r)
    PROVE  SessionInv'
<1>1. requests[r].session \in SessionIds
  BY DEF Logout, SessionInv, SessionTypeOK, RequestState
<1> QED BY <1>1, EndRow DEF Logout, Answered

\* The capability: the identity is linked, so it was proved; it is enabled, so it was not gone.
LEMMA VerifiedCapabilityStep ==
    ASSUME SessionInv, NEW r \in Requests, NEW command \in Commands, VerifiedCapability(r, command)
    PROVE  SessionInv'
<1> DEFINE s == requests[r].session
<1>1. PICK i \in Identities :
        /\ Resolved(s, i) /\ command \in RoleActions[RoleOf[i]]
        /\ requests' = [requests EXCEPT ![r].pc = "granted", ![r].who = i,
                                        ![r].command = command,
                                        ![r].kernel = KernelBinding[command]]
  BY DEF VerifiedCapability
<1> DEFINE q == [requests[r] EXCEPT !.pc = "granted", !.who = i, !.command = command,
                                    !.kernel = KernelBinding[command]]
<1>2. requests[r] \in RequestState /\ s \in SessionIds /\ s # NoSession
  BY DEF VerifiedCapability, SessionInv, SessionTypeOK, RequestState
<1>3. requests' = [requests EXCEPT ![r] = q]
  BY <1>1, <1>2 DEF SessionInv, SessionTypeOK
<1>4. KernelBinding[command] \in {KernelBinding[c] : c \in Commands}
  OBVIOUS
<1>5. /\ q \in RequestState /\ q.pc = "granted" /\ q.session = s /\ q.who = i
      /\ q.gone = requests[r].gone /\ q.kernel = KernelBinding[command]
  BY <1>2, <1>4 DEF RequestState
<1>6. /\ sessions[s] # NoSession /\ ~sessions[s].shared
      /\ i \in proofs[s] /\ i \in enabled
  BY <1>1, <1>2 DEF VerifiedCapability, Resolved, ActiveRow, SessionInv, LinksAreProved
<1>7. q.gone \cap enabled = {}
  BY <1>5 DEF SessionInv, RequestsRemember
<1>8. \E c \in RoleActions[RoleOf[q.who]] : KernelBinding[c] = q.kernel
  BY <1>1, <1>5
<1>9. RowsStay
  BY DEF VerifiedCapability, RowsStay
<1>10. /\ q \in RequestState
       /\ q.session # NoSession => sessions[q.session] # NoSession
       /\ q.pc \in {"proved", "granted"} => q.who \in Identities
       /\ q.pc = "granted" => /\ q.session # NoSession
                              /\ q.who \in proofs[q.session]
                              /\ ~sessions[q.session].shared
                              /\ q.who \notin q.gone
                              /\ \E c \in RoleActions[RoleOf[q.who]] : KernelBinding[c] = q.kernel
  BY <1>2, <1>5, <1>6, <1>7, <1>8
<1> HIDE DEF q, s
<1> QED BY <1>3, <1>7, <1>9, <1>10, OneRequestMoves, Zenon

-----------------------------------------------------------------------------
\* Disabling an identity leaves the rows alone; the requests keep who was gone.
LEMMA DisableStep ==
    ASSUME SessionInv, NEW i \in Identities, DisableIdentity(i)
    PROVE  SessionInv'
<1>1. UNCHANGED <<sessions, linked, requests, proofs>> /\ enabled' \subseteq enabled
  BY DEF DisableIdentity
<1>2. SessionRowsGrow
  BY <1>1 DEF SessionRowsGrow
<1> QED BY <1>1, <1>2, RowsChange DEF Answered, SessionInv, SessionTypeOK, LinksAreProved

\* The invariant holds when nobody has come in.
LEMMA SessionInitHolds == SessionInit => SessionInv
<1> SUFFICES ASSUME SessionInit PROVE SessionInv
  OBVIOUS
<1>1. NewRequest \in RequestState /\ NewRequest.pc = "new" /\ NewRequest.session = NoSession
                                  /\ NewRequest.gone = {}
  BY DEF NewRequest, RequestState
<1>2. SessionTypeOK /\ proofs \in [SessionIds -> SUBSET Identities] /\ LinksAreProved
  BY <1>1 DEF SessionInit, SessionTypeOK, LinksAreProved
<1>3. \A r \in Requests : requests[r] = NewRequest
  BY DEF SessionInit
<1> QED BY <1>1, <1>2, <1>3 DEF SessionInv, RequestsRemember, RequestAt

\* Every step of a browser, a handler or the host keeps the invariant.
LEMMA SessionStep == SessionInv /\ [SessionNext]_sessionVars => SessionInv'
<1> SUFFICES ASSUME SessionInv, [SessionNext]_sessionVars PROVE SessionInv'
  OBVIOUS
<1>1. ASSUME NEW r \in Requests, NEW s \in SessionIds \cup {NoSession}, Arrive(r, s)
      PROVE  SessionInv'
  BY <1>1, ArriveStep
<1>2. ASSUME NEW r \in Requests, RequireCurrent(r) PROVE SessionInv'
  BY <1>2, RequireCurrentStep
<1>3. ASSUME NEW r \in Requests, Login(r) PROVE SessionInv'
  BY <1>3, LoginStep
<1>4. ASSUME NEW r \in Requests, EnterShared(r) PROVE SessionInv'
  BY <1>4, EnterSharedStep
<1>5. ASSUME NEW r \in Requests, Logout(r) PROVE SessionInv'
  BY <1>5, LogoutStep
<1>6. ASSUME NEW r \in Requests, AuthorityApply(r) PROVE SessionInv'
  BY <1>6, AnswerStep DEF AuthorityApply, RowsStay
<1>7. ASSUME NEW r \in Requests, NEW i \in Identities, Authenticate(r, i) \/ Switch(r, i)
      PROVE  SessionInv'
  BY <1>7, AuthenticateStep, SwitchStep
<1>8. ASSUME NEW r \in Requests, NEW command \in Commands, VerifiedCapability(r, command)
      PROVE  SessionInv'
  BY <1>8, VerifiedCapabilityStep
<1>9. ASSUME NEW s \in SessionIds, Expire(s) PROVE SessionInv'
  BY <1>9, EndRow DEF Expire, Answered
<1>10. ASSUME NEW i \in Identities, DisableIdentity(i) PROVE SessionInv'
  BY <1>10, DisableStep
<1>11. CASE UNCHANGED sessionVars
  BY <1>11 DEF sessionVars, SessionInv, SessionTypeOK, RequestsRemember, LinksAreProved, RequestAt,
               CallGranted
<1> QED BY <1>1, <1>2, <1>3, <1>4, <1>5, <1>6, <1>7, <1>8, <1>9, <1>10, <1>11
        DEF SessionNext

\* In every reachable state, with any number of browsers, sessions and requests: a call
\* the kernel gets rests on a login in that very session (SessionStore.verified_capability).
THEOREM CallsAlwaysRestOnLogin == SessionSpec => []CallsRestOnLogin
<1>1. SessionInv => CallsRestOnLogin
  BY DEF SessionInv, CallsRestOnLogin, CallGranted
<1> QED BY <1>1, SessionInitHolds, SessionStep, PTL DEF SessionSpec

-----------------------------------------------------------------------------
(* The problem pool and its batches *)

\* A candidate that a batch may run: a human included it and the score recommends it.
Wanted(prb, s) ==
    prb[s] # NoPool /\ prb[s].audit = "HUMAN_INCLUDED" /\ prb[s].recommended = "RECOMMENDED"

\* Source rows and candidates go together: every candidate has one included row, which states
\* its problem, every included row has its candidate, and a duplicate repeats a candidate.
PairsFit(src, prb) ==
    /\ src = [id \in DOMAIN src |-> src[id]] /\ DOMAIN src \subseteq Snapshots \X (PoolEntries \cup {NoPool})
    /\ prb \in [Statements -> ProblemRow \cup {NoPool}]
    /\ \A s \in Statements : prb[s] # NoPool =>
          /\ prb[s].source \in DOMAIN src /\ src[prb[s].source] = "INCLUDED"
          /\ prb[s].source[2].statement = s
    /\ \A id \in DOMAIN src : src[id] = "INCLUDED" => \E s \in Statements : prb[s] # NoPool /\ prb[s].source = id
    /\ \A id \in DOMAIN src : src[id] = "DUPLICATE_STATEMENT" =>
          id[2].statement \in Statements /\ prb[id[2].statement] # NoPool
    /\ IsFiniteSet({s \in Statements : prb[s] # NoPool})

\* Every snapshot that is recorded has all its rows.
SnapshotsComplete ==
    \A n \in Snapshots : snapshotRows[n] # NoPool =>
      IF EntriesOf[n] \in {NoPool, <<>>} THEN <<n, NoPool>> \in DOMAIN sourceRows
      ELSE \A e \in Range(EntriesOf[n]) : <<n, e>> \in DOMAIN sourceRows

IngestRow == [pc : {"read", "write"}, list : SnapshotLists, pos : Nat]
ExecutorRow == [pc : {"idle", "loop", "record"}, todo : SUBSET Statements, at : Statements \cup {NoPool},
                run : Nat \cup {NoPool}]

PoolTyped ==
    /\ poolState \in {"COLLECTING", "HUMAN_AUDIT", "FROZEN"}
    /\ snapshotRows \in [Snapshots -> SnapshotRow \cup {NoPool}]
    /\ audits \subseteq Problems
    /\ \/ ingest = IdleIngest
       \/ ingest \in IngestRow /\ ingest.pos \in 1..Len(ingest.list)
    /\ bindings \in [{"SEMANTIC_AUDIT", "CONTRACT_TEMPLATE"} -> PoolArtifacts \cup {NoPool}]
    /\ batchRows \in [Batches -> BatchRow \cup {NoPool}]
    /\ dispatching \in [Batches -> Selection \cup {NoPool}]
    /\ executors \in [Batches -> ExecutorRow]
    /\ batchRuns \in [Batches \X Statements -> Nat \cup {NoPool}]
    /\ createdBy \in [DOMAIN createdBy -> Nat] /\ IsFiniteSet(DOMAIN createdBy)
    /\ \A q \in DOMAIN createdBy : \E b \in Batches, s \in Statements : q = CreateRequest(b, s)

\* A selection and a batch hold wanted candidates under the bound template, a completed batch
\* and an executor past a candidate have its run, and an executor knows the run of its request.
BatchFits(b) ==
    /\ dispatching[b] # NoPool => /\ dispatching[b].template = bindings["CONTRACT_TEMPLATE"]
                                  /\ \A s \in dispatching[b].chosen : Wanted(problemRows, s)
    /\ batchRows[b] # NoPool =>
          /\ batchRows[b].template = bindings["CONTRACT_TEMPLATE"]
          /\ \A s \in batchRows[b].chosen : /\ Wanted(problemRows, s)
                                            /\ batchRows[b].state = "COMPLETED" => batchRuns[<<b, s>>] # NoPool
    /\ executors[b].pc # "idle" =>
          /\ batchRows[b] # NoPool /\ executors[b].todo \subseteq batchRows[b].chosen
          /\ \A s \in batchRows[b].chosen \ executors[b].todo : batchRuns[<<b, s>>] # NoPool
    /\ executors[b].pc = "record" =>
          /\ executors[b].at \in executors[b].todo /\ CreateRequest(b, executors[b].at) \in DOMAIN createdBy
          /\ executors[b].run = createdBy[CreateRequest(b, executors[b].at)]

RunFits(b, s) ==
    batchRuns[<<b, s>>] # NoPool =>
      /\ CreateRequest(b, s) \in DOMAIN createdBy /\ batchRuns[<<b, s>>] = createdBy[CreateRequest(b, s)]
      /\ Wanted(problemRows, s) /\ \E c \in Batches : problemRows[s].run = batchRuns[<<c, s>>]

\* The run a candidate names is the run of one of its batches.
CandidateFits(s) ==
    problemRows[s] # NoPool /\ problemRows[s].run # NoPool =>
      \E c \in Batches : problemRows[s].run = batchRuns[<<c, s>>]

RunsFit ==
    /\ \A b \in Batches : BatchFits(b) /\ \A s \in Statements : RunFits(b, s)
    /\ \A s \in Statements : CandidateFits(s)

PoolInv == PoolTyped /\ PairsFit(sourceRows, problemRows) /\ SnapshotsComplete /\ RunsFit

-----------------------------------------------------------------------------
\* The rows of one snapshot are written one after the other: a row, then its candidate.
OneRow(acc, n, row) == InsertCandidate(InsertSource(acc, n, row), n, row)
Tally(acc) == acc \in [ok : BOOLEAN, sources : {acc.sources}, problems : {acc.problems}]

\* A row of a snapshot names an entry, and is included only with a statement.
RowMeant(row) ==
    /\ row.entry \in PoolEntries \cup {NoPool} /\ row.status # "DUPLICATE_STATEMENT"
    /\ row.status = "INCLUDED" => row.entry \in PoolEntries /\ row.entry.statement \in Statements

\* What writing the source row does.
LEMMA SourceInserted ==
    ASSUME NEW acc, Tally(acc), NEW n, NEW row, NEW id, id = <<n, row.entry>>,
           NEW a, a = InsertSource(acc, n, row)
    PROVE  /\ Tally(a) /\ a.problems = acc.problems
           /\ \/ /\ id \notin DOMAIN acc.sources /\ a.ok = acc.ok
                 /\ a.sources = WithRow(acc.sources, id, row.status)
              \/ /\ id \in DOMAIN acc.sources /\ a.sources = acc.sources
                 /\ a.ok => /\ acc.ok
                            /\ \/ acc.sources[id] = row.status
                               \/ acc.sources[id] = "DUPLICATE_STATEMENT" /\ row.status = "INCLUDED"
<1>1. CASE id \notin DOMAIN acc.sources
  <2>1. PICK new : new = WithRow(acc.sources, id, row.status)
    OBVIOUS
  <2>2. a = [acc EXCEPT !.sources = new]
    BY <1>1, <2>1 DEF InsertSource, Tally
  <2>3. Tally(a) /\ a.problems = acc.problems /\ a.ok = acc.ok /\ a.sources = new
    BY <2>2 DEF Tally
  <2> QED BY <1>1, <2>1, <2>3
<1>2. CASE id \in DOMAIN acc.sources
  <2>1. PICK fine \in BOOLEAN : fine = (acc.ok /\ (acc.sources[id] = row.status
                                  \/ (acc.sources[id] = "DUPLICATE_STATEMENT" /\ row.status = "INCLUDED")))
    OBVIOUS
  <2>2. a = [acc EXCEPT !.ok = fine]
    BY <1>2, <2>1 DEF InsertSource, Tally
  <2>3. Tally(a) /\ a.problems = acc.problems /\ a.ok = fine /\ a.sources = acc.sources
    BY <2>2 DEF Tally
  <2> QED BY <1>2, <2>1, <2>3
<1> QED BY <1>1, <1>2

\* A candidate as it is first written.
Fresh(id) == [source |-> id, audit |-> "HUMAN_AUDIT_PENDING", recommended |-> "UNSCORED", run |-> NoPool]

\* What writing the candidate does.
LEMMA CandidateInserted ==
    ASSUME NEW acc, Tally(acc), NEW n, NEW row, NEW id, id = <<n, row.entry>>, NEW s, s = row.entry.statement,
           NEW a, a = InsertCandidate(acc, n, row)
    PROVE  /\ Tally(a) /\ a.ok = acc.ok
           /\ \/ /\ row.status # "INCLUDED" \/ (acc.problems[s] # NoPool /\ acc.problems[s].source = id)
                 /\ a = acc
              \/ /\ row.status = "INCLUDED" /\ acc.problems[s] # NoPool /\ acc.problems[s].source # id
                 /\ a.problems = acc.problems
                 /\ a.sources = [acc.sources EXCEPT ![id] = "DUPLICATE_STATEMENT"]
              \/ /\ row.status = "INCLUDED" /\ acc.problems[s] = NoPool /\ a.sources = acc.sources
                 /\ a.problems = [acc.problems EXCEPT ![s] = Fresh(id)]
<1>1. CASE row.status # "INCLUDED" \/ (acc.problems[s] # NoPool /\ acc.problems[s].source = id)
  BY <1>1 DEF InsertCandidate
<1>2. CASE row.status = "INCLUDED" /\ acc.problems[s] # NoPool /\ acc.problems[s].source # id
  <2>1. PICK new : new = [acc.sources EXCEPT ![id] = "DUPLICATE_STATEMENT"]
    OBVIOUS
  <2>2. a = [acc EXCEPT !.sources = new]
    BY <1>2, <2>1 DEF InsertCandidate, Tally
  <2>3. Tally(a) /\ a.problems = acc.problems /\ a.ok = acc.ok /\ a.sources = new
    BY <2>2 DEF Tally
  <2> QED BY <1>2, <2>1, <2>3
<1>3. CASE row.status = "INCLUDED" /\ acc.problems[s] = NoPool
  <2>1. PICK new : new = [acc.problems EXCEPT ![s] = Fresh(id)]
    OBVIOUS
  <2>2. a = [acc EXCEPT !.problems = new]
    BY <1>3, <2>1 DEF InsertCandidate, Tally, Fresh
  <2>3. Tally(a) /\ a.sources = acc.sources /\ a.ok = acc.ok /\ a.problems = new
    BY <2>2 DEF Tally
  <2> QED BY <1>3, <2>1, <2>3
<1> QED BY <1>1, <1>2, <1>3

\* What one row leaves: no row is lost, no candidate changes, and a new one is fresh.
Grown(src, prb, src2, prb2) ==
    /\ DOMAIN src \subseteq DOMAIN src2
    /\ \A s \in Statements : prb2[s] = prb[s] \/ (prb[s] = NoPool /\ \E id : prb2[s] = Fresh(id))

\* One more included row with its candidate.
LEMMA NewCandidateFits ==
    ASSUME NEW src, NEW prb, PairsFit(src, prb), NEW id \in Snapshots \X PoolEntries, id \notin DOMAIN src,
           NEW s \in Statements, s = id[2].statement, prb[s] = NoPool,
           NEW src2, src2 = WithRow(src, id, "INCLUDED"),
           NEW prb2, prb2 = [prb EXCEPT ![s] = Fresh(id)]
    PROVE  PairsFit(src2, prb2)
<1>1. Fresh(id) \in ProblemRow /\ Fresh(id) # NoPool /\ Fresh(id).source = id
  <2>1. Fresh(id) \in ProblemRow
    BY DEF Fresh, ProblemRow
  <2> QED BY <2>1, PoolInputs DEF Fresh
<1>2. DOMAIN src2 = DOMAIN src \cup {id} /\ src2[id] = "INCLUDED" /\ \A x \in DOMAIN src : src2[x] = src[x]
  BY DEF WithRow
<1>3. prb \in [Statements -> ProblemRow \cup {NoPool}]
  BY DEF PairsFit
<1>4. /\ prb2 \in [Statements -> ProblemRow \cup {NoPool}]
      /\ prb2[s] = Fresh(id) /\ \A t \in Statements : t # s => prb2[t] = prb[t]
  BY <1>1, <1>3
<1>5. IsFiniteSet({t \in Statements : prb2[t] # NoPool})
  <2>1. {t \in Statements : prb2[t] # NoPool} = {t \in Statements : prb[t] # NoPool} \cup {s}
    BY <1>1, <1>4
  <2>2. PICK T : T = {t \in Statements : prb[t] # NoPool} /\ IsFiniteSet(T)
    BY DEF PairsFit
  <2>3. IsFiniteSet(T \cup {s})
    BY <2>2, FS_AddElement
  <2> QED BY <2>1, <2>2, <2>3
<1>6. src2 = [x \in DOMAIN src2 |-> src2[x]] /\ DOMAIN src2 \subseteq Snapshots \X (PoolEntries \cup {NoPool})
  BY <1>2 DEF PairsFit, WithRow
<1>7. \A t \in Statements : prb2[t] # NoPool =>
          prb2[t].source \in DOMAIN src2 /\ src2[prb2[t].source] = "INCLUDED" /\ prb2[t].source[2].statement = t
  <2>1. ASSUME NEW t \in Statements, prb2[t] # NoPool
        PROVE  prb2[t].source \in DOMAIN src2 /\ src2[prb2[t].source] = "INCLUDED" /\ prb2[t].source[2].statement = t
    <3>1. CASE t = s
      BY <3>1, <1>1, <1>2, <1>4
    <3>2. CASE t # s
      <4>1. prb2[t] = prb[t] /\ prb[t] # NoPool
        BY <2>1, <3>2, <1>4
      <4>2. prb[t].source \in DOMAIN src /\ src[prb[t].source] = "INCLUDED" /\ prb[t].source[2].statement = t
        BY <4>1 DEF PairsFit
      <4> QED BY <4>1, <4>2, <1>2
    <3> QED BY <3>1, <3>2
  <2> QED BY <2>1
<1>8. \A x \in DOMAIN src2 : src2[x] = "INCLUDED" => \E t \in Statements : prb2[t] # NoPool /\ prb2[t].source = x
  <2>1. ASSUME NEW x \in DOMAIN src2, src2[x] = "INCLUDED"
        PROVE  \E t \in Statements : prb2[t] # NoPool /\ prb2[t].source = x
    <3>1. CASE x = id
      BY <3>1, <1>1, <1>4
    <3>2. CASE x # id
      <4>1. x \in DOMAIN src /\ src[x] = "INCLUDED"
        BY <2>1, <3>2, <1>2
      <4>2. PICK t \in Statements : prb[t] # NoPool /\ prb[t].source = x
        BY <4>1 DEF PairsFit
      <4> QED BY <4>2, <1>4
    <3> QED BY <3>1, <3>2
  <2> QED BY <2>1
<1>9. \A x \in DOMAIN src2 : src2[x] = "DUPLICATE_STATEMENT" =>
          x[2].statement \in Statements /\ prb2[x[2].statement] # NoPool
  <2>1. ASSUME NEW x \in DOMAIN src2, src2[x] = "DUPLICATE_STATEMENT"
        PROVE  x[2].statement \in Statements /\ prb2[x[2].statement] # NoPool
    <3>1. x \in DOMAIN src /\ src[x] = "DUPLICATE_STATEMENT"
      BY <2>1, <1>2
    <3>2. x[2].statement \in Statements /\ prb[x[2].statement] # NoPool
      BY <3>1 DEF PairsFit
    <3> QED BY <3>2, <1>1, <1>4
  <2> QED BY <2>1
<1> QED BY <1>4, <1>5, <1>6, <1>7, <1>8, <1>9 DEF PairsFit

\* A row without a candidate: excluded, failed, or a duplicate of a candidate.
LEMMA OtherRowFits ==
    ASSUME NEW src, NEW prb, PairsFit(src, prb), NEW id \in Snapshots \X (PoolEntries \cup {NoPool}),
           id \notin DOMAIN src \/ src[id] = "DUPLICATE_STATEMENT", NEW status, status # "INCLUDED",
           status = "DUPLICATE_STATEMENT" => id[2].statement \in Statements /\ prb[id[2].statement] # NoPool,
           NEW src2, src2 = WithRow(src, id, status)
    PROVE  PairsFit(src2, prb)
<1>1. DOMAIN src2 = DOMAIN src \cup {id} /\ src2[id] = status /\ \A x \in DOMAIN src : x # id => src2[x] = src[x]
  BY DEF WithRow
<1>2. src2 = [x \in DOMAIN src2 |-> src2[x]] /\ DOMAIN src2 \subseteq Snapshots \X (PoolEntries \cup {NoPool})
  BY <1>1 DEF PairsFit, WithRow
<1>3. \A x \in DOMAIN src : src[x] = "INCLUDED" => x # id
  OBVIOUS
<1>4. \A t \in Statements : prb[t] # NoPool =>
          prb[t].source \in DOMAIN src2 /\ src2[prb[t].source] = "INCLUDED" /\ prb[t].source[2].statement = t
  BY <1>1, <1>3 DEF PairsFit
<1>5. \A x \in DOMAIN src2 : src2[x] = "INCLUDED" => \E t \in Statements : prb[t] # NoPool /\ prb[t].source = x
  BY <1>1 DEF PairsFit
<1>6. \A x \in DOMAIN src2 : src2[x] = "DUPLICATE_STATEMENT" =>
          x[2].statement \in Statements /\ prb[x[2].statement] # NoPool
  BY <1>1 DEF PairsFit
<1> QED BY <1>2, <1>4, <1>5, <1>6 DEF PairsFit

\* One row of a snapshot keeps sources and candidates together, unless the ingestion is refused.
LEMMA OneRowFits ==
    ASSUME NEW acc, Tally(acc), NEW n \in Snapshots, NEW row, RowMeant(row),
           acc.ok => PairsFit(acc.sources, acc.problems),
           NEW a, a = OneRow(acc, n, row)
    PROVE  /\ Tally(a)
           /\ a.ok => /\ acc.ok /\ PairsFit(a.sources, a.problems) /\ <<n, row.entry>> \in DOMAIN a.sources
                      /\ Grown(acc.sources, acc.problems, a.sources, a.problems)
<1>1. PICK id, s, b : id = <<n, row.entry>> /\ s = row.entry.statement /\ b = InsertSource(acc, n, row)
  OBVIOUS
<1>2. /\ Tally(b) /\ b.problems = acc.problems
      /\ \/ /\ id \notin DOMAIN acc.sources /\ b.ok = acc.ok
            /\ b.sources = WithRow(acc.sources, id, row.status)
         \/ /\ id \in DOMAIN acc.sources /\ b.sources = acc.sources
            /\ b.ok => /\ acc.ok
                       /\ \/ acc.sources[id] = row.status
                          \/ acc.sources[id] = "DUPLICATE_STATEMENT" /\ row.status = "INCLUDED"
  BY <1>1, SourceInserted
<1>3. a = InsertCandidate(b, n, row)
  BY <1>1 DEF OneRow
<1>4. /\ Tally(a) /\ a.ok = b.ok
      /\ \/ /\ row.status # "INCLUDED" \/ (b.problems[s] # NoPool /\ b.problems[s].source = id)
            /\ a = b
         \/ /\ row.status = "INCLUDED" /\ b.problems[s] # NoPool /\ b.problems[s].source # id
            /\ a.problems = b.problems
            /\ a.sources = [b.sources EXCEPT ![id] = "DUPLICATE_STATEMENT"]
         \/ /\ row.status = "INCLUDED" /\ b.problems[s] = NoPool /\ a.sources = b.sources
            /\ a.problems = [b.problems EXCEPT ![s] = Fresh(id)]
  BY <1>1, <1>2, <1>3, CandidateInserted
<1>5. ASSUME a.ok
      PROVE  /\ acc.ok /\ PairsFit(a.sources, a.problems) /\ id \in DOMAIN a.sources
             /\ Grown(acc.sources, acc.problems, a.sources, a.problems)
  <2>1. PICK src, prb : src = acc.sources /\ prb = acc.problems /\ PairsFit(src, prb) /\ acc.ok
    BY <1>2, <1>4, <1>5
  <2>2. id \in Snapshots \X (PoolEntries \cup {NoPool}) /\ id[2] = row.entry
    BY <1>1 DEF RowMeant
  <2>3. row.status = "INCLUDED" => id \in Snapshots \X PoolEntries /\ s \in Statements /\ s = id[2].statement
    BY <1>1, <2>2 DEF RowMeant
  <2>4. prb \in [Statements -> ProblemRow \cup {NoPool}]
    BY <2>1 DEF PairsFit
  <2>5. CASE id \notin DOMAIN src
    <3>1. b.sources = WithRow(src, id, row.status) /\ b.problems = prb
      BY <1>2, <2>1, <2>5
    <3>2. CASE row.status # "INCLUDED"
      <4>1. a.sources = WithRow(src, id, row.status) /\ a.problems = prb
        BY <1>4, <3>1, <3>2
      <4>2. row.status # "DUPLICATE_STATEMENT"
        BY DEF RowMeant
      <4>3. PairsFit(a.sources, prb)
        BY <2>1, <2>2, <2>5, <3>2, <4>1, <4>2, OtherRowFits
      <4>4. DOMAIN a.sources = DOMAIN src \cup {id}
        BY <4>1 DEF WithRow
      <4> QED BY <2>1, <4>1, <4>3, <4>4 DEF Grown
    <3>3. CASE row.status = "INCLUDED" /\ prb[s] = NoPool
      <4>1. a.sources = WithRow(src, id, "INCLUDED") /\ a.problems = [prb EXCEPT ![s] = Fresh(id)]
        BY <1>4, <3>1, <3>3
      <4>2. PairsFit(a.sources, a.problems)
        BY <2>1, <2>3, <2>5, <3>3, <4>1, NewCandidateFits
      <4>3. DOMAIN a.sources = DOMAIN src \cup {id}
        BY <4>1 DEF WithRow
      <4>4. \A t \in Statements : a.problems[t] = prb[t] \/ (prb[t] = NoPool /\ a.problems[t] = Fresh(id))
        BY <2>4, <3>3, <4>1
      <4> QED BY <2>1, <4>2, <4>3, <4>4 DEF Grown
    <3>4. CASE row.status = "INCLUDED" /\ prb[s] # NoPool
      <4>1. prb[s].source # id
        BY <2>1, <2>3, <2>5, <3>4 DEF PairsFit
      <4>2. a.sources = [b.sources EXCEPT ![id] = "DUPLICATE_STATEMENT"] /\ a.problems = prb
        BY <1>4, <3>1, <3>4, <4>1
      <4>3. a.sources = WithRow(src, id, "DUPLICATE_STATEMENT")
        BY <3>1, <4>2 DEF WithRow
      <4>4. id[2].statement \in Statements /\ prb[id[2].statement] # NoPool
        BY <2>3, <3>4
      <4>5. PairsFit(a.sources, prb)
        BY <2>1, <2>2, <2>5, <4>3, <4>4, OtherRowFits
      <4>6. DOMAIN a.sources = DOMAIN src \cup {id}
        BY <4>3 DEF WithRow
      <4> QED BY <2>1, <4>2, <4>5, <4>6 DEF Grown
    <3> QED BY <3>2, <3>3, <3>4
  <2>6. CASE id \in DOMAIN src
    <3>1. /\ b.sources = src /\ b.problems = prb
          /\ \/ src[id] = row.status
             \/ src[id] = "DUPLICATE_STATEMENT" /\ row.status = "INCLUDED"
      BY <1>2, <1>4, <1>5, <2>1, <2>6
    <3>2. CASE a = b
      <4>1. a.sources = src /\ a.problems = prb
        BY <3>1, <3>2
      <4> QED BY <2>1, <2>6, <4>1 DEF Grown
    <3>3. CASE row.status = "INCLUDED" /\ ~(prb[s] # NoPool /\ prb[s].source = id)
      <4>1. src[id] # "INCLUDED"
        <5>1. ASSUME src[id] = "INCLUDED" PROVE FALSE
          <6>1. PICK t \in Statements : prb[t] # NoPool /\ prb[t].source = id
            BY <2>1, <2>6, <5>1 DEF PairsFit
          <6>2. t = id[2].statement
            BY <2>1, <6>1 DEF PairsFit
          <6> QED BY <2>3, <3>3, <6>1, <6>2
        <5> QED BY <5>1
      <4>2. src[id] = "DUPLICATE_STATEMENT"
        BY <3>1, <3>3, <4>1
      <4>3. id[2].statement \in Statements /\ prb[id[2].statement] # NoPool
        BY <2>1, <2>6, <4>2 DEF PairsFit
      <4>4. prb[s] # NoPool /\ prb[s].source # id
        BY <2>3, <3>3, <4>3
      <4>5. a.sources = [src EXCEPT ![id] = "DUPLICATE_STATEMENT"] /\ a.problems = prb
        BY <1>4, <3>1, <3>3, <4>4
      <4>6. src = [x \in DOMAIN src |-> src[x]]
        BY <2>1 DEF PairsFit
      <4>7. a.sources = src
        BY <2>6, <4>2, <4>5, <4>6
      <4> QED BY <2>1, <2>6, <4>5, <4>7 DEF Grown
    <3> QED BY <1>4, <3>1, <3>2, <3>3
  <2> QED BY <2>5, <2>6
<1> QED BY <1>1, <1>4, <1>5

\* f[k] is what the first k rows leave.
Recording(f, m, first, n, rows) ==
    f = [k \in 0..m |-> IF k = 0 THEN first ELSE OneRow(f[k - 1], n, rows[k])]

\* Writing row after row is well defined.
LEMMA RecordingExists ==
    ASSUME NEW m \in Nat, NEW first, NEW n, NEW rows
    PROVE  \E f : Recording(f, m, first, n, rows)
<1> DEFINE P(j) == \E f : f = [k \in 0..j |-> IF k = 0 THEN first ELSE OneRow(f[k - 1], n, rows[k])]
           T == {j \in Nat : ~P(j)}
<1>1. ASSUME T # {} PROVE FALSE
  <2>1. PICK j \in T : \A y \in T : j <= y
    <3>1. T \subseteq Nat
      OBVIOUS
    <3> HIDE DEF T
    <3> QED BY <1>1, <3>1, LeastNatural
  <2>2. j \in Nat /\ ~P(j)
    OBVIOUS
  <2>3. CASE j = 0
    <3>1. PICK f : f = [k \in 0..0 |-> first]
      OBVIOUS
    <3>2. f = [k \in 0..0 |-> IF k = 0 THEN first ELSE OneRow(f[k - 1], n, rows[k])]
      BY <3>1
    <3> QED BY <2>2, <2>3, <3>2
  <2>4. CASE j # 0
    <3>1. j - 1 \in Nat /\ j - 1 < j
      BY <2>2, <2>4
    <3>2. j - 1 \notin T
      <4> HIDE DEF T
      <4> QED BY <2>1, <2>2, <3>1
    <3>3. P(j - 1)
      BY <3>1, <3>2
    <3>4. PICK f : f = [k \in 0..(j - 1) |-> IF k = 0 THEN first ELSE OneRow(f[k - 1], n, rows[k])]
      BY <3>3
    <3>5. PICK g : g = [k \in 0..j |-> IF k = j THEN OneRow(f[j - 1], n, rows[j]) ELSE f[k]]
      OBVIOUS
    <3>6. ASSUME NEW k \in 0..j
          PROVE  g[k] = IF k = 0 THEN first ELSE OneRow(g[k - 1], n, rows[k])
      <4>1. CASE k = 0
        BY <4>1, <2>4, <3>1, <3>4, <3>5
      <4>2. CASE k # 0
        <5>1. k - 1 \in 0..(j - 1) /\ k - 1 # j /\ k - 1 \in 0..j
          BY <4>2, <2>2
        <5>2. g[k - 1] = f[k - 1]
          BY <3>5, <5>1
        <5>3. CASE k = j
          BY <5>2, <5>3, <3>5, <4>2
        <5>4. CASE k # j
          <6>1. k \in 0..(j - 1)
            BY <5>4, <2>2
          <6>2. f[k] = OneRow(f[k - 1], n, rows[k])
            BY <6>1, <4>2, <3>4
          <6>3. g[k] = f[k]
            BY <5>4, <3>5
          <6> QED BY <4>2, <5>2, <6>2, <6>3
        <5> QED BY <5>3, <5>4
      <4> QED BY <4>1, <4>2
    <3>7. g = [k \in 0..j |-> IF k = 0 THEN first ELSE OneRow(g[k - 1], n, rows[k])]
      BY <3>5, <3>6
    <3> QED BY <2>2, <3>7
  <2> QED BY <2>3, <2>4
<1>2. m \notin T
  <2> HIDE DEF T
  <2> QED BY <1>1
<1> QED BY <1>2 DEF Recording

\* What holds of the rows written so far holds of all of them at the end.
LEMMA RecordingFits ==
    ASSUME NEW m \in Nat, NEW n \in Snapshots, NEW rows, \A k \in 1..m : RowMeant(rows[k]),
           NEW src, NEW prb, PairsFit(src, prb),
           NEW first, first = [ok |-> TRUE, sources |-> src, problems |-> prb],
           NEW f, Recording(f, m, first, n, rows), f[m].ok
    PROVE  /\ PairsFit(f[m].sources, f[m].problems) /\ Grown(src, prb, f[m].sources, f[m].problems)
           /\ \A k \in 1..m : <<n, rows[k].entry>> \in DOMAIN f[m].sources
<1> DEFINE Q(j) == /\ Tally(f[j])
                   /\ f[j].ok => /\ PairsFit(f[j].sources, f[j].problems) /\ Grown(src, prb, f[j].sources, f[j].problems)
                                 /\ \A k \in 1..j : <<n, rows[k].entry>> \in DOMAIN f[j].sources
           T == {j \in 0..m : ~Q(j)}
<1>1. ASSUME T # {} PROVE FALSE
  <2>1. PICK j \in T : \A y \in T : j <= y
    <3>1. T \subseteq Nat
      OBVIOUS
    <3> HIDE DEF T
    <3> QED BY <1>1, <3>1, LeastNatural
  <2>2. j \in 0..m /\ ~Q(j)
    OBVIOUS
  <2>3. CASE j = 0
    <3>1. f[0] = [ok |-> TRUE, sources |-> src, problems |-> prb]
      BY <2>2 DEF Recording
    <3>2. Tally(f[0]) /\ f[0].sources = src /\ f[0].problems = prb
      BY <3>1 DEF Tally
    <3>3. Grown(src, prb, src, prb)
      BY DEF Grown
    <3> QED BY <2>2, <2>3, <3>2, <3>3
  <2>4. CASE j # 0
    <3>1. j - 1 \in 0..m /\ j - 1 < j /\ j \in 1..m
      BY <2>2, <2>4
    <3>2. j - 1 \notin T
      <4> HIDE DEF T
      <4> QED BY <2>1, <2>2, <3>1
    <3>3. Q(j - 1)
      BY <3>1, <3>2
    <3>4. PICK a, b : a = f[j] /\ b = f[j - 1] /\ a = OneRow(b, n, rows[j])
      BY <2>2, <2>4 DEF Recording
    <3>5. /\ Tally(b)
          /\ b.ok => /\ PairsFit(b.sources, b.problems) /\ Grown(src, prb, b.sources, b.problems)
                     /\ \A k \in 1..(j - 1) : <<n, rows[k].entry>> \in DOMAIN b.sources
      BY <3>3, <3>4
    <3>6. RowMeant(rows[j])
      BY <3>1
    <3>7. /\ Tally(a)
          /\ a.ok => /\ b.ok /\ PairsFit(a.sources, a.problems) /\ <<n, rows[j].entry>> \in DOMAIN a.sources
                     /\ Grown(b.sources, b.problems, a.sources, a.problems)
      <4>1. Tally(b) /\ (b.ok => PairsFit(b.sources, b.problems)) /\ a = OneRow(b, n, rows[j])
        BY <3>4, <3>5
      <4> QED BY ONLY n \in Snapshots, <4>1, <3>6, OneRowFits
    <3>8. ASSUME a.ok
          PROVE  /\ PairsFit(a.sources, a.problems) /\ Grown(src, prb, a.sources, a.problems)
                 /\ \A k \in 1..j : <<n, rows[k].entry>> \in DOMAIN a.sources
      <4>1. Grown(src, prb, a.sources, a.problems)
        BY <3>5, <3>7, <3>8 DEF Grown
      <4>2. DOMAIN b.sources \subseteq DOMAIN a.sources
        BY <3>7, <3>8 DEF Grown
      <4>3. \A k \in 1..j : k = j \/ k \in 1..(j - 1)
        BY <3>1
      <4> QED BY <3>5, <3>7, <3>8, <4>1, <4>2, <4>3
    <3> QED BY <2>2, <3>4, <3>7, <3>8
  <2> QED BY <2>3, <2>4
<1>2. Q(m)
  <2>1. m \in 0..m /\ m \notin T
    <3> HIDE DEF T
    <3> QED BY <1>1
  <2> QED BY <2>1
<1> QED BY <1>2

\* The first m rows stand for the whole snapshot.
RowsCover(n, rows, m) ==
    /\ m \in Nat /\ \A k \in 1..m : RowMeant(rows[k])
    /\ IF EntriesOf[n] \in {NoPool, <<>>} THEN \E k \in 1..m : rows[k].entry = NoPool
       ELSE \A e \in Range(EntriesOf[n]) : \E k \in 1..m : rows[k].entry = e

\* The rows of a snapshot are rows of its entries.
LEMMA RowsAreMeant ==
    ASSUME NEW list, NEW n \in Snapshots, NEW rows, rows = RowsToRecord(list, n)
    PROVE  RowsCover(n, rows, Len(rows))
<1>1. CASE EntriesOf[n] = NoPool
  <2>1. rows = <<[entry |-> NoPool, status |-> "FAILED"]>>
    BY <1>1 DEF RowsToRecord
  <2>2. Len(rows) = 1 /\ rows[1].entry = NoPool /\ rows[1].status = "FAILED"
    BY <2>1
  <2> QED BY <1>1, <2>2 DEF RowMeant, RowsCover
<1>2. CASE EntriesOf[n] # NoPool /\ EntriesOf[n] = <<>>
  <2>1. rows = <<[entry |-> NoPool, status |-> "NO_HIT"]>>
    BY <1>2 DEF RowsToRecord
  <2>2. Len(rows) = 1 /\ rows[1].entry = NoPool /\ rows[1].status = "NO_HIT"
    BY <2>1
  <2> QED BY <1>2, <2>2 DEF RowMeant, RowsCover
<1>3. CASE EntriesOf[n] # NoPool /\ EntriesOf[n] # <<>>
  <2>1. PICK es : es = EntriesOf[n] /\ es \in Seq(PoolEntries)
    BY <1>3, PoolInputs
  <2>2. PICK l \in Nat : l = Len(es) /\ DOMAIN es = 1..l
    BY <2>1
  <2>3. rows = [i \in 1..l |-> [entry |-> es[i], status |-> Classify(list, es[i])]]
    BY <1>3, <2>1, <2>2 DEF RowsToRecord
  <2>4. Len(rows) = l
    BY <2>3
  <2>5. \A i \in 1..l : rows[i].entry = es[i] /\ rows[i].status = Classify(list, es[i]) /\ es[i] \in PoolEntries
    BY <2>1, <2>2, <2>3
  <2>6. ASSUME NEW i \in 1..l PROVE RowMeant(rows[i])
    <3>1. es[i] \in PoolEntries /\ es[i].statement \in Statements \cup {NoPool}
      BY <2>5, PoolInputs
    <3>2. /\ Classify(list, es[i]) # "DUPLICATE_STATEMENT"
          /\ Classify(list, es[i]) = "INCLUDED" => es[i].statement # NoPool
      BY DEF Classify
    <3> QED BY <2>5, <3>1, <3>2 DEF RowMeant
  <2>7. \A e \in Range(es) : \E k \in 1..l : rows[k].entry = e
    BY <2>2, <2>5 DEF Range
  <2> QED BY <1>3, <2>1, <2>4, <2>6, <2>7 DEF RowsCover
<1> QED BY <1>1, <1>2, <1>3

\* A snapshot that is not refused is recorded in full.
LEMMA RecordedFits ==
    ASSUME PairsFit(sourceRows, problemRows), NEW list, NEW n \in Snapshots,
           NEW end, end = Recorded(list, n), end.ok
    PROVE  /\ PairsFit(end.sources, end.problems) /\ Grown(sourceRows, problemRows, end.sources, end.problems)
           /\ IF EntriesOf[n] \in {NoPool, <<>>} THEN <<n, NoPool>> \in DOMAIN end.sources
              ELSE \A e \in Range(EntriesOf[n]) : <<n, e>> \in DOMAIN end.sources
<1>1. PICK rows, m : rows = RowsToRecord(list, n) /\ m = Len(rows)
  OBVIOUS
<1>2. /\ m \in Nat /\ \A k \in 1..m : RowMeant(rows[k])
      /\ IF EntriesOf[n] \in {NoPool, <<>>} THEN \E k \in 1..m : rows[k].entry = NoPool
         ELSE \A e \in Range(EntriesOf[n]) : \E k \in 1..m : rows[k].entry = e
  <2>1. RowsCover(n, rows, m)
    BY <1>1, RowsAreMeant
  <2> QED BY <2>1 DEF RowsCover
<1>3. PICK first : first = [ok |-> TRUE, sources |-> sourceRows, problems |-> problemRows]
  OBVIOUS
<1>4. PICK f : f = (CHOOSE g : g = [k \in 0..m |-> IF k = 0 THEN first ELSE OneRow(g[k - 1], n, rows[k])])
  OBVIOUS
<1>5. \E g : Recording(g, m, first, n, rows)
  BY <1>2, RecordingExists
<1>6. Recording(f, m, first, n, rows)
  BY <1>4, <1>5 DEF Recording
<1>7. end = f[m]
  BY <1>1, <1>3, <1>4 DEF Recorded, OneRow
<1>8. /\ PairsFit(f[m].sources, f[m].problems) /\ Grown(sourceRows, problemRows, f[m].sources, f[m].problems)
      /\ \A k \in 1..m : <<n, rows[k].entry>> \in DOMAIN f[m].sources
  BY <1>2, <1>3, <1>6, <1>7, RecordingFits
<1> QED BY <1>2, <1>7, <1>8

-----------------------------------------------------------------------------
\* What batches rest on is never taken back: a wanted candidate, a bound template, the run of a
\* request, the run of a candidate in a batch.
PoolGrows ==
    /\ \A s \in Statements : Wanted(problemRows, s) => Wanted(problemRows', s)
    /\ bindings'["CONTRACT_TEMPLATE"] = bindings["CONTRACT_TEMPLATE"] \/ bindings["CONTRACT_TEMPLATE"] = NoPool
    /\ \A q \in DOMAIN createdBy : q \in DOMAIN createdBy' /\ createdBy'[q] = createdBy[q]
    /\ \A b \in Batches, s \in Statements :
          batchRuns[<<b, s>>] # NoPool => batchRuns'[<<b, s>>] = batchRuns[<<b, s>>]

BatchKept(b) ==
    batchRows'[b] = batchRows[b] /\ dispatching'[b] = dispatching[b] /\ executors'[b] = executors[b]

\* A batch that does not move stays in order.
LEMMA BatchStays ==
    ASSUME PoolTyped, PoolGrows, NEW b \in Batches, BatchFits(b), BatchKept(b)
    PROVE  BatchFits(b)'
<1>1. /\ dispatching[b] # NoPool => dispatching[b] \in Selection
      /\ batchRows[b] # NoPool => batchRows[b] \in BatchRow
      /\ executors[b] \in ExecutorRow
  BY DEF PoolTyped
<1>2. dispatching[b] # NoPool \/ batchRows[b] # NoPool =>
          bindings'["CONTRACT_TEMPLATE"] = bindings["CONTRACT_TEMPLATE"]
  BY <1>1, PoolInputs DEF BatchFits, PoolGrows, Selection, BatchRow
<1>3. dispatching[b] # NoPool => \A s \in dispatching[b].chosen : Wanted(problemRows', s)
  BY <1>1 DEF BatchFits, PoolGrows, Selection
<1>4. batchRows[b] # NoPool => \A s \in batchRows[b].chosen : s \in Statements /\ Wanted(problemRows', s)
  BY <1>1 DEF BatchFits, PoolGrows, BatchRow
<1>5. \A s \in Statements : batchRuns[<<b, s>>] # NoPool => batchRuns'[<<b, s>>] # NoPool
  BY DEF PoolGrows
<1>6. \A s : Wanted(problemRows, s)' = Wanted(problemRows', s)
  BY DEF Wanted
<1>7. executors[b].pc # "idle" =>
          /\ batchRows[b] # NoPool /\ executors[b].todo \subseteq batchRows[b].chosen
          /\ \A s \in batchRows[b].chosen \ executors[b].todo : batchRuns'[<<b, s>>] # NoPool
  BY <1>4, <1>5 DEF BatchFits
<1>8. executors[b].pc = "record" =>
          /\ executors[b].at \in executors[b].todo /\ CreateRequest(b, executors[b].at) \in DOMAIN createdBy'
          /\ executors[b].run = createdBy'[CreateRequest(b, executors[b].at)]
  BY DEF BatchFits, PoolGrows
<1>9. batchRows[b] # NoPool => \A s \in batchRows[b].chosen :
          batchRows[b].state = "COMPLETED" => batchRuns'[<<b, s>>] # NoPool
  BY <1>4, <1>5 DEF BatchFits
<1>10. dispatching[b] # NoPool => dispatching[b].template = bindings'["CONTRACT_TEMPLATE"]
  BY <1>2 DEF BatchFits
<1>11. batchRows[b] # NoPool => batchRows[b].template = bindings'["CONTRACT_TEMPLATE"]
  BY <1>2 DEF BatchFits
<1> QED BY <1>3, <1>4, <1>6, <1>7, <1>8, <1>9, <1>10, <1>11 DEF BatchFits, BatchKept, CreateRequest

\* The run a candidate names stays; a candidate without one may be new.
RunsNamedStay ==
    \A s \in Statements : problemRows'[s] # NoPool =>
      \/ problemRows[s] # NoPool /\ problemRows'[s].run = problemRows[s].run
      \/ problemRows[s] = NoPool /\ problemRows'[s].run = NoPool

\* Steps that leave the runs of the batches alone.
LEMMA RunsStay ==
    ASSUME PoolTyped, RunsFit, PoolGrows, RunsNamedStay, batchRuns' = batchRuns,
           \A b \in Batches : BatchKept(b) \/ BatchFits(b)'
    PROVE  RunsFit'
<1>1. \A b \in Batches : BatchFits(b)'
  BY BatchStays DEF RunsFit
<1>2. ASSUME NEW b \in Batches, NEW s \in Statements PROVE RunFits(b, s)'
  <2>1. RunFits(b, s)
    BY DEF RunsFit
  <2>2. ASSUME batchRuns[<<b, s>>] # NoPool
        PROVE  /\ CreateRequest(b, s) \in DOMAIN createdBy' /\ batchRuns[<<b, s>>] = createdBy'[CreateRequest(b, s)]
               /\ Wanted(problemRows', s) /\ \E c \in Batches : problemRows'[s].run = batchRuns[<<c, s>>]
    <3>1. /\ CreateRequest(b, s) \in DOMAIN createdBy /\ batchRuns[<<b, s>>] = createdBy[CreateRequest(b, s)]
          /\ Wanted(problemRows, s) /\ \E c \in Batches : problemRows[s].run = batchRuns[<<c, s>>]
      BY <2>1, <2>2 DEF RunFits
    <3>2. Wanted(problemRows', s)
      BY <3>1 DEF PoolGrows
    <3>3. problemRows'[s].run = problemRows[s].run
      BY <3>1, <3>2 DEF Wanted, RunsNamedStay
    <3> QED BY <3>1, <3>2, <3>3 DEF PoolGrows
  <2>3. Wanted(problemRows, s)' = Wanted(problemRows', s) /\ CreateRequest(b, s)' = CreateRequest(b, s)
    BY DEF Wanted, CreateRequest
  <2> QED BY <2>2, <2>3 DEF RunFits
<1>3. ASSUME NEW s \in Statements PROVE CandidateFits(s)'
  <2>1. CandidateFits(s)
    BY DEF RunsFit
  <2> QED BY <2>1 DEF CandidateFits, RunsNamedStay
<1> QED BY <1>1, <1>2, <1>3 DEF RunsFit

\* Candidates that keep their source rows.
LEMMA PairsStay ==
    ASSUME NEW src, NEW prb, PairsFit(src, prb), NEW prb2 \in [Statements -> ProblemRow \cup {NoPool}],
           \A s \in Statements : /\ prb2[s] = NoPool <=> prb[s] = NoPool
                                 /\ prb[s] # NoPool => prb2[s].source = prb[s].source
    PROVE  PairsFit(src, prb2)
<1>1. {s \in Statements : prb2[s] # NoPool} = {s \in Statements : prb[s] # NoPool}
  OBVIOUS
<1>2. IsFiniteSet({s \in Statements : prb2[s] # NoPool})
  BY <1>1 DEF PairsFit
<1>3. \A t \in Statements : prb2[t] # NoPool =>
          prb2[t].source \in DOMAIN src /\ src[prb2[t].source] = "INCLUDED" /\ prb2[t].source[2].statement = t
  BY DEF PairsFit
<1>4. \A x \in DOMAIN src : src[x] = "INCLUDED" => \E t \in Statements : prb2[t] # NoPool /\ prb2[t].source = x
  BY DEF PairsFit
<1>5. \A x \in DOMAIN src : src[x] = "DUPLICATE_STATEMENT" =>
          x[2].statement \in Statements /\ prb2[x[2].statement] # NoPool
  BY DEF PairsFit
<1>6. src = [x \in DOMAIN src |-> src[x]] /\ DOMAIN src \subseteq Snapshots \X (PoolEntries \cup {NoPool})
  BY DEF PairsFit
<1> QED BY <1>2, <1>3, <1>4, <1>5, <1>6 DEF PairsFit

\* One candidate takes a decision, a score or a run.
LEMMA OneCandidate ==
    ASSUME PairsFit(sourceRows, problemRows), NEW s \in Problems, NEW x \in ProblemRow,
           x.source = problemRows[s].source, problemRows' = [problemRows EXCEPT ![s] = x],
           sourceRows' = sourceRows
    PROVE  /\ PairsFit(sourceRows, problemRows)' /\ Problems' = Problems
           /\ problemRows'[s] = x /\ x # NoPool /\ \A t \in Statements : t # s => problemRows'[t] = problemRows[t]
<1>1. s \in Statements /\ problemRows[s] # NoPool /\ x # NoPool
  BY PoolInputs DEF Problems
<1>2. problemRows \in [Statements -> ProblemRow \cup {NoPool}]
  BY DEF PairsFit
<1>3. /\ problemRows' \in [Statements -> ProblemRow \cup {NoPool}] /\ problemRows'[s] = x
      /\ \A t \in Statements : t # s => problemRows'[t] = problemRows[t]
  BY <1>1, <1>2
<1>4. PairsFit(sourceRows, problemRows')
  <2>1. PICK prb2 : prb2 = problemRows'
    OBVIOUS
  <2>2. /\ prb2 \in [Statements -> ProblemRow \cup {NoPool}]
        /\ \A t \in Statements : /\ prb2[t] = NoPool <=> problemRows[t] = NoPool
                                 /\ problemRows[t] # NoPool => prb2[t].source = problemRows[t].source
    BY <1>1, <1>3, <2>1
  <2>3. PairsFit(sourceRows, prb2)
    BY ONLY PairsFit(sourceRows, problemRows), <2>2, PairsStay
  <2> QED BY <2>1, <2>3
<1>5. PairsFit(sourceRows, problemRows)'
  BY <1>4 DEF PairsFit
<1> QED BY <1>1, <1>3, <1>5 DEF Problems

-----------------------------------------------------------------------------
\* An ingestion moves, stops or dies without writing.
LEMMA IngestMoves ==
    ASSUME PoolInv, NEW list \in SnapshotLists, BeginIngest(list) \/ RecordSnapshotRead \/ IngestDies
    PROVE  PoolInv'
<1>1. UNCHANGED <<poolState, snapshotRows, sourceRows, problemRows, audits, bindings, batchRows, batchRuns,
                  dispatching, executors, createdBy>>
  BY DEF BeginIngest, RecordSnapshotRead, IngestDies
<1>2. \/ ingest' = IdleIngest
      \/ ingest' \in IngestRow /\ ingest'.pos \in 1..Len(ingest'.list)
  <2>1. CASE BeginIngest(list)
    <3>1. list \in Seq(Snapshots) /\ list # <<>>
      BY PoolInputs
    <3>2. 1 \in 1..Len(list)
      BY <3>1
    <3>3. ingest' \in IngestRow /\ ingest'.list = list /\ ingest'.pos = 1
      BY <2>1 DEF BeginIngest, IngestRow
    <3> QED BY <3>2, <3>3
  <2>2. CASE RecordSnapshotRead
    <3>1. ingest.pc = "read" /\ ingest # IdleIngest
      BY <2>2 DEF RecordSnapshotRead, IdleIngest
    <3>2. ingest \in IngestRow /\ ingest.pos \in 1..Len(ingest.list)
      BY <3>1 DEF PoolInv, PoolTyped
    <3>3. ingest' = IdleIngest \/ ingest' = [ingest EXCEPT !.pc = "write"]
      BY <2>2 DEF RecordSnapshotRead
    <3> QED BY <3>1, <3>2, <3>3 DEF IngestRow
  <2>3. CASE IngestDies
    BY <2>3 DEF IngestDies
  <2> QED BY <2>1, <2>2, <2>3
<1>3. PoolTyped'
  BY <1>1, <1>2 DEF PoolInv, PoolTyped, Problems, CreateRequest
<1>4. PairsFit(sourceRows, problemRows)' /\ SnapshotsComplete'
  BY <1>1 DEF PoolInv, PairsFit, SnapshotsComplete
<1>5. RunsFit'
  BY <1>1 DEF PoolInv, RunsFit, BatchFits, RunFits, CandidateFits, Wanted, CreateRequest
<1> QED BY <1>3, <1>4, <1>5 DEF PoolInv

\* A snapshot is recorded in full or refused.
LEMMA RecordSnapshotStep ==
    ASSUME PoolInv, RecordSnapshot
    PROVE  PoolInv'
<1>1. PICK n, row, end : /\ n = ingest.list[ingest.pos]
                         /\ row = [ordinal |-> ingest.pos,
                                   status |-> IF EntriesOf[n] = NoPool THEN "FAILED" ELSE "INGESTED"]
                         /\ end = Recorded(ingest.list, n)
  OBVIOUS
<1>2. UNCHANGED <<poolState, audits, bindings, batchRows, batchRuns, dispatching, executors, createdBy>>
  BY DEF RecordSnapshot
<1>3. \/ /\ end.ok
         /\ snapshotRows' = [snapshotRows EXCEPT ![n] = row]
         /\ sourceRows' = end.sources /\ problemRows' = end.problems
         /\ ingest' = IF ingest.pos = Len(ingest.list) THEN IdleIngest
                      ELSE [ingest EXCEPT !.pc = "read", !.pos = @ + 1]
      \/ /\ ingest' = IdleIngest /\ UNCHANGED <<snapshotRows, sourceRows, problemRows>>
  BY <1>1 DEF RecordSnapshot
<1>4. ingest \in IngestRow /\ ingest.list \in SnapshotLists /\ ingest.pos \in 1..Len(ingest.list)
  <2>1. ingest # IdleIngest
    BY DEF RecordSnapshot, IdleIngest
  <2>2. ingest \in IngestRow /\ ingest.pos \in 1..Len(ingest.list)
    BY <2>1 DEF PoolInv, PoolTyped
  <2> QED BY <2>2 DEF IngestRow
<1>5. ingest.list \in Seq(Snapshots) /\ n \in Snapshots
  <2>1. ingest.list \in Seq(Snapshots)
    BY <1>4, PoolInputs
  <2> QED BY <1>1, <1>4, <2>1
<1>6. CASE ingest' = IdleIngest /\ UNCHANGED <<snapshotRows, sourceRows, problemRows>>
  <2>1. PoolTyped'
    BY <1>2, <1>6 DEF PoolInv, PoolTyped, Problems, CreateRequest
  <2>2. PairsFit(sourceRows, problemRows)' /\ SnapshotsComplete'
    BY <1>2, <1>6 DEF PoolInv, PairsFit, SnapshotsComplete
  <2>3. RunsFit'
    BY <1>2, <1>6 DEF PoolInv, RunsFit, BatchFits, RunFits, CandidateFits, Wanted, CreateRequest
  <2> QED BY <2>1, <2>2, <2>3 DEF PoolInv
<1>7. CASE /\ end.ok
           /\ snapshotRows' = [snapshotRows EXCEPT ![n] = row]
           /\ sourceRows' = end.sources /\ problemRows' = end.problems
           /\ ingest' = IF ingest.pos = Len(ingest.list) THEN IdleIngest
                        ELSE [ingest EXCEPT !.pc = "read", !.pos = @ + 1]
  <2>1. /\ PairsFit(end.sources, end.problems) /\ Grown(sourceRows, problemRows, end.sources, end.problems)
        /\ IF EntriesOf[n] \in {NoPool, <<>>} THEN <<n, NoPool>> \in DOMAIN end.sources
           ELSE \A e \in Range(EntriesOf[n]) : <<n, e>> \in DOMAIN end.sources
    BY <1>1, <1>5, <1>7, RecordedFits DEF PoolInv
  <2>2. PairsFit(sourceRows, problemRows)'
    BY <1>7, <2>1 DEF PairsFit
  <2>3. row \in SnapshotRow /\ snapshotRows \in [Snapshots -> SnapshotRow \cup {NoPool}]
    <3>1. ingest.pos \in Nat
      BY <1>4, <1>5
    <3> QED BY <1>1, <3>1 DEF SnapshotRow, PoolInv, PoolTyped
  <2>4. /\ snapshotRows' \in [Snapshots -> SnapshotRow \cup {NoPool}]
        /\ \A m \in Snapshots : m # n => snapshotRows'[m] = snapshotRows[m]
    BY <1>5, <1>7, <2>3
  <2>5. DOMAIN sourceRows \subseteq DOMAIN sourceRows'
    BY <1>7, <2>1 DEF Grown
  <2>6. SnapshotsComplete'
    <3>1. ASSUME NEW m \in Snapshots, snapshotRows'[m] # NoPool
          PROVE  IF EntriesOf[m] \in {NoPool, <<>>} THEN <<m, NoPool>> \in DOMAIN sourceRows'
                 ELSE \A e \in Range(EntriesOf[m]) : <<m, e>> \in DOMAIN sourceRows'
      <4>1. CASE m = n
        BY <1>7, <2>1, <4>1
      <4>2. CASE m # n
        <5>1. IF EntriesOf[m] \in {NoPool, <<>>} THEN <<m, NoPool>> \in DOMAIN sourceRows
              ELSE \A e \in Range(EntriesOf[m]) : <<m, e>> \in DOMAIN sourceRows
          BY <2>4, <3>1, <4>2 DEF PoolInv, SnapshotsComplete
        <5> QED BY <2>5, <5>1
      <4> QED BY <4>1, <4>2
    <3> QED BY <3>1 DEF SnapshotsComplete
  <2>7. \A s \in Statements : \/ problemRows'[s] = problemRows[s]
                              \/ problemRows[s] = NoPool /\ \E id : problemRows'[s] = Fresh(id)
    BY <1>7, <2>1 DEF Grown
  <2>8. audits' \subseteq Problems'
    <3>1. audits \subseteq {s \in Statements : problemRows[s] # NoPool}
      BY DEF PoolInv, PoolTyped, Problems
    <3> QED BY <1>2, <2>7, <3>1 DEF Problems
  <2>9. \/ ingest' = IdleIngest
        \/ ingest' \in IngestRow /\ ingest'.pos \in 1..Len(ingest'.list)
    <3>1. CASE ingest.pos = Len(ingest.list)
      BY <1>7, <3>1
    <3>2. CASE ingest.pos # Len(ingest.list)
      <4>1. PICK list, pos : list = ingest.list /\ pos = ingest.pos /\ list \in SnapshotLists /\ pos \in 1..Len(list)
                             /\ Len(list) \in Nat /\ pos \in Nat
        BY <1>4, <1>5
      <4>2. pos + 1 \in 1..Len(list)
        BY <3>2, <4>1
      <4>3. ingest' \in IngestRow /\ ingest'.list = list /\ ingest'.pos = pos + 1
        <5>1. ingest' = [ingest EXCEPT !.pc = "read", !.pos = pos + 1] /\ pos + 1 \in Nat
          BY <1>4, <1>7, <3>2, <4>1 DEF IngestRow
        <5> QED BY <1>4, <4>1, <5>1 DEF IngestRow
      <4> QED BY <4>1, <4>2, <4>3
    <3> QED BY <3>1, <3>2
  <2>10. PoolTyped'
    BY <1>2, <2>4, <2>8, <2>9 DEF PoolInv, PoolTyped, CreateRequest
  <2>11. PoolGrows /\ RunsNamedStay
    <3>1. \A s \in Statements : Wanted(problemRows, s) => Wanted(problemRows', s)
      BY <2>7 DEF Wanted
    <3>2. \A s \in Statements : problemRows'[s] # NoPool =>
             \/ problemRows[s] # NoPool /\ problemRows'[s].run = problemRows[s].run
             \/ problemRows[s] = NoPool /\ problemRows'[s].run = NoPool
      <4>1. \A id : Fresh(id).run = NoPool
        BY DEF Fresh
      <4> QED BY <2>7, <4>1
    <3> QED BY <1>2, <3>1, <3>2 DEF PoolGrows, RunsNamedStay
  <2>12. RunsFit'
    BY <1>2, <2>11, RunsStay DEF PoolInv, BatchKept
  <2> QED BY <2>2, <2>6, <2>10, <2>12 DEF PoolInv
<1> QED BY <1>3, <1>6, <1>7

\* An auditor reads a pending candidate.
LEMMA AuditReadStep ==
    ASSUME PoolInv, NEW s \in Statements, AuditRead(s)
    PROVE  PoolInv'
<1>1. UNCHANGED <<poolState, snapshotRows, sourceRows, problemRows, ingest, bindings, batchRows, batchRuns,
                  dispatching, executors, createdBy>>
  BY DEF AuditRead
<1>2. audits' \subseteq Problems'
  BY DEF AuditRead, PoolInv, PoolTyped, Problems
<1>3. PoolTyped'
  BY <1>1, <1>2 DEF PoolInv, PoolTyped, CreateRequest
<1>4. PairsFit(sourceRows, problemRows)' /\ SnapshotsComplete'
  BY <1>1 DEF PoolInv, PairsFit, SnapshotsComplete
<1>5. RunsFit'
  BY <1>1 DEF PoolInv, RunsFit, BatchFits, RunFits, CandidateFits, Wanted, CreateRequest
<1> QED BY <1>3, <1>4, <1>5 DEF PoolInv

\* A candidate is changed, and what batches rest on stays.
LEMMA CandidateMoves ==
    ASSUME PoolInv, NEW s \in Problems, NEW x \in ProblemRow, problemRows' = [problemRows EXCEPT ![s] = x],
           x.source = problemRows[s].source, x.run = problemRows[s].run,
           Wanted(problemRows, s) => x.audit = "HUMAN_INCLUDED" /\ x.recommended = "RECOMMENDED",
           poolState' \in {"COLLECTING", "HUMAN_AUDIT", "FROZEN"}, audits' \subseteq audits,
           UNCHANGED <<snapshotRows, sourceRows, ingest, bindings, batchRows, batchRuns, dispatching, executors,
                       createdBy>>
    PROVE  PoolInv'
<1>1. /\ PairsFit(sourceRows, problemRows)' /\ Problems' = Problems
      /\ problemRows'[s] = x /\ x # NoPool /\ \A t \in Statements : t # s => problemRows'[t] = problemRows[t]
  BY OneCandidate DEF PoolInv
<1>2. PoolTyped'
  BY <1>1 DEF PoolInv, PoolTyped, CreateRequest
<1>3. SnapshotsComplete'
  BY DEF PoolInv, SnapshotsComplete
<1>4. \A t \in Statements : Wanted(problemRows, t) => Wanted(problemRows', t)
  <2>1. ASSUME NEW t \in Statements, Wanted(problemRows, t) PROVE Wanted(problemRows', t)
    <3>1. CASE t = s
      BY <1>1, <2>1, <3>1 DEF Wanted
    <3>2. CASE t # s
      BY <1>1, <2>1, <3>2 DEF Wanted
    <3> QED BY <3>1, <3>2
  <2> QED BY <2>1
<1>5. PoolGrows
  BY <1>4 DEF PoolGrows
<1>6. RunsNamedStay
  BY <1>1 DEF RunsNamedStay, Problems
<1>7. RunsFit'
  BY <1>5, <1>6, RunsStay DEF PoolInv, BatchKept
<1> QED BY <1>1, <1>2, <1>3, <1>7 DEF PoolInv

\* The rows of the pool's candidates.
LEMMA CandidateRow ==
    ASSUME PoolInv, NEW s \in Problems
    PROVE  s \in Statements /\ problemRows[s] \in ProblemRow
  BY DEF PoolInv, PairsFit, Problems

\* A human decides on a candidate, or finds it decided.
LEMMA AuditStep ==
    ASSUME PoolInv, NEW s \in Statements, NEW d \in {"HUMAN_INCLUDED", "HUMAN_EXCLUDED"}, AuditCandidate(s, d)
    PROVE  PoolInv'
<1>1. s \in Problems /\ audits' \subseteq audits
  BY DEF AuditCandidate, PoolInv, PoolTyped
<1>2. problemRows[s] \in ProblemRow
  BY <1>1, CandidateRow
<1>3. CASE problemRows[s].audit = "HUMAN_AUDIT_PENDING"
  <2>1. PICK x : x = [problemRows[s] EXCEPT !.audit = d]
    OBVIOUS
  <2>2. x \in ProblemRow /\ x.source = problemRows[s].source /\ x.run = problemRows[s].run
    BY <1>2, <2>1 DEF ProblemRow
  <2>3. problemRows' = [problemRows EXCEPT ![s] = x]
    BY <1>3, <2>1 DEF AuditCandidate
  <2>4. ~Wanted(problemRows, s)
    BY <1>3 DEF Wanted
  <2>5. poolState' \in {"COLLECTING", "HUMAN_AUDIT", "FROZEN"}
    BY <1>3 DEF AuditCandidate, PoolInv, PoolTyped
  <2>6. UNCHANGED <<snapshotRows, sourceRows, ingest, bindings, batchRows, batchRuns, dispatching, executors, createdBy>>
    BY DEF AuditCandidate
  <2> QED BY <1>1, <2>2, <2>3, <2>4, <2>5, <2>6, CandidateMoves
<1>4. CASE problemRows[s].audit # "HUMAN_AUDIT_PENDING"
  <2>1. UNCHANGED <<poolState, problemRows, snapshotRows, sourceRows, ingest, bindings, batchRows, batchRuns,
                    dispatching, executors, createdBy>>
    BY <1>4 DEF AuditCandidate
  <2>2. PoolTyped'
    BY <1>1, <2>1 DEF PoolInv, PoolTyped, CreateRequest, Problems
  <2>3. PairsFit(sourceRows, problemRows)' /\ SnapshotsComplete'
    BY <2>1 DEF PoolInv, PairsFit, SnapshotsComplete
  <2>4. RunsFit'
    BY <2>1 DEF PoolInv, RunsFit, BatchFits, RunFits, CandidateFits, Wanted, CreateRequest
  <2> QED BY <2>2, <2>3, <2>4 DEF PoolInv
<1> QED BY <1>3, <1>4

\* A candidate is scored.
LEMMA ScoreStep ==
    ASSUME PoolInv, NEW s \in Statements, NEW v \in {"RECOMMENDED", "NOT_RECOMMENDED"}, ScoreCandidate(s, v)
    PROVE  PoolInv'
<1>1. s \in Problems /\ problemRows[s].recommended = "UNSCORED"
  BY DEF ScoreCandidate
<1>2. problemRows[s] \in ProblemRow
  BY <1>1, CandidateRow
<1>3. PICK x : x = [problemRows[s] EXCEPT !.recommended = v]
  OBVIOUS
<1>4. x \in ProblemRow /\ x.source = problemRows[s].source /\ x.run = problemRows[s].run
  BY <1>2, <1>3 DEF ProblemRow
<1>5. problemRows' = [problemRows EXCEPT ![s] = x]
  BY <1>3 DEF ScoreCandidate
<1>6. ~Wanted(problemRows, s)
  BY <1>1 DEF Wanted
<1>7. /\ UNCHANGED <<snapshotRows, sourceRows, ingest, bindings, batchRows, batchRuns, dispatching, executors, createdBy>>
      /\ poolState' \in {"COLLECTING", "HUMAN_AUDIT", "FROZEN"} /\ audits' \subseteq audits
  BY DEF ScoreCandidate, PoolInv, PoolTyped
<1> QED BY <1>1, <1>4, <1>5, <1>6, <1>7, CandidateMoves

\* The pool is frozen with its audit.
LEMMA FreezeStep ==
    ASSUME PoolInv, NEW a \in PoolArtifacts, FreezePool(a)
    PROVE  PoolInv'
<1>1. UNCHANGED <<snapshotRows, sourceRows, problemRows, ingest, audits, batchRows, batchRuns, dispatching,
                  executors, createdBy>>
  BY DEF FreezePool
<1>2. bindings' = [bindings EXCEPT !["SEMANTIC_AUDIT"] = a] /\ poolState' = "FROZEN"
  BY DEF FreezePool, BindArtifact
<1>3. /\ bindings' \in [{"SEMANTIC_AUDIT", "CONTRACT_TEMPLATE"} -> PoolArtifacts \cup {NoPool}]
      /\ bindings'["CONTRACT_TEMPLATE"] = bindings["CONTRACT_TEMPLATE"]
  BY <1>2 DEF PoolInv, PoolTyped
<1>4. PoolTyped'
  BY <1>1, <1>2, <1>3 DEF PoolInv, PoolTyped, Problems, CreateRequest
<1>5. PairsFit(sourceRows, problemRows)' /\ SnapshotsComplete'
  BY <1>1 DEF PoolInv, PairsFit, SnapshotsComplete
<1>6. PoolGrows /\ RunsNamedStay
  BY <1>1, <1>3 DEF PoolGrows, RunsNamedStay, Wanted
<1>7. RunsFit'
  BY <1>1, <1>6, RunsStay DEF PoolInv, BatchKept
<1> QED BY <1>4, <1>5, <1>7 DEF PoolInv

-----------------------------------------------------------------------------
\* The rows of the batches and what they use.
BatchesTyped ==
    /\ bindings \in [{"SEMANTIC_AUDIT", "CONTRACT_TEMPLATE"} -> PoolArtifacts \cup {NoPool}]
    /\ batchRows \in [Batches -> BatchRow \cup {NoPool}]
    /\ dispatching \in [Batches -> Selection \cup {NoPool}]
    /\ executors \in [Batches -> ExecutorRow]
    /\ createdBy \in [DOMAIN createdBy -> Nat] /\ IsFiniteSet(DOMAIN createdBy)
    /\ \A q \in DOMAIN createdBy : \E b \in Batches, s \in Statements : q = CreateRequest(b, s)

\* One batch moves; the pool, the candidates and the runs stay.
LEMMA BatchMoves ==
    ASSUME PoolInv, NEW b \in Batches, BatchesTyped', PoolGrows, \A c \in Batches : c # b => BatchKept(c),
           UNCHANGED <<poolState, snapshotRows, sourceRows, problemRows, ingest, audits, batchRuns>>,
           BatchFits(b)'
    PROVE  PoolInv'
<1>1. PoolTyped'
  BY DEF PoolInv, PoolTyped, BatchesTyped, Problems
<1>2. PairsFit(sourceRows, problemRows)' /\ SnapshotsComplete'
  BY DEF PoolInv, PairsFit, SnapshotsComplete
<1>3. RunsNamedStay /\ \A c \in Batches : BatchKept(c) \/ BatchFits(c)'
  BY DEF RunsNamedStay
<1>4. RunsFit'
  BY <1>3, RunsStay DEF PoolInv
<1> QED BY <1>1, <1>2, <1>4 DEF PoolInv

\* A selection is checked and its template bound.
LEMMA DispatchCheckStep ==
    ASSUME PoolInv, NEW b \in Batches, NEW chosen \in SUBSET Statements, NEW a \in PoolArtifacts,
           DispatchCheck(b, chosen, a)
    PROVE  PoolInv'
<1>1. /\ UNCHANGED <<poolState, snapshotRows, sourceRows, problemRows, ingest, audits, batchRuns>>
      /\ UNCHANGED <<batchRows, executors, createdBy>>
  BY DEF DispatchCheck
<1>2. BatchesTyped /\ BatchFits(b)
  BY DEF PoolInv, PoolTyped, BatchesTyped, RunsFit
<1>3. PICK x : x = [chosen |-> chosen, template |-> a] /\ x \in Selection /\ x # NoPool
  <2>1. [chosen |-> chosen, template |-> a] \in Selection
    BY DEF Selection
  <2> QED BY <2>1, PoolInputs
<1>4. dispatching' = [dispatching EXCEPT ![b] = x]
  BY <1>3 DEF DispatchCheck
<1>5. bindings["CONTRACT_TEMPLATE"] \in {NoPool, a} /\ bindings' = [bindings EXCEPT !["CONTRACT_TEMPLATE"] = a]
  BY DEF DispatchCheck, BindArtifact
<1>6. /\ bindings' \in [{"SEMANTIC_AUDIT", "CONTRACT_TEMPLATE"} -> PoolArtifacts \cup {NoPool}]
      /\ bindings'["CONTRACT_TEMPLATE"] = a
  BY <1>2, <1>5 DEF BatchesTyped
<1>7. /\ dispatching' \in [Batches -> Selection \cup {NoPool}] /\ dispatching'[b] = x
      /\ \A c \in Batches : c # b => dispatching'[c] = dispatching[c]
  BY <1>2, <1>3, <1>4 DEF BatchesTyped
<1>8. BatchesTyped'
  BY <1>1, <1>2, <1>6, <1>7 DEF BatchesTyped, CreateRequest
<1>9. PoolGrows
  BY <1>1, <1>5, <1>6 DEF PoolGrows, Wanted
<1>10. \A c \in Batches : c # b => BatchKept(c)
  BY <1>1, <1>7 DEF BatchKept
<1>11. \A s \in chosen : Wanted(problemRows, s)
  BY DEF DispatchCheck, Eligible, Wanted, Problems
<1>12. batchRows[b] # NoPool => batchRows[b].template = a
  <2>1. batchRows[b] # NoPool => batchRows[b].template \in PoolArtifacts
    BY <1>2 DEF BatchesTyped, BatchRow
  <2> QED BY <1>2, <1>5, <2>1, PoolInputs DEF BatchFits
<1>13. BatchFits(b)'
  BY <1>1, <1>2, <1>3, <1>6, <1>7, <1>11, <1>12 DEF BatchFits, Wanted, CreateRequest
<1> QED BY <1>1, <1>8, <1>9, <1>10, <1>13, BatchMoves

\* Steps of one batch that bind no template and create no run.
LEMMA BatchRowsMove ==
    ASSUME PoolInv, NEW b \in Batches, NEW x \in BatchRow \cup {NoPool}, NEW y \in Selection \cup {NoPool},
           NEW z \in ExecutorRow,
           batchRows' = [batchRows EXCEPT ![b] = x], dispatching' = [dispatching EXCEPT ![b] = y],
           executors' = [executors EXCEPT ![b] = z],
           UNCHANGED <<poolState, snapshotRows, sourceRows, problemRows, ingest, audits, bindings, batchRuns, createdBy>>,
           y # NoPool => y = dispatching[b],
           x # NoPool => /\ x.template = bindings["CONTRACT_TEMPLATE"]
                         /\ \A s \in x.chosen : /\ Wanted(problemRows, s)
                                                /\ x.state = "COMPLETED" => batchRuns[<<b, s>>] # NoPool,
           z.pc # "idle" => /\ x # NoPool /\ z.todo \subseteq x.chosen
                            /\ \A s \in x.chosen \ z.todo : batchRuns[<<b, s>>] # NoPool,
           z.pc # "record"
    PROVE  PoolInv'
<1>1. BatchesTyped /\ BatchFits(b)
  BY DEF PoolInv, PoolTyped, BatchesTyped, RunsFit
<1>2. /\ batchRows' \in [Batches -> BatchRow \cup {NoPool}] /\ batchRows'[b] = x
      /\ dispatching' \in [Batches -> Selection \cup {NoPool}] /\ dispatching'[b] = y
      /\ executors' \in [Batches -> ExecutorRow] /\ executors'[b] = z
      /\ \A c \in Batches : c # b => BatchKept(c)
  BY <1>1 DEF BatchesTyped, BatchKept
<1>3. BatchesTyped'
  BY <1>1, <1>2 DEF BatchesTyped, CreateRequest
<1>4. PoolGrows
  BY DEF PoolGrows, Wanted
<1>5. BatchFits(b)'
  <2>1. y # NoPool => y.template = bindings["CONTRACT_TEMPLATE"] /\ \A s \in y.chosen : Wanted(problemRows, s)
    BY <1>1 DEF BatchFits
  <2> QED BY <1>2, <2>1 DEF BatchFits, Wanted
<1> QED BY <1>2, <1>3, <1>4, <1>5, BatchMoves

\* The batch is recorded, once.
LEMMA DispatchBatchStep ==
    ASSUME PoolInv, NEW b \in Batches, DispatchBatch(b)
    PROVE  PoolInv'
<1>1. BatchesTyped /\ BatchFits(b)
  BY DEF PoolInv, PoolTyped, BatchesTyped, RunsFit
<1>2. dispatching[b] \in Selection /\ executors[b] \in ExecutorRow /\ batchRows[b] \in BatchRow \cup {NoPool}
  BY <1>1 DEF BatchesTyped, DispatchBatch
<1>3. PICK x : x = IF batchRows[b] = NoPool
                   THEN [state |-> "DISPATCHED", chosen |-> dispatching[b].chosen, template |-> dispatching[b].template]
                   ELSE batchRows[b]
  OBVIOUS
<1>4. x \in BatchRow /\ x # NoPool
  BY <1>2, <1>3, PoolInputs DEF Selection, BatchRow
<1>5. batchRows' = [batchRows EXCEPT ![b] = x] /\ dispatching' = [dispatching EXCEPT ![b] = NoPool]
  BY <1>1, <1>3 DEF DispatchBatch, BatchesTyped
<1>6. UNCHANGED <<poolState, bindings, snapshotRows, sourceRows, problemRows, ingest, audits, batchRuns, executors, createdBy>>
  BY DEF DispatchBatch
<1>7. dispatching[b] # NoPool
  BY DEF DispatchBatch
<1>8. /\ x.template = bindings["CONTRACT_TEMPLATE"]
      /\ \A s \in x.chosen : /\ Wanted(problemRows, s)
                             /\ x.state = "COMPLETED" => batchRuns[<<b, s>>] # NoPool
  BY <1>1, <1>3, <1>7 DEF BatchFits
<1>9. CASE executors[b].pc # "record"
  <2>1. executors[b].pc # "idle" =>
            /\ x # NoPool /\ executors[b].todo \subseteq x.chosen
            /\ \A s \in x.chosen \ executors[b].todo : batchRuns[<<b, s>>] # NoPool
    BY <1>1, <1>3 DEF BatchFits
  <2>2. executors' = [executors EXCEPT ![b] = executors[b]]
    BY <1>1, <1>6 DEF BatchesTyped
  <2> QED BY <1>2, <1>4, <1>5, <1>6, <1>8, <1>9, <2>1, <2>2, BatchRowsMove
<1>10. CASE executors[b].pc = "record"
  <2>1. batchRows[b] # NoPool /\ x = batchRows[b]
    BY <1>1, <1>3, <1>10 DEF BatchFits
  <2>2. batchRows' = batchRows /\ dispatching'[b] = NoPool /\ BatchesTyped' /\ \A c \in Batches : c # b => BatchKept(c)
    BY <1>1, <1>5, <1>6, <2>1 DEF BatchesTyped, BatchKept, CreateRequest
  <2>3. BatchFits(b)'
    BY <1>1, <1>6, <2>2 DEF BatchFits, Wanted, CreateRequest
  <2>4. PoolGrows
    BY <1>6 DEF PoolGrows, Wanted
  <2> QED BY <1>6, <2>2, <2>3, <2>4, BatchMoves
<1> QED BY <1>9, <1>10

\* A batch is executed, for the first time or again.
LEMMA ExecuteBatchStep ==
    ASSUME PoolInv, NEW b \in Batches, NEW a \in PoolArtifacts, ExecuteBatch(b, a)
    PROVE  PoolInv'
<1>1. BatchesTyped /\ BatchFits(b)
  BY DEF PoolInv, PoolTyped, BatchesTyped, RunsFit
<1>2. batchRows[b] # NoPool
  BY DEF ExecuteBatch
<1>3. batchRows[b] \in BatchRow /\ dispatching[b] \in Selection \cup {NoPool}
  BY <1>1, <1>2 DEF BatchesTyped
<1>4. PICK x : x = IF batchRows[b].state = "DISPATCHED" THEN [batchRows[b] EXCEPT !.state = "RUNNING"] ELSE batchRows[b]
  OBVIOUS
<1>5. /\ x \in BatchRow /\ x.template = batchRows[b].template /\ x.chosen = batchRows[b].chosen
      /\ x.state = "COMPLETED" => batchRows[b].state = "COMPLETED"
  BY <1>3, <1>4 DEF BatchRow
<1>6. x # NoPool
  BY <1>5, PoolInputs
<1>7. batchRows' = [batchRows EXCEPT ![b] = x] /\ dispatching' = [dispatching EXCEPT ![b] = dispatching[b]]
  BY <1>1, <1>4 DEF ExecuteBatch, BatchesTyped
<1>8. PICK z : z = [IdleExecutor EXCEPT !.pc = "loop", !.todo = batchRows[b].chosen]
  OBVIOUS
<1>9. z \in ExecutorRow /\ z.pc = "loop" /\ z.todo = x.chosen
  <2>1. batchRows[b].chosen \in SUBSET Statements
    BY <1>3 DEF BatchRow
  <2> QED BY <1>5, <1>8, <2>1 DEF IdleExecutor, ExecutorRow
<1>10. executors' = [executors EXCEPT ![b] = z]
  BY <1>8 DEF ExecuteBatch
<1>11. UNCHANGED <<poolState, snapshotRows, sourceRows, problemRows, ingest, audits, bindings, batchRuns, createdBy>>
  BY DEF ExecuteBatch
<1>12. /\ x.template = bindings["CONTRACT_TEMPLATE"]
       /\ \A s \in x.chosen : /\ Wanted(problemRows, s)
                              /\ x.state = "COMPLETED" => batchRuns[<<b, s>>] # NoPool
  BY <1>1, <1>2, <1>5 DEF BatchFits
<1> QED BY <1>3, <1>5, <1>6, <1>7, <1>9, <1>10, <1>11, <1>12, BatchRowsMove

\* The command service makes the run of a candidate, or returns the one it made.
LEMMA CreateResearchForStep ==
    ASSUME PoolInv, NEW b \in Batches, NEW s \in Statements, CreateResearchFor(b, s)
    PROVE  PoolInv'
<1>1. BatchesTyped /\ BatchFits(b)
  BY DEF PoolInv, PoolTyped, BatchesTyped, RunsFit
<1>2. /\ UNCHANGED <<poolState, snapshotRows, sourceRows, problemRows, ingest, audits, batchRuns>>
      /\ UNCHANGED <<bindings, batchRows, dispatching>>
      /\ executors[b].pc = "loop" /\ s \in executors[b].todo /\ executors[b] \in ExecutorRow
  BY <1>1 DEF CreateResearchFor, BatchesTyped
<1>3. PICK q : q = CreateRequest(b, s)
  OBVIOUS
<1>4. /\ q \in DOMAIN createdBy' /\ createdBy' \in [DOMAIN createdBy' -> Nat] /\ IsFiniteSet(DOMAIN createdBy')
      /\ DOMAIN createdBy' = DOMAIN createdBy \cup {q}
      /\ \A r \in DOMAIN createdBy : createdBy'[r] = createdBy[r]
  <2>1. CASE q \in DOMAIN createdBy
    <3>1. createdBy' = createdBy
      BY <1>3, <2>1 DEF CreateResearchFor
    <3> QED BY <1>1, <2>1, <3>1 DEF BatchesTyped
  <2>2. CASE q \notin DOMAIN createdBy
    <3>1. PICK m : m = Cardinality(DOMAIN createdBy) + 1
      OBVIOUS
    <3>2. IsFiniteSet(DOMAIN createdBy) /\ createdBy \in [DOMAIN createdBy -> Nat]
      BY <1>1 DEF BatchesTyped
    <3>3. m \in Nat
      BY <3>1, <3>2, FS_CardinalityType
    <3>4. createdBy' = WithRow(createdBy, q, m)
      BY <1>3, <2>2, <3>1 DEF CreateResearchFor
    <3>5. DOMAIN createdBy' = DOMAIN createdBy \cup {q} /\ createdBy'[q] = m
          /\ \A r \in DOMAIN createdBy : createdBy'[r] = createdBy[r]
      BY <2>2, <3>4 DEF WithRow
    <3>6. createdBy' \in [DOMAIN createdBy' -> Nat]
      BY <3>2, <3>3, <3>4, <3>5 DEF WithRow
    <3>7. IsFiniteSet(DOMAIN createdBy')
      BY <3>2, <3>5, FS_AddElement
    <3> QED BY <3>5, <3>6, <3>7
  <2> QED BY <2>1, <2>2
<1>5. PICK m \in Nat : m = createdBy'[q]
  BY <1>4
<1>6. PICK z : z = [executors[b] EXCEPT !.pc = "record", !.at = s, !.run = m]
  OBVIOUS
<1>7. z \in ExecutorRow /\ z.pc = "record" /\ z.at = s /\ z.run = m /\ z.todo = executors[b].todo
  BY <1>2, <1>5, <1>6 DEF ExecutorRow
<1>8. executors' = [executors EXCEPT ![b] = z]
  BY <1>3, <1>5, <1>6 DEF CreateResearchFor
<1>9. executors' \in [Batches -> ExecutorRow] /\ executors'[b] = z /\ \A c \in Batches : c # b => BatchKept(c)
  BY <1>1, <1>2, <1>7, <1>8 DEF BatchesTyped, BatchKept
<1>10. \A r \in DOMAIN createdBy' : \E c \in Batches, t \in Statements : r = CreateRequest(c, t)
  BY <1>1, <1>3, <1>4 DEF BatchesTyped
<1>11. BatchesTyped'
  <2>1. \A r \in DOMAIN createdBy' : \E c \in Batches, t \in Statements : r = CreateRequest(c, t)'
    BY <1>10 DEF CreateRequest
  <2> QED BY <1>1, <1>2, <1>4, <1>9, <2>1 DEF BatchesTyped
<1>12. PoolGrows
  BY <1>2, <1>4 DEF PoolGrows, Wanted
<1>13. BatchFits(b)'
  <2>1. z.at \in z.todo /\ q = CreateRequest(b, z.at) /\ q \in DOMAIN createdBy' /\ z.run = createdBy'[q]
    BY <1>2, <1>3, <1>4, <1>5, <1>7
  <2>2. /\ batchRows[b] # NoPool /\ z.todo \subseteq batchRows[b].chosen
        /\ \A t \in batchRows[b].chosen \ z.todo : batchRuns[<<b, t>>] # NoPool
    BY <1>1, <1>2, <1>7 DEF BatchFits
  <2> QED BY <1>1, <1>2, <1>9, <2>1, <2>2 DEF BatchFits, Wanted, CreateRequest
<1> QED BY <1>2, <1>9, <1>11, <1>12, <1>13, BatchMoves

\* The execution of a batch is over, all its runs recorded.
LEMMA CompleteBatchStep ==
    ASSUME PoolInv, NEW b \in Batches, CompleteBatch(b)
    PROVE  PoolInv'
<1>1. BatchesTyped /\ BatchFits(b)
  BY DEF PoolInv, PoolTyped, BatchesTyped, RunsFit
<1>2. /\ UNCHANGED <<poolState, snapshotRows, sourceRows, problemRows, ingest, audits, bindings, batchRuns, createdBy>>
      /\ executors[b].pc = "loop" /\ executors[b].todo = {} /\ dispatching' = dispatching
  BY DEF CompleteBatch
<1>3. batchRows[b] # NoPool /\ \A s \in batchRows[b].chosen : batchRuns[<<b, s>>] # NoPool
  BY <1>1, <1>2 DEF BatchFits
<1>4. batchRows[b] \in BatchRow /\ dispatching[b] \in Selection \cup {NoPool}
  BY <1>1, <1>3 DEF BatchesTyped
<1>5. PICK x : x = [batchRows[b] EXCEPT !.state = "COMPLETED"]
  OBVIOUS
<1>6. x \in BatchRow /\ x.template = batchRows[b].template /\ x.chosen = batchRows[b].chosen
  BY <1>4, <1>5 DEF BatchRow
<1>7. batchRows' = [batchRows EXCEPT ![b] = x] /\ dispatching' = [dispatching EXCEPT ![b] = dispatching[b]]
  BY <1>1, <1>2, <1>5 DEF CompleteBatch, BatchesTyped
<1>8. IdleExecutor \in ExecutorRow /\ IdleExecutor.pc = "idle" /\ executors' = [executors EXCEPT ![b] = IdleExecutor]
  BY DEF CompleteBatch, IdleExecutor, ExecutorRow
<1>9. /\ x.template = bindings["CONTRACT_TEMPLATE"]
      /\ \A s \in x.chosen : /\ Wanted(problemRows, s)
                             /\ x.state = "COMPLETED" => batchRuns[<<b, s>>] # NoPool
  BY <1>1, <1>3, <1>6 DEF BatchFits
<1> QED BY <1>2, <1>4, <1>6, <1>7, <1>8, <1>9, BatchRowsMove

\* The process that executes a batch dies.
LEMMA ExecutorDiesStep ==
    ASSUME PoolInv, NEW b \in Batches, ExecutorDies(b)
    PROVE  PoolInv'
<1>1. BatchesTyped /\ BatchFits(b)
  BY DEF PoolInv, PoolTyped, BatchesTyped, RunsFit
<1>2. UNCHANGED <<poolState, snapshotRows, sourceRows, problemRows, ingest, audits, bindings, batchRuns, createdBy,
                  batchRows, dispatching>>
  BY DEF ExecutorDies
<1>3. batchRows[b] \in BatchRow \cup {NoPool} /\ dispatching[b] \in Selection \cup {NoPool}
  BY <1>1 DEF BatchesTyped
<1>4. batchRows' = [batchRows EXCEPT ![b] = batchRows[b]] /\ dispatching' = [dispatching EXCEPT ![b] = dispatching[b]]
  BY <1>1, <1>2 DEF BatchesTyped
<1>5. IdleExecutor \in ExecutorRow /\ IdleExecutor.pc = "idle" /\ executors' = [executors EXCEPT ![b] = IdleExecutor]
  BY DEF ExecutorDies, IdleExecutor, ExecutorRow
<1>6. batchRows[b] # NoPool =>
          /\ batchRows[b].template = bindings["CONTRACT_TEMPLATE"]
          /\ \A s \in batchRows[b].chosen : /\ Wanted(problemRows, s)
                                            /\ batchRows[b].state = "COMPLETED" => batchRuns[<<b, s>>] # NoPool
  BY <1>1 DEF BatchFits
<1> QED BY <1>2, <1>3, <1>4, <1>5, <1>6, BatchRowsMove

\* The run of a candidate is recorded for its batch, and for the candidate when it has none.
LEMMA RecordBatchRunStep ==
    ASSUME PoolInv, NEW b \in Batches, RecordBatchRun(b)
    PROVE  PoolInv'
<1>1. BatchesTyped /\ BatchFits(b) /\ batchRuns \in [Batches \X Statements -> Nat \cup {NoPool}]
  BY DEF PoolInv, PoolTyped, BatchesTyped, RunsFit
<1>2. /\ UNCHANGED <<poolState, snapshotRows, sourceRows, ingest, audits, bindings, batchRows, dispatching, createdBy>>
      /\ executors[b].pc = "record" /\ executors[b] \in ExecutorRow
  BY <1>1 DEF RecordBatchRun, BatchesTyped
<1>3. PICK s, run : s = executors[b].at /\ run = executors[b].run
  OBVIOUS
<1>4. /\ batchRows[b] # NoPool /\ executors[b].todo \subseteq batchRows[b].chosen /\ s \in executors[b].todo
      /\ \A t \in batchRows[b].chosen \ executors[b].todo : batchRuns[<<b, t>>] # NoPool
      /\ \A t \in batchRows[b].chosen : Wanted(problemRows, t)
      /\ CreateRequest(b, s) \in DOMAIN createdBy /\ run = createdBy[CreateRequest(b, s)]
      /\ batchRows[b].template = bindings["CONTRACT_TEMPLATE"]
  BY <1>1, <1>2, <1>3 DEF BatchFits
<1>5. run \in Nat /\ s \in Statements /\ Wanted(problemRows, s)
  <2>1. run \in Nat
    BY <1>1, <1>4 DEF BatchesTyped
  <2>2. s \in Statements
    BY <1>2, <1>4 DEF ExecutorRow
  <2> QED BY <1>4, <2>1, <2>2
<1>6. run # NoPool /\ batchRows[b] \in BatchRow /\ dispatching[b] \in Selection \cup {NoPool}
  BY <1>1, <1>4, <1>5, PoolInputs DEF BatchesTyped
<1>7. PICK z : z = [executors[b] EXCEPT !.pc = "loop", !.todo = @ \ {s}]
  OBVIOUS
<1>8. z \in ExecutorRow /\ z.pc = "loop" /\ z.todo = executors[b].todo \ {s}
  BY <1>2, <1>7 DEF ExecutorRow
<1>9. executors' = [executors EXCEPT ![b] = z]
  <2>1. executors' = [executors EXCEPT ![b].pc = "loop", ![b].todo = @ \ {s}]
    BY <1>3 DEF RecordBatchRun
  <2> QED BY <1>1, <1>7, <2>1 DEF BatchesTyped
<1>10. CASE batchRuns[<<b, s>>] = run /\ UNCHANGED <<batchRuns, problemRows>>
  <2>1. batchRows' = [batchRows EXCEPT ![b] = batchRows[b]] /\ dispatching' = [dispatching EXCEPT ![b] = dispatching[b]]
    BY <1>1, <1>2 DEF BatchesTyped
  <2>2. \A t \in batchRows[b].chosen \ z.todo : batchRuns[<<b, t>>] # NoPool
    BY <1>4, <1>6, <1>8, <1>10
  <2>3. \A t \in batchRows[b].chosen : batchRows[b].state = "COMPLETED" => batchRuns[<<b, t>>] # NoPool
    BY <1>1, <1>4 DEF BatchFits
  <2>4. PICK x, y : x = batchRows[b] /\ y = dispatching[b]
    OBVIOUS
  <2>5. /\ x \in BatchRow \cup {NoPool} /\ y \in Selection \cup {NoPool} /\ x # NoPool
        /\ x.template = bindings["CONTRACT_TEMPLATE"] /\ z.todo \subseteq x.chosen
        /\ \A t \in x.chosen : Wanted(problemRows, t) /\ (x.state = "COMPLETED" => batchRuns[<<b, t>>] # NoPool)
        /\ \A t \in x.chosen \ z.todo : batchRuns[<<b, t>>] # NoPool
    BY <1>4, <1>6, <1>8, <2>2, <2>3, <2>4
  <2> QED BY <1>2, <1>8, <1>9, <1>10, <2>1, <2>4, <2>5, BatchRowsMove
<1>11. CASE /\ batchRuns[<<b, s>>] = NoPool /\ batchRuns' = [batchRuns EXCEPT ![<<b, s>>] = run]
            /\ problemRows' = IF problemRows[s].run = NoPool
                              THEN [problemRows EXCEPT ![s].run = run] ELSE problemRows
  <2>1. s \in Problems /\ problemRows[s] \in ProblemRow
    <3>1. s \in Problems
      BY <1>5 DEF Wanted, Problems
    <3> QED BY <3>1, CandidateRow
  <2>2. PICK x : x = IF problemRows[s].run = NoPool THEN [problemRows[s] EXCEPT !.run = run] ELSE problemRows[s]
    OBVIOUS
  <2>3. /\ x \in ProblemRow /\ x.source = problemRows[s].source /\ x.audit = problemRows[s].audit
        /\ x.recommended = problemRows[s].recommended
        /\ (problemRows[s].run = NoPool /\ x.run = run) \/ (problemRows[s].run # NoPool /\ x.run = problemRows[s].run)
    BY <1>5, <2>1, <2>2 DEF ProblemRow
  <2>4. problemRows' = [problemRows EXCEPT ![s] = x]
    <3>1. problemRows \in [Statements -> ProblemRow \cup {NoPool}]
      BY DEF PoolInv, PairsFit
    <3> QED BY <1>11, <2>2, <3>1
  <2>5. /\ PairsFit(sourceRows, problemRows)' /\ Problems' = Problems
        /\ problemRows'[s] = x /\ x # NoPool /\ \A t \in Statements : t # s => problemRows'[t] = problemRows[t]
    BY <1>2, <2>1, <2>3, <2>4, OneCandidate DEF PoolInv
  <2>6. \A t \in Statements : Wanted(problemRows, t) => Wanted(problemRows', t)
    <3>1. ASSUME NEW t \in Statements, Wanted(problemRows, t) PROVE Wanted(problemRows', t)
      <4>1. CASE t = s
        BY <2>3, <2>5, <3>1, <4>1 DEF Wanted
      <4>2. CASE t # s
        BY <2>5, <3>1, <4>2 DEF Wanted
      <4> QED BY <4>1, <4>2
    <3> QED BY <3>1
  <2>7. /\ batchRuns' \in [Batches \X Statements -> Nat \cup {NoPool}] /\ batchRuns'[<<b, s>>] = run
        /\ \A c \in Batches, t \in Statements : ~(c = b /\ t = s) => batchRuns'[<<c, t>>] = batchRuns[<<c, t>>]
    <3>1. <<b, s>> \in Batches \X Statements
      BY <1>5
    <3> QED BY <1>1, <1>5, <1>11, <3>1
  <2>8. PoolGrows
    BY <1>2, <1>11, <2>6, <2>7 DEF PoolGrows
  <2>9. executors' \in [Batches -> ExecutorRow] /\ executors'[b] = z /\ \A c \in Batches : c # b => BatchKept(c)
    BY <1>1, <1>2, <1>8, <1>9 DEF BatchesTyped, BatchKept
  <2>10. PoolTyped'
    <3>1. BatchesTyped'
      BY <1>1, <1>2, <2>9 DEF BatchesTyped, CreateRequest
    <3> QED BY <1>2, <2>5, <2>7, <3>1 DEF PoolInv, PoolTyped, BatchesTyped
  <2>11. SnapshotsComplete'
    BY <1>2 DEF PoolInv, SnapshotsComplete
  <2>12. BatchFits(b)'
    <3>1. batchRows[b].chosen \subseteq Statements /\ z.todo \subseteq batchRows[b].chosen
      BY <1>4, <1>6, <1>8 DEF BatchRow
    <3>2. \A t \in batchRows[b].chosen : Wanted(problemRows', t)
      BY <1>4, <2>6, <3>1
    <3>3. \A t \in batchRows[b].chosen \ z.todo : batchRuns'[<<b, t>>] # NoPool
      BY <1>4, <1>6, <1>8, <2>7, <3>1
    <3>4. \A t \in batchRows[b].chosen : batchRows[b].state = "COMPLETED" => batchRuns'[<<b, t>>] # NoPool
      <4>1. \A t \in batchRows[b].chosen : batchRows[b].state = "COMPLETED" => batchRuns[<<b, t>>] # NoPool
        BY <1>1, <1>4 DEF BatchFits
      <4> QED BY <1>6, <2>7, <3>1, <4>1
    <3>5. dispatching[b] # NoPool => /\ dispatching[b].template = bindings["CONTRACT_TEMPLATE"]
                                     /\ \A t \in dispatching[b].chosen : Wanted(problemRows', t)
      <4>1. dispatching[b] # NoPool => dispatching[b].chosen \subseteq Statements
        BY <1>1 DEF BatchesTyped, Selection
      <4> QED BY <1>1, <2>6, <4>1 DEF BatchFits
    <3> QED BY <1>2, <1>4, <1>8, <2>9, <3>1, <3>2, <3>3, <3>4, <3>5 DEF BatchFits, Wanted
  <2>13. \A c \in Batches : BatchFits(c)'
    <3>1. ASSUME NEW c \in Batches, c # b PROVE BatchFits(c)'
      <4>1. PoolTyped /\ BatchFits(c) /\ BatchKept(c)
        BY <2>9, <3>1 DEF PoolInv, RunsFit
      <4> QED BY <2>8, <4>1, BatchStays
    <3> QED BY <2>12, <3>1
  <2>14. \E c \in Batches : x.run = batchRuns'[<<c, s>>]
    <3>1. CASE problemRows[s].run = NoPool
      BY <2>3, <2>7, <3>1
    <3>2. CASE problemRows[s].run # NoPool
      <4>1. CandidateFits(s) /\ problemRows[s] # NoPool
        BY <1>5 DEF PoolInv, RunsFit, Wanted
      <4>2. PICK c \in Batches : problemRows[s].run = batchRuns[<<c, s>>]
        BY <3>2, <4>1 DEF CandidateFits
      <4>3. batchRuns'[<<c, s>>] = batchRuns[<<c, s>>]
        BY <1>5, <1>11, <2>7, <3>2, <4>2
      <4> QED BY <2>3, <3>2, <4>2, <4>3
    <3> QED BY <3>1, <3>2
  <2>15. ASSUME NEW c \in Batches, NEW t \in Statements PROVE RunFits(c, t)'
    <3>1. RunFits(c, t)
      BY DEF PoolInv, RunsFit
    <3>2. CASE t = s
      <4>1. ASSUME batchRuns'[<<c, s>>] # NoPool
            PROVE  CreateRequest(c, s) \in DOMAIN createdBy /\ batchRuns'[<<c, s>>] = createdBy[CreateRequest(c, s)]
        <5>1. CASE c = b
          BY <1>4, <2>7, <5>1
        <5>2. CASE c # b
          BY <1>5, <2>7, <3>1, <3>2, <4>1, <5>2 DEF RunFits
        <5> QED BY <5>1, <5>2
      <4>2. Wanted(problemRows', s) /\ \E d \in Batches : problemRows'[s].run = batchRuns'[<<d, s>>]
        BY <1>5, <2>5, <2>6, <2>14
      <4> QED BY <1>2, <3>2, <4>1, <4>2 DEF RunFits, Wanted, CreateRequest
    <3>3. CASE t # s
      <4>1. /\ \A d \in Batches : batchRuns'[<<d, t>>] = batchRuns[<<d, t>>]
            /\ problemRows'[t] = problemRows[t]
        BY <2>5, <2>7, <3>3
      <4> QED BY <1>2, <3>1, <4>1 DEF RunFits, Wanted, CreateRequest
    <3> QED BY <3>2, <3>3
  <2>16. ASSUME NEW t \in Statements PROVE CandidateFits(t)'
    <3>1. CandidateFits(t)
      BY DEF PoolInv, RunsFit
    <3>2. CASE t = s
      BY <2>5, <2>14, <3>2 DEF CandidateFits
    <3>3. CASE t # s
      <4>1. /\ \A d \in Batches : batchRuns'[<<d, t>>] = batchRuns[<<d, t>>]
            /\ problemRows'[t] = problemRows[t]
        BY <2>5, <2>7, <3>3
      <4> QED BY <3>1, <4>1 DEF CandidateFits
    <3> QED BY <3>2, <3>3
  <2> QED BY <2>5, <2>10, <2>11, <2>13, <2>15, <2>16 DEF PoolInv, RunsFit
<1> QED BY <1>3, <1>10, <1>11 DEF RecordBatchRun

\* The pool starts empty.
LEMMA PoolInitially == PoolInit => PoolInv
<1> SUFFICES ASSUME PoolInit PROVE PoolInv
  OBVIOUS
<1>1. DOMAIN sourceRows = {} /\ DOMAIN createdBy = {} /\ Problems = {}
  BY DEF PoolInit, Problems
<1>2. IsFiniteSet({})
  BY FS_EmptySet
<1>3. PoolTyped
  <2>1. IdleExecutor \in ExecutorRow
    BY DEF IdleExecutor, ExecutorRow
  <2>2. createdBy \in [DOMAIN createdBy -> Nat]
    BY DEF PoolInit
  <2> QED BY <1>1, <1>2, <2>1, <2>2 DEF PoolInit, PoolTyped
<1>4. PairsFit(sourceRows, problemRows)
  <2>1. sourceRows = [id \in DOMAIN sourceRows |-> sourceRows[id]]
    BY DEF PoolInit
  <2>2. problemRows \in [Statements -> ProblemRow \cup {NoPool}] /\ \A s \in Statements : problemRows[s] = NoPool
    BY DEF PoolInit
  <2>3. {s \in Statements : problemRows[s] # NoPool} = {}
    BY <2>2
  <2> QED BY <1>1, <1>2, <2>1, <2>2, <2>3 DEF PairsFit
<1>5. SnapshotsComplete
  BY DEF PoolInit, SnapshotsComplete
<1>6. RunsFit
  BY DEF PoolInit, RunsFit, BatchFits, RunFits, CandidateFits, IdleExecutor
<1> QED BY <1>3, <1>4, <1>5, <1>6 DEF PoolInv

\* Every step of the pool keeps it in order.
LEMMA PoolInductive == PoolInv /\ [PoolNext]_poolVars => PoolInv'
<1> SUFFICES ASSUME PoolInv, [PoolNext]_poolVars PROVE PoolInv'
  OBVIOUS
<1>1. CASE \E list \in SnapshotLists : BeginIngest(list)
  BY <1>1, IngestMoves
<1>2. CASE RecordSnapshotRead \/ IngestDies
  <2>1. PICK list : list \in SnapshotLists
    BY <1>2 DEF PoolInv, PoolTyped, IngestRow, IdleIngest, RecordSnapshotRead, IngestDies
  <2> QED BY <1>2, <2>1, IngestMoves
<1>3. CASE RecordSnapshot
  BY <1>3, RecordSnapshotStep
<1>4. CASE \E a \in PoolArtifacts : FreezePool(a) \/ \E b \in Batches : ExecuteBatch(b, a)
  BY <1>4, FreezeStep, ExecuteBatchStep
<1>5. CASE \E s \in Statements : \/ AuditRead(s)
                                 \/ \E d \in {"HUMAN_INCLUDED", "HUMAN_EXCLUDED"} : AuditCandidate(s, d)
                                 \/ \E v \in {"RECOMMENDED", "NOT_RECOMMENDED"} : ScoreCandidate(s, v)
  BY <1>5, AuditReadStep, AuditStep, ScoreStep
<1>6. CASE \E b \in Batches : \/ \E chosen \in SUBSET Statements, a \in PoolArtifacts : DispatchCheck(b, chosen, a)
                              \/ DispatchBatch(b) \/ RecordBatchRun(b)
                              \/ CompleteBatch(b) \/ ExecutorDies(b)
                              \/ \E s \in Statements : CreateResearchFor(b, s)
  <2>1. PICK b \in Batches : \/ \E chosen \in SUBSET Statements, a \in PoolArtifacts : DispatchCheck(b, chosen, a)
                             \/ DispatchBatch(b) \/ RecordBatchRun(b)
                             \/ CompleteBatch(b) \/ ExecutorDies(b)
                             \/ \E s \in Statements : CreateResearchFor(b, s)
    BY <1>6
  <2>2. CASE \E chosen \in SUBSET Statements, a \in PoolArtifacts : DispatchCheck(b, chosen, a)
    BY <2>2, DispatchCheckStep
  <2>3. CASE \E s \in Statements : CreateResearchFor(b, s)
    BY <2>3, CreateResearchForStep
  <2> QED BY <2>1, <2>2, <2>3, DispatchBatchStep, RecordBatchRunStep, CompleteBatchStep, ExecutorDiesStep
<1>7. CASE UNCHANGED poolVars
  <2>1. UNCHANGED <<poolState, snapshotRows, sourceRows, problemRows, ingest, audits, bindings, batchRows, batchRuns,
                    dispatching, executors, createdBy>>
    BY <1>7 DEF poolVars
  <2>2. PoolTyped'
    BY <2>1 DEF PoolInv, PoolTyped, CreateRequest, Problems
  <2>3. PairsFit(sourceRows, problemRows)' /\ SnapshotsComplete'
    BY <2>1 DEF PoolInv, PairsFit, SnapshotsComplete
  <2>4. RunsFit'
    <3>1. ASSUME NEW b \in Batches PROVE BatchFits(b)'
      <4>1. BatchFits(b)
        BY DEF PoolInv, RunsFit
      <4> QED BY <2>1, <4>1 DEF BatchFits, Wanted, CreateRequest
    <3>2. ASSUME NEW b \in Batches, NEW s \in Statements PROVE RunFits(b, s)'
      <4>1. RunFits(b, s)
        BY DEF PoolInv, RunsFit
      <4> QED BY <2>1, <4>1 DEF RunFits, Wanted, CreateRequest
    <3>3. ASSUME NEW s \in Statements PROVE CandidateFits(s)'
      <4>1. CandidateFits(s)
        BY DEF PoolInv, RunsFit
      <4> QED BY <2>1, <4>1 DEF CandidateFits
    <3> QED BY <3>1, <3>2, <3>3 DEF RunsFit
  <2> QED BY <2>2, <2>3, <2>4 DEF PoolInv
<1> QED BY <1>1, <1>2, <1>3, <1>4, <1>5, <1>6, <1>7 DEF PoolNext

\* No two candidates share a source, for the source of a candidate states its problem.
LEMMA SourcesAreDistinct ==
    ASSUME PairsFit(sourceRows, problemRows)
    PROVE  /\ {id \in DOMAIN sourceRows : sourceRows[id] = "INCLUDED"} = {problemRows[s].source : s \in Problems}
           /\ Cardinality({problemRows[s].source : s \in Problems}) = Cardinality(Problems)
<1>1. ASSUME NEW s \in Problems
      PROVE  /\ problemRows[s].source \in DOMAIN sourceRows /\ sourceRows[problemRows[s].source] = "INCLUDED"
             /\ problemRows[s].source[2].statement = s
  BY DEF PairsFit, Problems
<1>2. ASSUME NEW id \in DOMAIN sourceRows, sourceRows[id] = "INCLUDED"
      PROVE  \E s \in Problems : problemRows[s].source = id
  BY <1>2 DEF PairsFit, Problems
<1>3. PICK S : S = {problemRows[s].source : s \in Problems}
  OBVIOUS
<1>4. {id \in DOMAIN sourceRows : sourceRows[id] = "INCLUDED"} = S
  BY <1>1, <1>2, <1>3
<1>5. PICK f : f = [s \in Problems |-> problemRows[s].source]
  OBVIOUS
<1>6. f \in Bijection(Problems, S)
  <2>1. f \in [Problems -> S] /\ \A y \in S : \E s \in Problems : f[s] = y
    BY <1>3, <1>5
  <2>2. \A s, t \in Problems : f[s] = f[t] => s = t
    <3>1. \A s \in Problems : f[s][2].statement = s
      BY <1>1, <1>5
    <3> QED BY <3>1
  <2> QED BY <2>1, <2>2 DEF Bijection, Injection, IsInjective, Surjection
<1>7. IsFiniteSet(Problems)
  BY DEF PairsFit, Problems
<1>8. Cardinality(Problems) = Cardinality(S)
  BY <1>6, <1>7, FS_Bijection DEF ExistsBijection
<1> QED BY <1>3, <1>4, <1>8

\* A batch asks for one run per candidate.
LEMMA OneRequestEach ==
    ASSUME PoolTyped, NEW b \in Batches, NEW s \in Statements
    PROVE  Cardinality({q \in DOMAIN createdBy : q[1] = b /\ q[2] = s}) <= 1
<1>1. PICK Q : Q = {q \in DOMAIN createdBy : q[1] = b /\ q[2] = s}
  OBVIOUS
<1>2. Q \subseteq {CreateRequest(b, s)}
  <2>1. ASSUME NEW q \in Q PROVE q = CreateRequest(b, s)
    <3>1. q \in DOMAIN createdBy /\ q[1] = b /\ q[2] = s
      BY <1>1
    <3>2. PICK c \in Batches, t \in Statements : q = CreateRequest(c, t)
      BY <3>1 DEF PoolTyped
    <3> QED BY <3>1, <3>2 DEF CreateRequest
  <2> QED BY <2>1
<1>3. PICK r : r = CreateRequest(b, s)
  OBVIOUS
<1>4. IsFiniteSet({r}) /\ Cardinality({r}) = 1
  BY FS_Singleton
<1>5. Cardinality(Q) <= Cardinality({r})
  BY <1>2, <1>3, <1>4, FS_Subset
<1> QED BY <1>1, <1>4, <1>5

\* A pool in order is accounted for.
LEMMA PoolInOrder == PoolInv => PoolIsAccountedFor
<1> SUFFICES ASSUME PoolInv PROVE PoolIsAccountedFor
  OBVIOUS
<1>1. PoolTyped /\ PairsFit(sourceRows, problemRows) /\ SnapshotsComplete /\ RunsFit
  BY DEF PoolInv
<1>2. PoolTypeOK
  BY <1>1 DEF PoolTyped, PairsFit, PoolTypeOK, Problems
<1>3. ASSUME NEW b \in Batches, NEW s \in Statements
      PROVE  /\ Cardinality({q \in DOMAIN createdBy : q[1] = b /\ q[2] = s}) <= 1
             /\ batchRuns[<<b, s>>] # NoPool => /\ batchRuns[<<b, s>>] = createdBy[CreateRequest(b, s)]
                                                /\ problemRows[s].audit = "HUMAN_INCLUDED"
                                                /\ problemRows[s].recommended = "RECOMMENDED"
                                                /\ \E c \in Batches : problemRows[s].run = batchRuns[<<c, s>>]
             /\ batchRows[b] # NoPool =>
                   /\ batchRows[b].template = bindings["CONTRACT_TEMPLATE"]
                   /\ batchRows[b].state = "COMPLETED" /\ s \in batchRows[b].chosen => batchRuns[<<b, s>>] # NoPool
  <2>1. RunFits(b, s) /\ BatchFits(b)
    BY <1>1 DEF RunsFit
  <2>2. Cardinality({q \in DOMAIN createdBy : q[1] = b /\ q[2] = s}) <= 1
    BY <1>1, OneRequestEach
  <2> QED BY <2>1, <2>2 DEF RunFits, BatchFits, Wanted
<1>4. \A n \in Snapshots : snapshotRows[n] # NoPool =>
          IF EntriesOf[n] \in {NoPool, <<>>} THEN <<n, NoPool>> \in DOMAIN sourceRows
          ELSE \A e \in Range(EntriesOf[n]) : <<n, e>> \in DOMAIN sourceRows
  BY <1>1 DEF SnapshotsComplete
<1>5. /\ {id \in DOMAIN sourceRows : sourceRows[id] = "INCLUDED"} = {problemRows[s].source : s \in Problems}
      /\ Cardinality({problemRows[s].source : s \in Problems}) = Cardinality(Problems)
  BY <1>1, SourcesAreDistinct
<1> QED BY <1>2, <1>3, <1>4, <1>5, Zenon DEF PoolIsAccountedFor

\* However often an ingestion or the execution of a batch is broken off and repeated, the
\* denominator of the pool is complete, every candidate has its own included source row, and a
\* batch makes one run for each candidate a human included and the score recommends.
THEOREM PoolIsAlwaysAccountedFor == PoolSpec => []PoolIsAccountedFor
<1>1. PoolInit => PoolInv
  BY PoolInitially
<1>2. PoolInv /\ [PoolNext]_poolVars => PoolInv'
  BY PoolInductive
<1>3. PoolInv => PoolIsAccountedFor
  BY PoolInOrder
<1> QED BY <1>1, <1>2, <1>3, PTL DEF PoolSpec
=============================================================================
