----------------------------- MODULE Executors ------------------------------
(***************************************************************************)
(* The typed executors of durable jobs (durable_executors.py,              *)
(* production_executors.py): which port is deployed, what an executor did  *)
(* before it answered, which outcome and decision it may report, and the   *)
(* four dispositions of an unknown outcome.  The queue that claims and     *)
(* resolves is modelled in DurableJobs; here a job is claimed once, an     *)
(* executor that raises or dies leaves its lease to lapse, and a lapsed    *)
(* job that may not run again has an unknown outcome.                      *)
(***************************************************************************)
EXTENDS Naturals, Sequences, FiniteSets, SequencesExt

CONSTANTS ExecJobs,
          Orders,         \* sets of functions: job -> command type and payload of its request
          PortSets,       \* sets of command types whose services are deployed
          Connectors,     \* literature connectors that are deployed
          NoOutcome

VARIABLES order, deployed, execState, execReceipt,
          answer,         \* what the executor of a running job has returned
          done,           \* effects the executors have left in the stores
          asked           \* literature profiles a running job has still to ask

executorVars == <<order, deployed, execState, execReceipt, answer, done, asked>>

KernelKinds == {"START_RESEARCH", "RESUME_RESEARCH"}
StoreKinds == {"BATCH_CREATE_RESEARCH", "ASSIGN_ABLATION", "IMPORT_RESEARCH_LINEAGE"}
PaperKinds == {"GENERATE_CANDIDATE_TEX", "COMPILE_FINAL_PDF"}
ComputeKinds == {"CREATE_COMPUTE_TASK", "RUN_TOOL"}
DurableCommandTypes == KernelKinds \cup StoreKinds \cup PaperKinds \cup ComputeKinds
    \cup {"DEPLOYMENT_OPERATION", "RUN_LITERATURE_QUERY", "REPLAY_SOURCE_SNAPSHOT", "RETRY_UNKNOWN_OUTCOME"}

Strategies == {"MARK_ABANDONED", "QUERY_REMOTE", "ACCEPT_RECEIPT", "RETRY"}

\* A query names its profiles in order, a retry the job it is about; no outcome is no answer.
ASSUME ExecutorInputs ==
    /\ NoOutcome \notin {"accepted", "rejected"}
    /\ NoOutcome \notin [outcome : {"SUCCEEDED", "FAILED", "OUTCOME_UNKNOWN"},
                         decision : {"accepted", "rejected", NoOutcome}, kernel : BOOLEAN]
    /\ \A o \in Orders : \A j \in ExecJobs :
          /\ o[j].type \in DurableCommandTypes
          /\ o[j].type = "RUN_LITERATURE_QUERY" => o[j].profiles \in Seq(Range(o[j].profiles))
          /\ o[j].type = "RETRY_UNKNOWN_OUTCOME" => o[j].about \in ExecJobs

\* The constructors of a typed execution.
DomainSuccess == [outcome |-> "SUCCEEDED", decision |-> "accepted", kernel |-> FALSE]
KernelExecution(accepted) ==
    [outcome |-> IF accepted THEN "SUCCEEDED" ELSE "FAILED",
     decision |-> IF accepted THEN "accepted" ELSE "rejected", kernel |-> accepted]
RejectedExecution == [outcome |-> "FAILED", decision |-> "rejected", kernel |-> FALSE]
UnknownOutcome == [outcome |-> "OUTCOME_UNKNOWN", decision |-> NoOutcome, kernel |-> FALSE]

\* What a bound executor checks of its delegate's result.
TypedExecution(type, result) ==
    /\ result.outcome = "SUCCEEDED" => result.decision = "accepted"
    /\ result.outcome = "OUTCOME_UNKNOWN" => result.decision = NoOutcome
    /\ result.outcome = "FAILED" => result.decision = "rejected"
    /\ type = "RUN_TOOL" => ~result.kernel

ExecutorInit ==
    /\ order \in Orders /\ deployed \in PortSets
    /\ execState = [j \in ExecJobs |-> "QUEUED"]
    /\ execReceipt = [j \in ExecJobs |-> "PENDING"]
    /\ answer = [j \in ExecJobs |-> NoOutcome]
    /\ done = {} /\ asked = [j \in ExecJobs |-> <<>>]

Type(j) == order[j].type
Answers(j, result) == answer' = [answer EXCEPT ![j] = result]
Working(j) == execState[j] = "RUNNING" /\ answer[j] = NoOutcome

\* The request's type and scope are the job's own; the pump calls its executor.
ClaimJob(j) ==
    /\ execState[j] = "QUEUED" /\ execState' = [execState EXCEPT ![j] = "RUNNING"]
    /\ asked' = [asked EXCEPT ![j] = IF Type(j) = "RUN_LITERATURE_QUERY" THEN order[j].profiles ELSE <<>>]
    /\ UNCHANGED <<order, deployed, execReceipt, answer, done>>

\* A missing port, profile or resolver rejects before anything is done.
RunUndeployed(j) ==
    /\ Working(j) /\ Type(j) \notin deployed /\ Answers(j, RejectedExecution)
    /\ UNCHANGED <<order, deployed, execState, execReceipt, done, asked>>

\* The decision is the kernel's own.
RunLifecycle(j) ==
    /\ Working(j) /\ Type(j) \in KernelKinds \cap deployed /\ <<j, "kernel">> \notin done
    /\ \E accepted \in BOOLEAN :
         /\ Answers(j, KernelExecution(accepted))
         /\ done' = IF accepted THEN done \cup {<<j, "kernel">>} ELSE done
    /\ UNCHANGED <<order, deployed, execState, execReceipt, asked>>

\* The service commits under the job's own name; the executor answers, or
\* dies before it can.
ServiceCommits(j, what) ==
    /\ done' = done \cup {<<j, what>>}
    /\ Answers(j, DomainSuccess) \/ UNCHANGED answer
    /\ UNCHANGED <<order, deployed, execState, execReceipt, asked>>

RunStore(j) == Working(j) /\ Type(j) \in StoreKinds \cap deployed /\ ServiceCommits(j, "row")

RunPaper(j) == Working(j) /\ Type(j) \in PaperKinds \cap deployed /\ ServiceCommits(j, "artifact")

\* A preflight only looks; an action that is not one of the four is rejected.
RunDeployment(j) ==
    /\ Working(j) /\ Type(j) = "DEPLOYMENT_OPERATION" /\ Type(j) \in deployed
    /\ CASE order[j].action \in {"BACKUP", "RESTORE", "UPGRADE_EXECUTE"} -> ServiceCommits(j, order[j].action)
         [] order[j].action = "UPGRADE_PREFLIGHT" ->
              Answers(j, DomainSuccess) /\ UNCHANGED <<order, deployed, execState, execReceipt, done, asked>>
         [] OTHER ->
              Answers(j, RejectedExecution) /\ UNCHANGED <<order, deployed, execState, execReceipt, done, asked>>

\* A request that does not bind, or an execution that failed, is a rejection.
RunCompute(j) ==
    /\ Working(j) /\ Type(j) \in ComputeKinds \cap deployed
    /\ \/ Answers(j, RejectedExecution) /\ UNCHANGED done
       \/ Answers(j, DomainSuccess) /\ done' = done \cup {<<j, "outputs">>}
    /\ UNCHANGED <<order, deployed, execState, execReceipt, asked>>

\* One snapshot for each profile, in the order of the request; a profile
\* without a connector rejects the whole query.
AskConnector(j) ==
    /\ Working(j) /\ Type(j) = "RUN_LITERATURE_QUERY" /\ Type(j) \in deployed /\ asked[j] # <<>>
    /\ IF Head(asked[j]) \in Connectors
       THEN /\ done' = done \cup {<<j, Head(asked[j])>>}
            /\ asked' = [asked EXCEPT ![j] = Tail(@)] /\ UNCHANGED answer
       ELSE Answers(j, RejectedExecution) /\ UNCHANGED <<done, asked>>
    /\ UNCHANGED <<order, deployed, execState, execReceipt>>

QueryAnswered(j) ==
    /\ Working(j) /\ Type(j) = "RUN_LITERATURE_QUERY" /\ Type(j) \in deployed /\ asked[j] = <<>>
    /\ Answers(j, DomainSuccess)
    /\ UNCHANGED <<order, deployed, execState, execReceipt, done, asked>>

\* The stored response must be the expected one, and a replay confirms nothing.
RunReplay(j) ==
    /\ Working(j) /\ Type(j) = "REPLAY_SOURCE_SNAPSHOT" /\ Type(j) \in deployed
    /\ \/ Answers(j, RejectedExecution) /\ UNCHANGED done
       \/ Answers(j, DomainSuccess) /\ done' = done \cup {<<j, "snapshot">>}
    /\ UNCHANGED <<order, deployed, execState, execReceipt, asked>>

\* No disposition changes the receipt it is about.
Dispose(strategy) ==
    CASE strategy = "MARK_ABANDONED" -> DomainSuccess
      [] strategy = "QUERY_REMOTE" -> UnknownOutcome
      [] OTHER -> RejectedExecution

\* The receipt named must be unknown when the executor reads it.
\* Mutant: the state of the receipt is not read.
RetryAnything(j) ==
    /\ Working(j) /\ Type(j) = "RETRY_UNKNOWN_OUTCOME" /\ Type(j) \in deployed
    /\ Answers(j, Dispose(order[j].strategy))
    /\ UNCHANGED <<order, deployed, execState, execReceipt, done, asked>>

RunRetryUnknown(j) ==
    /\ Working(j) /\ Type(j) = "RETRY_UNKNOWN_OUTCOME" /\ Type(j) \in deployed
    /\ Answers(j, IF execReceipt[order[j].about] = "OUTCOME_UNKNOWN" THEN Dispose(order[j].strategy)
                  ELSE RejectedExecution)
    /\ UNCHANGED <<order, deployed, execState, execReceipt, done, asked>>

\* The resolver settles job and receipt in one transaction.
SettleJob(j) ==
    /\ execState[j] = "RUNNING" /\ answer[j] # NoOutcome /\ TypedExecution(Type(j), answer[j])
    /\ execState' = [execState EXCEPT ![j] = answer[j].outcome]
    /\ execReceipt' = [execReceipt EXCEPT ![j] =
         IF answer[j].decision = NoOutcome THEN "OUTCOME_UNKNOWN" ELSE "DECIDED"]
    /\ UNCHANGED <<order, deployed, answer, done, asked>>

\* An exception, or the death of the pump: the lease lapses, and a job that
\* may not run a second time has an unknown outcome.
LeaseLapses(j) ==
    /\ execState[j] = "RUNNING"
    /\ execState' = [execState EXCEPT ![j] = "OUTCOME_UNKNOWN"]
    /\ execReceipt' = [execReceipt EXCEPT ![j] = "OUTCOME_UNKNOWN"]
    /\ UNCHANGED <<order, deployed, answer, done, asked>>

ExecutorNext == \E j \in ExecJobs :
    \/ ClaimJob(j) \/ RunUndeployed(j) \/ RunLifecycle(j) \/ RunStore(j) \/ RunPaper(j) \/ RunDeployment(j)
    \/ RunCompute(j) \/ AskConnector(j) \/ QueryAnswered(j) \/ RunReplay(j) \/ RunRetryUnknown(j)
    \/ SettleJob(j) \/ LeaseLapses(j)

ExecutorSpec == ExecutorInit /\ [][ExecutorNext]_executorVars

-----------------------------------------------------------------------------
(* Properties *)

ExecutorTypeOK ==
    /\ \A j \in ExecJobs : Type(j) \in DurableCommandTypes
    /\ execState \in [ExecJobs -> {"QUEUED", "RUNNING", "SUCCEEDED", "FAILED", "OUTCOME_UNKNOWN"}]
    /\ execReceipt \in [ExecJobs -> {"PENDING", "DECIDED", "OUTCOME_UNKNOWN"}]

EffectsOf(j) == {e \in done : e[1] = j}

\* A job that succeeded has left what its answer names, for a query the
\* snapshot of every profile; a job that failed has left nothing but the
\* snapshots of profiles asked before the missing one, and never a kernel
\* command; and an outcome was given up only for a job whose own outcome is
\* unknown and still is.
\* (production_executors.py; durable_executors.py _assert_typed_execution)
OutcomesMatchEffects ==
    /\ ExecutorTypeOK
    /\ \A j \in ExecJobs :
       /\ execState[j] = "SUCCEEDED" =>
            CASE Type(j) = "RUN_LITERATURE_QUERY" -> EffectsOf(j) = {<<j, p>> : p \in Range(order[j].profiles)}
              [] Type(j) = "RETRY_UNKNOWN_OUTCOME" ->
                   order[j].strategy = "MARK_ABANDONED" /\ execReceipt[order[j].about] = "OUTCOME_UNKNOWN"
              [] Type(j) = "DEPLOYMENT_OPERATION" ->
                   order[j].action = "UPGRADE_PREFLIGHT" \/ EffectsOf(j) = {<<j, order[j].action>>}
              [] OTHER -> EffectsOf(j) # {}
       /\ execState[j] = "FAILED" => \A e \in EffectsOf(j) :
            Type(j) = "RUN_LITERATURE_QUERY" /\ e[2] \in Connectors
       /\ (execState[j] \in {"SUCCEEDED", "FAILED"}) = (execReceipt[j] = "DECIDED")
=============================================================================
