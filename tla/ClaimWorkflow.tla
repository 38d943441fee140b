---------------------------- MODULE ClaimWorkflow ----------------------------
(***************************************************************************)
(* From a research draft to verified claims: a draft is normalised into    *)
(* candidates (research_draft.py), a candidate is submitted as a claim and *)
(* given a plan of verifiers (verifier_planner.py), verifiers report       *)
(* evidence (validation_gateway.py), and a verdict of the kernel decides   *)
(* the claim (claims.py): through the kernel's own IMPORT_VERIFICATION     *)
(* handler (claim_handlers.py) or through the adapter that also discharges *)
(* the draft's obligation (obligation_adapter.py).                         *)
(***************************************************************************)
EXTENDS Naturals, FiniteSets

CONSTANTS Candidates, PredecessorLabels,  \* claims of the one draft; earlier ones each names
          Undefined,                      \* candidates that use a symbol nobody defines
          Attempts, MaxClaims,            \* worker attempts; how many claims are submitted
          Required, Supplementary,        \* backends the contract allows for these claims
          Recorders, MaxContract, NoClaim

ASSUME ClaimInputs ==
    /\ PredecessorLabels \in [Candidates -> SUBSET Candidates]
    /\ Required # {} /\ Required \cap Supplementary = {}

VARIABLES contract,               \* current contract version of the run
          draft, candidates,      \* scope of the draft; its candidates' lifecycles and claims
          claims,                 \* rows of product_claims
          planners, plans, results,  \* planner calls; verifier plans; evidence by backend
          recorders, importer,    \* calls of record_evidence; of consume_kernel_verdict
          obligations, readiness  \* obligations of the draft and its closure readiness

claimVars == <<contract, draft, candidates, claims, planners, plans, results,
               recorders, importer, obligations, readiness>>

Backends == Required \cup Supplementary
Verdicts == {"ACCEPTED", "REJECTED"}
ClaimIds == 1..MaxClaims

\* Rows of the tables, and calls under way.
Lifecycles == {"PENDING_VERIFICATION", "ACCEPTED", "REJECTED"}
VerdictEvents == ({"kernel"} \X ClaimIds) \cup ({"adapter"} \X Candidates)
ClaimRow == [label : ClaimIds \cup Candidates, statement : Candidates, contract : 1..MaxContract,
             preds : SUBSET ClaimIds, attempt : Attempts, lifecycle : Lifecycles,
             supersedes : ClaimIds \cup {NoClaim}, supersededBy : ClaimIds \cup {NoClaim},
             event : VerdictEvents \cup {NoClaim}]
CandidateRow == [lifecycle : {"CANDIDATE", "SUBMITTED", "ACCEPTED", "REJECTED"},
                 claim : ClaimIds \cup {NoClaim}]
ObligationRow == [status : {"WAITING_KERNEL", "DISCHARGED_BY_KERNEL", "REPAIR_REQUIRED"},
                  event : VerdictEvents \cup {NoClaim}]
PlanStates == {"PLANNED", "PARTIALLY_VERIFIED", "READY_FOR_KERNEL", "REJECTED",
               "IMPORTED_ACCEPTED", "IMPORTED_REJECTED"}
EvidenceCall == [candidate : Candidates, backend : Backends, verdict : Verdicts]
ImportCall == [candidate : Candidates, backend : Backends, accepted : BOOLEAN]

\* What is missing is no row, no call, no state and no number.
ASSUME NoClaimIsNoRow ==
    /\ NoClaim \notin ClaimRow /\ NoClaim \notin CandidateRow /\ NoClaim \notin ObligationRow
    /\ NoClaim \notin EvidenceCall /\ NoClaim \notin ImportCall
    /\ NoClaim \notin PlanStates \cup {"BLOCKED", "READY_FOR_CLOSURE_WITNESS"}
    /\ NoClaim \notin ClaimIds \cup 1..MaxContract
ASSUME ContractsAreNumbered == MaxContract \in Nat \ {0}

Submitted == {c \in ClaimIds : claims[c] # NoClaim}

-----------------------------------------------------------------------------
(* Claims *)

\* Mutant: a claim that is not verified yet may be built on.
PendingFactServes(f, version) == f \in Submitted /\ claims[f].contract = version

CurrentFact(f, version) ==
    /\ f \in Submitted
    /\ claims[f].contract = version /\ claims[f].lifecycle = "ACCEPTED"

\* A repair names one rejected claim of its contract that nothing repairs yet.
MaySupersede(old, version, statement) ==
    old # NoClaim =>
        /\ old \in Submitted
        /\ claims[old].contract = version /\ claims[old].lifecycle = "REJECTED"
        /\ claims[old].supersededBy = NoClaim /\ claims[old].statement # statement

\* Labels are unique in a run, whatever they stand for.
LabelIsFree(label) == \A c \in Submitted : claims[c].label # label
AttemptIsFree(a) == \A c \in Submitted : claims[c].attempt # a
NewClaim == CHOOSE c \in ClaimIds : c \notin Submitted

\* submit_in_transaction for an attempt that has no claim yet; label NoClaim stands for the
\* claim's own id.
InsertClaim(label, statement, version, preds, a, old) ==
    /\ Submitted # ClaimIds
    /\ AttemptIsFree(a)
    /\ \A f \in preds : CurrentFact(f, version)
    /\ MaySupersede(old, version, statement)
    /\ LET c == NewClaim
           row == [label |-> IF label = NoClaim THEN c ELSE label, statement |-> statement,
                   contract |-> version, preds |-> preds, attempt |-> a,
                   lifecycle |-> "PENDING_VERIFICATION", supersedes |-> old,
                   supersededBy |-> NoClaim, event |-> NoClaim]
       IN /\ LabelIsFree(row.label)
          /\ claims' = [d \in ClaimIds |->
                 IF d = c THEN row
                 ELSE IF d = old THEN [claims[d] EXCEPT !.supersededBy = c]
                 ELSE claims[d]]

\* A worker submits a claim of its own under the run's contract.
SubmitClaim(statement, preds, a, old) ==
    /\ InsertClaim(NoClaim, statement, contract, preds, a, old)
    /\ UNCHANGED <<contract, draft, candidates, planners, plans, results,
                   recorders, importer, obligations, readiness>>

\* The facts a claim rests on, directly or through others: the least set that holds its
\* predecessors and the predecessors of what it holds.
RestsWithin(c, fs) == /\ claims[c].preds \subseteq fs
                      /\ \A f \in fs \cap Submitted : claims[f].preds \subseteq fs
NecessarySubgraph(c) == {f \in ClaimIds : \A fs \in SUBSET ClaimIds : RestsWithin(c, fs) => f \in fs}

\* What the gateway makes of complete evidence: a soft verifier has no authority.
PromotionEligible(backend, verdict) == verdict = "ACCEPTED" /\ backend \in Required

\* A verdict decides a pending claim once; a rejection carries feedback.
RecordVerdict(c, accepted, event) ==
    claims' = [claims EXCEPT ![c] =
                  [@ EXCEPT !.lifecycle = IF accepted THEN "ACCEPTED" ELSE "REJECTED",
                            !.event = event]]

\* The kernel's decision on IMPORT_VERIFICATION: the evidence is bound to the claim and to
\* its subgraph of current facts.
VerificationBinds(c) ==
    /\ c \in Submitted
    /\ \A f \in NecessarySubgraph(c) : CurrentFact(f, claims[c].contract)

\* Its projection, in the same transaction.  An acceptance without authority leaves a row
\* of history and decides nothing, a rejection without authority decides.
ImportVerification(c, backend, verdict) ==
    /\ VerificationBinds(c)
    /\ claims[c].lifecycle = "PENDING_VERIFICATION"
    /\ verdict = "REJECTED" \/ PromotionEligible(backend, verdict)
    /\ RecordVerdict(c, verdict = "ACCEPTED", <<"kernel", c>>)
    /\ UNCHANGED <<contract, draft, candidates, planners, plans, results, recorders, importer,
                   obligations, readiness>>

ReviseContract ==
    /\ contract < MaxContract
    /\ contract' = contract + 1
    /\ UNCHANGED <<draft, candidates, claims, planners, plans, results, recorders,
                   importer, obligations, readiness>>

-----------------------------------------------------------------------------
(* Draft, planner and evidence *)

\* A draft is parsed into several claims whose predecessors are earlier blocks.
Parses ==
    /\ Cardinality(Candidates) >= 2
    /\ \A k \in Candidates : \A j \in PredecessorLabels[k] :
          j # k /\ k \notin PredecessorLabels[j]

\* The draft keeps the contract it was normalised under; a repeat changes nothing.
NormalizeDraft ==
    /\ draft = NoClaim /\ Parses
    /\ draft' = contract
    /\ candidates' = [k \in Candidates |-> [lifecycle |-> "CANDIDATE", claim |-> NoClaim]]
    /\ UNCHANGED <<contract, claims, planners, plans, results, recorders,
                   importer, obligations, readiness>>

Resolved(k) == {candidates[j].claim : j \in PredecessorLabels[k]}
ClaimOfAttempt(a) == {c \in Submitted : claims[c].attempt = a}

\* submit_and_plan first submits the claim in a transaction of its own; an attempt that
\* has submitted this statement is answered with its claim.
SubmitCandidate(k, a, old) ==
    /\ draft # NoClaim /\ k \notin Undefined
    /\ planners[k] = NoClaim /\ plans[k] = NoClaim
    /\ \A j \in PredecessorLabels[k] :
          candidates[j].claim # NoClaim /\ CurrentFact(candidates[j].claim, draft)
    /\ \/ /\ ClaimOfAttempt(a) = {}
          /\ InsertClaim(k, k, draft, Resolved(k), a, old)
          /\ planners' = [planners EXCEPT ![k] = NewClaim]
       \/ \E c \in ClaimOfAttempt(a) :
             /\ claims[c].statement = k
             /\ planners' = [planners EXCEPT ![k] = c]
             /\ UNCHANGED claims
    /\ UNCHANGED <<contract, draft, candidates, plans, results, recorders,
                   importer, obligations, readiness>>

\* The second transaction: the plan, the candidate, its obligation and a readiness row that
\* is BLOCKED when it is new.
PlanCandidate(k) ==
    /\ planners[k] # NoClaim
    /\ plans' = [plans EXCEPT ![k] = "PLANNED"]
    /\ candidates' = [candidates EXCEPT ![k] = [lifecycle |-> "SUBMITTED",
                                                claim |-> planners[k]]]
    /\ obligations' = [obligations EXCEPT ![k] = [status |-> "WAITING_KERNEL",
                                                  event |-> NoClaim]]
    /\ readiness' = IF readiness = NoClaim THEN "BLOCKED" ELSE readiness
    /\ planners' = [planners EXCEPT ![k] = NoClaim]
    /\ UNCHANGED <<contract, draft, claims, results, recorders, importer>>

PlannerDies(k) ==
    /\ planners[k] # NoClaim
    /\ planners' = [planners EXCEPT ![k] = NoClaim]
    /\ UNCHANGED <<contract, draft, candidates, claims, plans, results, recorders,
                   importer, obligations, readiness>>

\* record_evidence reads the plan before its transaction.
CheckPlan(e, k, backend, verdict) ==
    /\ recorders[e] = NoClaim
    /\ plans[k] \in {"PLANNED", "PARTIALLY_VERIFIED"}
    /\ results[k][backend] \in {"none", verdict}
    /\ recorders' = [recorders EXCEPT ![e] = [candidate |-> k, backend |-> backend,
                                              verdict |-> verdict]]
    /\ UNCHANGED <<contract, draft, candidates, claims, planners, plans, results,
                   importer, obligations, readiness>>

\* Mutant: one verifier that accepts is enough.
StatusAfterAnyResult(row, backend, verdict) ==
    IF verdict = "REJECTED" THEN IF backend \in Required THEN "REJECTED" ELSE "PARTIALLY_VERIFIED"
    ELSE IF \E b \in Required : row[b] = "ACCEPTED" THEN "READY_FOR_KERNEL"
    ELSE "PARTIALLY_VERIFIED"

StatusAfterResult(row, backend, verdict) ==
    IF verdict = "REJECTED" THEN IF backend \in Required THEN "REJECTED" ELSE "PARTIALLY_VERIFIED"
    ELSE IF \A b \in Required : row[b] = "ACCEPTED" THEN "READY_FOR_KERNEL"
    ELSE "PARTIALLY_VERIFIED"

\* A backend reports once; the status is written whatever it has become meanwhile.
RecordEvidence(e) ==
    /\ recorders[e] # NoClaim
    /\ LET r == recorders[e]
           row == [results[r.candidate] EXCEPT ![r.backend] = r.verdict]
       IN IF results[r.candidate][r.backend] \in {"none", r.verdict}
          THEN /\ results' = [results EXCEPT ![r.candidate] = row]
               /\ plans' = [plans EXCEPT ![r.candidate] =
                               StatusAfterResult(row, r.backend, r.verdict)]
          ELSE UNCHANGED <<results, plans>>
    /\ recorders' = [recorders EXCEPT ![e] = NoClaim]
    /\ UNCHANGED <<contract, draft, candidates, claims, planners, importer,
                   obligations, readiness>>

-----------------------------------------------------------------------------
(* The adapter *)

\* consume_kernel_verdict reads plan and result, and refuses a receipt that disagrees.
CheckReceipt(k, backend) ==
    /\ importer = NoClaim
    /\ results[k][backend] # "none"
    /\ LET accepted == PromotionEligible(backend, results[k][backend]) IN
       /\ accepted \/ results[k][backend] = "REJECTED"
       /\ plans[k] = IF accepted THEN "READY_FOR_KERNEL" ELSE "REJECTED"
       /\ importer' = [candidate |-> k, backend |-> backend, accepted |-> accepted]
    /\ UNCHANGED <<contract, draft, candidates, claims, planners, plans, results,
                   recorders, obligations, readiness>>

Discharged(obl) == {k \in Candidates : obl[k] # NoClaim /\ obl[k].status = "DISCHARGED_BY_KERNEL"}

\* One transaction decides the claim, the candidate, its obligation, the plan if it is as it
\* was read, and the readiness of the draft; a claim already decided refuses it as a whole.
ConsumeKernelVerdict ==
    /\ importer # NoClaim
    /\ LET k == importer.candidate
           c == candidates[k].claim
           event == <<"adapter", k>>
           after == IF importer.accepted THEN "DISCHARGED_BY_KERNEL" ELSE "REPAIR_REQUIRED"
       IN IF /\ candidates[k].lifecycle = "SUBMITTED"
             /\ claims[c].lifecycle = "PENDING_VERIFICATION"
             /\ obligations[k].status = "WAITING_KERNEL"
          THEN /\ RecordVerdict(c, importer.accepted, event)
               /\ candidates' = [candidates EXCEPT ![k].lifecycle =
                                    IF importer.accepted THEN "ACCEPTED" ELSE "REJECTED"]
               /\ obligations' = [obligations EXCEPT ![k] = [status |-> after, event |-> event]]
               /\ plans' = [plans EXCEPT ![k] =
                     IF @ # (IF importer.accepted THEN "READY_FOR_KERNEL" ELSE "REJECTED") THEN @
                     ELSE IF importer.accepted THEN "IMPORTED_ACCEPTED" ELSE "IMPORTED_REJECTED"]
               /\ readiness' = IF Discharged(obligations') = Candidates
                               THEN "READY_FOR_CLOSURE_WITNESS" ELSE "BLOCKED"
          ELSE UNCHANGED <<candidates, claims, plans, obligations, readiness>>
    /\ importer' = NoClaim
    /\ UNCHANGED <<contract, draft, planners, results, recorders>>

-----------------------------------------------------------------------------
ClaimInit ==
    /\ contract = 1 /\ draft = NoClaim /\ importer = NoClaim /\ readiness = NoClaim
    /\ candidates = [k \in Candidates |-> NoClaim]
    /\ claims = [c \in ClaimIds |-> NoClaim]
    /\ planners = [k \in Candidates |-> NoClaim]
    /\ plans = [k \in Candidates |-> NoClaim]
    /\ results = [k \in Candidates |-> [b \in Backends |-> "none"]]
    /\ recorders = [e \in Recorders |-> NoClaim]
    /\ obligations = [k \in Candidates |-> NoClaim]

\* Workers and the kernel, under contracts that are revised.
WorkerNext ==
    \/ \E s \in Candidates, preds \in SUBSET Submitted, a \in Attempts,
          old \in Submitted \cup {NoClaim} : SubmitClaim(s, preds, a, old)
    \/ \E c \in Submitted, b \in Backends, v \in Verdicts : ImportVerification(c, b, v)
    \/ ReviseContract

\* The draft, its verifiers, the adapter and the kernel.
DraftNext ==
    \/ NormalizeDraft
    \/ \E k \in Candidates, a \in Attempts, old \in Submitted \cup {NoClaim} :
          SubmitCandidate(k, a, old)
    \/ \E k \in Candidates : PlanCandidate(k) \/ PlannerDies(k)
    \/ \E e \in Recorders, k \in Candidates, b \in Backends, v \in Verdicts :
          CheckPlan(e, k, b, v)
    \/ \E e \in Recorders : RecordEvidence(e)
    \/ \E k \in Candidates, b \in Backends : CheckReceipt(k, b)
    \/ ConsumeKernelVerdict
    \/ \E c \in Submitted, b \in Backends, v \in Verdicts : ImportVerification(c, b, v)

ClaimSpec == ClaimInit /\ [][WorkerNext \/ DraftNext]_claimVars

\* The claims of a run and the bookkeeping of its draft have their types.
ClaimTypeOK ==
    /\ contract \in 1..MaxContract /\ draft \in 1..MaxContract \cup {NoClaim}
    /\ readiness \in {NoClaim, "BLOCKED", "READY_FOR_CLOSURE_WITNESS"}
    /\ \A c \in Submitted : claims[c] \in ClaimRow
    /\ \A k \in Candidates : plans[k] \in PlanStates \cup {NoClaim}

\* Whatever verifiers, planners and the two ways of importing a verdict do to each other:
\* every fact a claim rests on, also through others, is verified under the claim's contract;
\* an obligation is discharged only by the verdict that accepted its claim, after every
\* backend the plan requires has accepted; a rejected claim has at most one repair; and a
\* draft is ready for its closure witness only with every candidate accepted that way.
DraftsCloseOnVerifiedClaims ==
    /\ ClaimTypeOK
    /\ \A c \in Submitted : \A f \in NecessarySubgraph(c) :
          claims[f].lifecycle = "ACCEPTED" /\ claims[f].contract = claims[c].contract
    /\ \A c, d \in Submitted :
          claims[c].supersedes # NoClaim /\ claims[c].supersedes = claims[d].supersedes => c = d
    /\ \A k \in Discharged(obligations) :
          /\ candidates[k].lifecycle = "ACCEPTED"
          /\ claims[candidates[k].claim].lifecycle = "ACCEPTED"
          /\ claims[candidates[k].claim].event = obligations[k].event
          /\ \A b \in Required : results[k][b] = "ACCEPTED"
    /\ readiness = "READY_FOR_CLOSURE_WITNESS" <=>
          Discharged(obligations) = Candidates /\ readiness # NoClaim
=============================================================================
