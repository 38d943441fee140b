----------------------------- MODULE ClaimGraph -----------------------------
(***************************************************************************)
(* The mathematics of one run: claims, the logical edges between them,     *)
(* composition obligations, evidence, reviews, closure witnesses, the      *)
(* verdict axes of every claim, and the decision that closes the run.      *)
(*                                                                         *)
(* Every command is decided by TransitionGuard against one snapshot and    *)
(* projected by ProjectionWriter in the same transaction, so it is one     *)
(* action.  Statements, artifacts, signatures and manifests are inputs the *)
(* client chooses: a guard that only compares two such inputs with each    *)
(* other (digests, edge justifications, six-part forms) is left out; one   *)
(* that compares an input with stored state is kept.  Leases, attempts,    *)
(* interruption and the host that issues receipts are in RunExecution.     *)
(***************************************************************************)
EXTENDS Integers, FiniteSets

CONSTANTS
    Claims,            \* claim rows that may be registered
    Roots,             \* the claims of kind ROOT
    Atomic,            \* the claims whose normalized statement is atomic
    Edges,             \* logical edge rows that may be registered
    Ends,              \* Edges -> [from, to, direction]
    Obligations,       \* composition obligations that may be registered
    Parent, Children,  \* Obligations -> parent_claim_id, child_claim_ids
    Rule,              \* Obligations -> composition_rule
    Plans,             \* the subgraphs clients select: [parent, claims, edges, obligations, cuts]
    Offers,            \* <<claim, kind>>: the evidence clients and hosts bring
    Reviewers,         \* managed human reviewers
    ReviewOffers,      \* <<claim, reviewer, plan or NoPlan>>: the reviews they sign
    PeerThreshold,     \* policy.peer_review_threshold
    ClosureThreshold,  \* policy.peer_closure_reviewers
    NoPlan,            \* a review without a selected_subgraph_digest
    Judged,            \* bound: the claims clients ask to promote or cite literature for
    Asked,             \* bound: the outcomes clients ask for
    Defects,           \* bound: the sets of claims clients declare affected by a defect
    None,              \* no root claim, no outcome
    MaxVersion,        \* bound: contract versions
    MaxReviews         \* bound: managed accepting reviews

Kinds == {"LEAN_REPLAY", "CHECKER_CERTIFICATE", "COUNTEREXAMPLE", "SEMANTIC_TESTS"}
Modes == {"MACHINE", "PEER", "HYBRID"}
Outcomes == {"PROVED", "DISPROVED", "PREVIOUSLY_KNOWN", "ROUTE_LOCAL", "CONTRACT_DEFECTIVE",
             "UNRESOLVED"}

ASSUME ConstantsAssumption ==
    /\ Roots \subseteq Claims /\ Atomic \subseteq Claims
    /\ Ends \in [Edges -> [from : Claims, to : Claims,
                           direction : {"FORWARD", "REVERSE", "BIDIRECTIONAL"}]]
    /\ Parent \in [Obligations -> Claims] /\ Children \in [Obligations -> SUBSET Claims]
    /\ Rule \in [Obligations -> {"MACHINE", "HUMAN", "DIRECT_EDGE"}]
    /\ Plans \subseteq [parent : Claims, claims : SUBSET Claims, edges : SUBSET Edges,
                        obligations : SUBSET Obligations, cuts : SUBSET Edges]
    /\ Offers \subseteq Claims \X Kinds
    /\ ReviewOffers \subseteq Claims \X Reviewers \X (Plans \cup {NoPlan})
    /\ NoPlan \notin Plans /\ None \notin Claims \cup Outcomes \cup Obligations
    /\ Judged \subseteq Claims /\ Asked \subseteq Outcomes
    /\ Defects \subseteq SUBSET Claims
    /\ PeerThreshold \in Nat \ {0} /\ ClosureThreshold \in Nat \ {0}
    /\ MaxVersion \in Nat \ {0} /\ MaxReviews \in Nat

VARIABLES
    run,         \* runs.status
    contract,    \* the current contract_versions row and its declared defect
    root,        \* runs.root_claim_id
    life,        \* claims.lifecycle_status
    version,     \* claims.contract_version
    text,        \* the contract version whose statement the claim restates
    closure,     \* claims.closure_state
    axes,        \* claims.route_result, machine_, semantic_ and peer_verdict
    edge,        \* claim_edges
    obligation,  \* composition_obligations
    evidence,    \* ACCEPTED evidence: the contract version it was made under, 0 for none
    known,       \* claims with an EQUIVALENT literature hit under the current contract
    reviews,     \* managed ACCEPT rows of peer_reviews, with the subgraph and the
                 \* contract version their selected_subgraph_digest stands for
    witnesses,   \* ACCEPTED rows of closure_witnesses
    outcome      \* runs.outcome

claimVars == <<life, version, text, closure, axes>>
graphVars == <<edge, obligation, witnesses>>
proofVars == <<evidence, known, reviews>>
runVars == <<run, contract, root, outcome>>
vars == <<runVars, claimVars, graphVars, proofVars>>

Unjudged == [route |-> "UNASSESSED", machine |-> "UNVERIFIED", semantic |-> "UNREVIEWED",
             peer |-> "UNREVIEWED"]
NoEvidence == [k \in Kinds |-> 0]
NoRow == [status |-> "ABSENT", version |-> 0]

Init ==
    /\ run = "OPEN"
    /\ contract = [version |-> 1, status |-> "DRAFT", defect |-> {}]
    /\ root = None
    /\ life = [c \in Claims |-> "ABSENT"]
    /\ version = [c \in Claims |-> 0]
    /\ text = [c \in Claims |-> 0]
    /\ closure = [c \in Claims |-> "OPEN"]
    /\ axes = [c \in Claims |-> Unjudged]
    /\ edge = [e \in Edges |-> NoRow]
    /\ obligation = [o \in Obligations |-> NoRow]
    /\ evidence = [c \in Claims |-> NoEvidence]
    /\ known = {}
    /\ reviews = {}
    /\ witnesses = {}
    /\ outcome = None

-----------------------------------------------------------------------------
(* Graphs: arcs are pairs <<premise, conclusion>>                           *)

Premise(e) == IF Ends[e].direction = "REVERSE" THEN Ends[e].to ELSE Ends[e].from
Conclusion(e) == IF Ends[e].direction = "REVERSE" THEN Ends[e].from ELSE Ends[e].to

\* What _edge_would_cycle walks: a BIDIRECTIONAL edge counts in its forward sense only.
ForwardArcs(E) == {<<Premise(e), Conclusion(e)>> : e \in E}

\* What composition._directed_arcs and the recursive queries of the projector walk.
DirectedArcs(E) ==
    ForwardArcs(E)
      \cup {<<Conclusion(e), Premise(e)>> :
              e \in {f \in E : Ends[f].direction = "BIDIRECTIONAL"}}

ClosedUnder(S, A) == \A a \in A : a[1] \in S => a[2] \in S

\* Everything that can be reached from S along A: the least set that contains S and is
\* closed under A.
Reach(S, A) ==
    {c \in Claims : \A T \in SUBSET Claims : S \subseteq T /\ ClosedUnder(T, A) => c \in T}

\* _has_cycle: every set of nodes has one that no arc of the set enters.
Acyclic(N, A) ==
    \A T \in SUBSET N : T # {} => \E n \in T : \A m \in T : <<m, n>> \notin A

\* _can_reach_parent: from every node an arc path inside N leads to p.
AllReach(N, A, p) ==
    \A T \in SUBSET N : T # {} /\ ClosedUnder(T, A \cap (N \X N)) => p \in T

-----------------------------------------------------------------------------
(* Guards shared by the commands                                            *)

\* TransitionGuard.decide: a closed run accepts no core command.
NotClosed == run # "CLOSED"

\* _object_scope with version and active=True.
Current(c) == life[c] = "ACTIVE" /\ version[c] = contract.version

ActiveEdges == {e \in Edges : edge[e].status = "ACTIVE"}
CurrentEdges == {e \in ActiveEdges : edge[e].version = contract.version}

\* Mutant: one pass over the edges instead of the recursive query.
DirectDependents(S) ==
    S \cup {a[2] : a \in {b \in DirectedArcs(CurrentEdges) : b[1] \in S}}

\* The recursive query of REVOKE_FACT_CLOSURE and MIGRATE_CONTRACT_CLOSURE.
Dependents(S) == Reach(S, DirectedArcs(CurrentEdges))

\* Mutant: the evidence is looked up by its id only.
TrustedAnywhere(c, k) == \E d \in Claims : evidence[d][k] = contract.version

\* machine_evidence_is_trusted: accepted evidence of the claim whose host receipt was
\* made and consumed under the current contract.
Trusted(c, k) == evidence[c][k] = contract.version

HasEvidence(c) == \E k \in Kinds : evidence[c][k] # 0

\* Mutant: any closure that is not OPEN will do.
TruthNotOpen(c) ==
    /\ axes[c].machine # "UNVERIFIED"
    /\ axes[c].semantic # "UNREVIEWED"
    /\ closure[c] # "OPEN"

\* _claim_truth_accepted
TruthAccepted(c) ==
    \/ /\ axes[c].machine \in {"KERNEL_VERIFIED", "CERTIFICATE_VERIFIED"}
       /\ axes[c].semantic \in {"TESTED", "HUMAN_ATTESTED"}
       /\ closure[c] \in {"CLOSED_MACHINE", "CLOSED_HYBRID", "NOT_REQUIRED"}
    \/ /\ axes[c].peer = "ACCEPTED"
       /\ axes[c].semantic = "HUMAN_ATTESTED"
       /\ closure[c] \in {"CLOSED_HUMAN", "CLOSED_HYBRID", "NOT_REQUIRED"}

-----------------------------------------------------------------------------
(* The contract                                                             *)

FreezeContract ==
    /\ run = "OPEN" /\ contract.status = "DRAFT"
    /\ contract' = [contract EXCEPT !.status = "FROZEN"]
    /\ UNCHANGED <<run, root, outcome, claimVars, graphVars, proofVars>>

StartRun ==
    /\ run = "OPEN" /\ contract.status = "FROZEN"
    /\ root # None /\ Current(root) /\ text[root] = contract.version
    /\ run' = "RUNNING"
    /\ UNCHANGED <<contract, root, outcome, claimVars, graphVars, proofVars>>

\* The defect must be supported by evidence of one of the affected claims.
ProposeContractDefect(S) ==
    /\ NotClosed /\ contract.status = "FROZEN"
    /\ S # {} /\ \A c \in S : Current(c)
    /\ \E c \in S : HasEvidence(c)
    /\ contract' = [version |-> contract.version, status |-> "DEFECT_PROPOSED", defect |-> S]
    /\ run' = "PAUSED"
    /\ UNCHANGED <<root, outcome, claimVars, graphVars, proofVars>>

\* Mutant: only edges that start in the invalidated set go.
EdgesFrom(D) == {e \in ActiveEdges : Ends[e].from \in D}

\* The ACTIVE edges with an end in D.
EdgesTouching(D) == {e \in ActiveEdges : Ends[e].from \in D \/ Ends[e].to \in D}

\* Both closures withdraw what hangs on the claims in D: their edges, accepted
\* witnesses, evidence and obligations.
Withdraw(D) ==
    /\ witnesses' = {w \in witnesses : w.plan.parent \notin D}
    /\ evidence' = [c \in Claims |-> IF c \in D THEN NoEvidence ELSE evidence[c]]
    /\ obligation' = [o \in Obligations |->
                        IF Parent[o] \in D /\ obligation[o].status # "ABSENT"
                          THEN [status |-> "INVALIDATED", version |-> obligation[o].version]
                          ELSE obligation[o]]

\* Mutant: runs.root_claim_id survives the amendment.
KeepRoot == root' = root

\* CREATE_CONTRACT_VERSION
ResetRoot == root' = None

\* MIGRATE_CONTRACT_CLOSURE: the dependency closure D of the defect is superseded; every
\* other ACTIVE claim moves to the new version with its edges, evidence and verdicts.
\* Obligations and witnesses keep the version they were made under.
MigrateContractClosure(D) ==
    LET carried == {c \in Claims : Current(c)} \ D IN
    /\ life' = [c \in Claims |-> IF c \in D THEN "SUPERSEDED" ELSE life[c]]
    /\ version' = [c \in Claims |-> IF c \in carried THEN contract.version + 1
                                                     ELSE version[c]]
    /\ closure' = [c \in Claims |-> IF c \in D /\ closure[c] # "NOT_REQUIRED"
                                      THEN "INVALIDATED" ELSE closure[c]]
    /\ Withdraw(D)
    /\ edge' = [e \in Edges |->
                  IF e \in CurrentEdges \cap EdgesTouching(D)
                    THEN [status |-> "INVALIDATED", version |-> edge[e].version]
                  ELSE IF e \in CurrentEdges /\ Ends[e].from \in carried
                                             /\ Ends[e].to \in carried
                    THEN [status |-> "ACTIVE", version |-> contract.version + 1]
                  ELSE edge[e]]
    /\ known' = known \cap carried

AmendContract ==
    /\ NotClosed /\ contract.status = "DEFECT_PROPOSED"
    /\ contract.version < MaxVersion
    /\ MigrateContractClosure(
         Dependents({c \in contract.defect : version[c] = contract.version}))
    /\ contract' = [version |-> contract.version + 1, status |-> "FROZEN", defect |-> {}]
    /\ ResetRoot
    /\ run' = "OPEN"
    /\ UNCHANGED <<text, axes, reviews, outcome>>

-----------------------------------------------------------------------------
(* Claims, edges and obligations                                            *)

\* REGISTER_CLAIM
InsertClaim(c) ==
    /\ life' = [life EXCEPT ![c] = "ACTIVE"]
    /\ version' = [version EXCEPT ![c] = contract.version]
    /\ text' = [text EXCEPT ![c] = contract.version]
    /\ closure' = [closure EXCEPT ![c] = IF c \in Atomic THEN "NOT_REQUIRED" ELSE "OPEN"]
    /\ root' = IF c \in Roots THEN c ELSE root

\* A ROOT restates the contract and may not duplicate an ACTIVE one; the first may be
\* registered before the contract is frozen.
RegisterClaim(c) ==
    /\ NotClosed /\ life[c] = "ABSENT"
    /\ \/ contract.status = "FROZEN"
       \/ /\ contract.status = "DRAFT" /\ c \in Roots
          /\ \A d \in Roots : life[d] = "ABSENT"
    /\ c \in Roots => ~\E d \in Roots : life[d] = "ACTIVE" /\ text[d] = contract.version
    /\ InsertClaim(c)
    /\ UNCHANGED <<run, contract, outcome, axes, graphVars, proofVars>>

\* Mutant: only an edge straight back is refused.
EdgeWouldReturn(e) ==
    <<Conclusion(e), Premise(e)>> \in ForwardArcs(ActiveEdges)

\* _edge_would_cycle, over the ACTIVE edges of every version.
EdgeWouldCycle(e) ==
    Premise(e) \in Reach({Conclusion(e)}, ForwardArcs(ActiveEdges))

\* INVALIDATE_PARENT_CLOSURE of the edge's to_claim_id, whatever its direction; the
\* witnesses are left alone.
InvalidateParentClosure(c) ==
    closure' = [closure EXCEPT ![c] = IF @ = "NOT_REQUIRED" THEN @ ELSE "INVALIDATED"]

\* REGISTER_CLAIM_EDGE
InsertEdge(e) ==
    edge' = [edge EXCEPT ![e] = [status |-> "ACTIVE", version |-> contract.version]]

RegisterClaimEdge(e) ==
    /\ NotClosed /\ edge[e].status = "ABSENT"
    /\ Current(Ends[e].from) /\ Current(Ends[e].to) /\ Ends[e].from # Ends[e].to
    /\ ~EdgeWouldCycle(e)
    /\ InsertEdge(e)
    /\ InvalidateParentClosure(Ends[e].to)
    /\ UNCHANGED <<runVars, life, version, text, axes, obligation, witnesses, proofVars>>

\* Mutant: only a closure that is still OPEN is invalidated.
InvalidateOpenClosures(D) ==
    closure' = [d \in Claims |-> IF d \in D /\ closure[d] = "OPEN" THEN "INVALIDATED"
                                                                ELSE closure[d]]

\* The closure_state of every revoked claim, NOT_REQUIRED included.
InvalidateClosures(D) ==
    closure' = [d \in Claims |-> IF d \in D THEN "INVALIDATED" ELSE closure[d]]

\* REVOKE_FACT_CLOSURE
RevokeFactClosure(D) ==
    /\ life' = [d \in Claims |-> IF d \in D THEN "INVALIDATED" ELSE life[d]]
    /\ InvalidateClosures(D)
    /\ edge' = [e \in Edges |->
                  IF e \in EdgesTouching(D)
                    THEN [status |-> "INVALIDATED", version |-> edge[e].version]
                    ELSE edge[e]]
    /\ Withdraw(D)

RevokeFact(c) ==
    /\ NotClosed /\ Current(c)
    /\ RevokeFactClosure(Dependents({c}))
    /\ UNCHANGED <<runVars, version, text, axes, known, reviews>>

\* REGISTER_COMPOSITION_OBLIGATION and SET_CLOSURE: the parent's closure is opened again,
\* also when it was NOT_REQUIRED or CLOSED; its witnesses stay.
InsertObligation(o) ==
    /\ obligation' = [obligation EXCEPT ![o] = [status |-> "OPEN",
                                                version |-> contract.version]]
    /\ closure' = [closure EXCEPT ![Parent[o]] = "OPEN"]

RegisterCompositionObligation(o) ==
    /\ NotClosed /\ obligation[o].status = "ABSENT"
    /\ \A c \in {Parent[o]} \cup Children[o] : Current(c)
    /\ InsertObligation(o)
    /\ UNCHANGED <<runVars, life, version, text, axes, edge, witnesses, proofVars>>

\* INVALIDATE_DEPENDENCY_CLOSURE: only the parent of the obligation, or every composed
\* claim of the contract when none is named.
InvalidateDependencyClosure(o) ==
    closure' = IF o = None
                 THEN [c \in Claims |->
                         IF life[c] # "ABSENT" /\ version[c] = contract.version
                              /\ closure[c] # "NOT_REQUIRED"
                           THEN "INVALIDATED" ELSE closure[c]]
                 ELSE [closure EXCEPT ![Parent[o]] = "INVALIDATED"]

\* RecordFailure.  Kinds of failure that are not mathematical may name an obligation that
\* is no longer OPEN.
RecordFailure(o) ==
    /\ NotClosed
    /\ o # None => obligation[o].status # "ABSENT"
    /\ InvalidateDependencyClosure(o)
    /\ UNCHANGED <<runVars, life, version, text, axes, graphVars, proofVars>>

\* RecordLeanFeedback with a first failed obligation (INVALIDATE_FROM_FIRST_FAILURE).
RecordLeanFeedback(o) ==
    /\ NotClosed /\ obligation[o].status # "ABSENT"
    /\ InvalidateDependencyClosure(o)
    /\ UNCHANGED <<runVars, life, version, text, axes, graphVars, proofVars>>

-----------------------------------------------------------------------------
(* Evidence, receipts, reviews and literature                               *)

SetAxes(c, a) == axes' = [axes EXCEPT ![c] = a]

\* SubmitEvidence.  Lean and checker evidence a client submits has no host receipt and is
\* never trusted, so only the kinds that are read without one matter.
SubmitEvidence(c, k) ==
    /\ NotClosed /\ Current(c)
    /\ k \in {"COUNTEREXAMPLE", "SEMANTIC_TESTS"}
    /\ evidence' = [evidence EXCEPT ![c][k] = contract.version]
    /\ UNCHANGED <<runVars, claimVars, graphVars, known, reviews>>

\* consume_host_lean_receipt_atomic
ConsumeLeanReceipt(c) ==
    /\ run = "RUNNING" /\ Current(c)
    /\ evidence' = [evidence EXCEPT ![c]["LEAN_REPLAY"] = contract.version]
    /\ SetAxes(c, [axes[c] EXCEPT !.machine = "KERNEL_VERIFIED"])
    /\ UNCHANGED <<runVars, life, version, text, closure, graphVars, known, reviews>>

\* consume_host_checker_receipt_atomic sets the semantic axis too, also when it was
\* HUMAN_ATTESTED.
ConsumeCheckerReceipt(c) ==
    /\ run = "RUNNING" /\ Current(c)
    /\ evidence' = [evidence EXCEPT ![c]["CHECKER_CERTIFICATE"] = contract.version]
    /\ SetAxes(c, [axes[c] EXCEPT !.machine = "CERTIFICATE_VERIFIED", !.semantic = "TESTED"])
    /\ UNCHANGED <<runVars, life, version, text, closure, graphVars, known, reviews>>

\* An EQUIVALENT hit recorded for the current contract; records for a superseded one
\* are never read again.
RecordLiterature(c) ==
    /\ NotClosed /\ life[c] # "ABSENT"
    /\ known' = known \cup {c}
    /\ UNCHANGED <<runVars, claimVars, graphVars, evidence, reviews>>

\* APPEND_PEER_REVIEW.  Every verdict other than ACCEPT leaves the peer axis at a value
\* that is not ACCEPTED; an attestation counts without a managed review.
AppendPeerReview(c, review, accept, managed, attests) ==
    /\ reviews' = IF managed /\ accept THEN reviews \cup {review} ELSE reviews
    /\ SetAxes(c, [axes[c] EXCEPT
                     !.peer = IF ~managed THEN @ ELSE IF accept THEN "ACCEPTED"
                                                                ELSE "UNREVIEWED",
                     !.semantic = IF accept /\ attests THEN "HUMAN_ATTESTED" ELSE @])

\* RecordPeerReview of a registered claim, ACTIVE or not.
RecordPeerReview(c, v, g, accept, managed, attests) ==
    /\ NotClosed /\ life[c] # "ABSENT"
    /\ Cardinality(reviews) < MaxReviews
    /\ AppendPeerReview(c, [claim |-> c, reviewer |-> v, graph |-> g,
                            version |-> contract.version], accept, managed, attests)
    /\ UNCHANGED <<runVars, life, version, text, closure, graphVars, evidence, known>>

\* VerifyAtomicClaim, ACCEPTED by a machine backend (REJECTED changes no claim).
VerifyAtomicMachine(c, k) ==
    /\ NotClosed /\ Current(c) /\ c \in Atomic
    /\ k \in {"LEAN_REPLAY", "CHECKER_CERTIFICATE"} /\ Trusted(c, k)
    /\ SetAxes(c, [axes[c] EXCEPT
                     !.machine = IF k = "LEAN_REPLAY" THEN "KERNEL_VERIFIED"
                                                      ELSE "CERTIFICATE_VERIFIED",
                     !.semantic = "TESTED"])
    /\ UNCHANGED <<runVars, life, version, text, closure, graphVars, proofVars>>

\* VerifyAtomicClaim, ACCEPTED by MANAGED_PEER.
VerifyAtomicPeer(c) ==
    /\ NotClosed /\ Current(c) /\ c \in Atomic
    /\ \E r \in reviews : r.claim = c
    /\ SetAxes(c, [axes[c] EXCEPT !.peer = "ACCEPTED", !.semantic = "HUMAN_ATTESTED"])
    /\ UNCHANGED <<runVars, life, version, text, closure, graphVars, proofVars>>

-----------------------------------------------------------------------------
(* Composition                                                              *)

\* The obligations of a parent that a witness has to select and discharge.
RequiredObligations(c) ==
    {o \in Obligations : /\ Parent[o] = c
                         /\ obligation[o].version = contract.version
                         /\ obligation[o].status \in {"OPEN", "DISCHARGED"}}

\* The edges in force that join a selected claim to one that is not selected.
BoundaryEdges(N) == {e \in CurrentEdges : (Ends[e].from \in N) # (Ends[e].to \in N)}

\* validate_closure_witness on the selected subgraph.
PlanStands(p) ==
    /\ p.parent \in p.claims
    /\ \A c \in p.claims : Current(c)
    /\ p.edges \subseteq CurrentEdges
    /\ Acyclic(p.claims, DirectedArcs(p.edges))
    /\ AllReach(p.claims, DirectedArcs(p.edges), p.parent)
    /\ BoundaryEdges(p.claims) \subseteq p.cuts
    /\ p.obligations = RequiredObligations(p.parent)

\* _all_machine_refs_valid: a trusted Lean replay of every selected claim.
MachineChecked(p) == \A c \in p.claims : Trusted(c, "LEAN_REPLAY")

\* Reviews of this very subgraph under this very contract (_review_is_acceptable).  An
\* amendment moves the row's contract_version, never the digest it signed.
PeerAttested(p) ==
    Cardinality({r.reviewer : r \in {s \in reviews : /\ s.claim = p.parent
                                                     /\ s.graph = p
                                                     /\ s.version = contract.version}})
      >= ClosureThreshold

Supported(p, mode) ==
    \/ /\ mode = "MACHINE" /\ MachineChecked(p)
       /\ \A o \in p.obligations : Rule[o] # "HUMAN"
    \/ /\ mode = "PEER" /\ PeerAttested(p)
       /\ \A o \in p.obligations : Rule[o] # "MACHINE"
    \/ mode = "HYBRID" /\ p.cuts # {} /\ MachineChecked(p) /\ PeerAttested(p)

ClosureState(mode) ==
    CASE mode = "MACHINE" -> "CLOSED_MACHINE"
      [] mode = "PEER"    -> "CLOSED_HUMAN"
      [] mode = "HYBRID"  -> "CLOSED_HYBRID"

\* ACCEPT_CLOSURE_WITNESS
AcceptClosureWitness(p, mode) ==
    /\ witnesses' = witnesses \cup {[plan |-> p, mode |-> mode]}
    /\ obligation' = [o \in Obligations |->
                        IF o \in p.obligations
                          THEN [status |-> "DISCHARGED", version |-> obligation[o].version]
                          ELSE obligation[o]]
    /\ closure' = [closure EXCEPT ![p.parent] = ClosureState(mode)]
    /\ SetAxes(p.parent, [axes[p.parent] EXCEPT
                            !.semantic = IF mode = "MACHINE" THEN @ ELSE "HUMAN_ATTESTED"])

SubmitClosureWitness(p, mode) ==
    /\ NotClosed
    /\ PlanStands(p) /\ Supported(p, mode)
    /\ AcceptClosureWitness(p, mode)
    /\ UNCHANGED <<runVars, life, version, text, edge, proofVars>>

-----------------------------------------------------------------------------
(* PromoteClaim, one action per axis                                        *)

Promotable(c) == NotClosed /\ life[c] = "ACTIVE" /\ contract.status = "FROZEN"

PromoteMachine(c, k) ==
    /\ Promotable(c)
    /\ k \in {"LEAN_REPLAY", "CHECKER_CERTIFICATE"} /\ Trusted(c, k)
    /\ SetAxes(c, [axes[c] EXCEPT !.machine = IF k = "LEAN_REPLAY" THEN "KERNEL_VERIFIED"
                                                            ELSE "CERTIFICATE_VERIFIED"])
    /\ UNCHANGED <<runVars, life, version, text, closure, graphVars, proofVars>>

\* _semantic_promotion
PromoteTested(c) ==
    /\ Promotable(c) /\ evidence[c]["SEMANTIC_TESTS"] # 0
    /\ SetAxes(c, [axes[c] EXCEPT !.semantic = "TESTED"])
    /\ UNCHANGED <<runVars, life, version, text, closure, graphVars, proofVars>>

\* _peer_promotion: enough reviewers accepted something.  Which claim they reviewed is
\* not looked at.
EnoughReviewers == Cardinality({r.reviewer : r \in reviews}) >= PeerThreshold

PromoteAttested(c) ==
    /\ Promotable(c) /\ EnoughReviewers
    /\ SetAxes(c, [axes[c] EXCEPT !.semantic = "HUMAN_ATTESTED"])
    /\ UNCHANGED <<runVars, life, version, text, closure, graphVars, proofVars>>

\* Any value of the PEER axis is promoted with accepting reviews.
PromotePeer(c, value) ==
    /\ Promotable(c) /\ EnoughReviewers
    /\ SetAxes(c, [axes[c] EXCEPT !.peer = value])
    /\ UNCHANGED <<runVars, life, version, text, closure, graphVars, proofVars>>

\* The closure gate: an ACCEPTED witness of the claim; its digest is not recomputed.
WitnessFor(c, w) == w.plan.parent = c

PromoteClosure(c, w) ==
    /\ Promotable(c) /\ WitnessFor(c, w)
    /\ closure' = [closure EXCEPT ![c] = ClosureState(w.mode)]
    /\ UNCHANGED <<runVars, life, version, text, axes, graphVars, proofVars>>

\* UNASSESSED stands for CANDIDATE and REFUTED too, ROUTE_LOCAL for LOCAL_LEMMAS_VERIFIED.
RouteGate(c, value) ==
    CASE value = "UNASSESSED"       -> HasEvidence(c)
      [] value = "ROUTE_LOCAL"      -> HasEvidence(c) /\ TruthAccepted(c)
      [] value = "ROUTE_PROVED"     -> TruthAccepted(c)
      [] value = "PREVIOUSLY_KNOWN" -> c \in known

PromoteRoute(c, value) ==
    /\ Promotable(c) /\ RouteGate(c, value)
    /\ SetAxes(c, [axes[c] EXCEPT !.route = value])
    /\ UNCHANGED <<runVars, life, version, text, closure, graphVars, proofVars>>

-----------------------------------------------------------------------------
(* Finalize                                                                 *)

RouteValues == {"UNASSESSED", "ROUTE_LOCAL", "ROUTE_PROVED", "PREVIOUSLY_KNOWN"}

\* The outcomes with authority name exactly the root; the others any registered claims.
OutcomeGate(o) ==
    CASE o = "PROVED"           -> /\ root # None
                                   /\ axes[root].route = "ROUTE_PROVED"
                                   /\ TruthAccepted(root)
      [] o = "DISPROVED"        -> root # None /\ evidence[root]["COUNTEREXAMPLE"] # 0
      [] o = "PREVIOUSLY_KNOWN" -> root # None /\ axes[root].route = "PREVIOUSLY_KNOWN"
      [] o = "ROUTE_LOCAL"      -> \E c \in Claims : life[c] # "ABSENT" /\ TruthAccepted(c)
      [] o = "CONTRACT_DEFECTIVE" -> contract.status = "DEFECT_PROPOSED"
      [] o = "UNRESOLVED"       -> TRUE

Finalize(o) ==
    /\ NotClosed /\ OutcomeGate(o)
    /\ run' = "CLOSED"
    /\ outcome' = o
    /\ UNCHANGED <<contract, root, claimVars, graphVars, proofVars>>

-----------------------------------------------------------------------------
ContractStep ==
    \/ FreezeContract \/ StartRun \/ AmendContract
    \/ \E S \in Defects : ProposeContractDefect(S)

GraphStep ==
    \/ \E c \in Claims : RegisterClaim(c) \/ RevokeFact(c)
    \/ \E e \in Edges : RegisterClaimEdge(e)
    \/ \E o \in Obligations : RegisterCompositionObligation(o) \/ RecordLeanFeedback(o)
    \/ \E o \in Obligations \cup {None} : RecordFailure(o)
    \/ \E p \in Plans, mode \in Modes : SubmitClosureWitness(p, mode)

EvidenceStep ==
    \/ \E x \in Offers :
         \/ SubmitEvidence(x[1], x[2])
         \/ x[2] = "LEAN_REPLAY" /\ ConsumeLeanReceipt(x[1])
         \/ x[2] = "CHECKER_CERTIFICATE" /\ ConsumeCheckerReceipt(x[1])
    \/ \E c \in Judged : RecordLiterature(c)
    \/ \E c \in Claims : VerifyAtomicPeer(c)
    \/ \E c \in Claims, k \in Kinds : VerifyAtomicMachine(c, k)
    \/ \E x \in ReviewOffers, accept, managed, attests \in BOOLEAN :
         RecordPeerReview(x[1], x[2], x[3], accept, managed, attests)

PromoteStep ==
    \/ \E c \in Judged : PromoteTested(c) \/ PromoteAttested(c)
    \/ \E c \in Judged, k \in Kinds : PromoteMachine(c, k)
    \/ \E c \in Judged, value \in {"UNREVIEWED", "ACCEPTED"} : PromotePeer(c, value)
    \/ \E c \in Judged, w \in witnesses : PromoteClosure(c, w)
    \/ \E c \in Judged, value \in RouteValues : PromoteRoute(c, value)

Next ==
    \/ ContractStep \/ GraphStep \/ EvidenceStep \/ PromoteStep
    \/ \E o \in Asked : Finalize(o)

Spec == Init /\ [][Next]_vars

-----------------------------------------------------------------------------
(* Properties                                                               *)

Rows(S) == [status : S, version : 0 .. MaxVersion]
Reviews == [claim : Claims, reviewer : Reviewers, graph : Plans \cup {NoPlan},
            version : 1 .. MaxVersion]
Witnesses == [plan : Plans, mode : Modes]
Closures == {"OPEN", "CLOSED_MACHINE", "CLOSED_HUMAN", "CLOSED_HYBRID", "INVALIDATED",
             "NOT_REQUIRED"}

\* Every row is well typed, and runs.root_claim_id names a ROOT registered under the
\* contract that is current.
TypeOK ==
    /\ run \in {"OPEN", "RUNNING", "PAUSED", "CLOSED"}
    /\ contract \in [version : 1 .. MaxVersion, status : {"DRAFT", "FROZEN", "DEFECT_PROPOSED"},
                     defect : SUBSET Claims]
    /\ life \in [Claims -> {"ABSENT", "ACTIVE", "SUPERSEDED", "INVALIDATED"}]
    /\ version \in [Claims -> 0 .. MaxVersion]
    /\ text \in [Claims -> 0 .. MaxVersion]
    /\ closure \in [Claims -> Closures]
    /\ axes \in [Claims ->
                   [route : RouteValues,
                    machine : {"UNVERIFIED", "KERNEL_VERIFIED", "CERTIFICATE_VERIFIED"},
                    semantic : {"UNREVIEWED", "TESTED", "HUMAN_ATTESTED"},
                    peer : {"UNREVIEWED", "ACCEPTED"}]]
    /\ edge \in [Edges -> Rows({"ABSENT", "ACTIVE", "INVALIDATED"})]
    /\ obligation \in [Obligations -> Rows({"ABSENT", "OPEN", "DISCHARGED", "INVALIDATED"})]
    /\ evidence \in [Claims -> [Kinds -> 0 .. MaxVersion]]
    /\ known \subseteq Claims
    /\ reviews \subseteq Reviews
    /\ witnesses \subseteq Witnesses
    /\ outcome \in Outcomes \cup {None}
    /\ root \in Roots \cup {None}
    /\ root # None => text[root] = contract.version

\* No stray edges: an ACTIVE edge joins two ACTIVE claims of the current contract,
\* whatever was revoked, superseded or carried over before.
LiveEdgesJoinLiveClaims ==
    \A e \in ActiveEdges : edge[e].version = contract.version
                           /\ Current(Ends[e].from) /\ Current(Ends[e].to)

\* Read forward, the ACTIVE edges never close a circle of claims that prove each other.
ForwardAcyclic == Acyclic(Claims, ForwardArcs(ActiveEdges))

\* An accepted closure witness never outlives its proof: as long as it is ACCEPTED every
\* claim and every inner edge of the subgraph it was accepted for is in force, because
\* the closure of a revocation or an amendment reaches its parent.
WitnessStands ==
    \A w \in witnesses :
        /\ \A c \in w.plan.claims : Current(c)
        /\ \A e \in w.plan.edges :
              Ends[e].from \in w.plan.claims /\ Ends[e].to \in w.plan.claims => e \in ActiveEdges

\* A claim that is closed was closed by an accepted witness of that kind and for it.
ClosedHasWitness ==
    \A c \in Claims, mode \in Modes :
        closure[c] = ClosureState(mode) =>
            \E w \in witnesses : w.plan.parent = c /\ w.mode = mode

\* A machine verdict on an ACTIVE claim rests on a receipt for that very claim that was
\* not withdrawn.
VerdictsHaveReceipts ==
    \A c \in Claims :
        life[c] = "ACTIVE" /\ axes[c].machine # "UNVERIFIED" =>
            evidence[c]["LEAN_REPLAY"] # 0 \/ evidence[c]["CHECKER_CERTIFICATE"] # 0

\* A run that ends as PROVED has a root of its last contract that was never revoked or
\* superseded, and a root that needs a composition has a witness that stands.
ProvedStands ==
    outcome = "PROVED" =>
        /\ Current(root)
        /\ closure[root] # "NOT_REQUIRED" =>
              \E w \in witnesses : w.plan.parent = root /\ \A c \in w.plan.claims : Current(c)

\* The claim graph stays well formed under every command: edges join live claims, no
\* circle of proofs, no machine verdict without a receipt (projector.py, guard.py).
GraphIsWellFormed ==
    TypeOK /\ LiveEdgesJoinLiveClaims /\ ForwardAcyclic /\ VerdictsHaveReceipts

\* Closure and witness hold each other: a closed claim has its accepted witness, and what
\* an accepted witness was accepted for is still in force (projector.py, invalidation).
ClosuresStand == WitnessStands /\ ClosedHasWitness

(* What the repository's documents say and the code does not do.            *)

\* docs/spec/transitions.md, PromoteClaim: closure needs a witness whose digest is
\* current.  A claim that is closed has no open obligation under the current contract.
ClosedIsCurrent ==
    \A c \in Claims : closure[c] \in {"CLOSED_MACHINE", "CLOSED_HUMAN", "CLOSED_HYBRID"} =>
        \A o \in RequiredObligations(c) : obligation[o].status # "OPEN"

\* docs/spec/transitions.md, axis gates: HUMAN_ATTESTED needs a reviewer who signed the
\* exact statement.  A claim whose peer axis is ACCEPTED was itself reviewed.
PeerVerdictIsScoped ==
    \A c \in Claims : axes[c].peer = "ACCEPTED" => \E r \in reviews : r.claim = c
=============================================================================
