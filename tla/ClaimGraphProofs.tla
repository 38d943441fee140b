------------------------- MODULE ClaimGraphProofs -------------------------
(* Proofs about ClaimGraph, for every set of claims, edges, plans and reviews. *)
EXTENDS ClaimGraph, TLAPS

Axes == [route : RouteValues,
         machine : {"UNVERIFIED", "KERNEL_VERIFIED", "CERTIFICATE_VERIFIED"},
         semantic : {"UNREVIEWED", "TESTED", "HUMAN_ATTESTED"},
         peer : {"UNREVIEWED", "ACCEPTED"}]

\* Every accepted witness was built on a plan in which all claims lead to the parent.
WitnessLeads ==
    \A w \in witnesses :
        AllReach(w.plan.claims, DirectedArcs(w.plan.edges), w.plan.parent)

\* The root is a claim of the current contract that was at most revoked.
RootIsCurrent ==
    root # None => /\ life[root] \in {"ACTIVE", "INVALIDATED"}
                   /\ version[root] = contract.version

\* A revoked claim never has a closure that counts.
RevokedIsOpen ==
    \A c \in Claims : life[c] = "INVALIDATED" => closure[c] = "INVALIDATED"

\* A claim that is not registered yet has no machine verdict.
AbsentIsUnverified ==
    \A c \in Claims : life[c] = "ABSENT" => axes[c].machine = "UNVERIFIED"

\* Only a closed run has an outcome.
OutcomeCloses == outcome # None => run = "CLOSED"

GraphInv == LiveEdgesJoinLiveClaims /\ ForwardAcyclic /\ WitnessStands /\ WitnessLeads

IInv ==
    /\ TypeOK /\ GraphInv
    /\ ClosedHasWitness /\ VerdictsHaveReceipts /\ ProvedStands
    /\ RootIsCurrent /\ RevokedIsOpen /\ AbsentIsUnverified /\ OutcomeCloses

-----------------------------------------------------------------------------
(* Graphs                                                                   *)

\* The premise and the conclusion of an edge are its two ends.
LEMMA EdgeEnds ==
    ASSUME NEW e \in Edges
    PROVE  /\ Premise(e) \in Claims /\ Conclusion(e) \in Claims
           /\ Ends[e].from \in Claims /\ Ends[e].to \in Claims
           /\ \/ Premise(e) = Ends[e].from /\ Conclusion(e) = Ends[e].to
              \/ Premise(e) = Ends[e].to /\ Conclusion(e) = Ends[e].from
<1>1. Ends[e] \in [from : Claims, to : Claims,
                   direction : {"FORWARD", "REVERSE", "BIDIRECTIONAL"}]
  BY ConstantsAssumption
<1> QED BY <1>1 DEF Premise, Conclusion

\* A reachable set contains its seeds and is closed under the arcs.
LEMMA ReachClosed ==
    ASSUME NEW S \in SUBSET Claims, NEW A \in SUBSET (Claims \X Claims)
    PROVE  /\ Reach(S, A) \subseteq Claims
           /\ S \subseteq Reach(S, A)
           /\ ClosedUnder(Reach(S, A), A)
<1>1. Reach(S, A) \subseteq Claims /\ S \subseteq Reach(S, A)
  BY DEF Reach
<1>2. ASSUME NEW a \in A, a[1] \in Reach(S, A)
      PROVE  a[2] \in Reach(S, A)
  <2>1. a[2] \in Claims
    OBVIOUS
  <2>2. ASSUME NEW T \in SUBSET Claims, S \subseteq T, ClosedUnder(T, A)
        PROVE  a[2] \in T
    BY <1>2, <2>2 DEF Reach, ClosedUnder
  <2> QED BY <2>1, <2>2 DEF Reach
<1> QED BY <1>1, <1>2 DEF ClosedUnder

\* The arcs of registered edges join claims.
LEMMA ArcsJoinClaims ==
    ASSUME NEW E \in SUBSET Edges
    PROVE  /\ ForwardArcs(E) \in SUBSET (Claims \X Claims)
           /\ DirectedArcs(E) \in SUBSET (Claims \X Claims)
<1>1. \A e \in E : Premise(e) \in Claims /\ Conclusion(e) \in Claims
  BY EdgeEnds
<1> QED BY <1>1 DEF ForwardArcs, DirectedArcs

\* Dropping arcs keeps a graph acyclic.
LEMMA AcyclicShrinks ==
    ASSUME NEW N, NEW A, NEW B, Acyclic(N, A), B \subseteq A
    PROVE  Acyclic(N, B)
BY DEF Acyclic

\* What _edge_would_cycle is for: an arc whose premise cannot be reached from its
\* conclusion keeps the graph acyclic.
LEMMA AcyclicGrows ==
    ASSUME NEW A \in SUBSET (Claims \X Claims), NEW p \in Claims, NEW q \in Claims,
           Acyclic(Claims, A), p \notin Reach({q}, A)
    PROVE  Acyclic(Claims, A \cup {<<p, q>>})
<1> DEFINE R == Reach({q}, A)
<1>1. q \in R /\ ClosedUnder(R, A)
  BY ReachClosed
<1> SUFFICES ASSUME NEW T \in SUBSET Claims, T # {}
             PROVE  \E n \in T : \A m \in T : <<m, n>> \notin A \cup {<<p, q>>}
  BY DEF Acyclic
<1>2. CASE T \ R # {}
  <2>1. PICK n \in T \ R : \A m \in T \ R : <<m, n>> \notin A
    BY <1>2 DEF Acyclic
  <2>2. ASSUME NEW m \in T
        PROVE  <<m, n>> \notin A \cup {<<p, q>>}
    <3>1. n # q
      BY <2>1, <1>1
    <3>2. CASE m \in R
      <4>1. ASSUME <<m, n>> \in A PROVE FALSE
        <5>1. <<m, n>>[1] \in R => <<m, n>>[2] \in R
          BY <4>1, <1>1 DEF ClosedUnder
        <5> QED BY <5>1, <3>2, <2>1
      <4> QED BY <4>1, <3>1
    <3>3. CASE m \notin R
      BY <3>3, <3>1, <2>1
    <3> QED BY <3>2, <3>3
  <2> QED BY <2>2
<1>3. CASE T \subseteq R
  <2>1. PICK n \in T : \A m \in T : <<m, n>> \notin A
    BY DEF Acyclic
  <2>2. p \notin T
    BY <1>3
  <2> QED BY <2>1, <2>2
<1> QED BY <1>2, <1>3

-----------------------------------------------------------------------------
(* Steps that leave the graph alone                                         *)

\* The graph part of the invariant reads only claims, edges and witnesses.
LEMMA GraphKept ==
    ASSUME GraphInv, UNCHANGED <<life, version, edge, witnesses>>,
           contract'.version = contract.version
    PROVE  GraphInv'
<1>1. ActiveEdges' = ActiveEdges /\ \A c \in Claims : Current(c)' <=> Current(c)
  BY DEF ActiveEdges, Current
<1>2. LiveEdgesJoinLiveClaims'
  BY DEF GraphInv, LiveEdgesJoinLiveClaims, ActiveEdges, Current
<1>3. ForwardAcyclic'
  BY <1>1 DEF GraphInv, ForwardAcyclic
<1>4. WitnessStands'
  BY DEF GraphInv, WitnessStands, ActiveEdges, Current
<1>5. WitnessLeads'
  BY DEF GraphInv, WitnessLeads
<1> QED BY <1>2, <1>3, <1>4, <1>5 DEF GraphInv

\* The contract version is one of those the model counts, and at least one.
LEMMA VersionPositive ==
    ASSUME TypeOK
    PROVE  /\ contract.version \in 1 .. MaxVersion
           /\ contract.version \in 0 .. MaxVersion /\ contract.version # 0
<1>1. contract.version \in 1 .. MaxVersion
  BY DEF TypeOK
<1> QED BY <1>1, ConstantsAssumption

\* A run that accepts commands has no outcome, and stays so until Finalize.
LEMMA Undecided ==
    ASSUME IInv, NotClosed, UNCHANGED outcome
    PROVE  ProvedStands' /\ OutcomeCloses'
<1>1. None # "PROVED"
  BY ConstantsAssumption DEF Outcomes
<1> QED BY <1>1 DEF IInv, OutcomeCloses, NotClosed, ProvedStands

\* A step that changes the verdicts of one claim, and brings the receipt a new machine
\* verdict needs.
LEMMA JudgeStep ==
    ASSUME IInv, NotClosed, NEW c \in Claims, NEW a \in Axes, SetAxes(c, a),
           a.machine # axes[c].machine =>
              /\ life[c] = "ACTIVE"
              /\ evidence'[c]["LEAN_REPLAY"] # 0 \/ evidence'[c]["CHECKER_CERTIFICATE"] # 0,
           evidence' \in [Claims -> [Kinds -> 0 .. MaxVersion]],
           \A d \in Claims, k \in Kinds : evidence[d][k] # 0 => evidence'[d][k] # 0,
           reviews' \subseteq Reviews,
           UNCHANGED <<runVars, life, version, text, closure, graphVars, known>>
    PROVE  IInv'
<1> USE DEF runVars, graphVars
<1>1. /\ axes' \in [Claims -> Axes] /\ axes'[c] = a
      /\ \A d \in Claims \ {c} : axes'[d] = axes[d]
  BY DEF IInv, TypeOK, Axes, SetAxes
<1>2. TypeOK'
  BY <1>1 DEF IInv, TypeOK, Axes
<1>3. GraphInv'
  BY GraphKept DEF IInv
<1>4. ClosedHasWitness' /\ RevokedIsOpen'
  BY DEF IInv, ClosedHasWitness, RevokedIsOpen
<1>5. VerdictsHaveReceipts'
  BY <1>1 DEF IInv, VerdictsHaveReceipts, Kinds
<1>6. AbsentIsUnverified'
  BY <1>1 DEF IInv, AbsentIsUnverified
<1>7. ProvedStands' /\ OutcomeCloses'
  BY Undecided
<1>8. RootIsCurrent'
  BY DEF IInv, RootIsCurrent
<1> QED BY <1>2, <1>3, <1>4, <1>5, <1>6, <1>7, <1>8 DEF IInv

\* The verdicts of a claim form a record; replacing fields gives another one.
LEMMA AxesFields ==
    ASSUME IInv, NEW c \in Claims
    PROVE  /\ axes[c] \in Axes
           /\ \A v \in RouteValues : [axes[c] EXCEPT !.route = v] \in Axes
           /\ \A v \in {"UNREVIEWED", "ACCEPTED"} : [axes[c] EXCEPT !.peer = v] \in Axes
           /\ \A v \in {"UNREVIEWED", "TESTED", "HUMAN_ATTESTED"} :
                 [axes[c] EXCEPT !.semantic = v] \in Axes
           /\ \A v \in {"KERNEL_VERIFIED", "CERTIFICATE_VERIFIED"} :
                 [axes[c] EXCEPT !.machine = v] \in Axes
           /\ \A v \in {"KERNEL_VERIFIED", "CERTIFICATE_VERIFIED"}, u \in {"TESTED"} :
                 [axes[c] EXCEPT !.machine = v, !.semantic = u] \in Axes
           /\ \A v \in {"UNREVIEWED", "ACCEPTED"}, u \in {"UNREVIEWED", "TESTED", "HUMAN_ATTESTED"} :
                 [axes[c] EXCEPT !.peer = v, !.semantic = u] \in Axes
<1>1. axes[c] \in Axes
  BY DEF IInv, TypeOK, Axes
<1> QED BY <1>1 DEF Axes

\* Replacing another field leaves the machine verdict.
LEMMA MachineField ==
    ASSUME NEW a \in Axes, NEW v, NEW u
    PROVE  /\ [a EXCEPT !.route = v].machine = a.machine
           /\ [a EXCEPT !.peer = v].machine = a.machine
           /\ [a EXCEPT !.semantic = v].machine = a.machine
           /\ [a EXCEPT !.peer = v, !.semantic = u].machine = a.machine
BY DEF Axes

\* Promotion of the semantic, peer and route axes, and acceptance by peers.
LEMMA PromoteStepKeeps ==
    ASSUME IInv, NEW c \in Claims,
           \/ PromoteTested(c) \/ PromoteAttested(c) \/ VerifyAtomicPeer(c)
           \/ \E v \in {"UNREVIEWED", "ACCEPTED"} : PromotePeer(c, v)
           \/ \E v \in RouteValues : PromoteRoute(c, v)
    PROVE  IInv'
<1> DEFINE Kept == /\ NotClosed /\ UNCHANGED <<runVars, life, version, text, closure, graphVars>>
                   /\ UNCHANGED proofVars
<1>1. \E a \in Axes : Kept /\ SetAxes(c, a) /\ a.machine = axes[c].machine
  <2>0. axes[c] \in Axes
    BY AxesFields
  <2>1. CASE PromoteTested(c)
    BY <2>1, <2>0, AxesFields, MachineField DEF PromoteTested, Promotable
  <2>2. CASE PromoteAttested(c)
    BY <2>2, <2>0, AxesFields, MachineField DEF PromoteAttested, Promotable
  <2>3. CASE VerifyAtomicPeer(c)
    <3> DEFINE b == [axes[c] EXCEPT !.peer = "ACCEPTED", !.semantic = "HUMAN_ATTESTED"]
    <3>1. b \in Axes
      BY AxesFields
    <3>2. b.machine = axes[c].machine
      BY <2>0, MachineField
    <3> QED BY <2>3, <3>1, <3>2 DEF VerifyAtomicPeer
  <2>4. CASE \E v \in {"UNREVIEWED", "ACCEPTED"} : PromotePeer(c, v)
    BY <2>4, <2>0, AxesFields, MachineField DEF PromotePeer, Promotable
  <2>5. CASE \E v \in RouteValues : PromoteRoute(c, v)
    BY <2>5, <2>0, AxesFields, MachineField DEF PromoteRoute, Promotable
  <2> QED BY <2>1, <2>2, <2>3, <2>4, <2>5
<1>2. PICK a \in Axes : Kept /\ SetAxes(c, a) /\ a.machine = axes[c].machine
  BY <1>1
<1>3. /\ evidence' = evidence /\ reviews' = reviews
      /\ evidence \in [Claims -> [Kinds -> 0 .. MaxVersion]] /\ reviews \subseteq Reviews
  BY <1>2 DEF proofVars, IInv, TypeOK
<1> QED BY <1>2, <1>3, JudgeStep DEF proofVars

\* A peer review is a row about the claim and moves its peer and semantic axes.
LEMMA ReviewStep ==
    ASSUME IInv, NEW x \in ReviewOffers, NEW accept \in BOOLEAN, NEW managed \in BOOLEAN,
           NEW attests \in BOOLEAN,
           RecordPeerReview(x[1], x[2], x[3], accept, managed, attests)
    PROVE  IInv'
<1> DEFINE c == x[1]
           row == [claim |-> x[1], reviewer |-> x[2], graph |-> x[3],
                   version |-> contract.version]
<1>1. c \in Claims /\ x[2] \in Reviewers /\ x[3] \in Plans \cup {NoPlan}
  BY ConstantsAssumption
<1>2. row \in Reviews
  BY <1>1, VersionPositive DEF IInv, Reviews
<1>3. reviews' \subseteq Reviews
  BY <1>2 DEF RecordPeerReview, AppendPeerReview, IInv, TypeOK
<1>4. PICK p \in {"UNREVIEWED", "ACCEPTED"}, t \in {"UNREVIEWED", "TESTED", "HUMAN_ATTESTED"} :
         SetAxes(c, [axes[c] EXCEPT !.peer = p, !.semantic = t])
  <2>1. axes[c] \in Axes
    BY <1>1, AxesFields
  <2>2. axes[c].peer \in {"UNREVIEWED", "ACCEPTED"}
        /\ axes[c].semantic \in {"UNREVIEWED", "TESTED", "HUMAN_ATTESTED"}
    BY <2>1 DEF Axes
  <2> QED BY <2>2 DEF RecordPeerReview, AppendPeerReview
<1> DEFINE a == [axes[c] EXCEPT !.peer = p, !.semantic = t]
<1>5. a \in Axes /\ a.machine = axes[c].machine
  <2>1. a \in Axes
    BY <1>1, <1>4, AxesFields
  <2>2. axes[c] \in Axes
    BY <1>1, AxesFields
  <2> QED BY <2>1, <2>2, MachineField
<1>6. /\ NotClosed /\ evidence' = evidence /\ evidence \in [Claims -> [Kinds -> 0 .. MaxVersion]]
      /\ UNCHANGED <<runVars, life, version, text, closure, graphVars, known>>
  BY DEF RecordPeerReview, IInv, TypeOK
<1> QED BY <1>1, <1>3, <1>4, <1>5, <1>6, JudgeStep

\* Evidence recorded under the current contract is an addition.
LEMMA EvidenceAdded ==
    ASSUME IInv, NEW c \in Claims, NEW k \in Kinds,
           evidence' = [evidence EXCEPT ![c][k] = contract.version]
    PROVE  /\ evidence' \in [Claims -> [Kinds -> 0 .. MaxVersion]]
           /\ evidence'[c][k] # 0
           /\ \A d \in Claims, j \in Kinds : evidence[d][j] # 0 => evidence'[d][j] # 0
<1>1. /\ contract.version \in 0 .. MaxVersion /\ contract.version # 0
      /\ evidence \in [Claims -> [Kinds -> 0 .. MaxVersion]]
  BY VersionPositive DEF IInv, TypeOK
<1>2. [evidence[c] EXCEPT ![k] = contract.version] \in [Kinds -> 0 .. MaxVersion]
  BY <1>1
<1>3. evidence' = [evidence EXCEPT ![c] = [evidence[c] EXCEPT ![k] = contract.version]]
  BY <1>1
<1>4. evidence' \in [Claims -> [Kinds -> 0 .. MaxVersion]]
  BY <1>1, <1>2, <1>3
<1>5. /\ evidence'[c] = [evidence[c] EXCEPT ![k] = contract.version]
      /\ \A d \in Claims \ {c} : evidence'[d] = evidence[d]
  BY <1>1, <1>3
<1>6. /\ evidence[c] \in [Kinds -> 0 .. MaxVersion]
      /\ evidence'[c][k] = contract.version
      /\ \A j \in Kinds \ {k} : evidence'[c][j] = evidence[c][j]
  BY <1>1, <1>5
<1> QED BY <1>1, <1>4, <1>5, <1>6

\* A trusted replay or certificate is stored evidence.
LEMMA TrustedStored ==
    ASSUME IInv, NEW c \in Claims, NEW k \in {"LEAN_REPLAY", "CHECKER_CERTIFICATE"}, Trusted(c, k)
    PROVE  evidence[c]["LEAN_REPLAY"] # 0 \/ evidence[c]["CHECKER_CERTIFICATE"] # 0
<1>1. evidence[c][k] # 0
  BY VersionPositive DEF Trusted, IInv
<1> QED BY <1>1

\* Consuming a host receipt stores the evidence and the verdict together.
LEMMA ConsumeStep ==
    ASSUME IInv, NEW c \in Claims, ConsumeLeanReceipt(c) \/ ConsumeCheckerReceipt(c)
    PROVE  IInv'
<1>1. reviews' = reviews /\ reviews \subseteq Reviews /\ NotClosed /\ life[c] = "ACTIVE"
      /\ UNCHANGED <<runVars, life, version, text, closure, graphVars, known>>
  BY DEF ConsumeLeanReceipt, ConsumeCheckerReceipt, NotClosed, Current, IInv, TypeOK
<1>2. CASE ConsumeLeanReceipt(c)
  <2> DEFINE b == [axes[c] EXCEPT !.machine = "KERNEL_VERIFIED"]
  <2>1. b \in Axes /\ SetAxes(c, b)
    BY <1>2, AxesFields DEF ConsumeLeanReceipt
  <2>2. /\ evidence' \in [Claims -> [Kinds -> 0 .. MaxVersion]]
        /\ evidence'[c]["LEAN_REPLAY"] # 0
        /\ \A d \in Claims, j \in Kinds : evidence[d][j] # 0 => evidence'[d][j] # 0
    <3>1. "LEAN_REPLAY" \in Kinds
      BY DEF Kinds
    <3>2. evidence' = [evidence EXCEPT ![c]["LEAN_REPLAY"] = contract.version]
      BY <1>2 DEF ConsumeLeanReceipt
    <3> QED BY <3>1, <3>2, EvidenceAdded
  <2> HIDE DEF b
  <2> QED BY <1>1, <2>1, <2>2, JudgeStep
<1>3. CASE ConsumeCheckerReceipt(c)
  <2> DEFINE b == [axes[c] EXCEPT !.machine = "CERTIFICATE_VERIFIED", !.semantic = "TESTED"]
  <2>1. b \in Axes /\ SetAxes(c, b)
    BY <1>3, AxesFields DEF ConsumeCheckerReceipt
  <2>2. /\ evidence' \in [Claims -> [Kinds -> 0 .. MaxVersion]]
        /\ evidence'[c]["CHECKER_CERTIFICATE"] # 0
        /\ \A d \in Claims, j \in Kinds : evidence[d][j] # 0 => evidence'[d][j] # 0
    <3>1. "CHECKER_CERTIFICATE" \in Kinds
      BY DEF Kinds
    <3>2. evidence' = [evidence EXCEPT ![c]["CHECKER_CERTIFICATE"] = contract.version]
      BY <1>3 DEF ConsumeCheckerReceipt
    <3> QED BY <3>1, <3>2, EvidenceAdded
  <2> HIDE DEF b
  <2> QED BY <1>1, <2>1, <2>2, JudgeStep
<1> QED BY <1>2, <1>3

\* A machine verdict given later needs a receipt that is trusted now.
LEMMA MachineStep ==
    ASSUME IInv, NEW c \in Claims, NEW k \in Kinds, PromoteMachine(c, k) \/ VerifyAtomicMachine(c, k)
    PROVE  IInv'
<1>1. /\ UNCHANGED <<runVars, life, version, text, closure, graphVars, known>>
      /\ evidence' = evidence /\ reviews' = reviews
      /\ evidence \in [Claims -> [Kinds -> 0 .. MaxVersion]] /\ reviews \subseteq Reviews
  BY DEF PromoteMachine, VerifyAtomicMachine, proofVars, IInv, TypeOK
<1>2. NotClosed /\ life[c] = "ACTIVE" /\ k \in {"LEAN_REPLAY", "CHECKER_CERTIFICATE"} /\ Trusted(c, k)
  BY DEF PromoteMachine, VerifyAtomicMachine, Promotable, Current
<1>3. evidence'[c]["LEAN_REPLAY"] # 0 \/ evidence'[c]["CHECKER_CERTIFICATE"] # 0
  BY <1>1, <1>2, TrustedStored
<1>4. \E b \in Axes : SetAxes(c, b)
  <2>1. CASE PromoteMachine(c, k)
    BY <2>1, AxesFields DEF PromoteMachine
  <2>2. CASE VerifyAtomicMachine(c, k)
    <3>1. PICK v \in {"KERNEL_VERIFIED", "CERTIFICATE_VERIFIED"} :
             SetAxes(c, [axes[c] EXCEPT !.machine = v, !.semantic = "TESTED"])
      BY <2>2 DEF VerifyAtomicMachine
    <3>2. [axes[c] EXCEPT !.machine = v, !.semantic = "TESTED"] \in Axes
      BY AxesFields
    <3> QED BY <3>1, <3>2
  <2> QED BY <2>1, <2>2
<1> QED BY <1>1, <1>2, <1>3, <1>4, JudgeStep

\* Evidence of a client and a literature hit.
LEMMA RecordStep ==
    ASSUME IInv, NEW c \in Claims,
           (\E k \in Kinds : SubmitEvidence(c, k)) \/ RecordLiterature(c)
    PROVE  IInv'
<1> USE DEF runVars, claimVars, graphVars
<1>1. /\ NotClosed /\ UNCHANGED <<runVars, claimVars, graphVars, reviews>>
      /\ known' \subseteq Claims
      /\ evidence' \in [Claims -> [Kinds -> 0 .. MaxVersion]]
      /\ \A d \in Claims, j \in Kinds : evidence[d][j] # 0 => evidence'[d][j] # 0
  <2>1. CASE RecordLiterature(c)
    BY <2>1 DEF RecordLiterature, IInv, TypeOK
  <2>2. ASSUME NEW k \in Kinds, SubmitEvidence(c, k)
        PROVE  <1>1!:
    BY <2>2, EvidenceAdded DEF SubmitEvidence, IInv, TypeOK
  <2> QED BY <2>1, <2>2
<1>2. TypeOK'
  BY <1>1 DEF IInv, TypeOK
<1>3. GraphInv'
  BY <1>1, GraphKept DEF IInv
<1>4. ClosedHasWitness' /\ RevokedIsOpen' /\ AbsentIsUnverified' /\ RootIsCurrent'
  BY <1>1 DEF IInv, ClosedHasWitness, RevokedIsOpen, AbsentIsUnverified, RootIsCurrent
<1>5. VerdictsHaveReceipts'
  BY <1>1 DEF IInv, VerdictsHaveReceipts, Kinds
<1>6. ProvedStands' /\ OutcomeCloses'
  BY <1>1, Undecided
<1> QED BY <1>2, <1>3, <1>4, <1>5, <1>6 DEF IInv

\* The kinds of composition and the closures they lead to.
LEMMA ClosureStates ==
    /\ \A mode \in Modes : ClosureState(mode) \in Closures
    /\ \A mode \in Modes : ClosureState(mode) \notin {"OPEN", "INVALIDATED", "NOT_REQUIRED"}
    /\ \A mode, other \in Modes : ClosureState(mode) = ClosureState(other) => mode = other
BY DEF ClosureState, Modes, Closures

\* A step that opens, invalidates or re-closes closures, the last by a stored witness.
LEMMA ClosureStep ==
    ASSUME IInv, NotClosed, closure' \in [Claims -> Closures],
           \A c \in Claims : \/ closure'[c] = closure[c]
                             \/ closure'[c] = "INVALIDATED"
                             \/ closure'[c] = "OPEN" /\ life[c] # "INVALIDATED"
                             \/ /\ life[c] # "INVALIDATED"
                                /\ \E w \in witnesses : /\ w.plan.parent = c
                                                        /\ closure'[c] = ClosureState(w.mode),
           obligation' \in [Obligations -> Rows({"ABSENT", "OPEN", "DISCHARGED", "INVALIDATED"})],
           UNCHANGED <<runVars, life, version, text, axes, edge, witnesses, proofVars>>
    PROVE  IInv'
<1> USE DEF runVars, proofVars
<1>1. TypeOK'
  BY DEF IInv, TypeOK
<1>2. GraphInv'
  BY GraphKept DEF IInv
<1>3. ClosedHasWitness'
  <2> SUFFICES ASSUME NEW c \in Claims, NEW mode \in Modes, closure'[c] = ClosureState(mode)
               PROVE  \E w \in witnesses : w.plan.parent = c /\ w.mode = mode
    BY DEF ClosedHasWitness
  <2>1. CASE closure'[c] = closure[c]
    <3>1. closure[c] = ClosureState(mode)
      BY <2>1
    <3>2. ClosedHasWitness
      BY DEF IInv
    <3> QED BY <3>1, <3>2, Zenon DEF ClosedHasWitness
  <2>2. ASSUME NEW w \in witnesses, w.plan.parent = c, closure'[c] = ClosureState(w.mode)
        PROVE  w.mode = mode
    <3>1. w \in Witnesses
      BY DEF IInv, TypeOK
    <3>2. w.mode \in Modes
      BY <3>1 DEF Witnesses
    <3> QED BY <3>2, <2>2, ClosureStates
  <2> QED BY <2>1, <2>2, ClosureStates
<1>4. RevokedIsOpen'
  BY DEF IInv, RevokedIsOpen
<1>5. VerdictsHaveReceipts' /\ AbsentIsUnverified' /\ RootIsCurrent'
  BY DEF IInv, VerdictsHaveReceipts, AbsentIsUnverified, RootIsCurrent
<1>6. ProvedStands' /\ OutcomeCloses'
  BY Undecided
<1> QED BY <1>1, <1>2, <1>3, <1>4, <1>5, <1>6 DEF IInv

\* A failure invalidates closures.
LEMMA FailureStep ==
    ASSUME IInv,
           \/ \E o \in Obligations \cup {None} : RecordFailure(o)
           \/ \E o \in Obligations : RecordLeanFeedback(o)
    PROVE  IInv'
<1>1. PICK o \in Obligations \cup {None} :
         /\ NotClosed /\ InvalidateDependencyClosure(o)
         /\ UNCHANGED <<runVars, life, version, text, axes, graphVars, proofVars>>
  BY DEF RecordFailure, RecordLeanFeedback
<1>2. closure \in [Claims -> Closures] /\ "INVALIDATED" \in Closures
      /\ obligation \in [Obligations -> Rows({"ABSENT", "OPEN", "DISCHARGED", "INVALIDATED"})]
  BY DEF IInv, TypeOK, Closures
<1>3. /\ closure' \in [Claims -> Closures]
      /\ \A c \in Claims : closure'[c] = closure[c] \/ closure'[c] = "INVALIDATED"
  <2>1. CASE o = None
    BY <1>1, <1>2, <2>1 DEF InvalidateDependencyClosure
  <2>2. CASE o # None
    <3>1. Parent[o] \in Claims
      BY <2>2, <1>1, ConstantsAssumption
    <3> QED BY <1>1, <1>2, <2>2, <3>1 DEF InvalidateDependencyClosure
  <2> QED BY <2>1, <2>2
<1> QED BY <1>1, <1>2, <1>3, ClosureStep DEF graphVars

\* A new obligation opens the closure of its parent.
LEMMA ObligationStep ==
    ASSUME IInv, NEW o \in Obligations, RegisterCompositionObligation(o)
    PROVE  IInv'
<1>1. Parent[o] \in Claims /\ life[Parent[o]] = "ACTIVE"
  BY ConstantsAssumption DEF RegisterCompositionObligation, Current
<1>2. [status |-> "OPEN", version |-> contract.version]
        \in Rows({"ABSENT", "OPEN", "DISCHARGED", "INVALIDATED"})
  BY VersionPositive DEF Rows, IInv
<1>3. obligation' \in [Obligations -> Rows({"ABSENT", "OPEN", "DISCHARGED", "INVALIDATED"})]
  BY <1>2 DEF RegisterCompositionObligation, InsertObligation, IInv, TypeOK
<1>4. /\ closure' \in [Claims -> Closures]
      /\ \A c \in Claims : closure'[c] = closure[c] \/ (closure'[c] = "OPEN" /\ c = Parent[o])
  BY <1>1 DEF RegisterCompositionObligation, InsertObligation, IInv, TypeOK, Closures
<1> QED BY <1>1, <1>3, <1>4, ClosureStep DEF RegisterCompositionObligation

\* An accepted witness closes its parent again.
LEMMA PromoteClosureStep ==
    ASSUME IInv, NEW c \in Claims, NEW w \in witnesses, PromoteClosure(c, w)
    PROVE  IInv'
<1>1. w \in Witnesses
  BY DEF IInv, TypeOK
<1>2. w.mode \in Modes
  BY <1>1 DEF Witnesses
<1>3. /\ closure' = [closure EXCEPT ![c] = ClosureState(w.mode)]
      /\ closure \in [Claims -> Closures] /\ ClosureState(w.mode) \in Closures
      /\ life[c] = "ACTIVE" /\ w.plan.parent = c /\ NotClosed
      /\ obligation \in [Obligations -> Rows({"ABSENT", "OPEN", "DISCHARGED", "INVALIDATED"})]
      /\ UNCHANGED <<runVars, life, version, text, axes, graphVars, proofVars>>
  BY <1>2, ClosureStates DEF PromoteClosure, Promotable, WitnessFor, IInv, TypeOK
<1>4. /\ closure' \in [Claims -> Closures] /\ closure'[c] = ClosureState(w.mode)
      /\ \A d \in Claims \ {c} : closure'[d] = closure[d]
  BY <1>3
<1> QED BY <1>3, <1>4, ClosureStep DEF graphVars

\* Freezing, starting, declaring a defect and closing leave claims and graph alone.
LEMMA RunStep ==
    ASSUME IInv, FreezeContract \/ StartRun \/ \E S \in Defects : ProposeContractDefect(S)
    PROVE  IInv'
<1> USE DEF claimVars, graphVars, proofVars
<1>1. /\ NotClosed /\ UNCHANGED <<root, outcome, claimVars, graphVars, proofVars>>
      /\ contract'.version = contract.version
      /\ run' \in {"OPEN", "RUNNING", "PAUSED", "CLOSED"}
      /\ contract' \in [version : 1 .. MaxVersion, status : {"DRAFT", "FROZEN", "DEFECT_PROPOSED"},
                        defect : SUBSET Claims]
  <2>0. contract \in [version : 1 .. MaxVersion, status : {"DRAFT", "FROZEN", "DEFECT_PROPOSED"},
                      defect : SUBSET Claims]
    BY DEF IInv, TypeOK
  <2>1. CASE FreezeContract
    BY <2>0, <2>1 DEF FreezeContract, NotClosed, IInv, TypeOK
  <2>2. CASE StartRun
    BY <2>0, <2>2 DEF StartRun, NotClosed
  <2>3. ASSUME NEW S \in Defects, ProposeContractDefect(S)
        PROVE  <1>1!:
    <3>1. S \in SUBSET Claims
      BY ConstantsAssumption
    <3> QED BY <2>0, <2>3, <3>1 DEF ProposeContractDefect
  <2> QED BY <2>1, <2>2, <2>3
<1>2. TypeOK'
  BY <1>1 DEF IInv, TypeOK
<1>3. GraphInv'
  BY <1>1, GraphKept DEF IInv
<1>4. ClosedHasWitness' /\ RevokedIsOpen' /\ AbsentIsUnverified' /\ VerdictsHaveReceipts'
  BY <1>1 DEF IInv, ClosedHasWitness, RevokedIsOpen, AbsentIsUnverified, VerdictsHaveReceipts
<1>5. RootIsCurrent'
  BY <1>1 DEF IInv, RootIsCurrent
<1>6. ProvedStands' /\ OutcomeCloses'
  BY <1>1, Undecided
<1> QED BY <1>2, <1>3, <1>4, <1>5, <1>6 DEF IInv

\* A run is closed as PROVED only when its root stands: a revoked root has no closure
\* that counts, and a closed one has a witness.
LEMMA FinalizeStep ==
    ASSUME IInv, NEW o \in Outcomes, Finalize(o)
    PROVE  IInv'
<1> USE DEF claimVars, graphVars, proofVars
<1>1. UNCHANGED <<contract, root, claimVars, graphVars, proofVars>> /\ run' = "CLOSED" /\ outcome' = o
  BY DEF Finalize
<1>2. TypeOK'
  BY <1>1 DEF IInv, TypeOK
<1>3. GraphInv'
  BY <1>1, GraphKept DEF IInv
<1>4. ClosedHasWitness' /\ RevokedIsOpen' /\ AbsentIsUnverified' /\ VerdictsHaveReceipts'
      /\ RootIsCurrent' /\ OutcomeCloses'
  BY <1>1 DEF IInv, ClosedHasWitness, RevokedIsOpen, AbsentIsUnverified, VerdictsHaveReceipts,
              RootIsCurrent, OutcomeCloses
<1>5. ASSUME o = "PROVED"
      PROVE  /\ Current(root)
             /\ closure[root] # "NOT_REQUIRED" =>
                   \E w \in witnesses : w.plan.parent = root /\ \A c \in w.plan.claims : Current(c)
  <2>1. root # None /\ TruthAccepted(root)
    BY <1>5 DEF Finalize, OutcomeGate
  <2>2. root \in Claims /\ life[root] \in {"ACTIVE", "INVALIDATED"}
        /\ version[root] = contract.version
    BY <2>1, ConstantsAssumption DEF IInv, TypeOK, RootIsCurrent
  <2>3. closure[root] \in {"CLOSED_MACHINE", "CLOSED_HYBRID", "CLOSED_HUMAN", "NOT_REQUIRED"}
    BY <2>1 DEF TruthAccepted
  <2>4. Current(root)
    BY <2>2, <2>3 DEF IInv, RevokedIsOpen, Current
  <2>5. ASSUME closure[root] # "NOT_REQUIRED"
        PROVE  \E w \in witnesses : w.plan.parent = root /\ \A c \in w.plan.claims : Current(c)
    <3>1. PICK mode \in Modes : closure[root] = ClosureState(mode)
      BY <2>3, <2>5 DEF ClosureState, Modes
    <3>2. PICK w \in witnesses : w.plan.parent = root
      BY <2>2, <3>1 DEF IInv, ClosedHasWitness
    <3> QED BY <3>2 DEF IInv, GraphInv, WitnessStands
  <2> QED BY <2>4, <2>5
<1>6. ProvedStands'
  BY <1>1, <1>5 DEF ProvedStands, Current
<1> QED BY <1>2, <1>3, <1>4, <1>6 DEF IInv

-----------------------------------------------------------------------------
(* Steps that change the graph                                              *)

\* A witness is built from a plan of registered claims and edges.
LEMMA WitnessPlan ==
    ASSUME IInv, NEW w \in witnesses
    PROVE  /\ w.plan \in Plans /\ w.mode \in Modes
           /\ w.plan.parent \in Claims /\ w.plan.claims \subseteq Claims /\ w.plan.edges \subseteq Edges
<1>1. w \in Witnesses
  BY DEF IInv, TypeOK
<1>2. w.plan \in Plans /\ w.mode \in Modes
  BY <1>1 DEF Witnesses
<1>3. w.plan \in [parent : Claims, claims : SUBSET Claims, edges : SUBSET Edges,
                  obligations : SUBSET Obligations, cuts : SUBSET Edges]
  BY <1>2, ConstantsAssumption
<1> QED BY <1>2, <1>3

\* A new claim disturbs nothing that exists: only registered claims are current.
LEMMA RegisterClaimStep ==
    ASSUME IInv, NEW c \in Claims, RegisterClaim(c)
    PROVE  IInv'
<1> USE DEF graphVars, proofVars
<1>1. /\ NotClosed /\ life[c] = "ABSENT"
      /\ UNCHANGED <<run, contract, outcome, axes, graphVars, proofVars>>
      /\ InsertClaim(c)
  BY DEF RegisterClaim
<1>2. /\ life \in [Claims -> {"ABSENT", "ACTIVE", "SUPERSEDED", "INVALIDATED"}]
      /\ version \in [Claims -> 0 .. MaxVersion] /\ text \in [Claims -> 0 .. MaxVersion]
      /\ closure \in [Claims -> Closures] /\ contract.version \in 0 .. MaxVersion
      /\ root \in Roots \cup {None} /\ Roots \subseteq Claims /\ None \notin Claims
  BY VersionPositive, ConstantsAssumption DEF IInv, TypeOK
<1>3. /\ life'[c] = "ACTIVE" /\ version'[c] = contract.version /\ text'[c] = contract.version
      /\ closure'[c] \in {"OPEN", "NOT_REQUIRED"}
      /\ \A d \in Claims \ {c} : /\ life'[d] = life[d] /\ version'[d] = version[d]
                                 /\ text'[d] = text[d] /\ closure'[d] = closure[d]
      /\ root' = IF c \in Roots THEN c ELSE root
  BY <1>1, <1>2 DEF InsertClaim
<1>4. TypeOK'
  <2>1. /\ life' \in [Claims -> {"ABSENT", "ACTIVE", "SUPERSEDED", "INVALIDATED"}]
        /\ version' \in [Claims -> 0 .. MaxVersion] /\ text' \in [Claims -> 0 .. MaxVersion]
        /\ closure' \in [Claims -> Closures]
    BY <1>1, <1>2 DEF InsertClaim, Closures
  <2>2. root' \in Roots \cup {None} /\ (root' # None => text'[root'] = contract.version)
    BY <1>2, <1>3 DEF IInv, TypeOK
  <2> QED BY <1>1, <2>1, <2>2 DEF IInv, TypeOK
<1>5. \A d \in Claims : Current(d) => Current(d)'
  BY <1>1, <1>3 DEF Current
<1>6. ActiveEdges' = ActiveEdges
  BY <1>1 DEF ActiveEdges
<1>7. LiveEdgesJoinLiveClaims'
  <2> SUFFICES ASSUME NEW e \in ActiveEdges
               PROVE  edge[e].version = contract.version
                      /\ Current(Ends[e].from)' /\ Current(Ends[e].to)'
    BY <1>1, <1>6 DEF LiveEdgesJoinLiveClaims
  <2>1. Ends[e].from \in Claims /\ Ends[e].to \in Claims
    BY EdgeEnds DEF ActiveEdges
  <2>2. edge[e].version = contract.version /\ Current(Ends[e].from) /\ Current(Ends[e].to)
    BY DEF IInv, GraphInv, LiveEdgesJoinLiveClaims
  <2> QED BY <2>1, <2>2, <1>5
<1>8. ForwardAcyclic'
  BY <1>6 DEF IInv, GraphInv, ForwardAcyclic
<1>9. WitnessStands' /\ WitnessLeads'
  <2>1. WitnessLeads'
    BY <1>1 DEF IInv, GraphInv, WitnessLeads
  <2> SUFFICES ASSUME NEW w \in witnesses
               PROVE  /\ \A d \in w.plan.claims : Current(d)'
                      /\ \A e \in w.plan.edges :
                           Ends[e].from \in w.plan.claims /\ Ends[e].to \in w.plan.claims
                             => e \in ActiveEdges
    BY <1>1, <1>6, <2>1 DEF WitnessStands
  <2>2. \A d \in w.plan.claims : Current(d)
    BY DEF IInv, GraphInv, WitnessStands
  <2>3. \A e \in w.plan.edges : Ends[e].from \in w.plan.claims /\ Ends[e].to \in w.plan.claims
                                  => e \in ActiveEdges
    BY DEF IInv, GraphInv, WitnessStands
  <2> QED BY <2>2, <2>3, <1>5, WitnessPlan
<1>10. ClosedHasWitness'
  BY <1>1, <1>3, ClosureStates DEF IInv, ClosedHasWitness
<1>11. RevokedIsOpen' /\ AbsentIsUnverified'
  BY <1>1, <1>3 DEF IInv, RevokedIsOpen, AbsentIsUnverified
<1>12. VerdictsHaveReceipts'
  BY <1>1, <1>3 DEF IInv, VerdictsHaveReceipts, AbsentIsUnverified
<1>13. RootIsCurrent'
  BY <1>1, <1>2, <1>3 DEF IInv, RootIsCurrent
<1>14. ProvedStands' /\ OutcomeCloses'
  BY <1>1, Undecided
<1> QED BY <1>4, <1>7, <1>8, <1>9, <1>10, <1>11, <1>12, <1>13, <1>14 DEF IInv, GraphInv

\* A new edge joins current claims and closes no circle.
LEMMA RegisterEdgeStep ==
    ASSUME IInv, NEW e \in Edges, RegisterClaimEdge(e)
    PROVE  IInv'
<1> USE DEF runVars, proofVars
<1>1. /\ NotClosed /\ Current(Ends[e].from) /\ Current(Ends[e].to) /\ ~EdgeWouldCycle(e)
      /\ edge' = [edge EXCEPT ![e] = [status |-> "ACTIVE", version |-> contract.version]]
      /\ InvalidateParentClosure(Ends[e].to)
      /\ UNCHANGED <<runVars, life, version, text, axes, obligation, witnesses, proofVars>>
  BY DEF RegisterClaimEdge, InsertEdge
<1>2. Ends[e].from \in Claims /\ Ends[e].to \in Claims
  BY EdgeEnds
<1>3. /\ edge \in [Edges -> Rows({"ABSENT", "ACTIVE", "INVALIDATED"})]
      /\ [status |-> "ACTIVE", version |-> contract.version] \in Rows({"ABSENT", "ACTIVE", "INVALIDATED"})
      /\ closure \in [Claims -> Closures]
  BY VersionPositive DEF IInv, TypeOK, Rows
<1>4. /\ edge' \in [Edges -> Rows({"ABSENT", "ACTIVE", "INVALIDATED"})]
      /\ edge'[e].status = "ACTIVE" /\ edge'[e].version = contract.version
      /\ \A f \in Edges \ {e} : edge'[f] = edge[f]
  BY <1>1, <1>3
<1>5. /\ closure' \in [Claims -> Closures]
      /\ \A c \in Claims : closure'[c] = closure[c] \/ closure'[c] = "INVALIDATED"
  BY <1>1, <1>2, <1>3 DEF InvalidateParentClosure, Closures
<1>6. TypeOK'
  BY <1>1, <1>4, <1>5 DEF IInv, TypeOK
<1>7. ActiveEdges' = ActiveEdges \cup {e}
  BY <1>4 DEF ActiveEdges
<1>8. \A c : Current(c)' <=> Current(c)
  BY <1>1 DEF Current
<1>9. LiveEdgesJoinLiveClaims'
  <2> SUFFICES ASSUME NEW f \in ActiveEdges'
               PROVE  edge'[f].version = contract.version
                      /\ Current(Ends[f].from) /\ Current(Ends[f].to)
    BY <1>1, <1>8 DEF LiveEdgesJoinLiveClaims
  <2>1. CASE f = e
    BY <2>1, <1>1, <1>4
  <2>2. CASE f # e
    <3>1. f \in ActiveEdges /\ edge'[f] = edge[f]
      BY <2>2, <1>7, <1>4 DEF ActiveEdges
    <3> QED BY <3>1 DEF IInv, GraphInv, LiveEdgesJoinLiveClaims
  <2> QED BY <2>1, <2>2
<1>10. ForwardAcyclic'
  <2> DEFINE A == ForwardArcs(ActiveEdges)
  <2>1. A \in SUBSET (Claims \X Claims)
    BY ArcsJoinClaims DEF ActiveEdges
  <2>2. ForwardArcs(ActiveEdges') = A \cup {<<Premise(e), Conclusion(e)>>}
    BY <1>7 DEF ForwardArcs
  <2>3. Acyclic(Claims, A) /\ Premise(e) \notin Reach({Conclusion(e)}, A)
    BY <1>1 DEF IInv, GraphInv, ForwardAcyclic, EdgeWouldCycle
  <2>4. Acyclic(Claims, A \cup {<<Premise(e), Conclusion(e)>>})
    BY <2>1, <2>3, EdgeEnds, AcyclicGrows
  <2>5. Acyclic(Claims, ForwardArcs(ActiveEdges'))
    BY <2>2, <2>4
  <2> QED BY <2>5 DEF ForwardAcyclic, Acyclic, ForwardArcs, Premise, Conclusion
<1>11. WitnessStands'
  BY <1>1, <1>7, <1>8 DEF IInv, GraphInv, WitnessStands
<1>12. WitnessLeads'
  BY <1>1 DEF IInv, GraphInv, WitnessLeads
<1>13. ClosedHasWitness'
  BY <1>1, <1>5, ClosureStates DEF IInv, ClosedHasWitness
<1>14. RevokedIsOpen' /\ AbsentIsUnverified' /\ VerdictsHaveReceipts' /\ RootIsCurrent'
  BY <1>1, <1>5 DEF IInv, RevokedIsOpen, AbsentIsUnverified, VerdictsHaveReceipts, RootIsCurrent
<1>15. ProvedStands' /\ OutcomeCloses'
  BY <1>1, Undecided
<1> QED BY <1>6, <1>9, <1>10, <1>11, <1>12, <1>13, <1>14, <1>15 DEF IInv, GraphInv

\* The heart of revocation: when a set that is closed under the logical edges in force
\* does not contain the parent of an accepted witness, it contains no claim of its plan.
LEMMA SparedWitness ==
    ASSUME IInv, NEW D \in SUBSET Claims, ClosedUnder(D, DirectedArcs(CurrentEdges)),
           NEW w \in witnesses, w.plan.parent \notin D
    PROVE  w.plan.claims \cap D = {}
<1> DEFINE N == w.plan.claims
           T == N \cap D
           A == DirectedArcs(w.plan.edges)
<1>1. N \subseteq Claims /\ w.plan.edges \subseteq Edges
  BY WitnessPlan
<1>2. ASSUME NEW a \in A \cap (N \X N)
      PROVE  a \in DirectedArcs(CurrentEdges)
  <2>1. PICK e \in w.plan.edges :
           \/ a = <<Premise(e), Conclusion(e)>>
           \/ a = <<Conclusion(e), Premise(e)>> /\ Ends[e].direction = "BIDIRECTIONAL"
    BY DEF DirectedArcs, ForwardArcs
  <2>2. e \in Edges /\ Premise(e) \in N /\ Conclusion(e) \in N
    BY <2>1, <1>1
  <2>3. Ends[e].from \in N /\ Ends[e].to \in N
    BY <2>2, EdgeEnds
  <2>4. e \in ActiveEdges
    BY <2>3 DEF IInv, GraphInv, WitnessStands
  <2>5. e \in CurrentEdges
    BY <2>4 DEF IInv, GraphInv, LiveEdgesJoinLiveClaims, CurrentEdges
  <2> QED BY <2>1, <2>5 DEF DirectedArcs, ForwardArcs
<1>3. ClosedUnder(T, A \cap (N \X N))
  <2> SUFFICES ASSUME NEW a \in A \cap (N \X N), a[1] \in T
               PROVE  a[2] \in T
    BY DEF ClosedUnder
  <2>1. a[2] \in D
    BY <1>2 DEF ClosedUnder
  <2> QED BY <2>1
<1>4. AllReach(N, A, w.plan.parent)
  BY DEF IInv, GraphInv, WitnessLeads
<1>5. T # {} => w.plan.parent \in T
  BY <1>3, <1>4 DEF AllReach
<1> QED BY <1>5

\* Revocation and amendment withdraw a set of claims closed under the edges in force.
LEMMA WithdrawStep ==
    ASSUME IInv, NEW D \in SUBSET Claims, ClosedUnder(D, DirectedArcs(CurrentEdges)),
           Withdraw(D),
           \A c \in Claims \ D : Current(c) => Current(c)',
           \A e \in ActiveEdges' : e \in ActiveEdges \ EdgesTouching(D)
                                   /\ edge'[e].version = contract'.version,
           \A e \in ActiveEdges : e \notin EdgesTouching(D) => e \in ActiveEdges'
    PROVE  /\ GraphInv'
           /\ obligation' \in [Obligations -> Rows({"ABSENT", "OPEN", "DISCHARGED", "INVALIDATED"})]
           /\ evidence' \in [Claims -> [Kinds -> 0 .. MaxVersion]]
           /\ \A c \in Claims \ D : evidence'[c] = evidence[c]
           /\ witnesses' \subseteq Witnesses
           /\ \A w \in witnesses : w.plan.parent \notin D => w \in witnesses'
<1>1. witnesses' = {w \in witnesses : w.plan.parent \notin D}
  BY DEF Withdraw
<1>2. LiveEdgesJoinLiveClaims'
  <2> SUFFICES ASSUME NEW e \in ActiveEdges'
               PROVE  edge'[e].version = contract'.version
                      /\ Current(Ends[e].from)' /\ Current(Ends[e].to)'
    BY DEF LiveEdgesJoinLiveClaims
  <2>1. /\ e \in ActiveEdges /\ e \notin EdgesTouching(D)
        /\ edge'[e].version = contract'.version
    OBVIOUS
  <2>2. Ends[e].from \in Claims \ D /\ Ends[e].to \in Claims \ D
    BY <2>1, EdgeEnds DEF EdgesTouching, ActiveEdges
  <2>3. Current(Ends[e].from) /\ Current(Ends[e].to)
    BY <2>1 DEF IInv, GraphInv, LiveEdgesJoinLiveClaims
  <2> QED BY <2>1, <2>2, <2>3
<1>3. ForwardAcyclic'
  <2>1. ForwardArcs(ActiveEdges') \subseteq ForwardArcs(ActiveEdges)
    BY DEF ForwardArcs
  <2>2. Acyclic(Claims, ForwardArcs(ActiveEdges'))
    BY <2>1, AcyclicShrinks DEF IInv, GraphInv, ForwardAcyclic
  <2> QED BY <2>2 DEF ForwardAcyclic, Acyclic, ForwardArcs, Premise, Conclusion
<1>4. WitnessStands'
  <2> SUFFICES ASSUME NEW w \in witnesses, w.plan.parent \notin D
               PROVE  /\ \A c \in w.plan.claims : Current(c)'
                      /\ \A e \in w.plan.edges :
                           Ends[e].from \in w.plan.claims /\ Ends[e].to \in w.plan.claims
                             => e \in ActiveEdges'
    BY <1>1 DEF WitnessStands
  <2>1. w.plan.claims \cap D = {} /\ w.plan.claims \subseteq Claims
    BY SparedWitness, WitnessPlan
  <2>2. \A c \in w.plan.claims : Current(c)'
    BY <2>1 DEF IInv, GraphInv, WitnessStands
  <2>3. ASSUME NEW e \in w.plan.edges, Ends[e].from \in w.plan.claims, Ends[e].to \in w.plan.claims
        PROVE  e \in ActiveEdges'
    <3>1. e \in ActiveEdges
      BY <2>3 DEF IInv, GraphInv, WitnessStands
    <3>2. e \notin EdgesTouching(D)
      BY <2>1, <2>3 DEF EdgesTouching
    <3> QED BY <3>1, <3>2
  <2> QED BY <2>2, <2>3
<1>5. WitnessLeads'
  BY <1>1 DEF IInv, GraphInv, WitnessLeads
<1>6. obligation' \in [Obligations -> Rows({"ABSENT", "OPEN", "DISCHARGED", "INVALIDATED"})]
  BY DEF Withdraw, IInv, TypeOK, Rows
<1>7. /\ evidence' \in [Claims -> [Kinds -> 0 .. MaxVersion]]
      /\ \A c \in Claims \ D : evidence'[c] = evidence[c]
  <2>1. NoEvidence \in [Kinds -> 0 .. MaxVersion]
    BY ConstantsAssumption DEF NoEvidence
  <2> QED BY <2>1 DEF Withdraw, IInv, TypeOK
<1>8. witnesses' \subseteq Witnesses
  BY <1>1 DEF IInv, TypeOK
<1> QED BY <1>1, <1>2, <1>3, <1>4, <1>5, <1>6, <1>7, <1>8 DEF GraphInv

\* Everything that depends on a set of claims is closed under the edges in force.
LEMMA DependentsClosed ==
    ASSUME NEW S \in SUBSET Claims
    PROVE  /\ Dependents(S) \in SUBSET Claims /\ S \subseteq Dependents(S)
           /\ ClosedUnder(Dependents(S), DirectedArcs(CurrentEdges))
<1>1. CurrentEdges \in SUBSET Edges
  BY DEF CurrentEdges, ActiveEdges
<1>2. DirectedArcs(CurrentEdges) \in SUBSET (Claims \X Claims)
  BY <1>1, ArcsJoinClaims
<1> QED BY <1>2, ReachClosed DEF Dependents

\* Revoking a fact.
LEMMA RevokeStep ==
    ASSUME IInv, NEW c \in Claims, RevokeFact(c)
    PROVE  IInv'
<1> USE DEF runVars
<1> DEFINE D == Dependents({c})
<1>1. /\ NotClosed /\ RevokeFactClosure(D) /\ Withdraw(D) /\ InvalidateClosures(D)
      /\ UNCHANGED <<runVars, version, text, axes, known, reviews>>
  BY DEF RevokeFact, RevokeFactClosure
<1>2. D \in SUBSET Claims /\ ClosedUnder(D, DirectedArcs(CurrentEdges))
  BY DependentsClosed
<1> HIDE DEF D
<1>3. /\ life' \in [Claims -> {"ABSENT", "ACTIVE", "SUPERSEDED", "INVALIDATED"}]
      /\ \A d \in D : life'[d] = "INVALIDATED"
      /\ \A d \in Claims \ D : life'[d] = life[d]
  BY <1>1, <1>2 DEF RevokeFactClosure, IInv, TypeOK
<1>4. /\ closure' \in [Claims -> Closures]
      /\ \A d \in D : closure'[d] = "INVALIDATED"
      /\ \A d \in Claims \ D : closure'[d] = closure[d]
  BY <1>1, <1>2 DEF InvalidateClosures, IInv, TypeOK, Closures
<1>5. /\ edge' \in [Edges -> Rows({"ABSENT", "ACTIVE", "INVALIDATED"})]
      /\ \A e \in EdgesTouching(D) : edge'[e].status = "INVALIDATED"
      /\ \A e \in Edges \ EdgesTouching(D) : edge'[e] = edge[e]
  <2>1. edge' = [e \in Edges |->
                   IF e \in EdgesTouching(D)
                     THEN [status |-> "INVALIDATED", version |-> edge[e].version]
                     ELSE edge[e]]
    BY <1>1 DEF RevokeFactClosure
  <2>2. EdgesTouching(D) \subseteq Edges
    BY DEF EdgesTouching, ActiveEdges
  <2> HIDE DEF EdgesTouching
  <2>3. \A e \in Edges : edge[e] \in Rows({"ABSENT", "ACTIVE", "INVALIDATED"})
    BY DEF IInv, TypeOK
  <2>4. \A e \in Edges : [status |-> "INVALIDATED", version |-> edge[e].version]
                            \in Rows({"ABSENT", "ACTIVE", "INVALIDATED"})
    BY <2>3 DEF Rows
  <2> QED BY <2>1, <2>2, <2>3, <2>4
<1>6. \A d \in Claims \ D : Current(d) => Current(d)'
  BY <1>1, <1>3 DEF Current
<1>7. /\ \A e \in ActiveEdges' : e \in ActiveEdges \ EdgesTouching(D)
                                 /\ edge'[e].version = contract'.version
      /\ \A e \in ActiveEdges : e \notin EdgesTouching(D) => e \in ActiveEdges'
  <2>1. \A e \in ActiveEdges' : e \in ActiveEdges \ EdgesTouching(D) /\ edge'[e] = edge[e]
    BY <1>5 DEF ActiveEdges
  <2>2. \A e \in ActiveEdges' : edge'[e].version = contract'.version
    BY <2>1, <1>1 DEF IInv, GraphInv, LiveEdgesJoinLiveClaims
  <2> QED BY <2>1, <2>2, <1>5 DEF ActiveEdges
<1>8. /\ GraphInv'
      /\ obligation' \in [Obligations -> Rows({"ABSENT", "OPEN", "DISCHARGED", "INVALIDATED"})]
      /\ evidence' \in [Claims -> [Kinds -> 0 .. MaxVersion]]
      /\ \A d \in Claims \ D : evidence'[d] = evidence[d]
      /\ witnesses' \subseteq Witnesses
      /\ \A w \in witnesses : w.plan.parent \notin D => w \in witnesses'
  BY <1>1, <1>2, <1>6, <1>7, WithdrawStep
<1>9. TypeOK'
  BY <1>1, <1>3, <1>4, <1>5, <1>8 DEF IInv, TypeOK
<1>10. ClosedHasWitness'
  BY <1>4, <1>8, ClosureStates DEF IInv, ClosedHasWitness
<1>11. RevokedIsOpen'
  BY <1>3, <1>4 DEF IInv, RevokedIsOpen
<1>12. AbsentIsUnverified'
  BY <1>1, <1>3 DEF IInv, AbsentIsUnverified
<1>13. VerdictsHaveReceipts'
  BY <1>1, <1>3, <1>8 DEF IInv, VerdictsHaveReceipts
<1>14. RootIsCurrent'
  BY <1>1, <1>3, ConstantsAssumption DEF IInv, RootIsCurrent, TypeOK
<1>15. ProvedStands' /\ OutcomeCloses'
  BY <1>1, Undecided
<1> QED BY <1>8, <1>9, <1>10, <1>11, <1>12, <1>13, <1>14, <1>15 DEF IInv

\* Amending the contract: the claims the defect reaches are superseded, the others carry
\* their edges, evidence and witnesses over to the next version.
LEMMA AmendStep ==
    ASSUME IInv, AmendContract
    PROVE  IInv'
<1> DEFINE S == {c \in contract.defect : version[c] = contract.version}
           D == Dependents(S)
<1>0. contract \in [version : 1 .. MaxVersion, status : {"DRAFT", "FROZEN", "DEFECT_PROPOSED"},
                    defect : SUBSET Claims]
  BY DEF IInv, TypeOK
<1>1. /\ NotClosed /\ contract.version < MaxVersion /\ MigrateContractClosure(D) /\ Withdraw(D)
      /\ contract' = [version |-> contract.version + 1, status |-> "FROZEN", defect |-> {}]
      /\ root' = None /\ run' = "OPEN"
      /\ UNCHANGED <<text, axes, reviews, outcome>>
  BY DEF AmendContract, MigrateContractClosure, ResetRoot
<1>2. D \in SUBSET Claims /\ ClosedUnder(D, DirectedArcs(CurrentEdges))
  <2>1. S \in SUBSET Claims
    BY <1>0
  <2> QED BY <2>1, DependentsClosed
<1> HIDE DEF S, D
<1> DEFINE carried == {c \in Claims : Current(c)} \ D
           next == contract.version + 1
<1>3. /\ next \in 1 .. MaxVersion /\ next \in 0 .. MaxVersion /\ contract'.version = next
      /\ contract' \in [version : 1 .. MaxVersion, status : {"DRAFT", "FROZEN", "DEFECT_PROPOSED"},
                        defect : SUBSET Claims]
  <2>1. contract.version \in 1 .. MaxVersion
    BY <1>0
  <2>2. next \in 1 .. MaxVersion /\ next \in 0 .. MaxVersion
    BY <1>1, <2>1, ConstantsAssumption
  <2> QED BY <1>1, <2>2
<1>4. /\ life' \in [Claims -> {"ABSENT", "ACTIVE", "SUPERSEDED", "INVALIDATED"}]
      /\ \A c \in D : life'[c] = "SUPERSEDED"
      /\ \A c \in Claims \ D : life'[c] = life[c]
  BY <1>1, <1>2 DEF MigrateContractClosure, IInv, TypeOK
<1>5. version' \in [Claims -> 0 .. MaxVersion] /\ \A c \in carried : version'[c] = next
  <2>1. version' = [c \in Claims |-> IF c \in carried THEN next ELSE version[c]]
    BY <1>1 DEF MigrateContractClosure
  <2>2. version \in [Claims -> 0 .. MaxVersion]
    BY DEF IInv, TypeOK
  <2> HIDE DEF next
  <2>3. carried \subseteq Claims
    OBVIOUS
  <2> HIDE DEF carried
  <2> QED BY <2>1, <2>2, <2>3, <1>3
<1>6. /\ closure' \in [Claims -> Closures]
      /\ \A c \in D : closure'[c] \in {"INVALIDATED", "NOT_REQUIRED"}
      /\ \A c \in Claims \ D : closure'[c] = closure[c]
  BY <1>1, <1>2 DEF MigrateContractClosure, IInv, TypeOK, Closures
<1>7. \A c \in Claims \ D : Current(c) => Current(c)'
  BY <1>3, <1>4, <1>5 DEF Current
<1>8. /\ ActiveEdges \ EdgesTouching(D) \subseteq CurrentEdges
      /\ \A e \in ActiveEdges \ EdgesTouching(D) : Ends[e].from \in carried /\ Ends[e].to \in carried
      /\ EdgesTouching(D) \subseteq CurrentEdges
  <2>1. ASSUME NEW e \in ActiveEdges
        PROVE  e \in CurrentEdges /\ Current(Ends[e].from) /\ Current(Ends[e].to)
               /\ Ends[e].from \in Claims /\ Ends[e].to \in Claims
    <3>1. e \in Edges
      BY DEF ActiveEdges
    <3> QED BY <3>1, EdgeEnds DEF IInv, GraphInv, LiveEdgesJoinLiveClaims, CurrentEdges
  <2> QED BY <2>1 DEF EdgesTouching
<1> DEFINE Row(e) == IF e \in CurrentEdges \cap EdgesTouching(D)
                       THEN [status |-> "INVALIDATED", version |-> edge[e].version]
                     ELSE IF e \in CurrentEdges /\ Ends[e].from \in carried
                                                /\ Ends[e].to \in carried
                       THEN [status |-> "ACTIVE", version |-> next]
                     ELSE edge[e]
<1>9. edge' = [e \in Edges |-> Row(e)]
  BY <1>1 DEF MigrateContractClosure
<1>10. \A e \in Edges : /\ Row(e) \in Rows({"ABSENT", "ACTIVE", "INVALIDATED"})
                        /\ Row(e).status = "ACTIVE" =>
                             e \in ActiveEdges \ EdgesTouching(D) /\ Row(e).version = next
                        /\ e \in ActiveEdges \ EdgesTouching(D) => Row(e).status = "ACTIVE"
  <2> SUFFICES ASSUME NEW e \in Edges
               PROVE  /\ Row(e) \in Rows({"ABSENT", "ACTIVE", "INVALIDATED"})
                      /\ Row(e).status = "ACTIVE" =>
                           e \in ActiveEdges \ EdgesTouching(D) /\ Row(e).version = next
                      /\ e \in ActiveEdges \ EdgesTouching(D) => Row(e).status = "ACTIVE"
    OBVIOUS
  <2>1. edge[e] \in Rows({"ABSENT", "ACTIVE", "INVALIDATED"})
    BY DEF IInv, TypeOK
  <2>2. /\ [status |-> "INVALIDATED", version |-> edge[e].version]
             \in Rows({"ABSENT", "ACTIVE", "INVALIDATED"})
        /\ [status |-> "ACTIVE", version |-> next] \in Rows({"ABSENT", "ACTIVE", "INVALIDATED"})
    BY <2>1, <1>3 DEF Rows
  <2>3. CASE e \in EdgesTouching(D)
    <3>0. e \in CurrentEdges \cap EdgesTouching(D)
      BY <2>3, <1>8
    <3>1. Row(e) = [status |-> "INVALIDATED", version |-> edge[e].version]
      BY <3>0, Zenon
    <3> HIDE DEF Row
    <3> QED BY <2>2, <2>3, <3>1
  <2>4. CASE e \in ActiveEdges \ EdgesTouching(D)
    <3>1. Row(e) = [status |-> "ACTIVE", version |-> next]
      BY <2>4, <1>8
    <3> HIDE DEF Row
    <3> QED BY <2>2, <2>4, <3>1
  <2>5. CASE e \notin ActiveEdges
    <3>1. Row(e) = edge[e] /\ edge[e].status # "ACTIVE"
      BY <2>5 DEF ActiveEdges, CurrentEdges
    <3> HIDE DEF Row
    <3> QED BY <2>1, <2>5, <3>1
  <2> QED BY <2>3, <2>4, <2>5
<1> HIDE DEF Row, carried, next
<1>11. /\ edge' \in [Edges -> Rows({"ABSENT", "ACTIVE", "INVALIDATED"})]
       /\ \A e \in ActiveEdges' : e \in ActiveEdges \ EdgesTouching(D)
                                  /\ edge'[e].version = contract'.version
       /\ \A e \in ActiveEdges : e \notin EdgesTouching(D) => e \in ActiveEdges'
  <2>1. edge' \in [Edges -> Rows({"ABSENT", "ACTIVE", "INVALIDATED"})]
        /\ \A e \in Edges : edge'[e] = Row(e)
    BY <1>9, <1>10
  <2>2. \A e \in ActiveEdges' : e \in Edges /\ Row(e).status = "ACTIVE" /\ edge'[e] = Row(e)
    BY <2>1 DEF ActiveEdges
  <2>3. \A e \in ActiveEdges : e \in Edges
    BY DEF ActiveEdges
  <2>4. \A e \in Edges : Row(e).status = "ACTIVE" => e \in ActiveEdges'
    BY <2>1 DEF ActiveEdges
  <2> QED BY <2>1, <2>2, <2>3, <2>4, <1>3, <1>10
<1>12. /\ GraphInv'
       /\ obligation' \in [Obligations -> Rows({"ABSENT", "OPEN", "DISCHARGED", "INVALIDATED"})]
       /\ evidence' \in [Claims -> [Kinds -> 0 .. MaxVersion]]
       /\ \A d \in Claims \ D : evidence'[d] = evidence[d]
       /\ witnesses' \subseteq Witnesses
       /\ \A w \in witnesses : w.plan.parent \notin D => w \in witnesses'
  BY <1>1, <1>2, <1>7, <1>11, WithdrawStep
<1>13. TypeOK'
  <2>1. known' \subseteq Claims
    BY <1>1 DEF MigrateContractClosure, IInv, TypeOK
  <2> QED BY <1>1, <1>3, <1>4, <1>5, <1>6, <1>11, <1>12, <2>1 DEF IInv, TypeOK
<1>14. ClosedHasWitness'
  BY <1>6, <1>12, ClosureStates DEF IInv, ClosedHasWitness
<1>15. RevokedIsOpen' /\ AbsentIsUnverified'
  BY <1>1, <1>4, <1>6 DEF IInv, RevokedIsOpen, AbsentIsUnverified
<1>16. VerdictsHaveReceipts'
  BY <1>1, <1>4, <1>12 DEF IInv, VerdictsHaveReceipts
<1>17. RootIsCurrent'
  BY <1>1 DEF RootIsCurrent
<1>18. ProvedStands' /\ OutcomeCloses'
  BY <1>1, Undecided
<1> QED BY <1>12, <1>13, <1>14, <1>15, <1>16, <1>17, <1>18 DEF IInv

\* An accepted witness: what was checked of its plan is what the invariant keeps.
LEMMA SubmitWitnessStep ==
    ASSUME IInv, NEW p \in Plans, NEW mode \in Modes, SubmitClosureWitness(p, mode)
    PROVE  IInv'
<1> USE DEF runVars, proofVars
<1> DEFINE W == [plan |-> p, mode |-> mode]
<1>1. /\ NotClosed /\ PlanStands(p)
      /\ UNCHANGED <<runVars, life, version, text, edge, proofVars>>
      /\ witnesses' = witnesses \cup {W}
      /\ closure' = [closure EXCEPT ![p.parent] = ClosureState(mode)]
  BY DEF SubmitClosureWitness, AcceptClosureWitness
<1>2. /\ W \in Witnesses /\ W.plan = p /\ W.mode = mode
      /\ p.parent \in Claims /\ life[p.parent] = "ACTIVE"
  <2>1. p \in [parent : Claims, claims : SUBSET Claims, edges : SUBSET Edges,
               obligations : SUBSET Obligations, cuts : SUBSET Edges]
    BY ConstantsAssumption
  <2> QED BY <2>1, <1>1 DEF Witnesses, PlanStands, Current
<1> HIDE DEF W
<1>3. /\ closure' \in [Claims -> Closures] /\ closure'[p.parent] = ClosureState(mode)
      /\ \A c \in Claims \ {p.parent} : closure'[c] = closure[c]
  BY <1>1, <1>2, ClosureStates DEF IInv, TypeOK
<1>4. /\ axes' \in [Claims -> Axes]
      /\ \A c \in Claims : axes'[c].machine = axes[c].machine
  <2> DEFINE c == p.parent
  <2>0. axes[c] \in Axes
    BY <1>2, AxesFields
  <2>1. axes[c] \in Axes /\ axes[c].semantic \in {"UNREVIEWED", "TESTED", "HUMAN_ATTESTED"}
    BY <2>0 DEF Axes
  <2>2. PICK t \in {"UNREVIEWED", "TESTED", "HUMAN_ATTESTED"} :
           SetAxes(c, [axes[c] EXCEPT !.semantic = t])
    BY <2>1 DEF SubmitClosureWitness, AcceptClosureWitness
  <2> DEFINE b == [axes[c] EXCEPT !.semantic = t]
  <2>3. b \in Axes /\ b.machine = axes[c].machine
    <3>1. b \in Axes
      BY <1>2, <2>2, AxesFields
    <3> QED BY <3>1, <2>1, MachineField
  <2>4. axes' = [axes EXCEPT ![c] = b] /\ axes \in [Claims -> Axes]
    BY <2>2 DEF SetAxes, IInv, TypeOK, Axes
  <2> HIDE DEF b
  <2> QED BY <2>3, <2>4, <1>2
<1>5. obligation' \in [Obligations -> Rows({"ABSENT", "OPEN", "DISCHARGED", "INVALIDATED"})]
  <2>1. obligation' = [o \in Obligations |->
                         IF o \in p.obligations
                           THEN [status |-> "DISCHARGED", version |-> obligation[o].version]
                           ELSE obligation[o]]
    BY DEF SubmitClosureWitness, AcceptClosureWitness
  <2>2. \A o \in Obligations :
           obligation[o] \in Rows({"ABSENT", "OPEN", "DISCHARGED", "INVALIDATED"})
    BY DEF IInv, TypeOK
  <2>3. \A o \in Obligations : [status |-> "DISCHARGED", version |-> obligation[o].version]
                                 \in Rows({"ABSENT", "OPEN", "DISCHARGED", "INVALIDATED"})
    BY <2>2 DEF Rows
  <2> QED BY <2>1, <2>2, <2>3
<1>6. TypeOK'
  BY <1>1, <1>2, <1>3, <1>4, <1>5 DEF IInv, TypeOK, Axes
<1>7. ActiveEdges' = ActiveEdges /\ \A c : Current(c)' <=> Current(c)
  BY <1>1 DEF ActiveEdges, Current
<1>8. LiveEdgesJoinLiveClaims'
  BY <1>1 DEF IInv, GraphInv, LiveEdgesJoinLiveClaims, ActiveEdges, Current
<1>9. ForwardAcyclic'
  BY <1>7 DEF IInv, GraphInv, ForwardAcyclic
<1>10. WitnessStands'
  <2> SUFFICES ASSUME NEW w \in witnesses'
               PROVE  /\ \A c \in w.plan.claims : Current(c)
                      /\ \A e \in w.plan.edges :
                           Ends[e].from \in w.plan.claims /\ Ends[e].to \in w.plan.claims
                             => e \in ActiveEdges
    BY <1>7 DEF WitnessStands
  <2>1. CASE w \in witnesses
    BY <2>1 DEF IInv, GraphInv, WitnessStands
  <2>2. CASE w = W
    BY <2>2, <1>1, <1>2 DEF PlanStands, CurrentEdges
  <2> QED BY <1>1, <2>1, <2>2
<1>11. WitnessLeads'
  <2>1. AllReach(p.claims, DirectedArcs(p.edges), p.parent)
    BY <1>1 DEF PlanStands
  <2> QED BY <2>1, <1>1, <1>2 DEF IInv, GraphInv, WitnessLeads
<1>12. ClosedHasWitness'
  <2> SUFFICES ASSUME NEW c \in Claims, NEW m \in Modes, closure'[c] = ClosureState(m)
               PROVE  \E w \in witnesses' : w.plan.parent = c /\ w.mode = m
    BY DEF ClosedHasWitness
  <2>1. CASE c = p.parent
    <3>1. m = mode
      BY <2>1, <1>3, ClosureStates
    <3> QED BY <3>1, <2>1, <1>1, <1>2
  <2>2. CASE c # p.parent
    <3>1. closure[c] = ClosureState(m) /\ ClosedHasWitness
      BY <2>2, <1>3 DEF IInv
    <3>2. \E w \in witnesses : w.plan.parent = c /\ w.mode = m
      BY <3>1, Zenon DEF ClosedHasWitness
    <3> QED BY <3>2, <1>1
  <2> QED BY <2>1, <2>2
<1>13. RevokedIsOpen'
  BY <1>1, <1>2, <1>3 DEF IInv, RevokedIsOpen
<1>14. AbsentIsUnverified' /\ VerdictsHaveReceipts'
  BY <1>1, <1>4 DEF IInv, AbsentIsUnverified, VerdictsHaveReceipts
<1>15. RootIsCurrent'
  BY <1>1 DEF IInv, RootIsCurrent
<1>16. ProvedStands' /\ OutcomeCloses'
  BY <1>1, Undecided
<1> QED BY <1>6, <1>8, <1>9, <1>10, <1>11, <1>12, <1>13, <1>14, <1>15, <1>16 DEF IInv, GraphInv

-----------------------------------------------------------------------------
(* The invariant and what follows from it                                   *)

\* A new run: no claims, no edges, nothing decided.
LEMMA InitInv == Init => IInv
<1> SUFFICES ASSUME Init PROVE IInv
  OBVIOUS
<1> USE DEF Init
<1>1. TypeOK
  <2>1. Unjudged \in Axes
    BY DEF Unjudged, Axes, RouteValues
  <2>2. /\ 0 \in 0 .. MaxVersion /\ 1 \in 1 .. MaxVersion
        /\ NoEvidence \in [Kinds -> 0 .. MaxVersion]
    BY ConstantsAssumption DEF NoEvidence
  <2>3. NoRow \in Rows({"ABSENT", "ACTIVE", "INVALIDATED"})
        /\ NoRow \in Rows({"ABSENT", "OPEN", "DISCHARGED", "INVALIDATED"})
    BY <2>2 DEF NoRow, Rows
  <2>4. axes \in [Claims -> Axes]
    BY <2>1
  <2> QED BY <2>2, <2>3, <2>4 DEF TypeOK, Axes, Closures
<1>2. ActiveEdges = {}
  BY DEF ActiveEdges, NoRow
<1>3. GraphInv
  <2>1. ForwardArcs({}) = {}
    BY DEF ForwardArcs
  <2>2. ForwardAcyclic
    BY <1>2, <2>1 DEF ForwardAcyclic, Acyclic
  <2>3. LiveEdgesJoinLiveClaims
    BY <1>2 DEF LiveEdgesJoinLiveClaims
  <2> QED BY <2>2, <2>3 DEF GraphInv, WitnessStands, WitnessLeads
<1>4. ClosedHasWitness
  BY ClosureStates DEF ClosedHasWitness
<1>5. VerdictsHaveReceipts /\ RevokedIsOpen /\ AbsentIsUnverified
  BY DEF VerdictsHaveReceipts, RevokedIsOpen, AbsentIsUnverified, Unjudged
<1>6. None # "PROVED"
  BY ConstantsAssumption DEF Outcomes
<1> QED BY <1>1, <1>3, <1>4, <1>5, <1>6 DEF IInv, ProvedStands, RootIsCurrent, OutcomeCloses

\* A step that changes nothing keeps the invariant.
LEMMA StutterStep ==
    ASSUME IInv, UNCHANGED vars
    PROVE  IInv'
<1> USE DEF vars, runVars, claimVars, graphVars, proofVars
<1>1. TypeOK'
  BY DEF IInv, TypeOK
<1>2. GraphInv'
  BY GraphKept DEF IInv
<1>3. ClosedHasWitness' /\ VerdictsHaveReceipts' /\ RootIsCurrent' /\ RevokedIsOpen'
      /\ AbsentIsUnverified' /\ OutcomeCloses'
  BY DEF IInv, ClosedHasWitness, VerdictsHaveReceipts, RootIsCurrent, RevokedIsOpen,
         AbsentIsUnverified, OutcomeCloses
<1>4. ProvedStands'
  BY DEF IInv, ProvedStands, Current
<1> QED BY <1>1, <1>2, <1>3, <1>4 DEF IInv

\* Every command keeps the invariant.
LEMMA NextStep ==
    ASSUME IInv, Next
    PROVE  IInv'
<1>1. CASE ContractStep
  BY <1>1, RunStep, AmendStep DEF ContractStep
<1>2. CASE GraphStep
  BY <1>2, RegisterClaimStep, RevokeStep, RegisterEdgeStep, ObligationStep, FailureStep,
     SubmitWitnessStep DEF GraphStep
<1>3. CASE EvidenceStep
  <2>1. ASSUME NEW x \in Offers,
               \/ SubmitEvidence(x[1], x[2])
               \/ x[2] = "LEAN_REPLAY" /\ ConsumeLeanReceipt(x[1])
               \/ x[2] = "CHECKER_CERTIFICATE" /\ ConsumeCheckerReceipt(x[1])
        PROVE  IInv'
    <3>1. x[1] \in Claims /\ x[2] \in Kinds
      BY ConstantsAssumption
    <3> QED BY <2>1, <3>1, RecordStep, ConsumeStep
  <2>2. ASSUME NEW c \in Judged, RecordLiterature(c)
        PROVE  IInv'
    BY <2>2, RecordStep, ConstantsAssumption
  <2>3. ASSUME NEW c \in Claims, VerifyAtomicPeer(c)
        PROVE  IInv'
    BY <2>3, PromoteStepKeeps
  <2>4. ASSUME NEW c \in Claims, NEW k \in Kinds, VerifyAtomicMachine(c, k)
        PROVE  IInv'
    BY <2>4, MachineStep
  <2>5. ASSUME NEW x \in ReviewOffers, NEW accept \in BOOLEAN, NEW managed \in BOOLEAN,
               NEW attests \in BOOLEAN,
               RecordPeerReview(x[1], x[2], x[3], accept, managed, attests)
        PROVE  IInv'
    BY <2>5, ReviewStep
  <2> QED BY <1>3, <2>1, <2>2, <2>3, <2>4, <2>5 DEF EvidenceStep
<1>4. CASE PromoteStep
  <2>1. Judged \subseteq Claims
    BY ConstantsAssumption
  <2>2. ASSUME NEW c \in Judged,
               \/ PromoteTested(c) \/ PromoteAttested(c)
               \/ \E v \in {"UNREVIEWED", "ACCEPTED"} : PromotePeer(c, v)
               \/ \E v \in RouteValues : PromoteRoute(c, v)
        PROVE  IInv'
    BY <2>1, <2>2, PromoteStepKeeps
  <2>3. ASSUME NEW c \in Judged, NEW k \in Kinds, PromoteMachine(c, k)
        PROVE  IInv'
    BY <2>1, <2>3, MachineStep
  <2>4. ASSUME NEW c \in Judged, NEW w \in witnesses, PromoteClosure(c, w)
        PROVE  IInv'
    BY <2>1, <2>4, PromoteClosureStep
  <2> QED BY <1>4, <2>2, <2>3, <2>4 DEF PromoteStep
<1>5. CASE \E o \in Asked : Finalize(o)
  BY <1>5, FinalizeStep, ConstantsAssumption
<1> QED BY <1>1, <1>2, <1>3, <1>4, <1>5 DEF Next

\* The inductive invariant holds in every reachable state.
THEOREM Invariance == Spec => []IInv
<1>1. IInv /\ [Next]_vars => IInv'
  BY NextStep, StutterStep
<1> QED BY <1>1, InitInv, PTL DEF Spec

\* Every row stays well typed; the root is a ROOT stated for the current contract.
THEOREM TypeCorrect == Spec => []TypeOK
<1>1. IInv => TypeOK
  BY DEF IInv
<1> QED BY <1>1, Invariance, PTL

\* REVOKE_FACT_CLOSURE and MIGRATE_CONTRACT_CLOSURE leave no stray edge: an ACTIVE edge
\* joins two ACTIVE claims of the current contract.
THEOREM EdgesJoinLiveClaims == Spec => []LiveEdgesJoinLiveClaims
<1>1. IInv => LiveEdgesJoinLiveClaims
  BY DEF IInv, GraphInv
<1> QED BY <1>1, Invariance, PTL

\* _edge_would_cycle keeps the forward reading of the ACTIVE edges free of circles.
THEOREM GraphStaysAcyclic == Spec => []ForwardAcyclic
<1>1. IInv => ForwardAcyclic
  BY DEF IInv, GraphInv
<1> QED BY <1>1, Invariance, PTL

\* An ACCEPTED closure witness never outlives a claim or an inner edge of its subgraph:
\* every revocation and amendment that reaches one of them reaches the parent too.
THEOREM WitnessesStand == Spec => []WitnessStands
<1>1. IInv => WitnessStands
  BY DEF IInv, GraphInv
<1> QED BY <1>1, Invariance, PTL

\* A closed claim always has an ACCEPTED witness of the kind its closure names.
THEOREM ClosedClaimsHaveWitnesses == Spec => []ClosedHasWitness
<1>1. IInv => ClosedHasWitness
  BY DEF IInv
<1> QED BY <1>1, Invariance, PTL

\* A machine verdict on an ACTIVE claim always rests on a receipt for that claim.
THEOREM VerdictsRestOnReceipts == Spec => []VerdictsHaveReceipts
<1>1. IInv => VerdictsHaveReceipts
  BY DEF IInv
<1> QED BY <1>1, Invariance, PTL

\* No command of the kernel leaves the claim graph malformed.
THEOREM GraphStaysWellFormed == Spec => []GraphIsWellFormed
<1>1. IInv => GraphIsWellFormed
  BY DEF IInv, GraphInv, GraphIsWellFormed
<1> QED BY <1>1, Invariance, PTL

\* Closed claims and accepted witnesses support each other in every reachable state.
THEOREM ClosuresAlwaysStand == Spec => []ClosuresStand
<1>1. IInv => ClosuresStand
  BY DEF IInv, GraphInv, ClosuresStand
<1> QED BY <1>1, Invariance, PTL

\* A run that Finalize closed as PROVED has a current root, closed by a witness whose
\* claims are all in force unless the root is atomic.
THEOREM ProvedRunsStand == Spec => []ProvedStands
<1>1. IInv => ProvedStands
  BY DEF IInv
<1> QED BY <1>1, Invariance, PTL
=============================================================================
