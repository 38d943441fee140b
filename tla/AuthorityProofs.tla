--------------------------- MODULE AuthorityProofs ---------------------------
(* Proofs about what a research may rest on.                                 *)
EXTENDS ContractRevision, Uploads, Materials, Controller, ClaimWorkflow, Ablation,
        Integers, SequenceTheorems, FiniteSetTheorems, WellFoundedInduction, TLAPS

-----------------------------------------------------------------------------
(* Numbers                                                                  *)

\* Every set of naturals that is not empty has a least element.
LEMMA LeastNatural ==
    ASSUME NEW T, T \subseteq Nat, T # {}
    PROVE  \E x \in T : \A y \in T : x <= y
<1> DEFINE R == {ss \in Nat \X Nat : ss[1] < ss[2]}
<1>1. R = OpToRel(<, Nat)
  BY DEF OpToRel
<1>2. IsWellFoundedOn(R, Nat)
  BY <1>1, NatLessThanWellFounded
<1>3. \E x \in T : \A y \in T : ~(<<y, x>> \in R)
  <2> HIDE DEF R
  <2> QED BY <1>2, WFMin
<1>4. \A x, y \in T : (~(<<y, x>> \in R)) => x <= y
  OBVIOUS
<1> HIDE DEF R
<1> QED BY <1>3, <1>4

\* Every bounded set of naturals that is not empty has a greatest element.
LEMMA GreatestNatural ==
    ASSUME NEW n \in Nat, NEW S, S \subseteq 0 .. n, S # {}
    PROVE  \E x \in S : \A y \in S : y <= x
<1> DEFINE T == {m \in 0 .. n : n - m \in S}
<1>1. T \subseteq Nat /\ T # {}
  <2>1. PICK x \in S : TRUE
    OBVIOUS
  <2>2. x \in 0 .. n /\ n - x \in 0 .. n /\ n - (n - x) = x
    OBVIOUS
  <2>3. PICK m \in 0 .. n : m = n - x /\ n - m = x
    BY <2>2
  <2>4. m \in T
    BY <2>1, <2>3
  <2>5. \A j \in T : j \in Nat
    OBVIOUS
  <2> HIDE DEF T
  <2> QED BY <2>4, <2>5
<1>2. PICK m \in T : \A y \in T : m <= y
  <2> HIDE DEF T
  <2> QED BY <1>1, LeastNatural
<1>3. n - m \in S /\ m \in 0 .. n
  OBVIOUS
<1>4. ASSUME NEW y \in S PROVE y <= n - m
  <2>1. y \in 0 .. n /\ n - y \in 0 .. n /\ n - (n - y) = y
    OBVIOUS
  <2>2. m <= n - y
    BY <1>2, <2>1
  <2> QED BY <1>3, <2>1, <2>2
<1> QED BY <1>3, <1>4

-----------------------------------------------------------------------------
(* Withdrawn authority                                                      *)

BindingRow == [state : {"NONE", "VALID", "INVALIDATED"}, bound : Revisions, version : Nat]
RevokerRow == [pc : {"idle", "apply", "confirm"}, fact : Facts \cup {NoPreview}, rev : Revisions]
MarkRow == [recSeq : Nat, recRev : Revisions, procSeq : Nat, procRev : Revisions]

AuthorityRowsTyped ==
    /\ kernelRev \in Revisions /\ revoked \subseteq Facts /\ contractVersion \in Nat
    /\ binding \in [Objects -> BindingRow] /\ consumes \subseteq Objects \X Facts
    /\ ledger \in Seq(Invalidation) /\ mark \in MarkRow
    /\ materialized \subseteq Revisions \X Objects
    /\ revPreview \in [Facts -> RevokePreview \cup {NoPreview}]
    /\ announced \subseteq Invalidation /\ recoveries \subseteq Objects \X Revisions
    /\ revoker \in RevokerRow

\* The ledger is in the order of its revisions, the watermark knows its length.
MarkFits ==
    /\ mark.recSeq = Len(ledger) /\ mark.procSeq <= Len(ledger)
    /\ \A k \in 1 .. Len(ledger) : ledger[k].rev <= mark.recRev
    /\ \A j, k \in 1 .. Len(ledger) : j < k => ledger[j].rev < ledger[k].rev

\* What the ledger names is bound.
LedgerIsBound == \A k \in 1 .. Len(ledger) : \A o \in ledger[k].affected : Bound(o)

\* The bindings show exactly the events the watermark passed.
ShowsProcessed ==
    /\ \A m \in materialized : \E k \in 1 .. mark.procSeq : m[1] = ledger[k].rev /\ m[2] \in ledger[k].affected
    /\ \A k \in 1 .. mark.procSeq : \A o \in ledger[k].affected : <<ledger[k].rev, o>> \in materialized
    /\ \A o \in Objects : (binding[o].state = "INVALIDATED") <=> (\E m \in materialized : m[2] = o)

\* A confirmed preview is of a revoked fact, and the handler's preview is still active.
PreviewsFit ==
    /\ \A f \in Facts : revPreview[f] # NoPreview /\ revPreview[f].state = "CONSUMED" => f \in revoked
    /\ revoker.pc # "idle" => /\ revoker.fact \in Facts /\ revPreview[revoker.fact] # NoPreview
                              /\ revPreview[revoker.fact].state = "ACTIVE"
    /\ revoker.pc = "confirm" => revoker.fact \in revoked

RecoveriesEarned == \A m \in recoveries : \E f \in revoked : TargetBound(m[1], f)

AuthorityInv == AuthorityRowsTyped /\ MarkFits /\ LedgerIsBound /\ ShowsProcessed
                /\ PreviewsFit /\ RecoveriesEarned

\* What no step takes back.
AuthorityGrows ==
    /\ \A e \in Entries : e \in Entries'
    /\ \A o \in Objects : binding[o].state = "INVALIDATED" => binding'[o].state = "INVALIDATED"

\* What the ledger holds.
LEMMA LedgerRows ==
    ASSUME AuthorityRowsTyped
    PROVE  /\ Len(ledger) \in Nat /\ DOMAIN ledger = 1 .. Len(ledger)
           /\ \A k \in 1 .. Len(ledger) : /\ ledger[k] \in Invalidation /\ ledger[k].affected \subseteq Objects
                                         /\ ledger[k].rev \in Revisions /\ ledger[k].rev \in Int
<1>1. ledger \in Seq(Invalidation)
  BY DEF AuthorityRowsTyped
<1>2. \A k \in 1 .. Len(ledger) : ledger[k] \in Invalidation
  BY <1>1, ElementOfSeq
<1>3. \A e \in Invalidation : e.affected \subseteq Objects /\ e.rev \in Revisions /\ e.rev \in Int
  BY RevisionsAreNumbered DEF Invalidation, Revisions
<1>4. Len(ledger) \in Nat /\ DOMAIN ledger = 1 .. Len(ledger)
  BY <1>1, LenProperties
<1> QED BY <1>2, <1>3, <1>4

\* The ledger and the watermark are as they were.
LEMMA LedgerStays ==
    ASSUME AuthorityInv, UNCHANGED <<ledger, mark, materialized>>,
           \A o \in Objects : /\ Bound(o) => Bound(o)'
                              /\ (binding'[o].state = "INVALIDATED") <=> (binding[o].state = "INVALIDATED")
    PROVE  MarkFits' /\ LedgerIsBound' /\ ShowsProcessed' /\ AuthorityGrows
<1>1. MarkFits' /\ AuthorityGrows
  BY DEF AuthorityInv, MarkFits, AuthorityGrows, Entries
<1>2. ShowsProcessed'
  BY DEF AuthorityInv, ShowsProcessed
<1>3. \A k \in 1 .. Len(ledger) : ledger[k].affected \subseteq Objects
  BY LedgerRows DEF AuthorityInv
<1>4. LedgerIsBound'
  BY <1>3 DEF AuthorityInv, LedgerIsBound
<1> QED BY <1>1, <1>2, <1>4

\* The previews and the handler are as they were, or nothing they rest on is taken back.
LEMMA PreviewsStay ==
    ASSUME AuthorityInv, UNCHANGED <<revPreview, revoker, recoveries, revoked>>, consumes \subseteq consumes'
    PROVE  PreviewsFit' /\ RecoveriesEarned'
<1>1. PreviewsFit'
  BY DEF AuthorityInv, PreviewsFit
<1>2. \A o, f : TargetBound(o, f) => TargetBound(o, f)'
  BY DEF TargetBound
<1>3. RecoveriesEarned'
  BY <1>2 DEF AuthorityInv, RecoveriesEarned
<1> QED BY <1>1, <1>3

\* A binding that is new drags the watermark along only when it has caught up.
LEMMA RegisterStep ==
    ASSUME AuthorityInv, NEW o \in Objects, NEW rev \in Revisions, RegisterBinding(o, rev)
    PROVE  AuthorityInv' /\ AuthorityGrows
<1> DEFINE row == [state |-> "VALID", bound |-> rev, version |-> contractVersion]
<1>1. row \in BindingRow /\ row.state = "VALID"
  BY DEF AuthorityInv, AuthorityRowsTyped, BindingRow
<1>2. /\ binding' = [binding EXCEPT ![o] = row] /\ binding[o].state = "NONE"
      /\ UNCHANGED <<kernelRev, revoked, recomputes, contractVersion, consumes, ledger,
                     materialized, revPreview, announced, recoveries, revoker>>
      /\ mark' = IF CaughtUp /\ rev > mark.recRev THEN [mark EXCEPT !.recRev = rev, !.procRev = rev] ELSE mark
  BY DEF RegisterBinding, Bound
<1> HIDE DEF row
<1>3. /\ binding' \in [Objects -> BindingRow] /\ binding'[o] = row
      /\ \A x \in Objects \ {o} : binding'[x] = binding[x]
  BY <1>1, <1>2 DEF AuthorityInv, AuthorityRowsTyped
<1>4. /\ mark' \in MarkRow /\ mark'.recSeq = mark.recSeq /\ mark'.procSeq = mark.procSeq
      /\ mark'.recRev >= mark.recRev
  <2>1. mark \in MarkRow
    BY DEF AuthorityInv, AuthorityRowsTyped
  <2>2. CASE CaughtUp /\ rev > mark.recRev
    <3> DEFINE q == [mark EXCEPT !.recRev = rev, !.procRev = rev]
    <3>1. q \in MarkRow /\ q.recSeq = mark.recSeq /\ q.procSeq = mark.procSeq /\ q.recRev = rev
      BY <2>1 DEF MarkRow
    <3>2. mark' = q
      BY <1>2, <2>2
    <3>3. mark.recRev \in Int /\ rev \in Int
      BY <2>1, RevisionsAreNumbered DEF MarkRow, Revisions
    <3> HIDE DEF q
    <3> QED BY <2>2, <3>1, <3>2, <3>3
  <2>3. CASE ~(CaughtUp /\ rev > mark.recRev)
    BY <1>2, <2>1, <2>3, RevisionsAreNumbered DEF MarkRow, Revisions
  <2> QED BY <2>2, <2>3
<1>5. AuthorityRowsTyped'
  BY <1>2, <1>3, <1>4 DEF AuthorityInv, AuthorityRowsTyped
<1>6. \A k \in 1 .. Len(ledger) : ledger[k] \in Invalidation
  BY LedgerRows DEF AuthorityInv
<1>7. MarkFits'
  <2>1. \A k \in 1 .. Len(ledger) : ledger[k].rev <= mark'.recRev
    <3>1. \A k \in 1 .. Len(ledger) : ledger[k].rev <= mark.recRev /\ ledger[k].rev \in Int
      BY <1>6, RevisionsAreNumbered DEF AuthorityInv, MarkFits, Invalidation, Revisions
    <3>2. mark.recRev \in Int /\ mark'.recRev \in Int
      BY <1>4, RevisionsAreNumbered DEF AuthorityInv, AuthorityRowsTyped, MarkRow, Revisions
    <3> QED BY <1>4, <3>1, <3>2
  <2> QED BY <1>2, <1>4, <2>1 DEF AuthorityInv, MarkFits
<1>8. LedgerIsBound'
  BY <1>1, <1>2, <1>3, <1>6 DEF AuthorityInv, LedgerIsBound, Bound, Invalidation
<1>9. ShowsProcessed' /\ AuthorityGrows
  <2>1. \A x \in Objects : (binding'[x].state = "INVALIDATED") <=> (binding[x].state = "INVALIDATED")
    BY <1>1, <1>2, <1>3
  <2> QED BY <1>2, <1>4, <2>1 DEF AuthorityInv, ShowsProcessed, AuthorityGrows, Entries
<1>10. PreviewsFit' /\ RecoveriesEarned'
  BY <1>2, PreviewsStay
<1> QED BY <1>5, <1>7, <1>8, <1>9, <1>10 DEF AuthorityInv

\* An event at a newer revision goes to the end of the ledger.
LEMMA RecordMoves ==
    ASSUME AuthorityInv, NEW inv \in Invalidation, Recordable(inv),
           ledger' = LedgerWith(inv), mark' = MarkWith(inv),
           UNCHANGED <<kernelRev, revoked, recomputes, contractVersion, binding, consumes,
                       materialized, revPreview, announced, recoveries, revoker>>
    PROVE  AuthorityInv' /\ AuthorityGrows /\ inv \in Entries'
<1> DEFINE n == Len(ledger)
<1>1. /\ n \in Nat /\ DOMAIN ledger = 1 .. n
      /\ \A k \in 1 .. n : ledger[k].rev \in Int
  BY LedgerRows DEF AuthorityInv
<1>2. /\ ledger' \in Seq(Invalidation) /\ Len(ledger') = n + 1 /\ ledger'[n + 1] = inv
      /\ \A k \in 1 .. n : ledger'[k] = ledger[k]
  BY AppendProperties DEF LedgerWith, AuthorityInv, AuthorityRowsTyped
<1>3. mark \in MarkRow /\ inv.rev \in Revisions
  BY DEF AuthorityInv, AuthorityRowsTyped, Invalidation
<1> HIDE DEF n
<1>4. /\ mark' \in MarkRow /\ mark'.recSeq = n + 1 /\ mark'.recRev = inv.rev
      /\ mark'.procSeq = mark.procSeq
  <2>1. n + 1 \in Nat /\ mark' = [mark EXCEPT !.recSeq = n + 1, !.recRev = inv.rev]
    BY <1>1 DEF MarkWith, n
  <2> QED BY <1>3, <2>1 DEF MarkRow
<1>5. AuthorityRowsTyped'
  BY <1>2, <1>4 DEF AuthorityInv, AuthorityRowsTyped
<1>6. /\ mark.recRev \in Int /\ inv.rev \in Int /\ inv.rev > mark.recRev
      /\ mark.procSeq \in Nat /\ mark.procSeq <= n
  BY <1>3, RevisionsAreNumbered DEF MarkRow, Revisions, Recordable, AuthorityInv, MarkFits, n
<1>7. \A k \in 1 .. n : ledger[k].rev < inv.rev /\ ledger[k].rev <= inv.rev
  <2>1. \A k \in 1 .. n : ledger[k].rev <= mark.recRev
    BY DEF AuthorityInv, MarkFits, n
  <2> QED BY <1>1, <1>6, <2>1
<1>8. \A k \in 1 .. n + 1 : k \in 1 .. n \/ k = n + 1
  BY <1>1
<1>9. MarkFits'
  <2>1. \A k \in 1 .. n + 1 : ledger'[k].rev <= inv.rev
    BY <1>2, <1>6, <1>7, <1>8
  <2>2. \A j, k \in 1 .. n + 1 : j < k => ledger'[j].rev < ledger'[k].rev
    <3> SUFFICES ASSUME NEW j \in 1 .. n + 1, NEW k \in 1 .. n + 1, j < k
                 PROVE  ledger'[j].rev < ledger'[k].rev
      OBVIOUS
    <3>1. j \in 1 .. n
      BY <1>1
    <3>2. CASE k \in 1 .. n
      BY <1>2, <3>1, <3>2 DEF AuthorityInv, MarkFits, n
    <3>3. CASE k = n + 1
      BY <1>2, <1>7, <3>1, <3>3
    <3> QED BY <1>8, <3>2, <3>3
  <2>3. mark'.procSeq <= n + 1
    BY <1>1, <1>4, <1>6
  <2> QED BY <1>2, <1>4, <2>1, <2>2, <2>3 DEF MarkFits
<1>10. LedgerIsBound'
  <2>1. \A o \in inv.affected : Bound(o)
    BY DEF Recordable, BindingsExist
  <2>2. \A k \in 1 .. n : \A o \in ledger[k].affected : Bound(o)
    BY DEF AuthorityInv, LedgerIsBound, n
  <2> QED BY <1>2, <1>8, <2>1, <2>2 DEF LedgerIsBound, Bound
<1>11. \A k \in 1 .. mark.procSeq : k \in 1 .. n /\ ledger'[k] = ledger[k]
  BY <1>1, <1>2, <1>6
<1>12. ShowsProcessed'
  BY <1>4, <1>11 DEF AuthorityInv, ShowsProcessed
<1>13. /\ DOMAIN ledger' = 1 .. n + 1 /\ n + 1 \in 1 .. n + 1
       /\ \A k \in 1 .. n : k \in 1 .. n + 1
  BY <1>1, <1>2, LenProperties
<1>14. AuthorityGrows /\ inv \in Entries'
  BY <1>1, <1>2, <1>13 DEF AuthorityGrows, Entries
<1>15. PreviewsFit' /\ RecoveriesEarned'
  BY PreviewsStay
<1> QED BY <1>5, <1>9, <1>10, <1>12, <1>14, <1>15 DEF AuthorityInv

\* CatchUp: the next event becomes visible in the bindings, with the watermark.
LEMMA CatchUpStep == ASSUME AuthorityInv, CatchUp PROVE AuthorityInv' /\ AuthorityGrows
<1> DEFINE n == Len(ledger)
<1>1. /\ n \in Nat /\ mark \in MarkRow /\ mark.procSeq \in Nat /\ mark.procSeq < n
      /\ UNCHANGED <<kernelRev, revoked, recomputes, contractVersion, consumes, ledger,
                     revPreview, announced, recoveries, revoker>>
  BY LedgerRows DEF CatchUp, AuthorityInv, AuthorityRowsTyped, MarkRow
<1>2. PICK p \in 1 .. n : p = mark.procSeq + 1
  BY <1>1
<1>3. PICK e \in Invalidation : e = ledger[p]
  BY <1>2, LedgerRows DEF AuthorityInv
<1>4. e.affected \subseteq Objects /\ e.rev \in Revisions
  BY DEF Invalidation
<1>5. /\ materialized' = materialized \cup ({e.rev} \X e.affected)
      /\ binding' = Materialize(e)
      /\ mark' = [mark EXCEPT !.procSeq = mark.procSeq + 1, !.procRev = e.rev]
  BY <1>2, <1>3 DEF CatchUp
<1>6. /\ mark' \in MarkRow /\ mark'.procSeq = p /\ mark'.recSeq = mark.recSeq /\ mark'.recRev = mark.recRev
  <2>1. p \in Nat /\ mark' = [mark EXCEPT !.procSeq = p, !.procRev = e.rev]
    BY <1>1, <1>2, <1>5
  <2> QED BY <1>1, <1>4, <2>1 DEF MarkRow
<1>7. ASSUME NEW o \in Objects
      PROVE  /\ binding'[o] \in BindingRow
             /\ o \in e.affected => binding'[o].state = "INVALIDATED"
             /\ o \notin e.affected => binding'[o] = binding[o]
             /\ binding[o].state = "INVALIDATED" => binding'[o].state = "INVALIDATED"
             /\ Bound(o) => binding'[o].state # "NONE"
  <2>1. binding[o] \in BindingRow
    BY DEF AuthorityInv, AuthorityRowsTyped
  <2>2. binding'[o] = IF o \in e.affected /\ binding[o].state = "VALID"
                      THEN [binding[o] EXCEPT !.state = "INVALIDATED"] ELSE binding[o]
    BY <1>5 DEF Materialize
  <2>3. o \in e.affected => Bound(o)
    BY <1>2, <1>3 DEF AuthorityInv, LedgerIsBound
  <2> QED BY <2>1, <2>2, <2>3 DEF BindingRow, Bound
<1>8. binding' \in [Objects -> BindingRow]
  BY <1>5, <1>7 DEF Materialize
<1>9. AuthorityRowsTyped'
  BY <1>1, <1>4, <1>5, <1>6, <1>8 DEF AuthorityInv, AuthorityRowsTyped
<1>10. MarkFits'
  BY <1>1, <1>2, <1>6 DEF AuthorityInv, MarkFits
<1>11. LedgerIsBound'
  BY <1>1, <1>7, LedgerRows DEF AuthorityInv, LedgerIsBound, Bound
<1>12. ShowsProcessed'
  <2>1. \A k \in 1 .. p : k \in 1 .. mark.procSeq \/ k = p
    BY <1>1, <1>2
  <2>2. (\A k \in 1 .. mark.procSeq : k \in 1 .. p) /\ p \in 1 .. p
    BY <1>1, <1>2
  <2>3. \A m \in materialized' : \E k \in 1 .. p : m[1] = ledger[k].rev /\ m[2] \in ledger[k].affected
    <3> TAKE m \in materialized'
    <3>1. CASE m \in materialized
      BY <2>2, <3>1 DEF AuthorityInv, ShowsProcessed
    <3>2. CASE m \in {e.rev} \X e.affected
      BY <1>3, <2>2, <3>2
    <3> QED BY <1>5, <3>1, <3>2
  <2>4. \A k \in 1 .. p : \A o \in ledger[k].affected : <<ledger[k].rev, o>> \in materialized'
    <3> TAKE k \in 1 .. p
    <3>1. CASE k \in 1 .. mark.procSeq
      BY <1>5, <3>1 DEF AuthorityInv, ShowsProcessed
    <3>2. CASE k = p
      BY <1>3, <1>5, <3>2
    <3> QED BY <2>1, <3>1, <3>2
  <2>5. \A o \in Objects : (binding'[o].state = "INVALIDATED") <=> (\E m \in materialized' : m[2] = o)
    <3> TAKE o \in Objects
    <3>1. CASE o \in e.affected
      <4>1. <<e.rev, o>> \in materialized'
        BY <1>5, <3>1
      <4> QED BY <1>7, <3>1, <4>1
    <3>2. CASE o \notin e.affected
      <4>1. (\E m \in materialized' : m[2] = o) <=> (\E m \in materialized : m[2] = o)
        BY <1>5, <3>2
      <4> QED BY <1>7, <3>2, <4>1 DEF AuthorityInv, ShowsProcessed
    <3> QED BY <3>1, <3>2
  <2> QED BY <1>1, <1>6, <2>3, <2>4, <2>5 DEF ShowsProcessed
<1>13. AuthorityGrows
  BY <1>1, <1>7 DEF AuthorityGrows, Entries
<1>14. PreviewsFit' /\ RecoveriesEarned'
  BY <1>1, PreviewsStay
<1> QED BY <1>9, <1>10, <1>11, <1>12, <1>13, <1>14 DEF AuthorityInv

\* What a step that leaves the ledger, the watermark and the bindings alone keeps.
LEMMA AuthorityKeeps ==
    ASSUME AuthorityInv, UNCHANGED <<ledger, mark, materialized, binding>>,
           AuthorityRowsTyped', PreviewsFit', RecoveriesEarned'
    PROVE  AuthorityInv' /\ AuthorityGrows
<1>1. \A o \in Objects : Bound(o) => Bound(o)'
  BY DEF Bound
<1>2. MarkFits' /\ LedgerIsBound' /\ ShowsProcessed' /\ AuthorityGrows
  BY <1>1, LedgerStays
<1> QED BY <1>2 DEF AuthorityInv

\* RegisterFactDependency only adds a row.
LEMMA DependencyStep ==
    ASSUME AuthorityInv, NEW o \in Objects, NEW f \in Facts, RegisterFactDependency(o, f)
    PROVE  AuthorityInv' /\ AuthorityGrows
<1>1. AuthorityRowsTyped'
  BY DEF RegisterFactDependency, AuthorityInv, AuthorityRowsTyped
<1>2. PreviewsFit' /\ RecoveriesEarned'
  BY PreviewsStay DEF RegisterFactDependency
<1> QED BY <1>1, <1>2, AuthorityKeeps DEF RegisterFactDependency

\* PreviewRevoke: the fact still stands, so its last preview was never confirmed.
LEMMA PreviewStep ==
    ASSUME AuthorityInv, NEW f \in Facts, PreviewRevoke(f)
    PROVE  AuthorityInv' /\ AuthorityGrows
<1> DEFINE row == [closure |-> Closure(f), state |-> "ACTIVE"]
           me == [pc |-> "apply", fact |-> f, rev |-> 0]
<1>1. Closure(f) \in [rev : Revisions, facts : SUBSET Facts, version : Nat]
  BY ClosureHoldsItsTarget DEF Closure, AuthorityInv, AuthorityRowsTyped
<1>2. row \in RevokePreview /\ row.state = "ACTIVE" /\ row # NoPreview
  BY <1>1, NoPreviewIsNoFact DEF RevokePreview
<1>3. me \in RevokerRow /\ me.pc = "apply" /\ me.fact = f
  BY RevisionsAreNumbered DEF RevokerRow, Revisions
<1>4. /\ revPreview' = [revPreview EXCEPT ![f] = row] /\ revoker' = me /\ f \notin revoked
      /\ UNCHANGED <<kernelRev, revoked, recomputes, contractVersion, binding, consumes, ledger,
                     mark, materialized, announced, recoveries>>
  BY DEF PreviewRevoke
<1> HIDE DEF row, me
<1>5. /\ revPreview' \in [Facts -> RevokePreview \cup {NoPreview}] /\ revPreview'[f] = row
      /\ \A g \in Facts \ {f} : revPreview'[g] = revPreview[g]
  BY <1>2, <1>4 DEF AuthorityInv, AuthorityRowsTyped
<1>6. AuthorityRowsTyped'
  BY <1>3, <1>4, <1>5 DEF AuthorityInv, AuthorityRowsTyped
<1>7. PreviewsFit'
  BY <1>2, <1>3, <1>4, <1>5 DEF AuthorityInv, PreviewsFit
<1>8. RecoveriesEarned'
  <2> SUFFICES ASSUME NEW m \in recoveries PROVE \E g \in revoked : TargetBound(m[1], g)'
    BY <1>4 DEF RecoveriesEarned
  <2>1. PICK g \in revoked : TargetBound(m[1], g)
    BY DEF AuthorityInv, RecoveriesEarned
  <2>2. g \in Facts \ {f}
    BY <1>4 DEF AuthorityInv, AuthorityRowsTyped
  <2>3. revPreview'[g] = revPreview[g]
    BY <1>5, <2>2
  <2>4. TargetBound(m[1], g)'
    BY <1>4, <2>1, <2>3 DEF TargetBound
  <2> QED BY <2>4
<1> QED BY <1>4, <1>6, <1>7, <1>8, AuthorityKeeps

\* KernelRevokes: the facts that fall are revoked from then on.
LEMMA RevokeStep ==
    ASSUME AuthorityInv, KernelRevokes
    PROVE  AuthorityInv' /\ AuthorityGrows
<1>1. /\ revoker \in RevokerRow /\ revoker.fact \in Facts /\ kernelRev \in Revisions
      /\ kernelRev + 1 \in Revisions
  BY RevisionsAreNumbered DEF KernelRevokes, AuthorityInv, AuthorityRowsTyped, PreviewsFit, Revisions
<1>2. PICK n \in Revisions : n = kernelRev + 1
  BY <1>1
<1>3. /\ revoker' = [revoker EXCEPT !.pc = "confirm", !.rev = n] /\ kernelRev' = n
      /\ revoked' = revoked \cup ReverseClosure[revoker.fact] /\ revoker.pc = "apply"
      /\ UNCHANGED <<recomputes, contractVersion, binding, consumes, ledger, mark,
                     materialized, revPreview, announced, recoveries>>
  BY <1>2 DEF KernelRevokes
<1>4. revoker' \in RevokerRow /\ revoker'.fact = revoker.fact /\ revoker'.pc = "confirm"
  BY <1>1, <1>3 DEF RevokerRow
<1>5. /\ revoked' \subseteq Facts /\ revoked \subseteq revoked' /\ revoker.fact \in revoked'
  BY <1>1, <1>3, ClosureHoldsItsTarget DEF AuthorityInv, AuthorityRowsTyped
<1>6. AuthorityRowsTyped'
  BY <1>3, <1>4, <1>5 DEF AuthorityInv, AuthorityRowsTyped
<1>7. PreviewsFit'
  BY <1>1, <1>3, <1>4, <1>5 DEF AuthorityInv, PreviewsFit
<1>8. RecoveriesEarned'
  BY <1>3, <1>5 DEF AuthorityInv, RecoveriesEarned, TargetBound
<1> QED BY <1>3, <1>6, <1>7, <1>8, AuthorityKeeps

\* The idle handler is a row and holds no preview.
LEMMA IdleRevokerRow == IdleRevoker \in RevokerRow /\ IdleRevoker.pc = "idle"
  BY RevisionsAreNumbered DEF IdleRevoker, RevokerRow, Revisions

\* RevokerStops: the preview stays ACTIVE.
LEMMA RevokerStopsStep ==
    ASSUME AuthorityInv, RevokerStops
    PROVE  AuthorityInv' /\ AuthorityGrows
<1>1. AuthorityRowsTyped'
  BY IdleRevokerRow DEF RevokerStops, AuthorityInv, AuthorityRowsTyped
<1>2. PreviewsFit'
  BY IdleRevokerRow DEF RevokerStops, AuthorityInv, PreviewsFit
<1>3. RecoveriesEarned'
  BY DEF RevokerStops, AuthorityInv, RecoveriesEarned, TargetBound
<1> QED BY <1>1, <1>2, <1>3, AuthorityKeeps DEF RevokerStops

\* The handler closes its preview, which was ACTIVE, and is idle again.
LEMMA PreviewCloses ==
    ASSUME AuthorityInv, NEW s \in {"STALE", "CONSUMED"}, revoker.pc = "confirm",
           revPreview' = [revPreview EXCEPT ![revoker.fact].state = s], revoker' = IdleRevoker,
           announced' \subseteq Invalidation,
           UNCHANGED <<kernelRev, revoked, recomputes, contractVersion, binding, consumes, ledger,
                       mark, materialized, recoveries>>
    PROVE  AuthorityInv' /\ AuthorityGrows
<1>1. PICK f \in Facts : f = revoker.fact
  BY DEF AuthorityInv, PreviewsFit
<1>2. revPreview[f] \in RevokePreview /\ revPreview[f].state = "ACTIVE" /\ f \in revoked
  BY <1>1 DEF AuthorityInv, PreviewsFit, AuthorityRowsTyped
<1> DEFINE row == [revPreview[f] EXCEPT !.state = s]
<1>3. row \in RevokePreview /\ row.state = s
  BY <1>2 DEF RevokePreview
<1>4. revPreview' = [revPreview EXCEPT ![f] = row]
  BY <1>1
<1> HIDE DEF row
<1>5. /\ revPreview' \in [Facts -> RevokePreview \cup {NoPreview}] /\ revPreview'[f] = row
      /\ \A g \in Facts \ {f} : revPreview'[g] = revPreview[g]
  BY <1>3, <1>4 DEF AuthorityInv, AuthorityRowsTyped
<1>6. AuthorityRowsTyped'
  BY <1>5, IdleRevokerRow DEF AuthorityInv, AuthorityRowsTyped
<1>7. PreviewsFit'
  BY <1>2, <1>5, IdleRevokerRow DEF AuthorityInv, PreviewsFit
<1>8. RecoveriesEarned'
  <2> SUFFICES ASSUME NEW m \in recoveries PROVE \E g \in revoked : TargetBound(m[1], g)'
    BY DEF RecoveriesEarned
  <2>1. PICK g \in revoked : TargetBound(m[1], g)
    BY DEF AuthorityInv, RecoveriesEarned
  <2>2. g \in Facts \ {f}
    BY <1>2, <2>1 DEF AuthorityInv, AuthorityRowsTyped, TargetBound
  <2> QED BY <1>5, <2>1, <2>2 DEF TargetBound
<1> QED BY <1>6, <1>7, <1>8, AuthorityKeeps

\* What a confirmed revocation announces is an invalidation.
LEMMA RevocationTyped ==
    ASSUME AuthorityInv, NEW p
    PROVE  RevocationOf(p) \in Invalidation
  BY DEF RevocationOf, ObjectsFor, Invalidation, AuthorityInv, AuthorityRowsTyped, RevokerRow

\* RecoverWithReplacement: the object depended on a confirmed revocation.
LEMMA RecoverStep ==
    ASSUME AuthorityInv, NEW o \in Objects, NEW f \in Facts, RecoverWithReplacement(o, f)
    PROVE  AuthorityInv' /\ AuthorityGrows
<1>1. AuthorityRowsTyped'
  BY DEF RecoverWithReplacement, AuthorityInv, AuthorityRowsTyped
<1>2. PreviewsFit'
  BY DEF RecoverWithReplacement, AuthorityInv, PreviewsFit
<1>3. RecoveriesEarned'
  <2>1. f \in revoked
    BY DEF RecoverWithReplacement, TargetBound, AuthorityInv, PreviewsFit
  <2>2. \A x, g : TargetBound(x, g) => TargetBound(x, g)'
    BY DEF RecoverWithReplacement, TargetBound
  <2>3. recoveries' = recoveries \cup {<<o, kernelRev>>} /\ revoked' = revoked /\ TargetBound(o, f)
    BY DEF RecoverWithReplacement
  <2>4. ASSUME NEW m \in recoveries' PROVE \E g \in revoked : TargetBound(m[1], g)
    BY <2>1, <2>3 DEF AuthorityInv, RecoveriesEarned
  <2> QED BY <2>2, <2>3, <2>4 DEF RecoveriesEarned
<1> QED BY <1>1, <1>2, <1>3, AuthorityKeeps DEF RecoverWithReplacement

\* The kernel commits another command.
LEMMA KernelMovesStep ==
    ASSUME AuthorityInv, kernelRev' \in Revisions,
           UNCHANGED <<revoked, recomputes, contractVersion, binding, consumes, ledger, mark,
                       materialized, revPreview, announced, recoveries, revoker>>
    PROVE  AuthorityInv' /\ AuthorityGrows
<1>1. AuthorityRowsTyped'
  BY DEF AuthorityInv, AuthorityRowsTyped
<1>2. PreviewsFit' /\ RecoveriesEarned'
  BY PreviewsStay
<1> QED BY <1>1, <1>2, AuthorityKeeps

\* A contract takes another version.
LEMMA VersionMoves ==
    ASSUME AuthorityInv, contractVersion' \in Nat,
           UNCHANGED <<kernelRev, revoked, recomputes, binding, consumes, ledger, mark,
                       materialized, revPreview, announced, recoveries, revoker>>
    PROVE  AuthorityInv' /\ AuthorityGrows
<1>1. AuthorityRowsTyped'
  BY DEF AuthorityInv, AuthorityRowsTyped
<1>2. PreviewsFit' /\ RecoveriesEarned'
  BY PreviewsStay
<1> QED BY <1>1, <1>2, AuthorityKeeps

\* The revision after the kernel's.
LEMMA NextRevision == ASSUME AuthorityInv, kernelRev < MaxRevision PROVE kernelRev + 1 \in Revisions
  BY RevisionsAreNumbered DEF AuthorityInv, AuthorityRowsTyped, Revisions

\* One step of the engine, of the revocation handler or of the kernel.
LEMMA AuthorityStep ==
    ASSUME AuthorityInv, AuthorityNext
    PROVE  AuthorityInv' /\ AuthorityGrows
<1>1. ASSUME NEW o \in Objects, NEW rev \in Revisions, RegisterBinding(o, rev)
      PROVE  AuthorityInv' /\ AuthorityGrows
  BY <1>1, RegisterStep
<1>2. ASSUME NEW o \in Objects, NEW f \in Facts, RegisterFactDependency(o, f)
      PROVE  AuthorityInv' /\ AuthorityGrows
  BY <1>2, DependencyStep
<1>3. ASSUME NEW o \in Objects, NEW f \in Facts, RecoverWithReplacement(o, f)
      PROVE  AuthorityInv' /\ AuthorityGrows
  BY <1>3, RecoverStep
<1>4. ASSUME NEW f \in Facts, PreviewRevoke(f) PROVE AuthorityInv' /\ AuthorityGrows
  BY <1>4, PreviewStep
<1>5. CASE KernelRevokes
  BY <1>5, RevokeStep
<1>6. CASE ConfirmStale
  <2>1. announced' \subseteq Invalidation
    BY <1>6 DEF ConfirmStale, AuthorityInv, AuthorityRowsTyped
  <2> QED BY <1>6, <2>1, PreviewCloses DEF ConfirmStale
<1>7. CASE Confirm
  <2>1. announced' \subseteq Invalidation
    BY <1>7, RevocationTyped DEF Confirm, AuthorityInv, AuthorityRowsTyped
  <2> QED BY <1>7, <2>1, PreviewCloses DEF Confirm
<1>8. CASE RevokerStops
  BY <1>8, RevokerStopsStep
<1>9. ASSUME NEW inv \in announced, ConsumeRevocation(inv) PROVE AuthorityInv' /\ AuthorityGrows
  <2>1. inv \in Invalidation
    BY DEF AuthorityInv, AuthorityRowsTyped
  <2> QED BY <1>9, <2>1, RecordMoves DEF ConsumeRevocation
<1>10. CASE CatchUp
  BY <1>10, CatchUpStep
<1>11. CASE KernelMoves
  BY <1>11, NextRevision, KernelMovesStep DEF KernelMoves
<1> QED BY <1>1, <1>2, <1>3, <1>4, <1>5, <1>6, <1>7, <1>8, <1>9, <1>10, <1>11 DEF AuthorityNext

\* An empty ledger.
LEMMA AuthorityStarts == AuthorityInit => AuthorityInv
<1> SUFFICES ASSUME AuthorityInit PROVE AuthorityInv
  OBVIOUS
<1>1. 0 \in Revisions
  BY RevisionsAreNumbered DEF Revisions
<1>2. ledger \in Seq(Invalidation) /\ Len(ledger) = 0
  BY DEF AuthorityInit
<1>3. Unbound \in BindingRow /\ Unbound.state = "NONE"
  BY <1>1 DEF Unbound, BindingRow
<1>4. mark \in MarkRow /\ mark.recSeq = 0 /\ mark.procSeq = 0
  BY <1>1 DEF AuthorityInit, MarkRow
<1>5. AuthorityRowsTyped
  BY <1>1, <1>2, <1>3, <1>4, IdleRevokerRow DEF AuthorityInit, AuthorityRowsTyped
<1>6. MarkFits /\ LedgerIsBound
  BY <1>2, <1>4 DEF MarkFits, LedgerIsBound
<1>7. ShowsProcessed
  BY <1>3, <1>4 DEF AuthorityInit, ShowsProcessed
<1>8. PreviewsFit /\ RecoveriesEarned
  BY IdleRevokerRow DEF AuthorityInit, PreviewsFit, RecoveriesEarned
<1> QED BY <1>5, <1>6, <1>7, <1>8 DEF AuthorityInv

\* The greatest of a set of revisions is one of them.
LEMMA MaxRevisionOf ==
    ASSUME NEW S, S \subseteq Revisions, S # {}
    PROVE  Max(S) \in S /\ \A y \in S : y <= Max(S)
<1>1. \E x \in S : \A y \in S : y <= x
  BY GreatestNatural, RevisionsAreNumbered DEF Revisions
<1>2. \E x \in S : \A y \in S : x >= y
  BY <1>1, RevisionsAreNumbered DEF Revisions
<1>3. /\ (CHOOSE x \in S : \A y \in S : x >= y) \in S
      /\ \A y \in S : (CHOOSE x \in S : \A z \in S : x >= z) >= y
  BY <1>2
<1> QED BY <1>3, RevisionsAreNumbered DEF Max, Revisions

\* The invariant of the proof says what the property says.
LEMMA AuthorityInvImplies == AuthorityInv => WithdrawnIsNotConsumable
<1> SUFFICES ASSUME AuthorityInv PROVE WithdrawnIsNotConsumable
  OBVIOUS
<1>1. /\ Len(ledger) \in Nat /\ DOMAIN ledger = 1 .. Len(ledger)
      /\ \A k \in 1 .. Len(ledger) : /\ ledger[k] \in Invalidation /\ ledger[k].affected \subseteq Objects
                                    /\ ledger[k].rev \in Revisions
  BY LedgerRows DEF AuthorityInv
<1>2. mark \in MarkRow /\ mark.procSeq \in Nat /\ mark.procSeq <= Len(ledger) /\ mark.recSeq = Len(ledger)
  BY DEF AuthorityInv, AuthorityRowsTyped, MarkFits, MarkRow
<1>3. AuthorityTypeOK
  <2>1. mark \in [recSeq : 0..Len(ledger), recRev : Revisions, procSeq : 0..Len(ledger), procRev : Revisions]
    <3>1. mark.recSeq \in 0..Len(ledger) /\ mark.procSeq \in 0..Len(ledger)
      BY <1>1, <1>2
    <3> QED BY <1>2, <3>1 DEF MarkRow
  <2>2. \A o \in Objects : binding[o].state \in {"NONE", "VALID", "INVALIDATED"}
    BY DEF AuthorityInv, AuthorityRowsTyped, BindingRow
  <2> QED BY <1>1, <2>1, <2>2 DEF AuthorityInv, AuthorityRowsTyped, AuthorityTypeOK, RevokerRow
<1>4. ASSUME NEW e \in Entries, NEW o \in Objects, NEW rev \in Revisions, o \in e.affected
      PROVE  ~Consumable(o, rev)
  <2> SUFFICES ASSUME mark.procSeq >= mark.recSeq, binding[o].state = "VALID" PROVE FALSE
    BY DEF Consumable
  <2>1. PICK k \in 1 .. Len(ledger) : e = ledger[k]
    BY <1>1 DEF Entries
  <2>2. k \in 1 .. mark.procSeq
    BY <1>1, <1>2
  <2>3. <<ledger[k].rev, o>> \in materialized
    BY <1>4, <2>1, <2>2 DEF AuthorityInv, ShowsProcessed
  <2> QED BY <2>3 DEF AuthorityInv, ShowsProcessed
<1>5. materialized = UNION {{ledger[k].rev} \X ledger[k].affected : k \in 1..mark.procSeq}
  <2>1. ASSUME NEW m \in materialized
        PROVE  m \in UNION {{ledger[k].rev} \X ledger[k].affected : k \in 1..mark.procSeq}
    <3>1. PICK k \in 1 .. mark.procSeq : m[1] = ledger[k].rev /\ m[2] \in ledger[k].affected
      BY DEF AuthorityInv, ShowsProcessed
    <3>2. m = <<m[1], m[2]>>
      BY DEF AuthorityInv, AuthorityRowsTyped
    <3>3. m \in {ledger[k].rev} \X ledger[k].affected
      BY <3>1, <3>2
    <3> QED BY <3>3
  <2>2. ASSUME NEW k \in 1 .. mark.procSeq PROVE {ledger[k].rev} \X ledger[k].affected \subseteq materialized
    BY DEF AuthorityInv, ShowsProcessed
  <2> QED BY <2>1, <2>2
<1>6. ASSUME NEW o \in Objects, EffectiveState(o) = "RESTORED" PROVE \E f \in revoked : TargetBound(o, f)
  <2> DEFINE lost == {m[1] : m \in {x \in materialized : x[2] = o}}
             back == {m[2] : m \in {x \in recoveries : x[1] = o}}
  <2>1. Max({0} \cup back) > Max({0} \cup lost)
    BY <1>6 DEF EffectiveState, AuthorityInv, AuthorityRowsTyped, BindingRow
  <2>2. {0} \cup back \subseteq Revisions /\ {0} \cup lost \subseteq Revisions
    BY RevisionsAreNumbered DEF AuthorityInv, AuthorityRowsTyped, Revisions
  <2>3. back # {}
    <3> SUFFICES ASSUME back = {} PROVE FALSE
      OBVIOUS
    <3>1. Max({0} \cup back) = 0
      <4>1. Max({0} \cup back) \in {0} \cup back
        BY <2>2, MaxRevisionOf
      <4> QED BY <4>1
    <3>2. Max({0} \cup lost) \in Revisions
      <4> HIDE DEF lost
      <4>1. {0} \cup lost # {}
        OBVIOUS
      <4> QED BY <2>2, <4>1, MaxRevisionOf
    <3> HIDE DEF lost, back
    <3> QED BY <2>1, <3>1, <3>2, RevisionsAreNumbered DEF Revisions
  <2>4. PICK m \in recoveries : m[1] = o
    BY <2>3
  <2> QED BY <2>4 DEF AuthorityInv, RecoveriesEarned
<1>7. /\ \A o \in Objects : (binding[o].state = "INVALIDATED") <=> (\E m \in materialized : m[2] = o)
      /\ \A j, k \in DOMAIN ledger : j < k => ledger[j].rev < ledger[k].rev
  BY <1>1 DEF AuthorityInv, ShowsProcessed, MarkFits
<1> QED BY <1>3, <1>4, <1>5, <1>6, <1>7 DEF WithdrawnIsNotConsumable

-----------------------------------------------------------------------------
(* Contract revisions                                                       *)

VersionStates == {"NONE", "AMBIGUOUS", "DRAFT", "CONFIRMED", "PENDING_INVALIDATION", "SUPERSEDED"}
AmenderRow == [pc : {"idle", "apply", "consume", "verify", "finalize"}, rev : Revisions]

ContractRowsTyped ==
    /\ contractVersion \in 0..MaxVersions /\ versions \in [Versions -> VersionStates]
    /\ ambiguous \subseteq Fields /\ refs \subseteq Reference /\ adding \in [RefIds -> 0..MaxVersions]
    /\ fieldDeps \subseteq Versions \X Fields \X Objects
    /\ revisions \in [RevPreviews -> RevisionRow \cup {NoPreview}]
    /\ amender \in [RevPreviews -> AmenderRow] /\ earned \in [Versions -> SUBSET Fields]

\* The versions before the current one are superseded, the one after it may be in preparation.
VersionFits(v) ==
    /\ (versions[v] = "SUPERSEDED") <=> (v < contractVersion)
    /\ v = contractVersion => versions[v] \in {"AMBIGUOUS", "DRAFT", "CONFIRMED"}
    /\ v = contractVersion + 1 => versions[v] \in {"NONE", "PENDING_INVALIDATION"}
    /\ v > contractVersion + 1 => versions[v] = "NONE"
    /\ contractVersion = 0 => versions[v] = "NONE"

InState(p, s) == revisions[p] # NoPreview /\ revisions[p].state = s

\* A revision under way is of the current version, which is confirmed.
ApplyingFits(p) ==
    InState(p, "APPLYING") => /\ revisions[p].base = contractVersion /\ revisions[p].base + 1 \in Versions
                              /\ versions[revisions[p].base] = "CONFIRMED"
                              /\ versions[revisions[p].base + 1] = "PENDING_INVALIDATION"

\* How far the handler came, and what must be true by then.
AmenderFits(p) ==
    /\ amender[p].pc # "idle" => revisions[p] # NoPreview
    /\ amender[p].pc \in {"consume", "verify", "finalize"} => InState(p, "APPLYING")
    /\ amender[p].pc \in {"verify", "finalize"} => RevisionOf(p) \in Entries
    /\ amender[p].pc = "finalize" => \A o \in revisions[p].affected : binding[o].state = "INVALIDATED"

AppliedFits(p) ==
    InState(p, "APPLIED") =>
        /\ revisions[p].base < contractVersion /\ revisions[p].base + 1 \in Versions
        /\ RevisionOf(p) \in Entries
        /\ \A o \in revisions[p].affected : binding[o].state = "INVALIDATED"
        /\ versions[revisions[p].base + 1] \in {"CONFIRMED", "SUPERSEDED"} =>
              revisions[p].changed \subseteq earned[revisions[p].base + 1]

RevisionFits(p) == ApplyingFits(p) /\ AmenderFits(p) /\ AppliedFits(p)

\* No two revisions are under way, and no two were applied to one version.
RevisionsTakeTurns ==
    \A p, q \in RevPreviews : p # q =>
        /\ ~(InState(p, "APPLYING") /\ InState(q, "APPLYING"))
        /\ InState(p, "APPLIED") /\ InState(q, "APPLIED") => revisions[p].base # revisions[q].base

ContractInv ==
    /\ AuthorityInv /\ ContractRowsTyped
    /\ \A v \in Versions : VersionFits(v)
    /\ \A p \in RevPreviews : RevisionFits(p)
    /\ RevisionsTakeTurns

\* The fields of a revision.
LEMMA RevisionFields ==
    ASSUME ContractRowsTyped, NEW p \in RevPreviews, revisions[p] # NoPreview
    PROVE  /\ revisions[p] \in RevisionRow /\ revisions[p].base \in Versions /\ revisions[p].base \in Int
           /\ revisions[p].base >= 1 /\ revisions[p].base <= MaxVersions
           /\ RevisionOf(p) \in Invalidation
<1>1. revisions[p] \in RevisionRow
  BY DEF ContractRowsTyped
<1>2. revisions[p].base \in Versions
  BY <1>1 DEF RevisionRow
<1>3. RevisionOf(p) \in Invalidation
  BY <1>1 DEF RevisionRow, RevisionOf, Invalidation
<1> QED BY <1>1, <1>2, <1>3, RevisionRows DEF Versions

\* What is known of a revision stays known while its row, its handler and the versions stay.
LEMMA RevisionStays ==
    ASSUME ContractInv, AuthorityGrows, NEW p \in RevPreviews, revisions'[p] = revisions[p],
           amender'[p] = amender[p] \/ amender'[p].pc = "idle",
           UNCHANGED <<contractVersion, versions, earned>>
    PROVE  RevisionFits(p)'
<1>1. RevisionFits(p)
  BY DEF ContractInv
<1>2. \A s : InState(p, s)' <=> InState(p, s)
  BY DEF InState
<1>3. /\ RevisionOf(p)' = RevisionOf(p) /\ (RevisionOf(p) \in Entries => RevisionOf(p) \in Entries')
  BY DEF RevisionOf, AuthorityGrows
<1>4. ASSUME revisions[p] # NoPreview, \A o \in revisions[p].affected : binding[o].state = "INVALIDATED"
      PROVE  \A o \in revisions[p].affected : binding'[o].state = "INVALIDATED"
  <2>1. revisions[p].affected \subseteq Objects
    BY <1>4, RevisionFields DEF ContractInv, RevisionRow
  <2> QED BY <1>4, <2>1 DEF AuthorityGrows
<1>5. ApplyingFits(p)'
  BY <1>1, <1>2 DEF RevisionFits, ApplyingFits
<1>6. AmenderFits(p)'
  <2>1. CASE amender'[p].pc = "idle"
    BY <2>1 DEF AmenderFits
  <2>2. CASE amender'[p] = amender[p]
    BY <1>1, <1>2, <1>3, <1>4, <2>2 DEF RevisionFits, AmenderFits
  <2> QED BY <2>1, <2>2
<1>7. AppliedFits(p)'
  BY <1>1, <1>2, <1>3, <1>4 DEF RevisionFits, AppliedFits, InState
<1> QED BY <1>5, <1>6, <1>7 DEF RevisionFits

\* A step that moves neither versions nor revisions.
LEMMA ContractKeeps ==
    ASSUME ContractInv, AuthorityInv', AuthorityGrows, ContractRowsTyped',
           \A p \in RevPreviews : amender'[p] = amender[p] \/ amender'[p].pc = "idle",
           UNCHANGED <<contractVersion, versions, revisions, earned>>
    PROVE  ContractInv'
<1>1. \A p \in RevPreviews : RevisionFits(p)'
  BY RevisionStays
<1>2. \A v \in Versions : VersionFits(v)'
  BY DEF ContractInv, VersionFits
<1>3. RevisionsTakeTurns'
  BY DEF ContractInv, RevisionsTakeTurns, InState
<1> QED BY <1>1, <1>2, <1>3 DEF ContractInv

\* Nothing of the authority side moves.
LEMMA AuthorityStays == ASSUME AuthorityInv, UNCHANGED authorityVars PROVE AuthorityInv' /\ AuthorityGrows
<1>1. AuthorityRowsTyped'
  BY DEF AuthorityInv, AuthorityRowsTyped, authorityVars
<1>2. PreviewsFit' /\ RecoveriesEarned'
  BY PreviewsStay DEF authorityVars
<1> QED BY <1>1, <1>2, AuthorityKeeps DEF authorityVars

\* The current version is a number, and so is the one after it.
LEMMA VersionNumbers ==
    ASSUME ContractRowsTyped
    PROVE  /\ contractVersion \in Nat /\ contractVersion <= MaxVersions /\ MaxVersions \in Nat
           /\ contractVersion > 0 => contractVersion \in Versions
           /\ \A v \in Versions : v \in Int /\ v >= 1 /\ v <= MaxVersions
  BY RevisionRows DEF ContractRowsTyped, Versions

\* CreateDraft: the first version; nothing was under revision before it.
LEMMA CreateDraftStep ==
    ASSUME ContractInv, NEW open \in SUBSET Fields, CreateDraft(open)
    PROVE  ContractInv'
<1>1. contractVersion = 0 /\ 1 \in Versions /\ contractVersion' = 1
  BY VersionNumbers, RevisionRows DEF CreateDraft, HasContract, ContractInv, Versions
<1>2. AuthorityInv' /\ AuthorityGrows
  BY <1>1, VersionMoves DEF CreateDraft, ContractInv
<1>3. PICK s \in {"AMBIGUOUS", "DRAFT"} : versions' = [versions EXCEPT ![1] = s]
  BY DEF CreateDraft
<1>4. /\ versions' \in [Versions -> VersionStates] /\ versions'[1] = s
      /\ \A v \in Versions \ {1} : versions'[v] = "NONE"
  BY <1>1, <1>3 DEF ContractInv, ContractRowsTyped, VersionStates, VersionFits
<1>5. ContractRowsTyped'
  BY <1>1, <1>4, RevisionRows DEF ContractInv, ContractRowsTyped, CreateDraft
<1>6. \A v \in Versions : VersionFits(v)'
  <2> TAKE v \in Versions
  <2>1. v \in Int /\ v >= 1
    BY VersionNumbers DEF ContractInv
  <2> QED BY <1>1, <1>4, <2>1 DEF VersionFits
<1>7. \A p \in RevPreviews : ~InState(p, "APPLYING") /\ ~InState(p, "APPLIED")
  <2> TAKE p \in RevPreviews
  <2>1. revisions[p] # NoPreview => revisions[p].base \in Int /\ revisions[p].base >= 1
    BY RevisionFields DEF ContractInv
  <2> QED BY <1>1, <2>1 DEF ContractInv, RevisionFits, ApplyingFits, AppliedFits, InState
<1>8. \A p \in RevPreviews : RevisionFits(p)' /\ ~InState(p, "APPLYING")' /\ ~InState(p, "APPLIED")'
  <2> TAKE p \in RevPreviews
  <2>1. revisions' = revisions /\ amender' = amender
    BY DEF CreateDraft
  <2>2. ~InState(p, "APPLYING")' /\ ~InState(p, "APPLIED")'
    BY <1>7, <2>1 DEF InState
  <2>3. AmenderFits(p)'
    BY <1>7, <2>1 DEF ContractInv, RevisionFits, AmenderFits
  <2> QED BY <2>2, <2>3 DEF RevisionFits, ApplyingFits, AppliedFits
<1>9. RevisionsTakeTurns'
  BY <1>8 DEF RevisionsTakeTurns
<1> QED BY <1>2, <1>5, <1>6, <1>8, <1>9 DEF ContractInv

\* ResolveAmbiguity: the last one makes the first version a draft.
LEMMA ResolveStep ==
    ASSUME ContractInv, NEW f \in Fields, ResolveAmbiguity(f)
    PROVE  ContractInv'
<1>1. AuthorityInv' /\ AuthorityGrows
  BY AuthorityStays DEF ResolveAmbiguity, ContractInv
<1>2. contractVersion' = contractVersion /\ UNCHANGED <<refs, adding, fieldDeps, revisions, amender, earned>>
  BY DEF ResolveAmbiguity, authorityVars
<1>3. 1 \in Versions
  BY RevisionRows DEF Versions
<1>4. CASE versions' = versions
  <2>1. ContractRowsTyped'
    BY <1>2, <1>4 DEF ContractInv, ContractRowsTyped, ResolveAmbiguity
  <2> QED BY <1>1, <1>2, <1>4, <2>1, ContractKeeps
<1>5. CASE versions[1] = "AMBIGUOUS" /\ versions' = [versions EXCEPT ![1] = "DRAFT"]
  <2>1. contractVersion = 1
    <3>1. VersionFits(1)
      BY <1>3 DEF ContractInv
    <3> QED BY <1>5, <3>1, VersionNumbers DEF ContractInv, VersionFits
  <2>2. /\ versions' \in [Versions -> VersionStates] /\ versions'[1] = "DRAFT"
        /\ \A v \in Versions \ {1} : versions'[v] = versions[v]
    BY <1>3, <1>5 DEF ContractInv, ContractRowsTyped, VersionStates
  <2>3. ContractRowsTyped'
    BY <1>2, <2>2 DEF ContractInv, ContractRowsTyped, ResolveAmbiguity
  <2>4. \A v \in Versions : VersionFits(v)'
    BY <1>2, <2>1, <2>2 DEF ContractInv, VersionFits
  <2>5. ASSUME NEW p \in RevPreviews PROVE RevisionFits(p)'
    <3>1. RevisionFits(p)
      BY DEF ContractInv
    <3>2. ~InState(p, "APPLYING")
      BY <1>5, <2>1, <3>1 DEF RevisionFits, ApplyingFits
    <3>3. ~InState(p, "APPLIED")
      <4>1. revisions[p] # NoPreview => revisions[p].base \in Int /\ revisions[p].base >= 1
        BY RevisionFields DEF ContractInv
      <4> QED BY <2>1, <3>1, <4>1 DEF RevisionFits, AppliedFits, InState
    <3>4. ~InState(p, "APPLYING")' /\ ~InState(p, "APPLIED")'
      BY <1>2, <3>2, <3>3 DEF InState
    <3> QED BY <1>2, <3>1, <3>2, <3>4 DEF RevisionFits, ApplyingFits, AmenderFits, AppliedFits
  <2>6. RevisionsTakeTurns'
    BY <1>2 DEF ContractInv, RevisionsTakeTurns, InState
  <2> QED BY <1>1, <2>3, <2>4, <2>5, <2>6 DEF ContractInv
<1> QED BY <1>4, <1>5 DEF ResolveAmbiguity

\* References and field dependencies come and go beside the versions.
LEMMA ReferenceSteps ==
    ASSUME ContractInv,
           \/ \E x \in RefIds : AddReferenceRead(x)
           \/ \E x \in RefIds, f \in Fields : AddReference(x, f)
           \/ \E r \in refs : AcceptReference(r)
           \/ \E f \in Fields, o \in Objects : RegisterFieldDependency(f, o)
    PROVE  ContractInv'
<1>1. UNCHANGED authorityVars /\ UNCHANGED <<versions, revisions, amender, earned, ambiguous>>
  BY DEF AddReferenceRead, AddReference, AcceptReference, RegisterFieldDependency
<1>2. AuthorityInv' /\ AuthorityGrows /\ contractVersion' = contractVersion
  BY <1>1, AuthorityStays DEF ContractInv, authorityVars
<1>3. ContractRowsTyped'
  <2>1. ASSUME NEW x \in RefIds, AddReferenceRead(x) PROVE ContractRowsTyped'
    <3>1. adding' \in [RefIds -> 0..MaxVersions]
      BY <2>1 DEF AddReferenceRead, ContractInv, ContractRowsTyped
    <3> QED BY <1>1, <1>2, <2>1, <3>1 DEF AddReferenceRead, ContractInv, ContractRowsTyped
  <2>2. ASSUME NEW x \in RefIds, NEW f \in Fields, AddReference(x, f) PROVE ContractRowsTyped'
    <3>1. 0 \in 0..MaxVersions /\ adding[x] \in Versions
      BY <2>2, RevisionRows DEF AddReference, ContractInv, ContractRowsTyped, Versions
    <3>2. adding' \in [RefIds -> 0..MaxVersions]
      BY <2>2, <3>1 DEF AddReference, ContractInv, ContractRowsTyped
    <3>3. [version |-> adding[x], field |-> f, origin |-> x, state |-> "PROPOSED"] \in Reference
      BY <3>1 DEF Reference
    <3> QED BY <1>1, <1>2, <2>2, <3>2, <3>3 DEF AddReference, ContractInv, ContractRowsTyped
  <2>3. ASSUME NEW r \in refs, AcceptReference(r) PROVE ContractRowsTyped'
    <3>1. r \in Reference
      BY DEF ContractInv, ContractRowsTyped
    <3>2. [r EXCEPT !.state = "USER_ACCEPTED"] \in Reference
      BY <3>1 DEF Reference
    <3> QED BY <1>1, <1>2, <2>3, <3>2 DEF AcceptReference, ContractInv, ContractRowsTyped
  <2>4. ASSUME NEW f \in Fields, NEW o \in Objects, RegisterFieldDependency(f, o) PROVE ContractRowsTyped'
    <3>1. contractVersion \in Versions
      BY <2>4, VersionNumbers DEF RegisterFieldDependency, HasContract, ContractInv
    <3> QED BY <1>1, <1>2, <2>4, <3>1 DEF RegisterFieldDependency, ContractInv, ContractRowsTyped
  <2> QED BY <2>1, <2>2, <2>3, <2>4
<1> QED BY <1>1, <1>2, <1>3, ContractKeeps

\* ConfirmContract: the fields of the revision that made this version each have an anchor.
LEMMA ConfirmContractStep == ASSUME ContractInv, ConfirmContract PROVE ContractInv'
<1>1. UNCHANGED authorityVars /\ UNCHANGED <<ambiguous, refs, adding, fieldDeps, revisions, amender>>
  BY DEF ConfirmContract
<1>2. AuthorityInv' /\ AuthorityGrows /\ contractVersion' = contractVersion
  BY <1>1, AuthorityStays DEF ContractInv, authorityVars
<1>3. PICK c \in Versions : c = contractVersion
  BY VersionNumbers DEF ConfirmContract, HasContract, ContractInv
<1>4. AnchoredFields(c) \in SUBSET Fields /\ RevisedFields(c) \subseteq AnchoredFields(c)
  BY <1>3 DEF ConfirmContract, AnchoredFields, RefsOf, Reference, ContractInv, ContractRowsTyped
<1>5. /\ versions[c] = "DRAFT" /\ versions' = [versions EXCEPT ![c] = "CONFIRMED"]
      /\ earned' = [earned EXCEPT ![c] = AnchoredFields(c)]
  BY <1>3 DEF ConfirmContract, CurrentState
<1>6. /\ versions' \in [Versions -> VersionStates] /\ versions'[c] = "CONFIRMED"
      /\ earned' \in [Versions -> SUBSET Fields] /\ earned'[c] = AnchoredFields(c)
      /\ \A v \in Versions \ {c} : versions'[v] = versions[v] /\ earned'[v] = earned[v]
  BY <1>4, <1>5 DEF ContractInv, ContractRowsTyped, VersionStates
<1>7. ContractRowsTyped'
  BY <1>1, <1>2, <1>6 DEF ContractInv, ContractRowsTyped
<1>8. \A v \in Versions : VersionFits(v)'
  <2> TAKE v \in Versions
  <2>1. CASE v = c
    BY <1>2, <1>3, <1>5, <1>6, <2>1, VersionNumbers DEF ContractInv, VersionFits
  <2>2. CASE v # c
    BY <1>2, <1>6, <2>2 DEF ContractInv, VersionFits
  <2> QED BY <2>1, <2>2
<1>9. ASSUME NEW p \in RevPreviews PROVE RevisionFits(p)'
  <2>1. RevisionFits(p)
    BY DEF ContractInv
  <2>2. /\ ~InState(p, "APPLYING") /\ ~InState(p, "APPLYING")'
        /\ InState(p, "APPLIED")' <=> InState(p, "APPLIED")
    BY <1>1, <1>3, <1>5, <2>1 DEF RevisionFits, ApplyingFits, InState
  <2>3. RevisionOf(p)' = RevisionOf(p) /\ Entries' = Entries /\ binding' = binding
    BY <1>1 DEF RevisionOf, Entries, authorityVars
  <2>4. ApplyingFits(p)' /\ AmenderFits(p)'
    BY <1>1, <2>1, <2>2 DEF RevisionFits, ApplyingFits, AmenderFits
  <2>5. AppliedFits(p)'
    <3> SUFFICES ASSUME InState(p, "APPLIED")'
                 PROVE  /\ revisions[p].base < contractVersion /\ revisions[p].base + 1 \in Versions
                        /\ RevisionOf(p) \in Entries
                        /\ \A o \in revisions[p].affected : binding[o].state = "INVALIDATED"
                        /\ versions'[revisions[p].base + 1] \in {"CONFIRMED", "SUPERSEDED"} =>
                              revisions[p].changed \subseteq earned'[revisions[p].base + 1]
      BY <1>1, <1>2, <2>3 DEF AppliedFits
    <3>1. InState(p, "APPLIED")
      BY <2>2
    <3>2. CASE revisions[p].base + 1 = c
      <4>1. revisions[p].changed \subseteq RevisedFields(c)
        BY <3>1, <3>2 DEF RevisedFields, InState
      <4> QED BY <1>4, <1>6, <2>1, <3>1, <3>2, <4>1 DEF RevisionFits, AppliedFits
    <3>3. CASE revisions[p].base + 1 # c
      BY <1>6, <2>1, <3>1, <3>3 DEF RevisionFits, AppliedFits
    <3> QED BY <3>2, <3>3
  <2> QED BY <2>4, <2>5 DEF RevisionFits
<1>10. RevisionsTakeTurns'
  BY <1>1 DEF ContractInv, RevisionsTakeTurns, InState
<1> QED BY <1>2, <1>7, <1>8, <1>9, <1>10 DEF ContractInv

\* One revision's row changes, to one that is neither under way nor applied.
LEMMA RevisionRests ==
    ASSUME ContractInv, NEW p \in RevPreviews, NEW row \in RevisionRow, row.state \in {"ACTIVE", "STALE"},
           ~InState(p, "APPLYING"), ~InState(p, "APPLIED"),
           revisions' = [revisions EXCEPT ![p] = row], NEW a \in AmenderRow, a.pc \in {"idle", "apply"},
           amender' = [amender EXCEPT ![p] = a],
           UNCHANGED authorityVars, UNCHANGED <<versions, ambiguous, refs, adding, fieldDeps, earned>>
    PROVE  ContractInv'
<1>1. AuthorityInv' /\ AuthorityGrows /\ contractVersion' = contractVersion
  BY AuthorityStays DEF ContractInv, authorityVars
<1>2. /\ revisions' \in [RevPreviews -> RevisionRow \cup {NoPreview}] /\ revisions'[p] = row
      /\ amender' \in [RevPreviews -> AmenderRow] /\ amender'[p] = a
      /\ \A q \in RevPreviews \ {p} : revisions'[q] = revisions[q] /\ amender'[q] = amender[q]
  BY DEF ContractInv, ContractRowsTyped
<1>3. ContractRowsTyped'
  BY <1>1, <1>2 DEF ContractInv, ContractRowsTyped
<1>4. \A v \in Versions : VersionFits(v)'
  BY <1>1 DEF ContractInv, VersionFits
<1>5. ~InState(p, "APPLYING")' /\ ~InState(p, "APPLIED")'
  BY <1>2 DEF InState
<1>6. revisions'[p] # NoPreview
  BY <1>2, RevisionRows
<1>7. ASSUME NEW q \in RevPreviews PROVE RevisionFits(q)'
  <2>1. CASE q = p
    BY <1>2, <1>5, <1>6, <2>1 DEF RevisionFits, ApplyingFits, AmenderFits, AppliedFits
  <2>2. CASE q # p
    BY <1>1, <1>2, <2>2, RevisionStays
  <2> QED BY <2>1, <2>2
<1>8. \A q \in RevPreviews \ {p} : /\ InState(q, "APPLYING")' <=> InState(q, "APPLYING")
                                  /\ InState(q, "APPLIED")' <=> InState(q, "APPLIED")
  BY <1>2 DEF InState
<1>9. RevisionsTakeTurns'
  BY <1>2, <1>5, <1>8 DEF ContractInv, RevisionsTakeTurns, InState
<1> QED BY <1>1, <1>3, <1>4, <1>7, <1>9 DEF ContractInv

\* The idle handler is a row.
LEMMA IdleAmenderRow == IdleAmender \in AmenderRow /\ IdleAmender.pc = "idle"
  BY RevisionsAreNumbered DEF IdleAmender, AmenderRow, Revisions

\* PreviewRevision writes an ACTIVE row.
LEMMA PreviewRevisionStep ==
    ASSUME ContractInv, NEW p \in RevPreviews, NEW changed \in SUBSET Fields, PreviewRevision(p, changed)
    PROVE  ContractInv'
<1> DEFINE row == [base |-> contractVersion, changed |-> changed, state |-> "ACTIVE", rev |-> 0,
            affected |-> DependentsOn(contractVersion, changed),
            kept |-> DependentsOn(contractVersion, Fields) \ DependentsOn(contractVersion, changed),
            duplicates |-> ListedTwice(contractVersion, changed)]
<1>1. contractVersion \in Versions
  BY VersionNumbers DEF PreviewRevision, HasContract, ContractInv
<1>2. /\ DependentsOn(contractVersion, changed) \in SUBSET Objects
      /\ DependentsOn(contractVersion, Fields) \ DependentsOn(contractVersion, changed) \in SUBSET Objects
      /\ ListedTwice(contractVersion, changed) \in BOOLEAN /\ 0 \in Revisions
  BY RevisionsAreNumbered DEF DependentsOn, ListedTwice, Revisions
<1>3. row \in RevisionRow /\ row.state = "ACTIVE"
  BY <1>1, <1>2 DEF RevisionRow
<1>4. /\ revisions' = [revisions EXCEPT ![p] = row] /\ revisions[p] = NoPreview /\ amender' = amender
      /\ UNCHANGED <<versions, ambiguous, refs, adding, fieldDeps, earned>> /\ UNCHANGED authorityVars
  BY DEF PreviewRevision
<1> HIDE DEF row
<1>5. amender[p] \in AmenderRow /\ amender[p].pc = "idle" /\ amender' = [amender EXCEPT ![p] = amender[p]]
  BY <1>4 DEF ContractInv, ContractRowsTyped, RevisionFits, AmenderFits
<1>6. ~InState(p, "APPLYING") /\ ~InState(p, "APPLIED")
  BY <1>4 DEF InState
<1> QED BY <1>3, <1>4, <1>5, <1>6, RevisionRests

\* A handler takes a step of its own and everything else stays.
LEMMA AmenderMoves ==
    ASSUME ContractInv, AuthorityInv', AuthorityGrows, NEW p \in RevPreviews, NEW a \in AmenderRow,
           amender' = [amender EXCEPT ![p] = a],
           UNCHANGED <<contractVersion, versions, ambiguous, refs, adding, fieldDeps, revisions, earned>>,
           AmenderFits(p)'
    PROVE  ContractInv'
<1>1. /\ amender' \in [RevPreviews -> AmenderRow] /\ amender'[p] = a
      /\ \A q \in RevPreviews \ {p} : amender'[q] = amender[q]
  BY DEF ContractInv, ContractRowsTyped
<1>2. ContractRowsTyped'
  BY <1>1 DEF ContractInv, ContractRowsTyped
<1>3. \A v \in Versions : VersionFits(v)'
  BY DEF ContractInv, VersionFits
<1>4. \A q \in RevPreviews \ {p} : RevisionFits(q)'
  BY <1>1, RevisionStays
<1>5. RevisionFits(p)'
  <2>1. RevisionFits(p)
    BY DEF ContractInv
  <2>2. ApplyingFits(p)'
    BY <2>1 DEF RevisionFits, ApplyingFits, InState
  <2>3. AppliedFits(p)'
    <3> SUFFICES ASSUME InState(p, "APPLIED")' PROVE AppliedFits(p)'
      BY DEF AppliedFits
    <3>1. InState(p, "APPLIED") /\ revisions[p].affected \subseteq Objects
      BY RevisionFields DEF InState, ContractInv, RevisionRow
    <3>2. RevisionOf(p)' = RevisionOf(p)
      BY DEF RevisionOf
    <3> QED BY <2>1, <3>1, <3>2 DEF RevisionFits, AppliedFits, AuthorityGrows, InState
  <2> QED BY <2>2, <2>3 DEF RevisionFits
<1>6. RevisionsTakeTurns'
  BY DEF ContractInv, RevisionsTakeTurns, InState
<1> QED BY <1>2, <1>3, <1>4, <1>5, <1>6 DEF ContractInv

\* KernelAmends: the kernel's revision moves and the handler remembers it.
LEMMA KernelAmendsStep ==
    ASSUME ContractInv, NEW p \in RevPreviews, KernelAmends(p)
    PROVE  ContractInv'
<1>1. PICK n \in Revisions : n = kernelRev + 1
  BY NextRevision DEF ContractInv, KernelAmends
<1>2. AuthorityInv' /\ AuthorityGrows
  BY <1>1, KernelMovesStep DEF KernelAmends, ContractInv
<1> DEFINE a == [pc |-> "apply", rev |-> n]
<1>3. a \in AmenderRow /\ a.pc = "apply" /\ amender' = [amender EXCEPT ![p] = a]
  BY <1>1 DEF AmenderRow, KernelAmends
<1> HIDE DEF a
<1>4. amender'[p] = a
  BY <1>3 DEF ContractInv, ContractRowsTyped
<1>5. AmenderFits(p)'
  BY <1>3, <1>4 DEF AmenderFits, KernelAmends
<1> QED BY <1>2, <1>3, <1>5, AmenderMoves DEF KernelAmends

\* RevisionIsStale: only a preview that is still ACTIVE is marked.
LEMMA StaleStep ==
    ASSUME ContractInv, NEW p \in RevPreviews, RevisionIsStale(p)
    PROVE  ContractInv'
<1>1. UNCHANGED authorityVars /\ UNCHANGED <<versions, ambiguous, refs, adding, fieldDeps, earned>>
      /\ amender' = [amender EXCEPT ![p] = IdleAmender]
  BY DEF RevisionIsStale
<1>2. CASE revisions' = revisions
  <2>1. AuthorityInv' /\ AuthorityGrows /\ contractVersion' = contractVersion
    BY <1>1, AuthorityStays DEF ContractInv, authorityVars
  <2>2. amender'[p].pc = "idle"
    BY <1>1, IdleAmenderRow DEF ContractInv, ContractRowsTyped
  <2>3. AmenderFits(p)'
    BY <2>2 DEF AmenderFits
  <2> QED BY <1>1, <1>2, <2>1, <2>3, AmenderMoves, IdleAmenderRow
<1>3. CASE revisions[p].state = "ACTIVE" /\ revisions' = [revisions EXCEPT ![p].state = "STALE"]
  <2>1. revisions[p] # NoPreview
    BY DEF RevisionIsStale, ContractInv, RevisionFits, AmenderFits
  <2>2. revisions[p] \in RevisionRow
    BY <2>1, RevisionFields DEF ContractInv
  <2> DEFINE row == [revisions[p] EXCEPT !.state = "STALE"]
  <2>3. row \in RevisionRow /\ row.state = "STALE" /\ revisions' = [revisions EXCEPT ![p] = row]
    BY <1>3, <2>2 DEF RevisionRow
  <2>4. ~InState(p, "APPLYING") /\ ~InState(p, "APPLIED")
    BY <1>3 DEF InState
  <2> HIDE DEF row
  <2> QED BY <1>1, <2>3, <2>4, IdleAmenderRow, RevisionRests
<1> QED BY <1>2, <1>3 DEF RevisionIsStale

\* PrepareRevision: the next version is reserved, so no other revision can be under way.
LEMMA PrepareStep ==
    ASSUME ContractInv, NEW p \in RevPreviews, PrepareRevision(p)
    PROVE  ContractInv'
<1>1. UNCHANGED authorityVars /\ UNCHANGED <<ambiguous, refs, adding, fieldDeps, earned>>
  BY DEF PrepareRevision
<1>2. AuthorityInv' /\ AuthorityGrows /\ contractVersion' = contractVersion
  BY <1>1, AuthorityStays DEF ContractInv, authorityVars
<1>3. revisions[p] # NoPreview /\ amender[p].pc = "apply" /\ amender[p] \in AmenderRow
  BY DEF PrepareRevision, ContractInv, ContractRowsTyped, RevisionFits, AmenderFits
<1>4. /\ revisions[p] \in RevisionRow /\ revisions[p].base \in Versions /\ revisions[p].base \in Int
      /\ revisions[p].base >= 1
  BY <1>3, RevisionFields DEF ContractInv
<1>5. PICK b \in Versions : b = revisions[p].base
  BY <1>4
<1>6. PICK v1 \in Versions : v1 = b + 1
  BY <1>4, <1>5, RevisionRows DEF PrepareRevision, Versions
<1> DEFINE row == [revisions[p] EXCEPT !.state = "APPLYING", !.rev = amender[p].rev]
           a == [amender[p] EXCEPT !.pc = "consume"]
<1>7. /\ row \in RevisionRow /\ row.state = "APPLYING" /\ row.base = b
      /\ revisions' = [revisions EXCEPT ![p] = row]
  BY <1>3, <1>4, <1>5 DEF RevisionRow, AmenderRow, PrepareRevision
<1>8. a \in AmenderRow /\ a.pc = "consume" /\ amender' = [amender EXCEPT ![p] = a]
  BY <1>3 DEF AmenderRow, PrepareRevision
<1>9. /\ contractVersion = b /\ versions[b] = "CONFIRMED" /\ versions[v1] = "NONE"
      /\ versions' = [versions EXCEPT ![v1] = "PENDING_INVALIDATION"]
  BY <1>5, <1>6 DEF PrepareRevision, Fresh, CurrentState
<1> HIDE DEF row, a
<1>10. /\ revisions' \in [RevPreviews -> RevisionRow \cup {NoPreview}] /\ revisions'[p] = row
       /\ amender' \in [RevPreviews -> AmenderRow] /\ amender'[p] = a
       /\ \A q \in RevPreviews \ {p} : revisions'[q] = revisions[q] /\ amender'[q] = amender[q]
  BY <1>7, <1>8 DEF ContractInv, ContractRowsTyped
<1>11. /\ versions' \in [Versions -> VersionStates] /\ versions'[v1] = "PENDING_INVALIDATION"
       /\ \A v \in Versions \ {v1} : versions'[v] = versions[v]
  BY <1>9 DEF ContractInv, ContractRowsTyped, VersionStates
<1>12. ContractRowsTyped'
  BY <1>1, <1>2, <1>10, <1>11 DEF ContractInv, ContractRowsTyped
<1>13. b \in Int /\ v1 \in Int
  BY RevisionRows DEF Versions
<1>14. \A v \in Versions : VersionFits(v)'
  <2> TAKE v \in Versions
  <2>1. VersionFits(v) /\ VersionFits(v1)
    BY DEF ContractInv
  <2>2. CASE v = v1
    BY <1>2, <1>6, <1>9, <1>11, <1>13, <2>1, <2>2, VersionNumbers DEF ContractInv, VersionFits
  <2>3. CASE v # v1
    BY <1>2, <1>11, <2>1, <2>3 DEF VersionFits
  <2> QED BY <2>2, <2>3
<1>15. \A q \in RevPreviews : ~InState(q, "APPLYING")
  BY <1>5, <1>6, <1>9 DEF ContractInv, RevisionFits, ApplyingFits
<1>16. \A q \in RevPreviews \ {p} : /\ ~InState(q, "APPLYING")'
                                   /\ InState(q, "APPLIED")' <=> InState(q, "APPLIED")
  BY <1>10, <1>15 DEF InState
<1>17. InState(p, "APPLYING")' /\ ~InState(p, "APPLIED")'
  BY <1>7, <1>10, RevisionRows DEF InState
<1>18. RevisionFits(p)'
  <2>1. ApplyingFits(p)'
    <3>1. /\ revisions'[p].base = b /\ versions'[b] = "CONFIRMED" /\ versions'[b + 1] = "PENDING_INVALIDATION"
          /\ b + 1 \in Versions /\ contractVersion' = b
      BY <1>2, <1>6, <1>7, <1>9, <1>10, <1>11, <1>13
    <3> QED BY <3>1 DEF ApplyingFits
  <2> QED BY <1>7, <1>8, <1>10, <1>17, <2>1, RevisionRows DEF RevisionFits, AmenderFits, AppliedFits
<1>19. ASSUME NEW q \in RevPreviews, q # p PROVE RevisionFits(q)'
  <2>1. RevisionFits(q) /\ revisions'[q] = revisions[q] /\ amender'[q] = amender[q]
    BY <1>10, <1>19 DEF ContractInv
  <2>2. Entries' = Entries /\ RevisionOf(q)' = RevisionOf(q) /\ binding' = binding /\ earned' = earned
    BY <1>1, <2>1 DEF Entries, RevisionOf, authorityVars
  <2>3. ApplyingFits(q)' /\ AmenderFits(q)'
    BY <1>15, <1>16, <1>19, <2>1 DEF RevisionFits, ApplyingFits, AmenderFits, InState
  <2>4. AppliedFits(q)'
    <3>1. CASE ~InState(q, "APPLIED")
      BY <1>16, <1>19, <3>1 DEF AppliedFits, InState
    <3>2. CASE InState(q, "APPLIED")
      <4>1. revisions[q].base < contractVersion /\ revisions[q].base \in Int /\ revisions[q].base + 1 \in Versions
        BY <2>1, <3>2, RevisionFields DEF RevisionFits, AppliedFits, InState, ContractInv
      <4>2. PICK w \in Versions \ {v1} : w = revisions[q].base + 1
        BY <1>6, <1>9, <1>13, <4>1
      <4>3. versions'[w] = versions[w]
        BY <1>11
      <4> QED BY <1>2, <2>1, <2>2, <3>2, <4>1, <4>2, <4>3 DEF RevisionFits, AppliedFits
    <3> QED BY <3>1, <3>2
  <2> QED BY <2>3, <2>4 DEF RevisionFits
<1>20. RevisionsTakeTurns'
  <2> SUFFICES ASSUME NEW x \in RevPreviews, NEW y \in RevPreviews, x # y
               PROVE  /\ ~(InState(x, "APPLYING")' /\ InState(y, "APPLYING")')
                      /\ InState(x, "APPLIED")' /\ InState(y, "APPLIED")' => revisions'[x].base # revisions'[y].base
    BY DEF RevisionsTakeTurns
  <2>1. \A q \in RevPreviews : q # p => revisions'[q] = revisions[q]
    BY <1>10
  <2>2. ~(InState(x, "APPLYING")' /\ InState(y, "APPLYING")')
    BY <1>15, <2>1 DEF InState
  <2>3. ASSUME InState(x, "APPLIED")', InState(y, "APPLIED")' PROVE revisions'[x].base # revisions'[y].base
    <3>1. x # p /\ y # p
      BY <1>17, <2>3
    <3>2. InState(x, "APPLIED") /\ InState(y, "APPLIED")
      BY <2>1, <2>3, <3>1 DEF InState
    <3> QED BY <2>1, <3>1, <3>2 DEF ContractInv, RevisionsTakeTurns
  <2> QED BY <2>2, <2>3
<1> QED BY <1>2, <1>12, <1>14, <1>18, <1>19, <1>20 DEF ContractInv

\* AmenderStops: what was prepared stays prepared.
LEMMA AmenderStopsStep ==
    ASSUME ContractInv, NEW p \in RevPreviews, AmenderStops(p)
    PROVE  ContractInv'
<1>1. AuthorityInv' /\ AuthorityGrows /\ contractVersion' = contractVersion
  BY AuthorityStays DEF ContractInv, authorityVars, AmenderStops
<1>2. amender'[p].pc = "idle"
  BY IdleAmenderRow DEF ContractInv, ContractRowsTyped, AmenderStops
<1>3. AmenderFits(p)'
  BY <1>2 DEF AmenderFits
<1> QED BY <1>1, <1>3, AmenderMoves, IdleAmenderRow DEF AmenderStops

\* ResumePending takes up what is under way.
LEMMA ResumeStep ==
    ASSUME ContractInv, NEW p \in RevPreviews, ResumePending(p)
    PROVE  ContractInv'
<1>1. AuthorityInv' /\ AuthorityGrows /\ contractVersion' = contractVersion
  BY AuthorityStays DEF ContractInv, authorityVars, ResumePending
<1> DEFINE a == [pc |-> "consume", rev |-> revisions[p].rev]
<1>2. revisions[p] \in RevisionRow
  BY RevisionFields DEF ContractInv, ResumePending
<1>3. a \in AmenderRow /\ a.pc = "consume" /\ amender' = [amender EXCEPT ![p] = a]
  BY <1>2 DEF AmenderRow, RevisionRow, ResumePending
<1> HIDE DEF a
<1>4. amender'[p] = a
  BY <1>3 DEF ContractInv, ContractRowsTyped
<1>5. InState(p, "APPLYING")' /\ revisions' = revisions /\ revisions[p] # NoPreview
  BY DEF ResumePending, InState
<1>6. AmenderFits(p)'
  BY <1>3, <1>4, <1>5 DEF AmenderFits
<1> QED BY <1>1, <1>3, <1>6, AmenderMoves DEF ResumePending

\* RecordRevision: the event is in the ledger, now or already.
LEMMA RecordRevisionStep ==
    ASSUME ContractInv, NEW p \in RevPreviews, RecordRevision(p)
    PROVE  ContractInv'
<1>1. InState(p, "APPLYING") /\ revisions[p] # NoPreview
  BY DEF RecordRevision, ContractInv, RevisionFits, AmenderFits, InState
<1>2. RevisionOf(p) \in Invalidation
  BY <1>1, RevisionFields DEF ContractInv
<1>3. AuthorityInv' /\ AuthorityGrows /\ RevisionOf(p) \in Entries'
  <2>1. CASE RecordedAlready(RevisionOf(p)) /\ UNCHANGED <<ledger, mark>>
    <3>1. UNCHANGED authorityVars
      BY <2>1 DEF RecordRevision, authorityVars
    <3> QED BY <2>1, <3>1, AuthorityStays DEF ContractInv, RecordedAlready, AuthorityGrows
  <2>2. CASE /\ Recordable(RevisionOf(p)) /\ ledger' = LedgerWith(RevisionOf(p))
             /\ mark' = MarkWith(RevisionOf(p))
    BY <1>2, <2>2, RecordMoves DEF RecordRevision, ContractInv
  <2> QED BY <2>1, <2>2 DEF RecordRevision
<1> DEFINE a == [amender[p] EXCEPT !.pc = "verify"]
<1>4. a \in AmenderRow /\ a.pc = "verify" /\ amender' = [amender EXCEPT ![p] = a]
  BY DEF AmenderRow, RecordRevision, ContractInv, ContractRowsTyped
<1> HIDE DEF a
<1>5. amender'[p] = a
  BY <1>4 DEF ContractInv, ContractRowsTyped
<1>6. revisions' = revisions /\ RevisionOf(p)' = RevisionOf(p) /\ InState(p, "APPLYING")'
  BY <1>1 DEF RecordRevision, RevisionOf, InState
<1>7. AmenderFits(p)'
  BY <1>1, <1>3, <1>4, <1>5, <1>6 DEF AmenderFits
<1> QED BY <1>3, <1>4, <1>7, AmenderMoves DEF RecordRevision

\* VerifyRevision: the bindings show the revision.
LEMMA VerifyStep ==
    ASSUME ContractInv, NEW p \in RevPreviews, VerifyRevision(p)
    PROVE  ContractInv'
<1>1. AuthorityInv' /\ AuthorityGrows /\ contractVersion' = contractVersion
  BY AuthorityStays DEF ContractInv, authorityVars, VerifyRevision
<1>2. InState(p, "APPLYING") /\ revisions[p] # NoPreview /\ RevisionOf(p) \in Entries
  BY DEF VerifyRevision, ContractInv, RevisionFits, AmenderFits, InState
<1> DEFINE a == [amender[p] EXCEPT !.pc = "finalize"]
<1>3. a \in AmenderRow /\ a.pc = "finalize" /\ amender' = [amender EXCEPT ![p] = a]
  BY DEF AmenderRow, VerifyRevision, ContractInv, ContractRowsTyped
<1> HIDE DEF a
<1>4. amender'[p] = a
  BY <1>3 DEF ContractInv, ContractRowsTyped
<1>5. /\ revisions' = revisions /\ RevisionOf(p)' = RevisionOf(p) /\ InState(p, "APPLYING")'
      /\ binding' = binding /\ Entries' = Entries
      /\ \A o \in revisions[p].affected : binding[o].state = "INVALIDATED"
  BY <1>2 DEF VerifyRevision, RevisionOf, InState, Entries, authorityVars
<1>6. AmenderFits(p)'
  BY <1>2, <1>3, <1>4, <1>5 DEF AmenderFits
<1> QED BY <1>1, <1>3, <1>6, AmenderMoves DEF VerifyRevision

\* FinalizeRevision: the next version takes over as a draft.
LEMMA FinalizeStep ==
    ASSUME ContractInv, NEW p \in RevPreviews, FinalizeRevision(p)
    PROVE  ContractInv'
<1>1. /\ InState(p, "APPLYING") /\ revisions[p] # NoPreview /\ RevisionOf(p) \in Entries
      /\ \A o \in revisions[p].affected : binding[o].state = "INVALIDATED"
  BY DEF FinalizeRevision, ContractInv, RevisionFits, AmenderFits, InState
<1>2. revisions[p] \in RevisionRow
  BY <1>1, RevisionFields DEF ContractInv
<1>3. PICK b \in Versions : b = revisions[p].base
  BY <1>2 DEF RevisionRow
<1>4. PICK v1 \in Versions : v1 = b + 1
  BY <1>1, <1>3 DEF ContractInv, RevisionFits, ApplyingFits
<1>5. b \in Int /\ v1 \in Int /\ b >= 1 /\ v1 <= MaxVersions /\ MaxVersions \in Nat
  BY RevisionRows DEF Versions
<1>6. /\ contractVersion = b /\ versions[b] = "CONFIRMED" /\ versions[v1] = "PENDING_INVALIDATION"
  BY <1>1, <1>3, <1>4 DEF ContractInv, RevisionFits, ApplyingFits
<1>7. /\ versions' = [versions EXCEPT ![b] = "SUPERSEDED", ![v1] = "DRAFT"] /\ contractVersion' = v1
      /\ refs' = refs \cup CarriedOver(p) /\ amender' = [amender EXCEPT ![p] = IdleAmender]
      /\ UNCHANGED <<ambiguous, adding, fieldDeps, earned>>
      /\ UNCHANGED <<kernelRev, revoked, recomputes, binding, consumes, ledger, mark,
                     materialized, revPreview, announced, recoveries, revoker>>
  BY <1>3, <1>4 DEF FinalizeRevision
<1>8. AuthorityInv' /\ AuthorityGrows
  <2>1. contractVersion' \in Nat
    BY <1>5, <1>7, <1>4
  <2> QED BY <1>7, <2>1, VersionMoves DEF ContractInv
<1> DEFINE row == [revisions[p] EXCEPT !.state = "APPLIED"]
<1>9. /\ row \in RevisionRow /\ row.state = "APPLIED" /\ row.base = b /\ row.affected = revisions[p].affected
      /\ row.rev = revisions[p].rev /\ row.kept = revisions[p].kept
      /\ revisions' = [revisions EXCEPT ![p] = row]
  BY <1>2, <1>3 DEF RevisionRow, FinalizeRevision
<1> HIDE DEF row
<1>10. /\ revisions' \in [RevPreviews -> RevisionRow \cup {NoPreview}] /\ revisions'[p] = row
       /\ amender' \in [RevPreviews -> AmenderRow] /\ amender'[p] = IdleAmender
       /\ \A q \in RevPreviews \ {p} : revisions'[q] = revisions[q] /\ amender'[q] = amender[q]
  BY <1>7, <1>9, IdleAmenderRow DEF ContractInv, ContractRowsTyped
<1>11. /\ versions' \in [Versions -> VersionStates] /\ versions'[b] = "SUPERSEDED" /\ versions'[v1] = "DRAFT"
       /\ \A v \in Versions \ {b, v1} : versions'[v] = versions[v]
  <2>1. b # v1
    BY <1>4, <1>5
  <2> QED BY <1>7, <2>1 DEF ContractInv, ContractRowsTyped, VersionStates
<1>12. refs' \subseteq Reference
  <2>1. \A r \in refs : [r EXCEPT !.version = v1] \in Reference
    BY DEF ContractInv, ContractRowsTyped, Reference
  <2>2. CarriedOver(p) \subseteq Reference
    BY <1>3, <1>4, <2>1 DEF CarriedOver, RefsOf
  <2> QED BY <1>7, <2>2 DEF ContractInv, ContractRowsTyped
<1>13. ContractRowsTyped'
  <2>1. contractVersion' \in 0..MaxVersions
    BY <1>4, <1>5, <1>7
  <2> QED BY <1>7, <1>10, <1>11, <1>12, <2>1 DEF ContractInv, ContractRowsTyped
<1>14. \A v \in Versions : VersionFits(v)'
  <2> TAKE v \in Versions
  <2>1. VersionFits(v) /\ v \in Int
    BY VersionNumbers DEF ContractInv
  <2>2. CASE v = b
    BY <1>4, <1>5, <1>7, <1>11, <2>2 DEF VersionFits
  <2>3. CASE v = v1
    BY <1>4, <1>5, <1>7, <1>11, <2>3 DEF VersionFits
  <2>4. CASE v # b /\ v # v1
    <3>1. versions'[v] = versions[v]
      BY <1>11, <2>4
    <3> QED BY <1>4, <1>5, <1>6, <1>7, <2>1, <2>4, <3>1 DEF VersionFits
  <2> QED BY <2>2, <2>3, <2>4
<1>15. \A q \in RevPreviews \ {p} : /\ ~InState(q, "APPLYING") /\ ~InState(q, "APPLYING")'
                                   /\ InState(q, "APPLIED")' <=> InState(q, "APPLIED")
  BY <1>1, <1>10 DEF InState, ContractInv, RevisionsTakeTurns
<1>16. InState(p, "APPLIED")' /\ ~InState(p, "APPLYING")'
  BY <1>9, <1>10, RevisionRows DEF InState
<1>17. RevisionFits(p)'
  <2>1. RevisionOf(p)' = RevisionOf(p) /\ Entries' = Entries
    BY <1>7, <1>9, <1>10 DEF RevisionOf, Entries
  <2>2. AppliedFits(p)'
    <3>1. /\ revisions'[p].base = b /\ b < contractVersion' /\ b + 1 \in Versions
          /\ versions'[b + 1] = "DRAFT"
      BY <1>4, <1>5, <1>7, <1>9, <1>10, <1>11
    <3> QED BY <1>1, <1>7, <1>9, <1>10, <2>1, <3>1 DEF AppliedFits
  <2> QED BY <1>10, <1>16, <2>2, IdleAmenderRow DEF RevisionFits, ApplyingFits, AmenderFits
<1>18. ASSUME NEW q \in RevPreviews, q # p PROVE RevisionFits(q)'
  <2>1. RevisionFits(q) /\ revisions'[q] = revisions[q] /\ amender'[q] = amender[q]
    BY <1>10, <1>18 DEF ContractInv
  <2>2. Entries' = Entries /\ RevisionOf(q)' = RevisionOf(q)
    BY <1>7, <2>1 DEF Entries, RevisionOf
  <2>3. ~InState(q, "APPLYING") /\ ~InState(q, "APPLYING")' /\ (InState(q, "APPLIED")' <=> InState(q, "APPLIED"))
    <3>1. ~InState(q, "APPLYING")
      BY <1>1, <1>18 DEF ContractInv, RevisionsTakeTurns
    <3> QED BY <2>1, <3>1 DEF InState
  <2>4. ApplyingFits(q)' /\ AmenderFits(q)'
    BY <2>1, <2>3 DEF RevisionFits, ApplyingFits, AmenderFits
  <2>5. AppliedFits(q)'
    <3>1. CASE ~InState(q, "APPLIED")
      BY <2>3, <3>1 DEF AppliedFits
    <3>2. CASE InState(q, "APPLIED")
      <4>1. revisions[q].base < contractVersion /\ revisions[q].base \in Int /\ revisions[q].base + 1 \in Versions
        BY <2>1, <3>2, RevisionFields DEF RevisionFits, AppliedFits, InState, ContractInv
      <4>2. PICK w \in Versions : w = revisions[q].base + 1
        BY <4>1
      <4>3. w # v1 /\ revisions[q].base < contractVersion'
        BY <1>4, <1>5, <1>6, <1>7, <4>1, <4>2
      <4>4. versions[w] \in {"CONFIRMED", "SUPERSEDED"} => revisions[q].changed \subseteq earned[w]
        BY <2>1, <3>2, <4>2 DEF RevisionFits, AppliedFits
      <4>5. versions'[w] \in {"CONFIRMED", "SUPERSEDED"} => revisions[q].changed \subseteq earned[w]
        <5>1. CASE w = b
          BY <1>6, <4>4, <5>1
        <5>2. CASE w # b
          BY <1>11, <4>3, <4>4, <5>2
        <5> QED BY <5>1, <5>2
      <4> QED BY <1>7, <2>1, <2>2, <3>2, <4>2, <4>3, <4>5 DEF RevisionFits, AppliedFits
    <3> QED BY <3>1, <3>2
  <2> QED BY <2>4, <2>5 DEF RevisionFits
<1>19. RevisionsTakeTurns'
  <2>1. \A q \in RevPreviews \ {p} : InState(q, "APPLIED") => revisions[q].base # b
    <3> TAKE q \in RevPreviews \ {p}
    <3>1. InState(q, "APPLIED") => revisions[q].base < contractVersion /\ revisions[q].base \in Int
      BY RevisionFields DEF ContractInv, RevisionFits, AppliedFits, InState
    <3> QED BY <1>5, <1>6, <3>1
  <2> QED BY <1>9, <1>10, <1>15, <1>16, <2>1 DEF ContractInv, RevisionsTakeTurns, InState
<1> QED BY <1>8, <1>13, <1>14, <1>17, <1>18, <1>19 DEF ContractInv

\* The engine never moves the contract.
LEMMA AuthorityKeepsVersion == ASSUME AuthorityNext PROVE contractVersion' = contractVersion
  BY DEF AuthorityNext, RegisterBinding, RegisterFactDependency, RecoverWithReplacement, PreviewRevoke,
         KernelRevokes, ConfirmStale, Confirm, RevokerStops, ConsumeRevocation, CatchUp, KernelMoves

\* The authority side moves and the contract does not.
LEMMA AuthorityBeside ==
    ASSUME ContractInv, AuthorityInv', AuthorityGrows, contractVersion' = contractVersion,
           UNCHANGED contractVars
    PROVE  ContractInv'
<1>1. ContractRowsTyped'
  BY DEF ContractInv, ContractRowsTyped, contractVars
<1> QED BY <1>1, ContractKeeps DEF contractVars

\* One step of the contract or of the engine beside it.
LEMMA ContractStep ==
    ASSUME ContractInv, [ContractNext \/ (AuthorityNext /\ UNCHANGED contractVars)]_contractAll
    PROVE  ContractInv'
<1>1. CASE AuthorityNext /\ UNCHANGED contractVars
  <2>1. AuthorityInv' /\ AuthorityGrows
    BY <1>1, AuthorityStep DEF ContractInv
  <2> QED BY <1>1, <2>1, AuthorityKeepsVersion, AuthorityBeside
<1>2. CASE CatchUp /\ UNCHANGED contractVars
  <2>1. AuthorityInv' /\ AuthorityGrows /\ contractVersion' = contractVersion
    BY <1>2, CatchUpStep DEF ContractInv, CatchUp
  <2> QED BY <1>2, <2>1, AuthorityBeside
<1>3. ASSUME NEW o \in Objects, RegisterBinding(o, kernelRev), UNCHANGED contractVars PROVE ContractInv'
  <2>1. kernelRev \in Revisions
    BY DEF ContractInv, AuthorityInv, AuthorityRowsTyped
  <2>2. AuthorityInv' /\ AuthorityGrows /\ contractVersion' = contractVersion
    BY <1>3, <2>1, RegisterStep DEF ContractInv, RegisterBinding
  <2> QED BY <1>3, <2>2, AuthorityBeside
<1>4. ASSUME NEW open \in SUBSET Fields, CreateDraft(open) PROVE ContractInv'
  BY <1>4, CreateDraftStep
<1>5. ASSUME NEW f \in Fields, ResolveAmbiguity(f) PROVE ContractInv'
  BY <1>5, ResolveStep
<1>6. ASSUME \/ \E x \in RefIds : AddReferenceRead(x) \/ \E f \in Fields : AddReference(x, f)
             \/ \E r \in refs : AcceptReference(r)
             \/ \E f \in Fields, o \in Objects : RegisterFieldDependency(f, o)
      PROVE  ContractInv'
  BY <1>6, ReferenceSteps
<1>7. CASE ConfirmContract
  BY <1>7, ConfirmContractStep
<1>8. ASSUME NEW p \in RevPreviews,
             \/ \E changed \in SUBSET Fields : PreviewRevision(p, changed)
             \/ KernelAmends(p) \/ RevisionIsStale(p) \/ PrepareRevision(p) \/ AmenderStops(p)
             \/ ResumePending(p) \/ RecordRevision(p) \/ VerifyRevision(p) \/ FinalizeRevision(p)
      PROVE  ContractInv'
  BY <1>8, PreviewRevisionStep, KernelAmendsStep, StaleStep, PrepareStep, AmenderStopsStep,
     ResumeStep, RecordRevisionStep, VerifyStep, FinalizeStep
<1>9. CASE UNCHANGED contractAll
  <2>1. UNCHANGED authorityVars /\ UNCHANGED contractVars
    BY <1>9 DEF contractAll
  <2>2. AuthorityInv' /\ AuthorityGrows /\ contractVersion' = contractVersion
    BY <2>1, AuthorityStays DEF ContractInv, authorityVars
  <2> QED BY <2>1, <2>2, AuthorityBeside
<1> QED BY <1>1, <1>2, <1>3, <1>4, <1>5, <1>6, <1>7, <1>8, <1>9 DEF ContractNext

\* No contract yet.
LEMMA ContractStarts == ContractInit => ContractInv
<1> SUFFICES ASSUME ContractInit PROVE ContractInv
  OBVIOUS
<1>1. AuthorityInv /\ contractVersion = 0
  BY AuthorityStarts DEF ContractInit, AuthorityInit
<1>2. ContractRowsTyped
  <2>1. 0 \in 0..MaxVersions
    BY RevisionRows
  <2> QED BY <1>1, <2>1, IdleAmenderRow DEF ContractInit, ContractRowsTyped, VersionStates
<1>3. \A v \in Versions : VersionFits(v)
  <2> TAKE v \in Versions
  <2>1. v \in Int /\ v >= 1 /\ versions[v] = "NONE"
    BY <1>2, VersionNumbers DEF ContractInit
  <2> QED BY <1>1, <2>1 DEF VersionFits
<1>4. \A p \in RevPreviews : RevisionFits(p) /\ \A s : ~InState(p, s)
  BY IdleAmenderRow DEF ContractInit, RevisionFits, ApplyingFits, AmenderFits, AppliedFits, InState
<1>5. RevisionsTakeTurns
  BY <1>4 DEF RevisionsTakeTurns
<1> QED BY <1>1, <1>2, <1>3, <1>4, <1>5 DEF ContractInv

\* The invariant of the proof says what the property says.
LEMMA ContractInvImplies == ContractInv => RevisionsAreEarned
<1> SUFFICES ASSUME ContractInv PROVE RevisionsAreEarned
  OBVIOUS
<1>1. ContractTypeOK
  <2>1. AuthorityTypeOK
    BY AuthorityInvImplies DEF ContractInv, WithdrawnIsNotConsumable
  <2>2. \A p \in RevPreviews : amender[p].pc \in {"idle", "apply", "consume", "verify", "finalize"}
    BY DEF ContractInv, ContractRowsTyped, AmenderRow
  <2> QED BY <2>1, <2>2 DEF ContractTypeOK, ContractInv, ContractRowsTyped, VersionStates
<1>2. /\ \A v \in Versions : versions[v] = "SUPERSEDED" <=> v < contractVersion
      /\ \A v \in Versions : v > contractVersion + 1 => versions[v] = "NONE"
  BY DEF ContractInv, VersionFits
<1>3. \A p \in RevPreviews : AppliedFits(p)
  BY DEF ContractInv, RevisionFits
<1>4. ASSUME NEW p \in RevPreviews, NEW q \in RevPreviews, p # q, revisions[p] # NoPreview,
             revisions[q] # NoPreview, revisions[p].base = revisions[q].base
      PROVE  ~({revisions[p].state, revisions[q].state} \subseteq {"APPLYING", "APPLIED"})
  <2>1. /\ InState(p, "APPLYING") => revisions[p].base = contractVersion
        /\ InState(q, "APPLYING") => revisions[q].base = contractVersion
        /\ InState(p, "APPLIED") => revisions[p].base < contractVersion
        /\ InState(q, "APPLIED") => revisions[q].base < contractVersion
        /\ contractVersion \in Nat
    BY <1>3, VersionNumbers DEF ContractInv, RevisionFits, ApplyingFits, AppliedFits
  <2>2. /\ ~(InState(p, "APPLYING") /\ InState(q, "APPLYING"))
        /\ ~(InState(p, "APPLIED") /\ InState(q, "APPLIED"))
        /\ ~(InState(p, "APPLYING") /\ InState(q, "APPLIED"))
        /\ ~(InState(p, "APPLIED") /\ InState(q, "APPLYING"))
    BY <1>4, <2>1 DEF ContractInv, RevisionsTakeTurns
  <2> QED BY <1>4, <2>2 DEF InState
<1>5. ASSUME NEW p \in RevPreviews, revisions[p] # NoPreview /\ revisions[p].state = "APPLIED"
      PROVE  /\ revisions[p].base < contractVersion
             /\ RevisionOf(p) \in Entries
             /\ \A o \in revisions[p].affected : binding[o].state = "INVALIDATED"
             /\ versions[revisions[p].base + 1] \in {"CONFIRMED", "SUPERSEDED"} =>
                   revisions[p].changed \subseteq earned[revisions[p].base + 1]
  BY <1>3, <1>5 DEF AppliedFits, InState
<1>6. \A p, q \in RevPreviews : p # q /\ revisions[p] # NoPreview /\ revisions[q] # NoPreview
          /\ revisions[p].base = revisions[q].base =>
          ~({revisions[p].state, revisions[q].state} \subseteq {"APPLYING", "APPLIED"})
  BY <1>4
<1>7. \A p \in RevPreviews : revisions[p] # NoPreview /\ revisions[p].state = "APPLIED" =>
          /\ revisions[p].base < contractVersion
          /\ RevisionOf(p) \in Entries
          /\ \A o \in revisions[p].affected : binding[o].state = "INVALIDATED"
          /\ LET v == revisions[p].base + 1 IN
             versions[v] \in {"CONFIRMED", "SUPERSEDED"} => revisions[p].changed \subseteq earned[v]
  BY <1>5
<1> QED BY <1>1, <1>2, <1>6, <1>7, Zenon DEF RevisionsAreEarned

\* WithdrawnIsNotConsumable: whatever previews raced and wherever a handler died, nothing the
\* ledger withdrew is consumable, the bindings show exactly the events the watermark passed,
\* and only what depended on a confirmed revocation is shown as restored.
THEOREM WithdrawnNeverConsumable == ContractSpec => []WithdrawnIsNotConsumable
<1>1. ContractInit => ContractInv
  BY ContractStarts
<1>2. ContractInv /\ [ContractNext \/ (AuthorityNext /\ UNCHANGED contractVars)]_contractAll => ContractInv'
  BY ContractStep
<1>3. ContractInv => WithdrawnIsNotConsumable
  BY AuthorityInvImplies DEF ContractInv
<1> QED BY <1>1, <1>2, <1>3, PTL DEF ContractSpec

\* RevisionsAreEarned: a revised contract takes over only when its withdrawals are in the
\* ledger and in the bindings, one revision per version, each changed field anchored.
THEOREM RevisionsAlwaysEarned == ContractSpec => []RevisionsAreEarned
<1>1. ContractInit => ContractInv
  BY ContractStarts
<1>2. ContractInv /\ [ContractNext \/ (AuthorityNext /\ UNCHANGED contractVars)]_contractAll => ContractInv'
  BY ContractStep
<1>3. ContractInv => RevisionsAreEarned
  BY ContractInvImplies
<1> QED BY <1>1, <1>2, <1>3, PTL DEF ContractSpec

-----------------------------------------------------------------------------
(* Uploads                                                                  *)

\* A content is a sequence of bytes of bounded length.
LEMMA ContentsAreSeqs ==
    \A s \in Contents : s \in Seq(Bytes) /\ Len(s) \in 0 .. MaxBytes
  BY UploadAssumption DEF Contents, BoundedSeq, SeqOf

ArtifactRow == [content : Contents, media : MediaTypes]
CommitRow == [pc : {"idle", "prepared", "new", "stored", "registered", "bound"},
              id : UploadIds \cup {NoUpload}]

UploadRowsTyped ==
    /\ uploads \in [UploadIds -> UploadRow \cup {NoUpload}]
    /\ spool \in [UploadIds -> Seq(Bytes) \cup {NoSpool}]
    /\ acked \in [UploadIds -> Seq(Bytes)]
    /\ blobs \subseteq Contents /\ artifacts \subseteq ArtifactRow
    /\ committer \in [Committers -> CommitRow]

\* The acknowledged bytes of an upload are the first bytes of its spool file while the
\* upload is under way, and there are none before it begins.
SpoolHoldsAcked(u) ==
    /\ ~UploadKnown(u) => acked[u] = <<>>
    /\ UploadKnown(u) /\ UploadOf(u).state \in {"OPEN", "COMMITTING"} =>
          /\ UploadOf(u).received = Len(acked[u])
          /\ spool[u] # NoSpool /\ Len(acked[u]) <= Len(spool[u])
          /\ SubSeq(spool[u], 1, Len(acked[u])) = acked[u]

CommittedIsBound(u) ==
    UploadKnown(u) /\ UploadOf(u).state = "COMMITTED" =>
        \E a \in artifacts : UploadOf(u).artifact = {a} /\ ValidRef(a, u)

\* What a committer may count on at its step.
CommitKnows(c) ==
    LET u == UploadBy(c) IN
    ~CommitAt(c, "idle") =>
        /\ u \in UploadIds /\ UploadKnown(u) /\ UploadOf(u).state # "OPEN"
        /\ CommitAt(c, "stored") => UploadOf(u).declared \in blobs
        /\ CommitAt(c, "registered") => \E a \in artifacts : ValidRef(a, u)
        /\ CommitAt(c, "bound") => UploadOf(u).state = "COMMITTED"

ArtifactsAreStored ==
    /\ \A a, b \in artifacts : a.content = b.content => a = b
    /\ \A a \in artifacts : a.content \in blobs

UploadInv ==
    /\ UploadRowsTyped /\ ArtifactsAreStored
    /\ \A u \in UploadIds : SpoolHoldsAcked(u) /\ CommittedIsBound(u)
    /\ \A c \in Committers : CommitKnows(c)

\* How the row of an upload may change: what was declared stays, and no way leads back.
RowEvolves(u) ==
    UploadKnown(u) =>
        /\ uploads'[u] # NoUpload
        /\ uploads'[u].media = uploads[u].media /\ uploads'[u].declared = uploads[u].declared
        /\ uploads[u].state # "OPEN" => uploads'[u].state # "OPEN"
        /\ uploads[u].state = "COMMITTED" => uploads'[u] = uploads[u]

\* A committer that waits is not disturbed by what others do.
LEMMA CommitWaits ==
    ASSUME NEW c \in Committers, CommitKnows(c), committer'[c] = committer[c],
           blobs \subseteq blobs', artifacts \subseteq artifacts',
           \A u \in UploadIds : RowEvolves(u)
    PROVE  CommitKnows(c)'
  BY DEF CommitKnows, RowEvolves, CommitAt, UploadBy, UploadKnown, UploadOf, ValidRef

\* A committed upload stays bound, whatever else is registered.
LEMMA BoundStays ==
    ASSUME NEW u \in UploadIds, CommittedIsBound(u), RowEvolves(u), artifacts \subseteq artifacts',
           UploadKnown(u)' /\ uploads'[u].state = "COMMITTED" => uploads'[u] = uploads[u]
    PROVE  CommittedIsBound(u)'
  BY DEF CommittedIsBound, RowEvolves, UploadKnown, UploadOf, ValidRef

\* A request that touches the row, the file and the acknowledged bytes of one upload.
LEMMA RowMoves ==
    ASSUME UploadInv, NEW u \in UploadIds,
           UNCHANGED <<blobs, artifacts, committer>>,
           NEW x \in UploadRow, NEW f \in Seq(Bytes) \cup {NoSpool}, NEW d \in Seq(Bytes),
           uploads' = [uploads EXCEPT ![u] = x], spool' = [spool EXCEPT ![u] = f],
           acked' = [acked EXCEPT ![u] = d],
           RowEvolves(u), x.state = "COMMITTED" => uploads[u] = x,
           x.state \in {"OPEN", "COMMITTING"} =>
               /\ x.received = Len(d) /\ f # NoSpool /\ Len(d) <= Len(f)
               /\ SubSeq(f, 1, Len(d)) = d
    PROVE  UploadInv'
<1>1. UploadRowsTyped'
  BY DEF UploadInv, UploadRowsTyped
<1>2. /\ uploads'[u] = x /\ spool'[u] = f /\ acked'[u] = d
      /\ \A v \in UploadIds \ {u} : uploads'[v] = uploads[v] /\ spool'[v] = spool[v] /\ acked'[v] = acked[v]
  BY DEF UploadInv, UploadRowsTyped
<1>3. ArtifactsAreStored'
  BY DEF UploadInv, ArtifactsAreStored
<1>4. \A v \in UploadIds : RowEvolves(v)
  BY <1>2 DEF RowEvolves, UploadKnown
<1>5. x # NoUpload
  BY NoUploadIsNoRow
<1>6. ASSUME NEW v \in UploadIds PROVE SpoolHoldsAcked(v)' /\ CommittedIsBound(v)'
  <2>1. CommittedIsBound(v)'
    BY <1>2, <1>4, BoundStays DEF UploadInv
  <2>2. CASE v = u
    BY <1>2, <1>5, <2>1, <2>2 DEF SpoolHoldsAcked, UploadKnown, UploadOf
  <2>3. CASE v # u
    BY <1>2, <2>1, <2>3 DEF UploadInv, SpoolHoldsAcked, UploadKnown, UploadOf
  <2> QED BY <2>2, <2>3
<1>7. \A c \in Committers : CommitKnows(c)'
  BY <1>4, CommitWaits DEF UploadInv
<1> QED BY <1>1, <1>3, <1>6, <1>7 DEF UploadInv

\* The facts a request starts from.
LEMMA OpenUpload ==
    ASSUME UploadInv, NEW u \in UploadIds, UploadKnown(u)
    PROVE  /\ uploads[u] \in UploadRow /\ acked[u] \in Seq(Bytes)
           /\ spool[u] \in Seq(Bytes) \cup {NoSpool} /\ Len(acked[u]) \in Nat
           /\ uploads[u].state \in {"OPEN", "COMMITTING"} =>
                /\ spool[u] \in Seq(Bytes) /\ spool[u] # NoSpool
                /\ uploads[u].received = Len(acked[u])
                /\ TruncateUncommittedTail(u) = acked[u]
<1>1. /\ uploads[u] \in UploadRow /\ acked[u] \in Seq(Bytes)
      /\ spool[u] \in Seq(Bytes) \cup {NoSpool}
  BY DEF UploadInv, UploadRowsTyped, UploadKnown
<1>2. Len(acked[u]) \in Nat
  BY <1>1, LenProperties
<1>3. SpoolHoldsAcked(u)
  BY DEF UploadInv
<1> QED BY <1>1, <1>2, <1>3 DEF SpoolHoldsAcked, UploadOf, TruncateUncommittedTail

\* The acknowledged bytes are a prefix of themselves.
LEMMA WholePrefix ==
    ASSUME NEW s \in Seq(Bytes)
    PROVE  Len(s) \in Nat /\ Len(s) <= Len(s) /\ SubSeq(s, 1, Len(s)) = s
<1>1. Len(s) \in Nat
  BY LenProperties
<1> QED BY <1>1, SubSeqFull

\* begin: an empty file for a new row.
LEMMA BeginUploadStep ==
    ASSUME UploadInv, NEW u \in UploadIds, NEW media \in MediaTypes, NEW declared \in Contents,
           BeginUpload(u, media, declared)
    PROVE  UploadInv'
<1> DEFINE x == [state |-> "OPEN", media |-> media, received |-> 0, declared |-> declared,
                 artifact |-> {}]
<1>1. x \in UploadRow /\ x.state = "OPEN" /\ x.received = 0
  BY UploadAssumption DEF UploadRow
<1>2. /\ uploads' = [uploads EXCEPT ![u] = x] /\ spool' = [spool EXCEPT ![u] = <<>>]
      /\ ~UploadKnown(u) /\ UNCHANGED <<blobs, artifacts, committer>> /\ acked' = acked
  BY DEF BeginUpload
<1>3. acked[u] = <<>> /\ acked' = [acked EXCEPT ![u] = <<>>]
  BY <1>2 DEF UploadInv, UploadRowsTyped, SpoolHoldsAcked
<1> DEFINE d == <<>>
<1>4. d \in Seq(Bytes) /\ Len(d) = 0
  OBVIOUS
<1>5. RowEvolves(u)
  BY <1>2 DEF RowEvolves
<1>6. spool' = [spool EXCEPT ![u] = d] /\ acked' = [acked EXCEPT ![u] = d]
  BY <1>2, <1>3
<1> HIDE DEF x, d
<1>7. d # NoSpool
  BY <1>4, UploadAssumption
<1> QED BY <1>1, <1>2, <1>4, <1>5, <1>6, <1>7, WholePrefix, RowMoves

\* A repeated begin and the start of a commit cut the file back to the durable bytes.
LEMMA TruncateStep ==
    ASSUME UploadInv, NEW u \in UploadIds, RepeatBegin(u)
    PROVE  UploadInv'
<1>1. /\ uploads' = uploads /\ spool' = [spool EXCEPT ![u] = TruncateUncommittedTail(u)]
      /\ UploadKnown(u) /\ uploads[u].state \in {"OPEN", "COMMITTING"}
      /\ UNCHANGED <<blobs, artifacts, committer>> /\ acked' = acked
  BY DEF RepeatBegin, UploadOf
<1>2. /\ uploads[u] \in UploadRow /\ acked[u] \in Seq(Bytes)
      /\ uploads[u].received = Len(acked[u]) /\ TruncateUncommittedTail(u) = acked[u]
  BY <1>1, OpenUpload
<1>3. acked' = [acked EXCEPT ![u] = acked[u]] /\ uploads' = [uploads EXCEPT ![u] = uploads[u]]
  BY <1>1 DEF UploadInv, UploadRowsTyped
<1>4. RowEvolves(u)
  BY <1>1 DEF RowEvolves, UploadKnown
<1>5. acked[u] # NoSpool
  BY <1>2, UploadAssumption
<1>6. spool' = [spool EXCEPT ![u] = acked[u]]
  BY <1>1, <1>2
<1> QED BY <1>1, <1>2, <1>3, <1>4, <1>5, <1>6, WholePrefix, RowMoves

\* A chunk is written behind the durable bytes, then the row moves, or the request dies.
LEMMA AppendChunkStep ==
    ASSUME UploadInv, NEW u \in UploadIds, NEW data \in Chunks, NEW dies \in BOOLEAN,
           AppendChunk(u, data, dies)
    PROVE  UploadInv'
<1>1. /\ spool' = [spool EXCEPT ![u] = TruncateUncommittedTail(u) \o data]
      /\ UploadKnown(u) /\ uploads[u].state = "OPEN"
      /\ uploads[u].received + Len(data) <= Len(uploads[u].declared)
      /\ UNCHANGED <<blobs, artifacts, committer>>
  BY DEF AppendChunk, UploadOf
<1>2. /\ uploads[u] \in UploadRow /\ acked[u] \in Seq(Bytes)
      /\ uploads[u].received = Len(acked[u]) /\ TruncateUncommittedTail(u) = acked[u]
  BY <1>1, OpenUpload
<1> DEFINE d == acked[u] \o data
<1>3. data \in Seq(Bytes) /\ Len(data) \in Nat /\ Len(acked[u]) \in Nat
  BY <1>2, ContentsAreSeqs, LenProperties DEF Chunks
<1>4. /\ d \in Seq(Bytes) /\ Len(d) = Len(acked[u]) + Len(data) /\ d # NoSpool
  BY <1>2, <1>3, ConcatProperties, UploadAssumption
<1>5. SubSeq(d, 1, Len(acked[u])) = acked[u]
  BY <1>2, <1>3
<1>6. spool' = [spool EXCEPT ![u] = d]
  BY <1>1, <1>2
<1>7. CASE dies
  <2>1. uploads' = [uploads EXCEPT ![u] = uploads[u]] /\ acked' = [acked EXCEPT ![u] = acked[u]]
    BY <1>7 DEF AppendChunk, UploadInv, UploadRowsTyped
  <2>2. RowEvolves(u)
    BY <1>1, <2>1 DEF RowEvolves, UploadKnown, UploadInv, UploadRowsTyped
  <2> HIDE DEF d
  <2>3. Len(acked[u]) <= Len(d)
    BY <1>3, <1>4
  <2> QED BY <1>1, <1>2, <1>4, <1>5, <1>6, <2>1, <2>2, <2>3, RowMoves
<1>8. CASE ~dies
  <2> DEFINE x == [uploads[u] EXCEPT !.received = @ + Len(data)]
  <2>1. uploads' = [uploads EXCEPT ![u] = x] /\ acked' = [acked EXCEPT ![u] = d]
    BY <1>8 DEF AppendChunk
  <2>2. Len(uploads[u].declared) \in 0 .. MaxBytes
    BY <1>2, ContentsAreSeqs DEF UploadRow
  <2>3. uploads[u].received + Len(data) \in 0 .. MaxBytes
    BY <1>1, <1>2, <1>3, <2>2, UploadAssumption
  <2>4. /\ x \in UploadRow /\ x.state = "OPEN" /\ x.received = Len(d)
        /\ x.media = uploads[u].media /\ x.declared = uploads[u].declared
    BY <1>1, <1>2, <1>4, <2>3 DEF UploadRow
  <2> HIDE DEF x
  <2>5. RowEvolves(u)
    BY <1>1, <2>1, <2>4, NoUploadIsNoRow DEF RowEvolves, UploadKnown, UploadInv, UploadRowsTyped
  <2> HIDE DEF d
  <2> QED BY <1>1, <1>4, <1>6, <2>1, <2>4, <2>5, WholePrefix, RowMoves
<1> QED BY <1>7, <1>8

\* An abort removes the file of an upload that is not committed.
LEMMA AbortUploadStep ==
    ASSUME UploadInv, NEW u \in UploadIds, AbortUpload(u)
    PROVE  UploadInv'
<1> DEFINE x == [uploads[u] EXCEPT !.state = "ABORTED"]
<1>1. /\ uploads' = [uploads EXCEPT ![u] = x] /\ spool' = [spool EXCEPT ![u] = NoSpool]
      /\ UploadKnown(u) /\ uploads[u].state # "COMMITTED"
      /\ UNCHANGED <<blobs, artifacts, committer>> /\ acked' = acked
  BY DEF AbortUpload, UploadOf
<1>2. uploads[u] \in UploadRow /\ acked[u] \in Seq(Bytes) /\ acked' = [acked EXCEPT ![u] = acked[u]]
  BY <1>1 DEF UploadInv, UploadRowsTyped, UploadKnown
<1>3. /\ x \in UploadRow /\ x.state = "ABORTED"
      /\ x.media = uploads[u].media /\ x.declared = uploads[u].declared
  BY <1>2 DEF UploadRow
<1> HIDE DEF x
<1>4. RowEvolves(u)
  BY <1>1, <1>3, NoUploadIsNoRow DEF RowEvolves, UploadKnown, UploadInv, UploadRowsTyped
<1> QED BY <1>1, <1>2, <1>3, <1>4, RowMoves

\* A step of a committer that touches neither rows nor files.
LEMMA CommitMoves ==
    ASSUME UploadInv, NEW c \in Committers, NEW q \in CommitRow,
           committer' = [committer EXCEPT ![c] = q],
           UNCHANGED <<uploads, spool, acked>>,
           blobs \subseteq blobs', blobs' \subseteq Contents,
           artifacts \subseteq artifacts', artifacts' \subseteq ArtifactRow,
           ArtifactsAreStored', CommitKnows(c)'
    PROVE  UploadInv'
<1>1. UploadRowsTyped'
  BY DEF UploadInv, UploadRowsTyped
<1>2. \A u \in UploadIds : RowEvolves(u)
  BY DEF RowEvolves, UploadKnown
<1>3. \A u \in UploadIds : SpoolHoldsAcked(u)' /\ CommittedIsBound(u)'
  BY <1>2, BoundStays DEF UploadInv, SpoolHoldsAcked, UploadKnown, UploadOf
<1>4. \A d \in Committers \ {c} : committer'[d] = committer[d]
  BY DEF UploadInv, UploadRowsTyped
<1>5. \A d \in Committers : CommitKnows(d)'
  BY <1>2, <1>4, CommitWaits DEF UploadInv
<1> QED BY <1>1, <1>3, <1>5 DEF UploadInv

\* The facts a committer starts from.
LEMMA CommitTyped ==
    ASSUME UploadInv, NEW c \in Committers, NEW pc \in {"idle", "prepared", "new", "stored", "registered", "bound"}
    PROVE  /\ committer[c] \in CommitRow /\ CommitKnows(c)
           /\ [committer[c] EXCEPT !.pc = pc] \in CommitRow
           /\ CommitGoto(c, pc) => /\ committer' = [committer EXCEPT ![c] = [committer[c] EXCEPT !.pc = pc]]
                                   /\ committer'[c].pc = pc /\ committer'[c].id = committer[c].id
<1>1. committer[c] \in CommitRow /\ CommitKnows(c)
  BY DEF UploadInv, UploadRowsTyped
<1> QED BY <1>1 DEF CommitRow, CommitGoto, UploadInv, UploadRowsTyped

\* A committer gives up, dies, or finds the content missing or registered already.
LEMMA LookUpStep ==
    ASSUME UploadInv, NEW c \in Committers, LookUpArtifact(c) \/ CommitterDies(c)
    PROVE  UploadInv'
<1>1. /\ UNCHANGED <<uploads, spool, blobs, artifacts, acked>>
      /\ blobs' \subseteq Contents /\ artifacts' \subseteq ArtifactRow /\ ArtifactsAreStored'
  BY DEF LookUpArtifact, CommitterDies, UploadInv, UploadRowsTyped, ArtifactsAreStored
<1>2. ASSUME NEW pc \in {"idle", "prepared", "new", "stored", "registered", "bound"}, CommitGoto(c, pc),
             CommitKnows(c)'
      PROVE  UploadInv'
  <2>1. /\ [committer[c] EXCEPT !.pc = pc] \in CommitRow
        /\ committer' = [committer EXCEPT ![c] = [committer[c] EXCEPT !.pc = pc]]
    BY <1>2, CommitTyped
  <2> QED BY <1>1, <1>2, <2>1, CommitMoves
<1>3. CASE CommitterDies(c)
  <2>1. CommitGoto(c, "idle") /\ CommitKnows(c)'
    BY <1>3, CommitTyped DEF CommitterDies, CommitKnows, CommitAt
  <2> QED BY <1>2, <2>1
<1>4. CASE LookUpArtifact(c)
  <2> DEFINE u == UploadBy(c)
             found == FindBySha256(UploadOf(u).declared)
  <2>1. CommitAt(c, "prepared") /\ u \in UploadIds /\ UploadKnown(u) /\ UploadOf(u).state # "OPEN"
    BY <1>4, CommitTyped DEF LookUpArtifact, CommitAt, CommitKnows
  <2>2. CASE found = {}
    <3>1. CommitGoto(c, "new")
      BY <1>4, <2>2 DEF LookUpArtifact
    <3>2. CommitKnows(c)'
      BY <1>1, <2>1, <3>1, CommitTyped DEF CommitKnows, CommitAt, UploadBy, UploadKnown, UploadOf
    <3> QED BY <1>2, <3>1, <3>2
  <2>3. CASE found # {} /\ \A a \in found : ValidRef(a, u)
    <3>1. CommitGoto(c, "registered")
      BY <1>4, <2>3 DEF LookUpArtifact
    <3>2. \E a \in artifacts : ValidRef(a, u)
      BY <2>3 DEF FindBySha256
    <3>3. CommitKnows(c)'
      BY <1>1, <2>1, <3>1, <3>2, CommitTyped DEF CommitKnows, CommitAt, UploadBy, UploadKnown, UploadOf, ValidRef
    <3> QED BY <1>2, <3>1, <3>3
  <2>4. CASE found # {} /\ ~\A a \in found : ValidRef(a, u)
    <3>1. CommitGoto(c, "idle")
      BY <1>4, <2>4 DEF LookUpArtifact
    <3>2. CommitKnows(c)'
      BY <3>1, CommitTyped DEF CommitKnows, CommitAt
    <3> QED BY <1>2, <3>1, <3>2
  <2> QED BY <2>2, <2>3, <2>4
<1> QED BY <1>3, <1>4

\* The content store takes a file that is the declared content.
LEMMA CommitToStoreStep ==
    ASSUME UploadInv, NEW c \in Committers, CommitToStore(c)
    PROVE  UploadInv'
<1> DEFINE u == UploadBy(c)
<1>1. /\ CommitAt(c, "new") /\ u \in UploadIds /\ UploadKnown(u) /\ UploadOf(u).state # "OPEN"
      /\ UNCHANGED <<uploads, spool, artifacts, acked>>
  BY CommitTyped DEF CommitToStore, CommitAt, CommitKnows
<1>2. UploadOf(u).declared \in Contents
  BY <1>1 DEF UploadInv, UploadRowsTyped, UploadKnown, UploadOf, UploadRow
<1>3. blobs \subseteq blobs' /\ blobs' \subseteq Contents
  BY <1>2 DEF CommitToStore, SpoolMatches, UploadInv, UploadRowsTyped
<1>4. ArtifactsAreStored' /\ artifacts' \subseteq ArtifactRow
  BY <1>1, <1>3 DEF UploadInv, UploadRowsTyped, ArtifactsAreStored
<1>5. CASE SpoolMatches(u)
  <2>1. CommitGoto(c, "stored") /\ UploadOf(u).declared \in blobs'
    BY <1>5 DEF CommitToStore, SpoolMatches
  <2>2. CommitKnows(c)'
    BY <1>1, <2>1, CommitTyped DEF CommitKnows, CommitAt, UploadBy, UploadKnown, UploadOf
  <2> QED BY <1>1, <1>3, <1>4, <2>1, <2>2, CommitTyped, CommitMoves
<1>6. CASE ~SpoolMatches(u)
  <2>1. CommitGoto(c, "idle")
    BY <1>6 DEF CommitToStore
  <2>2. CommitKnows(c)'
    BY <2>1, CommitTyped DEF CommitKnows, CommitAt
  <2> QED BY <1>1, <1>3, <1>4, <2>1, <2>2, CommitTyped, CommitMoves
<1> QED BY <1>5, <1>6

\* A row is registered once per content, and only for content the store has.
LEMMA RegisterArtifactStep ==
    ASSUME UploadInv, NEW c \in Committers, RegisterArtifact(c)
    PROVE  UploadInv'
<1> DEFINE u == UploadBy(c)
           found == FindBySha256(UploadOf(u).declared)
           n == [content |-> UploadOf(u).declared, media |-> UploadOf(u).media]
<1>1. /\ CommitAt(c, "stored") /\ u \in UploadIds /\ UploadKnown(u) /\ UploadOf(u).state # "OPEN"
      /\ UploadOf(u).declared \in blobs
      /\ UNCHANGED <<uploads, spool, blobs, acked>>
  BY CommitTyped DEF RegisterArtifact, CommitAt, CommitKnows
<1>2. n \in ArtifactRow /\ n.content = UploadOf(u).declared /\ n.media = UploadOf(u).media
  BY <1>1 DEF UploadInv, UploadRowsTyped, UploadKnown, UploadOf, UploadRow, ArtifactRow
<1>3. artifacts' = IF found = {} THEN artifacts \cup {n} ELSE artifacts
  BY DEF RegisterArtifact
<1> HIDE DEF n
<1>4. /\ artifacts \subseteq artifacts' /\ artifacts' \subseteq ArtifactRow
      /\ blobs \subseteq blobs' /\ blobs' \subseteq Contents
  BY <1>1, <1>2, <1>3 DEF UploadInv, UploadRowsTyped
<1>5. ArtifactsAreStored'
  BY <1>1, <1>2, <1>3 DEF UploadInv, ArtifactsAreStored, FindBySha256
<1>6. CASE \A a \in found : ValidRef(a, u)
  <2>1. CommitGoto(c, "registered")
    BY <1>6 DEF RegisterArtifact
  <2>2. \E a \in artifacts' : ValidRef(a, u)
    <3>1. CASE found = {}
      BY <1>2, <1>3, <3>1 DEF ValidRef
    <3>2. CASE found # {}
      BY <1>3, <1>6, <3>2 DEF FindBySha256
    <3> QED BY <3>1, <3>2
  <2>3. CommitKnows(c)'
    BY <1>1, <2>1, <2>2, CommitTyped DEF CommitKnows, CommitAt, UploadBy, UploadKnown, UploadOf, ValidRef
  <2> QED BY <1>1, <1>4, <1>5, <2>1, <2>3, CommitTyped, CommitMoves
<1>7. CASE ~\A a \in found : ValidRef(a, u)
  <2>1. CommitGoto(c, "idle")
    BY <1>7 DEF RegisterArtifact
  <2>2. CommitKnows(c)'
    BY <2>1, CommitTyped DEF CommitKnows, CommitAt
  <2> QED BY <1>1, <1>4, <1>5, <2>1, <2>2, CommitTyped, CommitMoves
<1> QED BY <1>6, <1>7

\* A step that moves a committer and the row or the file of its upload.
LEMMA CommitAndRowMove ==
    ASSUME UploadInv, NEW c \in Committers, NEW q \in CommitRow, NEW u \in UploadIds,
           NEW x \in UploadRow, NEW f \in Seq(Bytes) \cup {NoSpool},
           committer' = [committer EXCEPT ![c] = q],
           uploads' = [uploads EXCEPT ![u] = x], spool' = [spool EXCEPT ![u] = f],
           UNCHANGED <<blobs, artifacts, acked>>,
           RowEvolves(u), SpoolHoldsAcked(u)', CommittedIsBound(u)', CommitKnows(c)'
    PROVE  UploadInv'
<1>1. UploadRowsTyped' /\ ArtifactsAreStored'
  BY DEF UploadInv, UploadRowsTyped, ArtifactsAreStored
<1>2. /\ \A v \in UploadIds \ {u} : uploads'[v] = uploads[v] /\ spool'[v] = spool[v]
      /\ \A d \in Committers \ {c} : committer'[d] = committer[d]
  BY DEF UploadInv, UploadRowsTyped
<1>3. \A v \in UploadIds : RowEvolves(v)
  BY <1>2 DEF RowEvolves, UploadKnown
<1>4. \A v \in UploadIds : SpoolHoldsAcked(v)' /\ CommittedIsBound(v)'
  BY <1>2 DEF UploadInv, SpoolHoldsAcked, CommittedIsBound, UploadKnown, UploadOf, ValidRef
<1>5. \A d \in Committers : CommitKnows(d)'
  BY <1>2, <1>3, CommitWaits DEF UploadInv
<1> QED BY <1>1, <1>4, <1>5 DEF UploadInv

\* prepare: the row moves to COMMITTING over a file of the durable bytes.
LEMMA PrepareCommitStep ==
    ASSUME UploadInv, NEW c \in Committers, NEW u \in UploadIds, PrepareCommit(c, u)
    PROVE  UploadInv'
<1> DEFINE q == [pc |-> "prepared", id |-> u]
           x == [uploads[u] EXCEPT !.state = "COMMITTING"]
<1>1. /\ committer' = [committer EXCEPT ![c] = q] /\ uploads' = [uploads EXCEPT ![u] = x]
      /\ spool' = [spool EXCEPT ![u] = TruncateUncommittedTail(u)]
      /\ UploadKnown(u) /\ uploads[u].state \in {"OPEN", "COMMITTING"}
      /\ UNCHANGED <<blobs, artifacts, acked>>
  BY DEF PrepareCommit, UploadOf
<1>2. /\ uploads[u] \in UploadRow /\ acked[u] \in Seq(Bytes)
      /\ uploads[u].received = Len(acked[u]) /\ TruncateUncommittedTail(u) = acked[u]
  BY <1>1, OpenUpload
<1>3. /\ q \in CommitRow /\ q.pc = "prepared" /\ q.id = u
      /\ x \in UploadRow /\ x.state = "COMMITTING" /\ x.received = uploads[u].received
      /\ x.media = uploads[u].media /\ x.declared = uploads[u].declared /\ x # NoUpload
  BY <1>2, NoUploadIsNoRow DEF CommitRow, UploadRow
<1> HIDE DEF q, x
<1>4. uploads'[u] = x /\ spool'[u] = acked[u] /\ committer'[c] = q
  BY <1>1, <1>2 DEF UploadInv, UploadRowsTyped
<1>5. RowEvolves(u)
  BY <1>1, <1>3, <1>4 DEF RowEvolves
<1>6. SpoolHoldsAcked(u)'
  BY <1>1, <1>2, <1>3, <1>4, WholePrefix, UploadAssumption DEF SpoolHoldsAcked, UploadKnown, UploadOf
<1>7. CommittedIsBound(u)'
  BY <1>3, <1>4 DEF CommittedIsBound, UploadKnown, UploadOf
<1>8. CommitKnows(c)'
  BY <1>3, <1>4 DEF CommitKnows, CommitAt, UploadBy, UploadKnown, UploadOf
<1>9. spool' = [spool EXCEPT ![u] = acked[u]]
  BY <1>1, <1>2
<1> QED BY <1>1, <1>2, <1>3, <1>5, <1>6, <1>7, <1>8, <1>9, CommitAndRowMove

\* bind: a row that is still COMMITTING is bound to the one artifact of its content.
LEMMA BindCommittedStep ==
    ASSUME UploadInv, NEW c \in Committers, BindCommitted(c)
    PROVE  UploadInv'
<1>0. PICK u \in UploadIds : u = UploadBy(c)
  BY CommitTyped DEF BindCommitted, CommitAt, CommitKnows
<1> DEFINE found == FindBySha256(UploadOf(u).declared)
           x == [uploads[u] EXCEPT !.state = "COMMITTED", !.artifact = found]
<1>1. /\ CommitAt(c, "registered") /\ UploadKnown(u) /\ UploadOf(u).state # "OPEN"
      /\ UNCHANGED <<spool, blobs, artifacts, acked>>
  BY <1>0, CommitTyped DEF BindCommitted, CommitAt, CommitKnows
<1>2. PICK a \in artifacts : ValidRef(a, u)
  BY <1>0, <1>1, CommitTyped DEF CommitAt, CommitKnows
<1>3. found = {a}
  BY <1>2 DEF FindBySha256, ValidRef, UploadInv, ArtifactsAreStored
<1>4. uploads[u] \in UploadRow
  BY <1>1 DEF UploadInv, UploadRowsTyped, UploadKnown
<1>5. /\ x \in UploadRow /\ x.state = "COMMITTED" /\ x.artifact = {a}
      /\ x.media = uploads[u].media /\ x.declared = uploads[u].declared /\ x # NoUpload
  <2>1. PICK y \in UploadRow : y = uploads[u]
    BY <1>4
  <2>2. found \in SUBSET [content : Contents, media : MediaTypes]
    BY <1>3 DEF UploadInv, UploadRowsTyped, ArtifactRow
  <2>3. x = [y EXCEPT !.state = "COMMITTED", !.artifact = found]
    BY <2>1
  <2> HIDE DEF x, found
  <2>4. x \in UploadRow /\ x.state = "COMMITTED" /\ x.artifact = found
        /\ x.media = y.media /\ x.declared = y.declared
    BY <2>2, <2>3 DEF UploadRow
  <2> QED BY <1>3, <2>1, <2>4, NoUploadIsNoRow
<1> HIDE DEF x
<1>6. CASE UploadOf(u).state = "COMMITTING"
  <2>1. uploads' = [uploads EXCEPT ![u] = x] /\ CommitGoto(c, "bound")
    BY <1>0, <1>6 DEF BindCommitted, x, UploadOf
  <2>2. uploads'[u] = x /\ spool' = [spool EXCEPT ![u] = spool[u]]
        /\ spool[u] \in Seq(Bytes) \cup {NoSpool}
    BY <1>1, <2>1 DEF UploadInv, UploadRowsTyped
  <2>3. RowEvolves(u)
    BY <1>5, <1>6, <2>2 DEF RowEvolves, UploadOf
  <2>4. SpoolHoldsAcked(u)' /\ CommittedIsBound(u)'
    BY <1>1, <1>2, <1>5, <2>2 DEF SpoolHoldsAcked, CommittedIsBound, UploadKnown, UploadOf, ValidRef
  <2>5. PICK q \in CommitRow : /\ committer' = [committer EXCEPT ![c] = q] /\ committer'[c].pc = "bound"
                               /\ committer'[c].id = committer[c].id
    BY <2>1, CommitTyped
  <2>6. CommitKnows(c)'
    BY <1>0, <1>5, <2>2, <2>5 DEF CommitKnows, CommitAt, UploadBy, UploadKnown, UploadOf
  <2>7. UNCHANGED <<blobs, artifacts, acked>> /\ x \in UploadRow
    BY <1>1, <1>5
  <2>8. uploads' = [uploads EXCEPT ![u] = x]
    BY <2>1
  <2> QED BY <2>2, <2>3, <2>4, <2>5, <2>6, <2>7, <2>8, CommitAndRowMove
<1>7. CASE UploadOf(u).state # "COMMITTING"
  <2>1. CommitGoto(c, "idle") /\ UNCHANGED uploads
    BY <1>0, <1>7 DEF BindCommitted
  <2>2. CommitKnows(c)'
    BY <2>1, CommitTyped DEF CommitKnows, CommitAt
  <2>3. ArtifactsAreStored' /\ blobs' \subseteq Contents /\ artifacts' \subseteq ArtifactRow
    BY <1>1 DEF UploadInv, UploadRowsTyped, ArtifactsAreStored
  <2> QED BY <1>1, <2>1, <2>2, <2>3, CommitTyped, CommitMoves
<1> QED BY <1>6, <1>7

\* The file of a committed upload is removed.
LEMMA RemoveSpoolStep ==
    ASSUME UploadInv, NEW c \in Committers, RemoveSpool(c)
    PROVE  UploadInv'
<1>0. PICK u \in UploadIds : u = UploadBy(c)
  BY CommitTyped DEF RemoveSpool, CommitAt, CommitKnows
<1>1. /\ CommitAt(c, "bound") /\ UploadKnown(u) /\ UploadOf(u).state = "COMMITTED"
      /\ UNCHANGED <<uploads, blobs, artifacts, acked>> /\ CommitGoto(c, "idle")
      /\ spool' = [spool EXCEPT ![u] = NoSpool]
  BY <1>0, CommitTyped DEF RemoveSpool, CommitAt, CommitKnows
<1>2. uploads[u] \in UploadRow /\ uploads' = [uploads EXCEPT ![u] = uploads[u]]
  BY <1>1 DEF UploadInv, UploadRowsTyped, UploadKnown
<1>3. RowEvolves(u)
  BY <1>1 DEF RowEvolves, UploadKnown
<1>4. SpoolHoldsAcked(u)' /\ CommittedIsBound(u)'
  BY <1>1 DEF UploadInv, SpoolHoldsAcked, CommittedIsBound, UploadKnown, UploadOf, ValidRef
<1>5. CommitKnows(c)'
  BY <1>1, CommitTyped DEF CommitKnows, CommitAt
<1> QED BY <1>1, <1>2, <1>3, <1>4, <1>5, CommitTyped, CommitAndRowMove

\* Every request and every step of a commit keeps the invariant.
LEMMA UploadNextKeeps ==
    ASSUME UploadInv, [UploadNext]_uploadVars PROVE UploadInv'
<1>1. CASE UploadNext
  BY <1>1, BeginUploadStep, TruncateStep, AppendChunkStep, AbortUploadStep, PrepareCommitStep,
     LookUpStep, CommitToStoreStep, RegisterArtifactStep, BindCommittedStep, RemoveSpoolStep
     DEF UploadNext
<1>2. CASE UNCHANGED uploadVars
  BY <1>2 DEF uploadVars, UploadInv, UploadRowsTyped, ArtifactsAreStored, SpoolHoldsAcked,
     CommittedIsBound, CommitKnows, UploadKnown, UploadOf, ValidRef, CommitAt, UploadBy
<1> QED BY <1>1, <1>2

\* Whatever requests and committers die, and in whatever order they run: acknowledged bytes
\* are in the spool file of an upload that is under way, and a committed upload names the
\* one artifact of its content, whose bytes are stored (artifact_upload.py append, commit).
THEOREM UploadsAlwaysDurable == UploadSpec => []UploadsAreDurable
<1>1. UploadInit => UploadInv
  <2> SUFFICES ASSUME UploadInit PROVE UploadInv
    OBVIOUS
  <2>1. <<>> \in Seq(Bytes) /\ NoCommit \in CommitRow /\ NoCommit.pc = "idle"
    BY DEF NoCommit, CommitRow
  <2> QED BY <2>1 DEF UploadInit, UploadInv, UploadRowsTyped, ArtifactsAreStored, SpoolHoldsAcked,
             CommittedIsBound, CommitKnows, UploadKnown, CommitAt
<1>2. UploadInv /\ [UploadNext]_uploadVars => UploadInv'
  BY UploadNextKeeps
<1>3. UploadInv => UploadsAreDurable
  <2> SUFFICES ASSUME UploadInv PROVE UploadsAreDurable
    OBVIOUS
  <2>1. UploadTypeOK
    BY DEF UploadInv, UploadRowsTyped, UploadTypeOK, CommitRow, ArtifactRow
  <2>2. ASSUME NEW u \in UploadIds, UploadKnown(u), UploadOf(u).state \in {"OPEN", "COMMITTING"}
        PROVE  /\ UploadOf(u).received = Len(acked[u])
               /\ spool[u] # NoSpool /\ IsPrefix(acked[u], spool[u])
    <3>1. acked[u] \in Seq(Bytes) /\ SpoolHoldsAcked(u)
      BY DEF UploadInv, UploadRowsTyped
    <3> QED BY <2>2, <3>1, WholePrefix DEF SpoolHoldsAcked, IsPrefix
  <2>3. ASSUME NEW u \in UploadIds, UploadKnown(u), UploadOf(u).state = "COMMITTED"
        PROVE  /\ Cardinality(UploadOf(u).artifact) = 1
               /\ \A a \in UploadOf(u).artifact : ValidRef(a, u) /\ a \in artifacts
    BY <2>3, FS_Singleton DEF UploadInv, CommittedIsBound
  <2> QED BY <2>1, <2>2, <2>3 DEF UploadsAreDurable, UploadInv, ArtifactsAreStored
<1> QED BY <1>1, <1>2, <1>3, PTL DEF UploadSpec

-----------------------------------------------------------------------------
(* Materials and source snapshots                                           *)

MaterialRowsTyped ==
    /\ material \subseteq Sources /\ anchors \subseteq ExtractionIds \X MaterialTexts
    /\ extraction \in [ExtractionIds -> ExtractionRow \cup {NoMaterial}]
    /\ answers \in [SnapshotIds -> AnswerRow \cup {NoMaterial}]
    /\ toolAttempt \in 1 .. MaxToolAttempt
    /\ DOMAIN reader = MaterialWorkers /\ DOMAIN asker = MaterialWorkers

\* A human revision corrects a readable extraction of the same source.
CorrectionOf(row, e) ==
    row.mode = "HUMAN_REVISION" =>
        /\ row.from \in ExtractionIds /\ Readable(row.from) /\ row.from # e
        /\ extraction[row.from].source = row.source /\ extraction[row.from].text # row.text

\* What a reader holds: a row for its id, which is stored once it writes anchors.
ReaderKnows(w) ==
    LET row == reader[w].row
        e == reader[w].id
    IN  /\ reader[w].pc \in {"idle", "insert", "anchors"}
        /\ reader[w].pc # "idle" =>
             /\ e \in ExtractionIds /\ row \in ExtractionRow /\ CorrectionOf(row, e)
             /\ row.status = "SUCCEEDED" => row.text \in MaterialTexts
        /\ reader[w].pc = "anchors" => extraction[e] = row /\ row.status = "SUCCEEDED"

ReplayOf(row) ==
    row.mode = "REPLAYED_SNAPSHOT" =>
        /\ row.parent \in SnapshotIds /\ answers[row.parent] # NoMaterial
        /\ answers[row.parent].raw = row.raw

AskerKnows(w) ==
    /\ asker[w].pc \in {"idle", "insert"}
    /\ asker[w].pc = "insert" =>
         asker[w].id \in SnapshotIds /\ asker[w].row \in AnswerRow /\ ReplayOf(asker[w].row)

MaterialInv ==
    /\ MaterialRowsTyped
    /\ \A a \in anchors : Readable(a[1]) /\ extraction[a[1]].text = a[2]
    /\ \A e \in ExtractionIds : Extracted(e) => CorrectionOf(extraction[e], e)
    /\ \A n \in SnapshotIds : answers[n] # NoMaterial => ReplayOf(answers[n])
    /\ \A w \in MaterialWorkers : ReaderKnows(w) /\ AskerKnows(w)

\* Rows of extractions and of answers are written once.
LEMMA ExtractionsStay ==
    ASSUME MaterialInv, MaterialRowsTyped', anchors' = anchors, asker' = asker, answers' = answers,
           \A e \in ExtractionIds : Extracted(e) => extraction'[e] = extraction[e],
           \A e \in ExtractionIds : Extracted(e)' => Extracted(e) \/ CorrectionOf(extraction'[e], e),
           NEW w \in MaterialWorkers, \A v \in MaterialWorkers \ {w} : reader'[v] = reader[v],
           ReaderKnows(w)'
    PROVE  MaterialInv'
<1>1. \A e \in ExtractionIds : Readable(e) => Readable(e)' /\ extraction'[e] = extraction[e]
  BY DEF Readable, Extracted
<1>2. ASSUME NEW row, NEW e, CorrectionOf(row, e) PROVE CorrectionOf(row, e)'
  BY <1>1, <1>2 DEF CorrectionOf
<1>3. ASSUME NEW v \in MaterialWorkers PROVE ReaderKnows(v)' /\ AskerKnows(v)'
  <2>1. AskerKnows(v)'
    BY DEF MaterialInv, AskerKnows, ReplayOf
  <2>2. CASE v # w
    <3>1. ReaderKnows(v) /\ reader'[v] = reader[v]
      BY <2>2 DEF MaterialInv
    <3>2. ASSUME reader[v].pc = "anchors"
          PROVE  extraction'[reader[v].id] = reader[v].row
      <4>1. Extracted(reader[v].id) /\ reader[v].id \in ExtractionIds
        BY <3>1, <3>2, NoMaterialIsNoRow DEF ReaderKnows, Extracted
      <4> QED BY <3>1, <3>2, <4>1 DEF ReaderKnows
    <3> QED BY <1>2, <2>1, <3>1, <3>2 DEF ReaderKnows
  <2> QED BY <2>1, <2>2
<1>4. \A a \in anchors' : Readable(a[1])' /\ extraction'[a[1]].text = a[2]
  BY <1>1 DEF MaterialInv, MaterialRowsTyped
<1>5. \A e \in ExtractionIds : Extracted(e)' => CorrectionOf(extraction[e], e)'
  <2> SUFFICES ASSUME NEW e \in ExtractionIds, Extracted(e)' PROVE CorrectionOf(extraction[e], e)'
    OBVIOUS
  <2>1. CorrectionOf(extraction'[e], e)
    BY DEF MaterialInv
  <2> QED BY <1>1, <2>1 DEF CorrectionOf
<1>6. \A n \in SnapshotIds : answers'[n] # NoMaterial => ReplayOf(answers[n])'
  BY DEF MaterialInv, ReplayOf
<1> QED BY <1>3, <1>4, <1>5, <1>6 DEF MaterialInv

\* A process that has nothing in hand.
LEMMA IdleReaderKnows ==
    ASSUME NEW w \in MaterialWorkers, reader'[w] = IdleReader
    PROVE  ReaderKnows(w)'
  BY DEF ReaderKnows, IdleReader

\* Ingestion, another attempt of the tool run, or a reader that begins or stops.
LEMMA ReaderMoves ==
    ASSUME MaterialInv, NEW w \in MaterialWorkers, NEW q, reader' = [reader EXCEPT ![w] = q],
           UNCHANGED <<material, extraction, anchors, toolAttempt, answers, asker>>,
           ReaderKnows(w)'
    PROVE  MaterialInv'
<1>1. MaterialRowsTyped' /\ \A v \in MaterialWorkers \ {w} : reader'[v] = reader[v]
  BY DEF MaterialInv, MaterialRowsTyped
<1>2. /\ \A e \in ExtractionIds : Extracted(e) => extraction'[e] = extraction[e]
      /\ \A e \in ExtractionIds : Extracted(e)' => Extracted(e) \/ CorrectionOf(extraction'[e], e)
  BY DEF Extracted
<1> QED BY <1>1, <1>2, ExtractionsStay

\* A machine extraction of an ingested source, whatever the parser makes of it.
LEMMA BeginExtractStep ==
    ASSUME MaterialInv, NEW w \in MaterialWorkers, NEW e \in ExtractionIds, NEW s \in Sources,
           BeginExtract(w, e, s)
    PROVE  MaterialInv'
<1> DEFINE row == MachineRow(w, s)
           q == [pc |-> "insert", id |-> e, row |-> row]
<1>1. /\ reader' = [reader EXCEPT ![w] = q]
      /\ UNCHANGED <<material, extraction, anchors, toolAttempt, answers, asker>>
  BY DEF BeginExtract
<1>2. toolAttempt \in 0 .. MaxToolAttempt /\ ReadAs[s] \in MaterialTexts \cup {NoMaterial}
  BY ParserReads, ToolRunHasAttempt DEF MaterialInv, MaterialRowsTyped
<1>3. /\ row \in ExtractionRow /\ row.mode = "MACHINE"
      /\ row.status = "SUCCEEDED" => row.text \in MaterialTexts
  BY <1>2 DEF MachineRow, ExtractionRow
<1> HIDE DEF row
<1>4. reader'[w] = q /\ q.pc = "insert" /\ q.id = e /\ q.row = row
  BY <1>1 DEF MaterialInv, MaterialRowsTyped
<1> HIDE DEF q
<1>5. ReaderKnows(w)'
  BY <1>3, <1>4 DEF ReaderKnows, CorrectionOf
<1> QED BY <1>1, <1>5, ReaderMoves

\* A revision of a readable extraction under an id that is free, so not its own.
LEMMA BeginReviseStep ==
    ASSUME MaterialInv, NEW w \in MaterialWorkers, NEW e \in ExtractionIds,
           NEW old \in ExtractionIds, NEW t \in MaterialTexts, BeginRevise(w, e, old, t)
    PROVE  MaterialInv'
<1> DEFINE row == [source |-> extraction[old].source, mode |-> "HUMAN_REVISION", from |-> old,
                   by |-> w, attempt |-> 0, status |-> "SUCCEEDED", text |-> t]
           q == [pc |-> "insert", id |-> e, row |-> row]
<1>1. /\ reader' = [reader EXCEPT ![w] = q] /\ ~Extracted(e) /\ Readable(old)
      /\ t # extraction[old].text
      /\ UNCHANGED <<material, extraction, anchors, toolAttempt, answers, asker>>
  BY DEF BeginRevise
<1>2. extraction[old] \in ExtractionRow /\ old # e /\ 0 \in 0 .. MaxToolAttempt
  BY <1>1, ToolRunHasAttempt DEF Readable, Extracted, MaterialInv, MaterialRowsTyped
<1>3. /\ row \in ExtractionRow /\ row.from = old /\ row.source = extraction[old].source
      /\ row.text = t
  BY <1>2 DEF ExtractionRow
<1> HIDE DEF row
<1>4. reader'[w] = q /\ q.pc = "insert" /\ q.id = e /\ q.row = row
  BY <1>1 DEF MaterialInv, MaterialRowsTyped
<1> HIDE DEF q
<1>5. CorrectionOf(row, e)
  BY <1>1, <1>2, <1>3 DEF CorrectionOf
<1>6. ReaderKnows(w)'
  BY <1>1, <1>3, <1>4, <1>5 DEF ReaderKnows, CorrectionOf, Readable, Extracted
<1> QED BY <1>1, <1>6, ReaderMoves

\* The row is inserted only where none is, so it is the reader's own when it anchors it.
LEMMA InsertExtractionStep ==
    ASSUME MaterialInv, NEW w \in MaterialWorkers, InsertExtraction(w)
    PROVE  MaterialInv'
<1>1. PICK e \in ExtractionIds, row \in ExtractionRow :
          /\ e = reader[w].id /\ row = reader[w].row /\ CorrectionOf(row, e)
          /\ row.status = "SUCCEEDED" => row.text \in MaterialTexts
  BY DEF InsertExtraction, MaterialInv, ReaderKnows
<1> DEFINE q == IF row.status = "SUCCEEDED" THEN [reader[w] EXCEPT !.pc = "anchors"] ELSE IdleReader
<1>2. /\ extraction' = [extraction EXCEPT ![e] = row] /\ reader' = [reader EXCEPT ![w] = q]
      /\ ~Extracted(e) /\ UNCHANGED <<material, anchors, toolAttempt, answers, asker>>
  BY <1>1 DEF InsertExtraction
<1>3. /\ reader'[w] = q /\ \A v \in MaterialWorkers \ {w} : reader'[v] = reader[v]
      /\ extraction'[e] = row /\ \A d \in ExtractionIds \ {e} : extraction'[d] = extraction[d]
  BY <1>2 DEF MaterialInv, MaterialRowsTyped
<1>4. MaterialRowsTyped'
  BY <1>1, <1>2 DEF MaterialInv, MaterialRowsTyped
<1>5. /\ \A d \in ExtractionIds : Extracted(d) => extraction'[d] = extraction[d]
      /\ \A d \in ExtractionIds : Extracted(d)' => Extracted(d) \/ CorrectionOf(extraction'[d], d)
  BY <1>1, <1>2, <1>3 DEF Extracted
<1>6. CorrectionOf(row, e)'
  BY <1>1, <1>5 DEF CorrectionOf, Readable, Extracted
<1>7. CASE row.status = "SUCCEEDED"
  <2>1. reader'[w].pc = "anchors" /\ reader'[w].id = e /\ reader'[w].row = row
    BY <1>1, <1>3, <1>7
  <2>2. ReaderKnows(w)'
    BY <1>1, <1>3, <1>6, <1>7, <2>1 DEF ReaderKnows
  <2> QED BY <1>2, <1>3, <1>4, <1>5, <2>2, ExtractionsStay
<1>8. CASE row.status # "SUCCEEDED"
  <2>1. ReaderKnows(w)'
    BY <1>3, <1>8, IdleReaderKnows
  <2> QED BY <1>2, <1>3, <1>4, <1>5, <2>1, ExtractionsStay
<1> QED BY <1>7, <1>8

\* The anchors quote the stored row; a reader may also stop before or after it.
LEMMA InsertAnchorsStep ==
    ASSUME MaterialInv, NEW w \in MaterialWorkers, InsertAnchors(w) \/ ReaderStops(w)
    PROVE  MaterialInv'
<1>1. /\ reader' = [reader EXCEPT ![w] = IdleReader]
      /\ UNCHANGED <<material, extraction, toolAttempt, answers, asker>>
  BY DEF InsertAnchors, ReaderStops
<1>2. reader'[w] = IdleReader /\ \A v \in MaterialWorkers \ {w} : reader'[v] = reader[v]
  BY <1>1 DEF MaterialInv, MaterialRowsTyped
<1>3. ReaderKnows(w)'
  BY <1>2, IdleReaderKnows
<1>4. CASE ReaderStops(w)
  BY <1>1, <1>3, <1>4, ReaderMoves DEF ReaderStops
<1>5. CASE InsertAnchors(w)
  <2>1. PICK e \in ExtractionIds, t \in MaterialTexts :
            /\ Readable(e) /\ extraction[e].text = t /\ anchors' = anchors \cup {<<e, t>>}
    <3>1. ReaderKnows(w) /\ reader[w].pc = "anchors"
      BY <1>5 DEF MaterialInv, InsertAnchors
    <3>2. /\ reader[w].id \in ExtractionIds /\ extraction[reader[w].id] = reader[w].row
          /\ reader[w].row \in ExtractionRow /\ reader[w].row.status = "SUCCEEDED"
          /\ reader[w].row.text \in MaterialTexts
      BY <3>1 DEF ReaderKnows
    <3>3. Readable(reader[w].id)
      BY <3>2, NoMaterialIsNoRow DEF Readable, Extracted
    <3> QED BY <1>5, <3>2, <3>3 DEF InsertAnchors
  <2>2. MaterialRowsTyped'
    BY <1>1, <2>1 DEF MaterialInv, MaterialRowsTyped
  <2>3. \A a \in anchors' : Readable(a[1])' /\ extraction'[a[1]].text = a[2]
    BY <1>1, <2>1 DEF MaterialInv, Readable, Extracted
  <2>4. \A v \in MaterialWorkers : ReaderKnows(v)' /\ AskerKnows(v)'
    BY <1>1, <1>2, <1>3 DEF MaterialInv, ReaderKnows, CorrectionOf, Readable, Extracted, AskerKnows, ReplayOf
  <2> QED BY <1>1, <2>2, <2>3, <2>4 DEF MaterialInv, CorrectionOf, Readable, Extracted, ReplayOf
<1> QED BY <1>4, <1>5

\* Material is ingested, or the tool run has another attempt.
LEMMA IngestStep ==
    ASSUME MaterialInv, Rerun \/ \E s \in Sources : Ingest(s)
    PROVE  MaterialInv'
<1>1. /\ UNCHANGED <<extraction, anchors, reader, answers, asker>>
      /\ material' \subseteq Sources /\ toolAttempt' \in 1 .. MaxToolAttempt
  <2>1. toolAttempt \in 1 .. MaxToolAttempt /\ material \subseteq Sources
    BY DEF MaterialInv, MaterialRowsTyped
  <2> QED BY <2>1, ToolRunHasAttempt DEF Rerun, Ingest
<1> QED BY <1>1 DEF MaterialInv, MaterialRowsTyped, ReaderKnows, AskerKnows, CorrectionOf, Readable,
           Extracted, ReplayOf

\* A connector is asked, or a stored answer read again; the answer is kept once.
LEMMA AskerStep ==
    ASSUME MaterialInv, NEW w \in MaterialWorkers, NEW q, asker' = [asker EXCEPT ![w] = q],
           UNCHANGED <<material, extraction, anchors, reader, toolAttempt>>,
           MaterialRowsTyped', AskerKnows(w)',
           \A n \in SnapshotIds : answers[n] # NoMaterial => answers'[n] = answers[n],
           \A n \in SnapshotIds : answers'[n] # NoMaterial => answers[n] # NoMaterial \/ ReplayOf(answers'[n])
    PROVE  MaterialInv'
<1>1. \A v \in MaterialWorkers \ {w} : asker'[v] = asker[v]
  BY DEF MaterialInv, MaterialRowsTyped
<1>2. ASSUME NEW row, ReplayOf(row) PROVE ReplayOf(row)'
  BY <1>2 DEF ReplayOf
<1>3. \A v \in MaterialWorkers : AskerKnows(v)'
  BY <1>1, <1>2 DEF MaterialInv, AskerKnows
<1>4. \A n \in SnapshotIds : answers'[n] # NoMaterial => ReplayOf(answers[n])'
  <2> SUFFICES ASSUME NEW n \in SnapshotIds, answers'[n] # NoMaterial PROVE ReplayOf(answers[n])'
    OBVIOUS
  <2>1. ReplayOf(answers'[n])
    BY DEF MaterialInv
  <2> QED BY <2>1 DEF ReplayOf
<1> QED BY <1>3, <1>4 DEF MaterialInv, ReaderKnows, CorrectionOf, Readable, Extracted

\* The three steps of a snapshot.
LEMMA SnapshotStep ==
    ASSUME MaterialInv, SnapshotNext
    PROVE  MaterialInv'
<1>1. toolAttempt \in 1 .. MaxToolAttempt /\ DOMAIN asker = MaterialWorkers
  BY DEF MaterialInv, MaterialRowsTyped
<1>2. ASSUME NEW w \in MaterialWorkers, NEW n \in SnapshotIds, NEW row \in AnswerRow, ReplayOf(row),
             asker' = [asker EXCEPT ![w] = [pc |-> "insert", id |-> n, row |-> row]],
             UNCHANGED <<material, extraction, anchors, reader, toolAttempt, answers>>
      PROVE  MaterialInv'
  <2>1. asker'[w].pc = "insert" /\ asker'[w].id = n /\ asker'[w].row = row
    BY <1>1, <1>2
  <2>2. AskerKnows(w)'
    BY <1>2, <2>1 DEF AskerKnows, ReplayOf
  <2>3. MaterialRowsTyped'
    BY <1>2 DEF MaterialInv, MaterialRowsTyped
  <2> QED BY <1>2, <2>2, <2>3, AskerStep
<1>3. ASSUME NEW w \in MaterialWorkers, NEW n \in SnapshotIds, CaptureLive(w, n)
      PROVE  MaterialInv'
  <2>1. PICK raw \in MaterialTexts :
            asker' = [asker EXCEPT ![w] = [pc |-> "insert", id |-> n,
                         row |-> [mode |-> "LIVE_QUERY", parent |-> NoMaterial, raw |-> raw,
                                  attempt |-> toolAttempt, by |-> w]]]
    BY <1>3 DEF CaptureLive
  <2> DEFINE row == [mode |-> "LIVE_QUERY", parent |-> NoMaterial, raw |-> raw,
                     attempt |-> toolAttempt, by |-> w]
  <2>2. row \in AnswerRow /\ ReplayOf(row)
    BY <1>1 DEF AnswerRow, ReplayOf
  <2> QED BY <1>2, <1>3, <2>1, <2>2 DEF CaptureLive
<1>4. ASSUME NEW w \in MaterialWorkers, NEW n \in SnapshotIds, NEW old \in SnapshotIds, Replay(w, old, n)
      PROVE  MaterialInv'
  <2> DEFINE row == [mode |-> "REPLAYED_SNAPSHOT", parent |-> old, raw |-> answers[old].raw,
                     attempt |-> toolAttempt, by |-> w]
  <2>1. answers[old] \in AnswerRow /\ answers[old] # NoMaterial
    BY <1>4 DEF Replay, MaterialInv, MaterialRowsTyped
  <2>2. row \in AnswerRow /\ ReplayOf(row)
    BY <1>1, <2>1 DEF AnswerRow, ReplayOf
  <2> QED BY <1>2, <1>4, <2>2 DEF Replay
<1>5. ASSUME NEW w \in MaterialWorkers, InsertSnapshot(w)
      PROVE  MaterialInv'
  <2>1. PICK n \in SnapshotIds, row \in AnswerRow :
            n = asker[w].id /\ row = asker[w].row /\ ReplayOf(row)
    BY <1>5 DEF InsertSnapshot, MaterialInv, AskerKnows
  <2>2. /\ answers' = IF answers[n] = NoMaterial THEN [answers EXCEPT ![n] = row] ELSE answers
        /\ asker' = [asker EXCEPT ![w] = IdleAsker]
        /\ UNCHANGED <<material, extraction, anchors, reader, toolAttempt>>
    BY <1>5, <2>1 DEF InsertSnapshot
  <2>3. MaterialRowsTyped'
    BY <2>1, <2>2 DEF MaterialInv, MaterialRowsTyped
  <2>4. AskerKnows(w)'
    BY <1>1, <2>2 DEF AskerKnows, IdleAsker
  <2>5. /\ \A m \in SnapshotIds : answers[m] # NoMaterial => answers'[m] = answers[m]
        /\ \A m \in SnapshotIds : answers'[m] # NoMaterial => answers[m] # NoMaterial \/ ReplayOf(answers'[m])
    BY <2>1, <2>2 DEF MaterialInv, MaterialRowsTyped
  <2> QED BY <2>2, <2>3, <2>4, <2>5, AskerStep
<1> QED BY <1>3, <1>4, <1>5, IngestStep DEF SnapshotNext

\* Whoever races for an id and wherever a process dies: an anchor quotes the one text of its
\* extraction, a revision corrects a readable extraction of the same source, and a replayed
\* answer is the recorded one (materials.py extract, revise; source_snapshots.py replay).
THEOREM AnchorsAlwaysQuote == MaterialSpec => []AnchorsQuoteTheirText
<1>1. MaterialInit => MaterialInv
  BY ToolRunHasAttempt, NoMaterialIsNoRow DEF MaterialInit, MaterialInv, MaterialRowsTyped, ReaderKnows, AskerKnows,
     IdleReader, IdleAsker, Extracted
<1>2. ASSUME MaterialInv, [MaterialNext \/ SnapshotNext]_materialVars PROVE MaterialInv'
  <2>1. CASE MaterialNext
    BY <1>2, <2>1, IngestStep, BeginExtractStep, BeginReviseStep, InsertExtractionStep,
       InsertAnchorsStep DEF MaterialNext
  <2>2. CASE SnapshotNext
    BY <1>2, <2>2, SnapshotStep
  <2>3. CASE UNCHANGED materialVars
    BY <1>2, <2>3 DEF materialVars, MaterialInv, MaterialRowsTyped, ReaderKnows, AskerKnows, CorrectionOf,
       Readable, Extracted, ReplayOf
  <2> QED BY <1>2, <2>1, <2>2, <2>3
<1>3. MaterialInv => AnchorsQuoteTheirText
  <2> SUFFICES ASSUME MaterialInv PROVE AnchorsQuoteTheirText
    OBVIOUS
  <2>1. MaterialTypeOK
    BY DEF MaterialInv, MaterialRowsTyped, MaterialTypeOK, ReaderKnows, AskerKnows, Extracted, ExtractionRow
  <2> QED BY <2>1 DEF MaterialInv, AnchorsQuoteTheirText, CorrectionOf, ReplayOf
<1> QED BY <1>1, <1>2, <1>3, PTL DEF MaterialSpec

-----------------------------------------------------------------------------
(* The model/tool loop                                                      *)

\* The first calls of the turn are answered, in order, and no later one is.
CallsAnswered(s) ==
    /\ Len(s.receipts) <= Len(s.pending)
    /\ \A i \in 1 .. Len(s.pending) :
          (s.pending[i].state = "COMPLETED") <=> (i <= Len(s.receipts))
    /\ \A i \in 1 .. Len(s.receipts) : s.receipts[i].id = s.pending[i].id

\* No call id is used twice, in a turn or over the turns.
IdsAreNew(s) ==
    /\ \A i, j \in 1 .. Len(s.pending) : i # j => s.pending[i].id # s.pending[j].id
    /\ \A t, u \in 1 .. Len(s.transcript) : t # u => s.transcript[t].id # s.transcript[u].id
    /\ \A t \in 1 .. Len(s.transcript), i \in 1 .. Len(s.pending) :
          s.transcript[t].id # s.pending[i].id

\* What a call's record says of the adapter that runs it.
RunsFit(s, runs) ==
    /\ \A t \in 1 .. Len(s.transcript) : runs[s.transcript[t].id] = 1
    /\ \A i \in 1 .. Len(s.pending) :
          /\ s.pending[i].state = "PENDING" => runs[s.pending[i].id] = 0
          /\ s.pending[i].state = "COMPLETED" => runs[s.pending[i].id] = 1
          /\ runs[s.pending[i].id] <= 1
    /\ \A c \in CallIds :
          \/ runs[c] = 0
          \/ \E t \in 1 .. Len(s.transcript) : s.transcript[t].id = c
          \/ \E i \in 1 .. Len(s.pending) : s.pending[i].id = c

\* Where the loop is, or where a pause will let it go on.
Phase(s) == IF s.status = "PAUSED" THEN s.pausedFrom ELSE s.status

PhaseFits(s) ==
    /\ Phase(s) = "RUNNING" => Len(s.pending) = 0
    /\ Phase(s) = "RECEIPT_READY" => Len(s.receipts) = Len(s.pending) /\ Len(s.pending) # 0
    /\ Phase(s) = "WAITING_TOOL" => Len(s.pending) # 0

LoopFits(s, runs) == CallsAnswered(s) /\ IdsAreNew(s) /\ RunsFit(s, runs) /\ PhaseFits(s)

\* The call that is next: every earlier one is answered.
AtCall(s) == Len(s.receipts) + 1

LockFits ==
    /\ (holder = NoHost) <=> (step = "idle")
    /\ holder = NoHost => copy = NoRun
    /\ holder # NoHost => copy = journal /\ journal # NoRun
    /\ step = "ask" => journal.status = "RUNNING"
    /\ step \in {"next", "call", "receipt"} => journal.status = "WAITING_TOOL"
    /\ step \in {"call", "receipt"} =>
          /\ Len(journal.receipts) < Len(journal.pending)
          /\ journal.pending[AtCall(journal)].state = "EXECUTING"
    /\ step = "call" => adapterRuns[journal.pending[AtCall(journal)].id] = 0
    /\ step = "receipt" => adapterRuns[journal.pending[AtCall(journal)].id] = 1

ControllerInv ==
    /\ ControllerTypeOK
    /\ adapterRuns \in [CallIds -> Nat]
    /\ LockFits
    /\ journal = NoRun => adapterRuns = [c \in CallIds |-> 0]
    /\ journal # NoRun => LoopFits(journal, adapterRuns)

\* The call the code takes next is the first without a receipt.
LEMMA NextCallIsFirstUnanswered ==
    ASSUME NEW s \in RunState, CallsAnswered(s)
    PROVE  /\ (Unfinished(s) = {}) <=> (Len(s.receipts) = Len(s.pending))
           /\ Unfinished(s) # {} => NextCall(s) = AtCall(s) /\ AtCall(s) \in 1 .. Len(s.pending)
<1>1. s.pending \in Seq(Pending) /\ s.receipts \in Seq(Receipt)
  BY DEF RunState
<1> DEFINE n == Len(s.receipts)
           m == Len(s.pending)
<1>2. n \in Nat /\ m \in Nat /\ DOMAIN s.pending = 1 .. m
  BY <1>1, LenProperties
<1>3. n <= m /\ Unfinished(s) = {i \in 1 .. m : ~(i <= n)}
  BY <1>2 DEF CallsAnswered, Unfinished
<1>4. Unfinished(s) = (n + 1) .. m
  BY <1>2, <1>3
<1> HIDE DEF n, m
<1>5. (Unfinished(s) = {}) <=> (n = m)
  BY <1>2, <1>3, <1>4
<1>6. ASSUME Unfinished(s) # {} PROVE NextCall(s) = n + 1 /\ n + 1 \in 1 .. m
  <2>1. n + 1 \in Unfinished(s) /\ \A j \in Unfinished(s) : n + 1 <= j
    BY <1>2, <1>3, <1>4, <1>5, <1>6
  <2>2. \A i \in Unfinished(s) : (\A j \in Unfinished(s) : i <= j) => i = n + 1
    BY <1>2, <1>4, <2>1
  <2>3. NextCall(s) \in Unfinished(s) /\ \A j \in Unfinished(s) : NextCall(s) <= j
    BY <2>1 DEF NextCall
  <2> QED BY <1>2, <1>4, <2>1, <2>2, <2>3
<1> QED BY <1>5, <1>6 DEF n, m, AtCall

\* A commit that releases the lock.
LEMMA ReleaseKeeps ==
    ASSUME ControllerInv, NEW q \in RunState, CommitAndRelease(q), UNCHANGED adapterRuns,
           LoopFits(q, adapterRuns)
    PROVE  ControllerInv'
<1>1. q # NoRun
  BY NoRunIsNoState
<1> QED BY <1>1, TurnBounds DEF CommitAndRelease, Release, ControllerInv, ControllerTypeOK, LockFits

\* A change of status alone.
LEMMA StatusOnly ==
    ASSUME NEW s \in RunState, NEW q \in RunState, NEW runs, LoopFits(s, runs), PhaseFits(q),
           q.pending = s.pending, q.receipts = s.receipts, q.transcript = s.transcript
    PROVE  LoopFits(q, runs)
BY DEF LoopFits, CallsAnswered, IdsAreNew, RunsFit

\* A host in the loop works on the journal's state.
LEMMA HolderKnows ==
    ASSUME ControllerInv, step # "idle"
    PROVE  /\ holder # NoHost /\ copy = journal /\ journal \in RunState /\ journal # NoRun
           /\ LoopFits(journal, adapterRuns)
           /\ step = "ask" => journal.status = "RUNNING"
           /\ step # "ask" => journal.status = "WAITING_TOOL"
BY DEF ControllerInv, ControllerTypeOK, LockFits

\* A failed state keeps what it held.
LEMMA FailedState ==
    ASSUME NEW s \in RunState, NEW runs, LoopFits(s, runs)
    PROVE  Failed(s) \in RunState /\ LoopFits(Failed(s), runs)
<1>1. Failed(s) \in RunState
  BY DEF Failed, RunState, Statuses
<1>2. /\ Failed(s).pending = s.pending /\ Failed(s).receipts = s.receipts
      /\ Failed(s).transcript = s.transcript /\ Failed(s).status = "FAILED"
  BY DEF Failed, RunState
<1>3. PhaseFits(Failed(s))
  BY <1>2 DEF PhaseFits, Phase
<1> QED BY <1>1, <1>2, <1>3, StatusOnly

\* A state whose turn is counted keeps what it held.
LEMMA AskedState ==
    ASSUME NEW s \in RunState, NEW runs, LoopFits(s, runs), s.turn < MaxTurns
    PROVE  /\ Asked(s) \in RunState /\ LoopFits(Asked(s), runs)
           /\ Asked(s).pending = s.pending /\ Asked(s).receipts = s.receipts
           /\ Asked(s).transcript = s.transcript /\ Asked(s).status = s.status
<1>1. s.turn + 1 \in 0 .. MaxTurns
  BY TurnBounds DEF RunState
<1>2. Asked(s) \in RunState
  BY <1>1 DEF Asked, RunState
<1>3. /\ Asked(s).pending = s.pending /\ Asked(s).receipts = s.receipts
      /\ Asked(s).transcript = s.transcript /\ Asked(s).status = s.status
      /\ Asked(s).pausedFrom = s.pausedFrom
  BY DEF Asked, RunState
<1>4. PhaseFits(Asked(s))
  BY <1>3 DEF PhaseFits, Phase, LoopFits
<1> QED BY <1>2, <1>3, <1>4, StatusOnly

\* The first state holds no call.
LEMMA FirstState ==
    ASSUME NEW runs, \A c \in CallIds : runs[c] = 0
    PROVE  Fresh0 \in RunState /\ LoopFits(Fresh0, runs)
<1> DEFINE d == <<>>
<1>1. d \in Seq(Pending) /\ d \in Seq(Receipt) /\ Len(d) = 0
  OBVIOUS
<1>2. Fresh0 = [status |-> "RUNNING", turn |-> 0, pending |-> d, receipts |-> d,
                transcript |-> d, pausedFrom |-> "NONE", failure |-> FALSE]
  BY DEF Fresh0
<1> HIDE DEF d
<1>3. Fresh0 \in RunState
  BY <1>1, <1>2, TurnBounds DEF RunState, Statuses
<1>4. 1 .. 0 = {}
  OBVIOUS
<1> QED BY <1>1, <1>2, <1>3, <1>4
        DEF LoopFits, CallsAnswered, IdsAreNew, RunsFit, PhaseFits, Phase

\* StartController writes the first state.
LEMMA StartStep == ASSUME ControllerInv, StartController PROVE ControllerInv'
<1>1. \A c \in CallIds : adapterRuns[c] = 0
  BY DEF ControllerInv, StartController
<1>2. Fresh0 \in RunState /\ LoopFits(Fresh0, adapterRuns) /\ Fresh0 # NoRun
  BY <1>1, FirstState, NoRunIsNoState
<1> QED BY <1>2 DEF ControllerInv, StartController, ControllerTypeOK, LockFits

\* Taking the lock changes nothing in the file.
LEMMA LockStep ==
    ASSUME ControllerInv, NEW h \in Hosts, AdvanceBegin(h) \/ ExecuteBegin(h)
    PROVE  ControllerInv'
BY TurnBounds DEF ControllerInv, AdvanceBegin, ExecuteBegin, Lock, ControllerTypeOK, LockFits

\* What a concatenation holds is an entry of the one part or of the other.
LEMMA ConcatEntries ==
    ASSUME NEW S, NEW T \in Seq(S), NEW R \in Seq(S), NEW TR, TR = T \o R
    PROVE  /\ TR \in Seq(S) /\ Len(TR) = Len(T) + Len(R) /\ Len(T) \in Nat /\ Len(R) \in Nat
           /\ \A k \in 1 .. Len(TR) : \/ k \in 1 .. Len(T) /\ TR[k] = T[k]
                                      \/ \E i \in 1 .. Len(R) : k = Len(T) + i /\ TR[k] = R[i]
           /\ \A i \in 1 .. Len(R) : Len(T) + i \in 1 .. Len(TR) /\ TR[Len(T) + i] = R[i]
           /\ \A k \in 1 .. Len(T) : k \in 1 .. Len(TR) /\ TR[k] = T[k]
<1>1. /\ TR \in Seq(S) /\ Len(TR) = Len(T) + Len(R) /\ Len(T) \in Nat /\ Len(R) \in Nat
      /\ \A k \in 1 .. Len(TR) : TR[k] = IF k <= Len(T) THEN T[k] ELSE R[k - Len(T)]
  BY ConcatProperties, LenProperties
<1> DEFINE n == Len(T)
           m == Len(R)
<1> HIDE DEF n, m
<1>2. n \in Nat /\ m \in Nat /\ Len(TR) = n + m /\ n = Len(T) /\ m = Len(R)
  BY <1>1 DEF n, m
<1>3. ASSUME NEW i \in 1 .. m PROVE n + i \in 1 .. (n + m) /\ TR[n + i] = R[i]
  <2>1. n + i \in 1 .. (n + m) /\ ~(n + i <= n) /\ (n + i) - n = i
    BY <1>2
  <2> QED BY <1>1, <1>2, <2>1
<1>4. ASSUME NEW k \in 1 .. n PROVE k \in 1 .. (n + m) /\ TR[k] = T[k]
  BY <1>1, <1>2, <1>4
<1>5. ASSUME NEW k \in 1 .. (n + m)
      PROVE  \/ k \in 1 .. n /\ TR[k] = T[k]
             \/ \E i \in 1 .. m : k = n + i /\ TR[k] = R[i]
  <2>1. CASE k <= n
    BY <1>2, <1>4, <2>1
  <2>2. CASE ~(k <= n)
    <3>1. k - n \in 1 .. m /\ k = n + (k - n)
      BY <1>2, <2>2
    <3> QED BY <1>3, <3>1
  <2> QED BY <2>1, <2>2
<1> QED BY <1>1, <1>2, <1>3, <1>4, <1>5

\* The consumed receipts are the transcript's last entries.
LEMMA ConsumedState ==
    ASSUME NEW s \in RunState, NEW runs, LoopFits(s, runs), Len(s.receipts) = Len(s.pending)
    PROVE  LET q == ConsumeReceipts(s) IN
           q \in RunState /\ LoopFits(q, runs) /\ q.status = "RUNNING"
<1> DEFINE d == <<>>
           q == ConsumeReceipts(s)
           T == s.transcript
           R == s.receipts
<1>1. d \in Seq(Pending) /\ d \in Seq(Receipt) /\ Len(d) = 0
  OBVIOUS
<1>2. T \in Seq(Receipt) /\ R \in Seq(Receipt) /\ s.pending \in Seq(Pending)
  BY DEF RunState
<1>3. q = [s EXCEPT !.transcript = T \o R, !.pending = d, !.receipts = d, !.status = "RUNNING"]
  BY DEF ConsumeReceipts, RunState
<1> HIDE DEF d
<1> DEFINE TR == T \o R
<1>4. /\ TR \in Seq(Receipt) /\ Len(TR) = Len(T) + Len(R) /\ Len(T) \in Nat /\ Len(R) \in Nat
      /\ \A k \in 1 .. Len(TR) : \/ k \in 1 .. Len(T) /\ TR[k] = T[k]
                                 \/ \E i \in 1 .. Len(R) : k = Len(T) + i /\ TR[k] = R[i]
      /\ \A i \in 1 .. Len(R) : Len(T) + i \in 1 .. Len(TR) /\ TR[Len(T) + i] = R[i]
      /\ \A k \in 1 .. Len(T) : k \in 1 .. Len(TR) /\ TR[k] = T[k]
  <2> HIDE DEF T, R, TR
  <2>1. TR = T \o R
    BY DEF TR
  <2>2. T \in Seq(Receipt) /\ R \in Seq(Receipt)
    BY <1>2
  <2> QED BY <2>1, <2>2, ConcatEntries, SMTT(60)
<1> HIDE DEF TR
<1>5. /\ q \in RunState /\ q.transcript = TR /\ q.pending = d /\ q.receipts = d
      /\ q.status = "RUNNING"
  <2>1. PICK y : y = TR /\ y \in Seq(Receipt)
    BY <1>4
  <2>2. q = [s EXCEPT !.transcript = y, !.pending = d, !.receipts = d, !.status = "RUNNING"]
    BY <1>3, <2>1 DEF TR
  <2>3. "RUNNING" \in Statuses
    BY DEF Statuses
  <2> HIDE DEF q, T, R
  <2> QED BY <1>1, <2>1, <2>2, <2>3 DEF RunState
<1>9. \A i \in 1 .. Len(R) : /\ i \in 1 .. Len(s.pending) /\ R[i].id = s.pending[i].id
                             /\ runs[s.pending[i].id] = 1
  <2> TAKE i \in 1 .. Len(R)
  <2>1. i \in 1 .. Len(s.pending)
    OBVIOUS
  <2>2. s.pending[i].state = "COMPLETED" /\ R[i].id = s.pending[i].id
    BY <1>4, <2>1 DEF LoopFits, CallsAnswered
  <2> QED BY <2>1, <2>2 DEF LoopFits, RunsFit
<1> HIDE DEF q, T, R
<1>10. T = s.transcript /\ R = s.receipts
  BY DEF T, R
<1>11. CallsAnswered(q) /\ PhaseFits(q)
  BY <1>1, <1>5 DEF CallsAnswered, PhaseFits, Phase
<1>12. \A t, u \in 1 .. Len(TR) : t # u => TR[t].id # TR[u].id
  <2>1. /\ \A i, j \in 1 .. Len(R) : i # j => R[i].id # R[j].id
        /\ \A t, u \in 1 .. Len(T) : t # u => T[t].id # T[u].id
        /\ \A t \in 1 .. Len(T), i \in 1 .. Len(R) : T[t].id # R[i].id
    BY <1>9, <1>10 DEF LoopFits, IdsAreNew
  <2> SUFFICES ASSUME NEW t \in 1 .. Len(TR), NEW u \in 1 .. Len(TR), t # u
               PROVE  TR[t].id # TR[u].id
    OBVIOUS
  <2>2. \/ t \in 1 .. Len(T) /\ TR[t] = T[t]
        \/ \E i \in 1 .. Len(R) : t = Len(T) + i /\ TR[t] = R[i]
    BY <1>4
  <2>3. \/ u \in 1 .. Len(T) /\ TR[u] = T[u]
        \/ \E i \in 1 .. Len(R) : u = Len(T) + i /\ TR[u] = R[i]
    BY <1>4
  <2> QED BY <2>1, <2>2, <2>3
<1>13. IdsAreNew(q)
  BY <1>1, <1>5, <1>12 DEF IdsAreNew
<1>14. \A k \in 1 .. Len(TR) : runs[TR[k].id] = 1
  <2>1. \A t \in 1 .. Len(T) : runs[T[t].id] = 1
    BY <1>10 DEF LoopFits, RunsFit
  <2>2. \A i \in 1 .. Len(R) : runs[R[i].id] = 1
    BY <1>9
  <2> TAKE k \in 1 .. Len(TR)
  <2>3. \/ k \in 1 .. Len(T) /\ TR[k] = T[k]
        \/ \E i \in 1 .. Len(R) : k = Len(T) + i /\ TR[k] = R[i]
    BY <1>4
  <2>4. CASE k \in 1 .. Len(T) /\ TR[k] = T[k]
    BY <2>1, <2>4
  <2>5. CASE \E i \in 1 .. Len(R) : k = Len(T) + i /\ TR[k] = R[i]
    BY <2>2, <2>5, Zenon
  <2> QED BY <2>3, <2>4, <2>5
<1>15. ASSUME NEW c \in CallIds PROVE runs[c] = 0 \/ \E t \in 1 .. Len(TR) : TR[t].id = c
  <2>1. CASE \E t \in 1 .. Len(T) : T[t].id = c
    BY <2>1, <1>4
  <2>2. CASE \E i \in 1 .. Len(s.pending) : s.pending[i].id = c
    <3>1. PICK i \in 1 .. Len(s.pending) : s.pending[i].id = c
      BY <2>2
    <3>2. i \in 1 .. Len(R) /\ R[i].id = c
      BY <1>9, <1>10, <3>1
    <3> QED BY <1>4, <3>2
  <2> QED BY <2>1, <2>2, <1>10 DEF LoopFits, RunsFit
<1>16. RunsFit(q, runs)
  BY <1>1, <1>5, <1>14, <1>15 DEF RunsFit
<1> QED BY <1>5, <1>11, <1>13, <1>16 DEF LoopFits, q

\* advance over receipts commits the transcript and goes on to the model.
LEMMA AdvanceStep ==
    ASSUME ControllerInv, NEW h \in Hosts, AdvanceWithReceipts(h)
    PROVE  ControllerInv'
<1>1. journal \in RunState /\ LoopFits(journal, adapterRuns) /\ journal.status = "RECEIPT_READY"
  BY DEF ControllerInv, ControllerTypeOK, AdvanceWithReceipts
<1>2. Len(journal.receipts) = Len(journal.pending)
  BY <1>1 DEF LoopFits, PhaseFits, Phase
<1> DEFINE q == ConsumeReceipts(journal)
<1>3. q \in RunState /\ LoopFits(q, adapterRuns) /\ q.status = "RUNNING" /\ q # NoRun
  BY <1>1, <1>2, ConsumedState, NoRunIsNoState
<1>4. /\ holder' = h /\ journal' = q /\ copy' = q /\ step' = "ask" /\ adapterRuns' = adapterRuns
      /\ h # NoHost
  BY TurnBounds DEF AdvanceWithReceipts
<1> HIDE DEF q
<1> QED BY <1>3, <1>4 DEF ControllerInv, ControllerTypeOK, LockFits

\* An advance that ends the run.
LEMMA AskEndsStep ==
    ASSUME ControllerInv, TurnLimit \/ ModelAnswers \/ \E counted \in BOOLEAN : ModelFails(counted)
    PROVE  ControllerInv'
<1>1. /\ step = "ask" /\ UNCHANGED adapterRuns
      /\ copy = journal /\ journal \in RunState /\ LoopFits(journal, adapterRuns)
  BY HolderKnows DEF TurnLimit, ModelAnswers, ModelFails
<1>2. CASE TurnLimit
  BY <1>1, <1>2, FailedState, ReleaseKeeps DEF TurnLimit
<1>3. CASE ModelAnswers
  <2> DEFINE a == Asked(journal)
             q == [a EXCEPT !.status = "COMPLETED"]
  <2>1. a \in RunState /\ LoopFits(a, adapterRuns) /\ CommitAndRelease(q)
    BY <1>1, <1>3, AskedState DEF ModelAnswers
  <2> HIDE DEF a
  <2>2. /\ q \in RunState /\ q.status = "COMPLETED" /\ q.pending = a.pending
        /\ q.receipts = a.receipts /\ q.transcript = a.transcript
    BY <2>1 DEF RunState, Statuses
  <2> HIDE DEF q
  <2>3. LoopFits(q, adapterRuns)
    BY <2>1, <2>2, StatusOnly DEF PhaseFits, Phase
  <2> QED BY <1>1, <2>1, <2>2, <2>3, ReleaseKeeps
<1>4. ASSUME NEW counted \in BOOLEAN, ModelFails(counted) PROVE ControllerInv'
  <2>1. CASE counted
    <3>1. Asked(journal) \in RunState /\ LoopFits(Asked(journal), adapterRuns)
      BY <1>1, <1>4, AskedState DEF ModelFails
    <3> QED BY <1>1, <1>4, <2>1, <3>1, FailedState, ReleaseKeeps DEF ModelFails
  <2>2. CASE ~counted
    BY <1>1, <1>4, <2>2, FailedState, ReleaseKeeps DEF ModelFails
  <2> QED BY <2>1, <2>2
<1> QED BY <1>2, <1>3, <1>4

\* New directives: their ids are new, so no adapter ran for them.
LEMMA DirectedState ==
    ASSUME NEW s \in RunState, NEW runs \in [CallIds -> Nat], LoopFits(s, runs), s.status = "RUNNING",
           NEW ds \in Seq(Directive), ds # <<>>, ValidDirectives(s, ds)
    PROVE  LET q == [s EXCEPT !.pending = PendingOf(ds), !.status = "WAITING_TOOL"] IN
           q \in RunState /\ LoopFits(q, runs)
<1> DEFINE P == PendingOf(ds)
           q == [s EXCEPT !.pending = P, !.status = "WAITING_TOOL"]
<1>1. /\ Len(ds) \in Nat /\ Len(ds) # 0 /\ DOMAIN ds = 1 .. Len(ds)
      /\ \A i \in 1 .. Len(ds) : ds[i] \in Directive
  BY LenProperties, EmptySeq, ElementOfSeq
<1>2. /\ DOMAIN P = 1 .. Len(ds)
      /\ \A i \in 1 .. Len(ds) : /\ P[i] \in Pending /\ P[i].id = ds[i].id /\ P[i].id \in CallIds
                                 /\ P[i].state = "PENDING"
  BY <1>1 DEF PendingOf, Directive, Pending
<1>3. P = [i \in 1 .. Len(ds) |-> P[i]]
  BY <1>1 DEF PendingOf
<1> HIDE DEF P
<1>4. P \in Seq(Pending) /\ Len(P) = Len(ds)
  BY <1>1, <1>2, <1>3
<1>5. /\ Len(s.pending) = 0 /\ Len(s.receipts) = 0 /\ s.transcript \in Seq(Receipt)
  <2>1. Len(s.receipts) \in Nat /\ Len(s.pending) = 0 /\ Len(s.receipts) <= Len(s.pending)
    BY LenProperties DEF LoopFits, PhaseFits, Phase, CallsAnswered, RunState
  <2> QED BY <2>1 DEF RunState
<1>6. /\ q \in RunState /\ q.pending = P /\ q.receipts = s.receipts
      /\ q.transcript = s.transcript /\ q.status = "WAITING_TOOL"
  BY <1>4 DEF RunState, Statuses
<1> HIDE DEF q
<1>7. CallsAnswered(q) /\ PhaseFits(q)
  BY <1>1, <1>2, <1>4, <1>5, <1>6 DEF CallsAnswered, PhaseFits, Phase
<1>8. DOMAIN s.transcript = 1 .. Len(s.transcript)
  BY <1>5, LenProperties
<1>9. IdsAreNew(q)
  <2>1. \A i, j \in 1 .. Len(P) : i # j => P[i].id # P[j].id
    BY <1>1, <1>2, <1>4 DEF ValidDirectives
  <2>2. \A t \in 1 .. Len(s.transcript), i \in 1 .. Len(P) : s.transcript[t].id # P[i].id
    BY <1>1, <1>2, <1>4, <1>8 DEF ValidDirectives
  <2>3. \A t, u \in 1 .. Len(s.transcript) : t # u => s.transcript[t].id # s.transcript[u].id
    BY DEF IdsAreNew, LoopFits
  <2> QED BY <1>6, <2>1, <2>2, <2>3 DEF IdsAreNew
<1>10. ASSUME NEW i \in 1 .. Len(P) PROVE runs[P[i].id] = 0
  <2>1. ~ \E t \in 1 .. Len(s.transcript) : s.transcript[t].id = P[i].id
    BY <1>1, <1>2, <1>4, <1>8 DEF ValidDirectives
  <2>2. 1 .. Len(s.pending) = {} /\ P[i].id \in CallIds
    BY <1>2, <1>4, <1>5
  <2> QED BY <2>1, <2>2 DEF LoopFits, RunsFit
<1>11. RunsFit(q, runs)
  <2>1. \A c \in CallIds : runs[c] = 0 \/ \E t \in 1 .. Len(s.transcript) : s.transcript[t].id = c
    BY <1>5 DEF LoopFits, RunsFit
  <2>2. \A t \in 1 .. Len(s.transcript) : runs[s.transcript[t].id] = 1
    BY DEF LoopFits, RunsFit
  <2>3. \A i \in 1 .. Len(P) : /\ P[i].state = "PENDING" /\ runs[P[i].id] = 0
                              /\ runs[P[i].id] <= 1
    BY <1>2, <1>4, <1>10
  <2> QED BY <1>6, <2>1, <2>2, <2>3 DEF RunsFit
<1> QED BY <1>6, <1>7, <1>9, <1>11 DEF LoopFits, q, P

\* An advance that hands out calls.
LEMMA AskCallsStep ==
    ASSUME ControllerInv, NEW ds \in BoundedSeq(Directive, MaxCalls), ModelCalls(ds)
    PROVE  ControllerInv'
<1>1. /\ step = "ask" /\ UNCHANGED adapterRuns /\ copy.turn < MaxTurns /\ ds # <<>>
      /\ copy = journal /\ journal \in RunState /\ LoopFits(journal, adapterRuns)
      /\ journal.status = "RUNNING"
  BY HolderKnows DEF ModelCalls
<1>2. ds \in Seq(Directive)
  BY TurnBounds DEF BoundedSeq, SeqOf
<1> DEFINE a == Asked(journal)
           q == [a EXCEPT !.pending = PendingOf(ds), !.status = "WAITING_TOOL"]
<1>3. /\ a \in RunState /\ LoopFits(a, adapterRuns) /\ a.status = "RUNNING"
      /\ a.transcript = journal.transcript
  BY <1>1, AskedState
<1>4. CommitAndRelease(IF ValidDirectives(journal, ds) THEN q ELSE Failed(a))
  BY <1>1 DEF ModelCalls
<1> HIDE DEF a
<1>5. adapterRuns \in [CallIds -> Nat]
  BY DEF ControllerInv
<1>6. CASE ValidDirectives(journal, ds)
  <2>1. ValidDirectives(a, ds)
    BY <1>3, <1>6 DEF ValidDirectives
  <2>2. q \in RunState /\ LoopFits(q, adapterRuns)
    BY <1>1, <1>2, <1>3, <1>5, <2>1, DirectedState
  <2> HIDE DEF q
  <2> QED BY <1>1, <1>4, <1>6, <2>2, ReleaseKeeps
<1>7. CASE ~ValidDirectives(journal, ds)
  BY <1>1, <1>3, <1>4, <1>7, FailedState, ReleaseKeeps
<1> QED BY <1>6, <1>7

\* The state of one call in the record of a run.
CallSet(s, i, st) == [s EXCEPT !.pending[i].state = st]

\* One call's record changes its state.
LEMMA CallMoves ==
    ASSUME NEW s \in RunState, NEW i \in 1 .. Len(s.pending),
           NEW st \in {"PENDING", "EXECUTING", "COMPLETED"}
    PROVE  LET q == CallSet(s, i, st) IN
           /\ q \in RunState /\ Len(q.pending) = Len(s.pending)
           /\ q.pending[i].state = st
           /\ \A j \in 1 .. Len(s.pending) : q.pending[j].id = s.pending[j].id
           /\ \A j \in 1 .. Len(s.pending) : j # i => q.pending[j] = s.pending[j]
           /\ q.receipts = s.receipts /\ q.transcript = s.transcript
           /\ q.status = s.status /\ q.pausedFrom = s.pausedFrom
<1> DEFINE P == s.pending
           row == [P[i] EXCEPT !.state = st]
           P2 == [P EXCEPT ![i] = row]
           q == CallSet(s, i, st)
<1>1. P \in Seq(Pending) /\ P[i] \in Pending /\ Len(P) \in Nat /\ DOMAIN P = 1 .. Len(P)
  BY LenProperties, ElementOfSeq DEF RunState
<1>2. row \in Pending /\ row.state = st /\ row.id = P[i].id
  BY <1>1 DEF Pending
<1>3. q = [s EXCEPT !.pending = P2]
  BY DEF CallSet
<1> HIDE DEF row
<1>4. /\ P2 \in Seq(Pending) /\ Len(P2) = Len(P) /\ P2[i] = row
      /\ \A j \in 1 .. Len(P) : j # i => P2[j] = P[j]
  BY <1>1, <1>2, ExceptSeq
<1> HIDE DEF P2
<1>5. /\ q \in RunState /\ q.pending = P2 /\ q.receipts = s.receipts /\ q.transcript = s.transcript
      /\ q.status = s.status /\ q.pausedFrom = s.pausedFrom
  BY <1>3, <1>4 DEF RunState
<1> HIDE DEF q
<1>6. \A j \in 1 .. Len(P) : P2[j].id = P[j].id
  BY <1>2, <1>4
<1> QED BY <1>2, <1>4, <1>5, <1>6 DEF q

\* ClaimCall commits the claim of the next call, for which no adapter ran.
LEMMA ClaimStep == ASSUME ControllerInv, ClaimCall PROVE ControllerInv'
<1>1. /\ step = "next" /\ holder # NoHost /\ copy = journal /\ journal \in RunState
      /\ LoopFits(journal, adapterRuns) /\ journal.status = "WAITING_TOOL"
  BY HolderKnows DEF ClaimCall
<1>2. PICK i \in 1 .. Len(journal.pending) : i = AtCall(journal) /\ i = NextCall(journal)
  BY <1>1, NextCallIsFirstUnanswered DEF ClaimCall, LoopFits
<1>3. /\ journal.pending[i].state = "PENDING" /\ adapterRuns' = adapterRuns
      /\ CommitAndGo([journal EXCEPT !.pending[i].state = "EXECUTING"], "call")
  BY <1>1, <1>2 DEF ClaimCall
<1> DEFINE q == CallSet(journal, i, "EXECUTING")
<1>4. /\ q \in RunState /\ Len(q.pending) = Len(journal.pending)
      /\ q.pending[i].state = "EXECUTING"
      /\ \A j \in 1 .. Len(journal.pending) : q.pending[j].id = journal.pending[j].id
      /\ \A j \in 1 .. Len(journal.pending) : j # i => q.pending[j] = journal.pending[j]
      /\ q.receipts = journal.receipts /\ q.transcript = journal.transcript
      /\ q.status = journal.status /\ q.pausedFrom = journal.pausedFrom
  BY <1>1, CallMoves
<1>5. journal' = q /\ copy' = q /\ step' = "call" /\ holder' = holder
  BY <1>3 DEF CommitAndGo, CallSet
<1> HIDE DEF q
<1>6. Len(journal.receipts) \in Nat /\ Len(journal.pending) \in Nat /\ i = Len(journal.receipts) + 1
  BY <1>1, <1>2, LenProperties DEF AtCall, RunState
<1>7. CallsAnswered(q)
  <2>1. \A j \in 1 .. Len(journal.receipts) : j \in 1 .. Len(journal.pending) /\ j # i
    BY <1>6
  <2>2. Len(journal.receipts) <= Len(journal.pending)
    BY <1>6
  <2>3. \A j \in 1 .. Len(journal.pending) : (q.pending[j].state = "COMPLETED") <=> (j <= Len(journal.receipts))
    BY <1>1, <1>4, <1>6 DEF LoopFits, CallsAnswered
  <2>4. \A j \in 1 .. Len(journal.receipts) : journal.receipts[j].id = q.pending[j].id
    BY <1>1, <1>4, <2>1 DEF LoopFits, CallsAnswered
  <2> QED BY <1>4, <2>2, <2>3, <2>4 DEF CallsAnswered
<1>8. IdsAreNew(q)
  BY <1>1, <1>4 DEF LoopFits, IdsAreNew
<1>9. adapterRuns[journal.pending[i].id] = 0
  BY <1>1, <1>3 DEF LoopFits, RunsFit
<1>10. RunsFit(q, adapterRuns)
  <2>1. \A j \in 1 .. Len(journal.pending) :
          /\ q.pending[j].state = "PENDING" => adapterRuns[q.pending[j].id] = 0
          /\ q.pending[j].state = "COMPLETED" => adapterRuns[q.pending[j].id] = 1
          /\ adapterRuns[q.pending[j].id] <= 1
    BY <1>1, <1>4, <1>9 DEF LoopFits, RunsFit
  <2>2. \A c \in CallIds :
          \/ adapterRuns[c] = 0
          \/ \E t \in 1 .. Len(q.transcript) : q.transcript[t].id = c
          \/ \E j \in 1 .. Len(q.pending) : q.pending[j].id = c
    BY <1>1, <1>4 DEF LoopFits, RunsFit
  <2> QED BY <1>1, <1>4, <2>1, <2>2 DEF LoopFits, RunsFit
<1>11. PhaseFits(q)
  BY <1>1, <1>4 DEF LoopFits, PhaseFits, Phase
<1>12. q # NoRun /\ LoopFits(q, adapterRuns)
  BY <1>4, <1>7, <1>8, <1>10, <1>11, NoRunIsNoState DEF LoopFits
<1>13. LockFits'
  <2>1. /\ Len(q.receipts) < Len(q.pending) /\ q.pending[AtCall(q)].state = "EXECUTING"
        /\ adapterRuns[q.pending[AtCall(q)].id] = 0
    BY <1>2, <1>4, <1>6, <1>9 DEF AtCall
  <2> QED BY <1>1, <1>3, <1>4, <1>5, <1>12, <2>1 DEF LockFits, AtCall
<1> QED BY <1>3, <1>4, <1>5, <1>12, <1>13 DEF ControllerInv, ControllerTypeOK

\* AdapterReturns runs the claimed call, for the first time.
LEMMA AdapterStep == ASSUME ControllerInv, AdapterReturns PROVE ControllerInv'
<1>1. /\ step = "call" /\ holder # NoHost /\ copy = journal /\ journal \in RunState
      /\ journal # NoRun /\ LoopFits(journal, adapterRuns) /\ journal.status = "WAITING_TOOL"
  BY HolderKnows DEF AdapterReturns
<1>2. /\ Len(journal.receipts) < Len(journal.pending)
      /\ journal.pending[AtCall(journal)].state = "EXECUTING"
      /\ adapterRuns[journal.pending[AtCall(journal)].id] = 0
  BY <1>1 DEF ControllerInv, LockFits
<1>3. PICK i \in 1 .. Len(journal.pending) : i = AtCall(journal) /\ i = NextCall(journal)
  <2>1. Len(journal.receipts) \in Nat /\ Len(journal.pending) \in Nat
    BY <1>1, LenProperties DEF RunState
  <2> QED BY <1>1, <1>2, <2>1, NextCallIsFirstUnanswered DEF LoopFits
<1>4. PICK c \in CallIds : c = journal.pending[i].id
  <2>1. journal.pending \in Seq(Pending)
    BY <1>1 DEF RunState
  <2>2. journal.pending[i] \in Pending
    BY <2>1, ElementOfSeq
  <2> QED BY <2>2 DEF Pending
<1>5. /\ adapterRuns \in [CallIds -> Nat] /\ adapterRuns[c] = 0
      /\ adapterRuns' = [adapterRuns EXCEPT ![c] = @ + 1] /\ step' = "receipt"
      /\ UNCHANGED <<journal, holder, copy>>
  BY <1>1, <1>2, <1>3, <1>4 DEF AdapterReturns, ControllerInv
<1>6. adapterRuns' \in [CallIds -> Nat] /\ adapterRuns'[c] = 1 /\ \A d \in CallIds \ {c} : adapterRuns'[d] = adapterRuns[d]
  BY <1>5
<1>7. /\ \A t \in 1 .. Len(journal.transcript) :
            journal.transcript[t].id \in CallIds /\ journal.transcript[t].id # c
      /\ \A j \in 1 .. Len(journal.pending) : journal.pending[j].id \in CallIds
      /\ \A j \in 1 .. Len(journal.pending) : j # i => journal.pending[j].id # c
  <2>1. \A t \in 1 .. Len(journal.transcript) : journal.transcript[t] \in Receipt
    BY <1>1, ElementOfSeq DEF RunState
  <2>2. \A j \in 1 .. Len(journal.pending) : journal.pending[j] \in Pending
    BY <1>1, ElementOfSeq DEF RunState
  <2> QED BY <1>1, <1>4, <2>1, <2>2 DEF LoopFits, IdsAreNew, Receipt, Pending
<1>8. RunsFit(journal, adapterRuns')
  <2>1. \A t \in 1 .. Len(journal.transcript) : adapterRuns'[journal.transcript[t].id] = 1
    BY <1>1, <1>6, <1>7 DEF LoopFits, RunsFit
  <2>2. \A j \in 1 .. Len(journal.pending) :
          /\ journal.pending[j].state = "PENDING" => adapterRuns'[journal.pending[j].id] = 0
          /\ journal.pending[j].state = "COMPLETED" => adapterRuns'[journal.pending[j].id] = 1
          /\ adapterRuns'[journal.pending[j].id] <= 1
    <3> TAKE j \in 1 .. Len(journal.pending)
    <3>1. CASE j = i
      BY <1>2, <1>3, <1>4, <1>6, <3>1
    <3>2. CASE j # i
      <4>1. adapterRuns'[journal.pending[j].id] = adapterRuns[journal.pending[j].id]
        BY <1>6, <1>7, <3>2
      <4> QED BY <1>1, <4>1 DEF LoopFits, RunsFit
    <3> QED BY <3>1, <3>2
  <2>3. \A d \in CallIds :
          \/ adapterRuns'[d] = 0
          \/ \E t \in 1 .. Len(journal.transcript) : journal.transcript[t].id = d
          \/ \E j \in 1 .. Len(journal.pending) : journal.pending[j].id = d
    BY <1>1, <1>4, <1>6 DEF LoopFits, RunsFit
  <2> QED BY <2>1, <2>2, <2>3 DEF RunsFit
<1>9. LoopFits(journal, adapterRuns')
  BY <1>1, <1>8 DEF LoopFits
<1>10. LockFits'
  BY <1>1, <1>2, <1>3, <1>4, <1>5, <1>6 DEF ControllerInv, LockFits, AtCall
<1> QED BY <1>1, <1>5, <1>6, <1>9, <1>10 DEF ControllerInv, ControllerTypeOK

\* PersistReceipt answers the call that ran.
LEMMA PersistStep ==
    ASSUME ControllerInv, NEW status \in ReceiptStatuses, PersistReceipt(status)
    PROVE  ControllerInv'
<1>1. /\ step = "receipt" /\ holder # NoHost /\ copy = journal /\ journal \in RunState
      /\ journal # NoRun /\ LoopFits(journal, adapterRuns) /\ journal.status = "WAITING_TOOL"
  BY HolderKnows DEF PersistReceipt
<1>2. /\ Len(journal.receipts) < Len(journal.pending)
      /\ adapterRuns[journal.pending[AtCall(journal)].id] = 1
  BY <1>1 DEF ControllerInv, LockFits
<1>3. Len(journal.receipts) \in Nat /\ Len(journal.pending) \in Nat
  BY <1>1, LenProperties DEF RunState
<1>4. PICK i \in 1 .. Len(journal.pending) : /\ i = AtCall(journal) /\ i = NextCall(journal)
                                             /\ i = Len(journal.receipts) + 1
  BY <1>1, <1>2, <1>3, NextCallIsFirstUnanswered DEF LoopFits, AtCall
<1> DEFINE r == [id |-> journal.pending[i].id, status |-> status]
           R == Append(journal.receipts, r)
           p == CallSet(journal, i, "COMPLETED")
           q == [p EXCEPT !.receipts = R]
<1>5. journal' = q /\ copy' = q /\ step' = "next" /\ holder' = holder /\ adapterRuns' = adapterRuns
  <2>1. q = [journal EXCEPT !.pending[i].state = "COMPLETED", !.receipts = R]
    BY DEF CallSet
  <2> QED BY <1>1, <1>4, <2>1 DEF PersistReceipt, CommitAndGo, RunState
<1>6. /\ p \in RunState /\ Len(p.pending) = Len(journal.pending)
      /\ p.pending[i].state = "COMPLETED"
      /\ \A j \in 1 .. Len(journal.pending) : p.pending[j].id = journal.pending[j].id
      /\ \A j \in 1 .. Len(journal.pending) : j # i => p.pending[j] = journal.pending[j]
      /\ p.receipts = journal.receipts /\ p.transcript = journal.transcript
      /\ p.status = journal.status /\ p.pausedFrom = journal.pausedFrom
  BY <1>1, CallMoves
<1> HIDE DEF p
<1>7. r \in Receipt /\ r.id = journal.pending[i].id
  <2>1. journal.pending \in Seq(Pending)
    BY <1>1 DEF RunState
  <2>2. journal.pending[i] \in Pending
    BY <2>1, ElementOfSeq
  <2> QED BY <2>2 DEF Pending, Receipt
<1> HIDE DEF r
<1>8. /\ R \in Seq(Receipt) /\ Len(R) = Len(journal.receipts) + 1
      /\ \A j \in 1 .. Len(journal.receipts) : R[j] = journal.receipts[j]
      /\ R[i] = r
  BY <1>1, <1>4, <1>7, AppendProperties DEF RunState
<1> HIDE DEF R
<1>9. /\ q \in RunState /\ q.pending = p.pending /\ q.receipts = R
      /\ q.transcript = journal.transcript /\ q.status = "WAITING_TOOL"
  BY <1>1, <1>6, <1>8 DEF RunState
<1> HIDE DEF q
<1>10. CallsAnswered(q)
  <2>1. Len(R) <= Len(p.pending)
    BY <1>2, <1>3, <1>6, <1>8
  <2>2. \A j \in 1 .. Len(p.pending) : (p.pending[j].state = "COMPLETED") <=> (j <= Len(R))
    <3> TAKE j \in 1 .. Len(p.pending)
    <3>1. CASE j = i
      BY <1>3, <1>4, <1>6, <1>8, <3>1
    <3>2. CASE j # i
      <4>1. (j <= Len(R)) <=> (j <= Len(journal.receipts))
        BY <1>3, <1>4, <1>6, <1>8, <3>2
      <4> QED BY <1>1, <1>6, <3>2, <4>1 DEF LoopFits, CallsAnswered
    <3> QED BY <3>1, <3>2
  <2>3. \A j \in 1 .. Len(R) : R[j].id = p.pending[j].id
    <3> TAKE j \in 1 .. Len(R)
    <3>1. CASE j = i
      BY <1>6, <1>7, <1>8, <3>1
    <3>2. CASE j # i
      <4>1. j \in 1 .. Len(journal.receipts) /\ j \in 1 .. Len(journal.pending)
        BY <1>2, <1>3, <1>4, <1>8, <3>2
      <4> QED BY <1>1, <1>6, <1>8, <4>1 DEF LoopFits, CallsAnswered
    <3> QED BY <3>1, <3>2
  <2> QED BY <1>9, <2>1, <2>2, <2>3 DEF CallsAnswered
<1>11. IdsAreNew(q)
  <2>1. IdsAreNew(journal)
    BY <1>1 DEF LoopFits
  <2>2. \A j, k \in 1 .. Len(p.pending) : j # k => p.pending[j].id # p.pending[k].id
    BY <1>6, <2>1 DEF IdsAreNew
  <2>3. \A t \in 1 .. Len(journal.transcript), j \in 1 .. Len(p.pending) :
          journal.transcript[t].id # p.pending[j].id
    BY <1>6, <2>1 DEF IdsAreNew
  <2> QED BY <1>9, <2>1, <2>2, <2>3 DEF IdsAreNew
<1>12. RunsFit(q, adapterRuns)
  <2>1. \A j \in 1 .. Len(p.pending) :
          /\ p.pending[j].state = "PENDING" => adapterRuns[p.pending[j].id] = 0
          /\ p.pending[j].state = "COMPLETED" => adapterRuns[p.pending[j].id] = 1
          /\ adapterRuns[p.pending[j].id] <= 1
    BY <1>1, <1>2, <1>4, <1>6 DEF LoopFits, RunsFit
  <2>2. \A c \in CallIds :
          \/ adapterRuns[c] = 0
          \/ \E t \in 1 .. Len(q.transcript) : q.transcript[t].id = c
          \/ \E j \in 1 .. Len(q.pending) : q.pending[j].id = c
    BY <1>1, <1>6, <1>9 DEF LoopFits, RunsFit
  <2> QED BY <1>1, <1>9, <2>1, <2>2 DEF LoopFits, RunsFit
<1>13. PhaseFits(q)
  BY <1>1, <1>6, <1>9 DEF LoopFits, PhaseFits, Phase
<1>14. q # NoRun /\ LoopFits(q, adapterRuns)
  BY <1>9, <1>10, <1>11, <1>12, <1>13, NoRunIsNoState DEF LoopFits
<1>15. LockFits'
  BY <1>1, <1>5, <1>9, <1>14 DEF ControllerInv, LockFits
<1> QED BY <1>5, <1>9, <1>14, <1>15 DEF ControllerInv, ControllerTypeOK

\* The other ends of execute_pending.
LEMMA ExecuteEndsStep ==
    ASSUME ControllerInv, OutcomeUncertain \/ RuntimeRejects \/ ReceiptsReady
    PROVE  ControllerInv'
<1>1. /\ step \in {"next", "call"} /\ UNCHANGED adapterRuns
      /\ copy = journal /\ journal \in RunState /\ LoopFits(journal, adapterRuns)
      /\ journal.status = "WAITING_TOOL"
  BY HolderKnows DEF OutcomeUncertain, RuntimeRejects, ReceiptsReady
<1>2. CASE OutcomeUncertain \/ RuntimeRejects
  <2>1. CommitAndRelease(Failed(journal))
    BY <1>1, <1>2 DEF OutcomeUncertain, RuntimeRejects
  <2> QED BY <1>1, <2>1, FailedState, ReleaseKeeps
<1>3. CASE ReceiptsReady
  <2> DEFINE q == [journal EXCEPT !.status = "RECEIPT_READY"]
  <2>1. CommitAndRelease(q) /\ Unfinished(journal) = {}
    BY <1>1, <1>3 DEF ReceiptsReady
  <2>2. /\ q \in RunState /\ q.pending = journal.pending /\ q.receipts = journal.receipts
        /\ q.transcript = journal.transcript /\ q.status = "RECEIPT_READY"
    BY <1>1 DEF RunState, Statuses
  <2> HIDE DEF q
  <2>3. Len(journal.receipts) = Len(journal.pending) /\ Len(journal.pending) # 0
    BY <1>1, <2>1, NextCallIsFirstUnanswered DEF LoopFits, PhaseFits, Phase
  <2>4. LoopFits(q, adapterRuns)
    BY <1>1, <2>2, <2>3, StatusOnly DEF PhaseFits, Phase
  <2> QED BY <1>1, <2>1, <2>2, <2>4, ReleaseKeeps
<1> QED BY <1>2, <1>3

\* A pause and a resume keep the phase, or lose it to a second pause.
LEMMA PauseStep ==
    ASSUME ControllerInv, PauseController \/ ResumeController
    PROVE  ControllerInv'
<1>1. /\ holder = NoHost /\ journal # NoRun /\ journal \in RunState
      /\ LoopFits(journal, adapterRuns) /\ UNCHANGED <<holder, copy, step, adapterRuns>>
  BY DEF ControllerInv, ControllerTypeOK, PauseController, ResumeController
<1>2. /\ journal' \in RunState /\ journal'.pending = journal.pending
      /\ journal'.receipts = journal.receipts /\ journal'.transcript = journal.transcript
      /\ Phase(journal') = Phase(journal) \/ Phase(journal') = "PAUSED" \/ Phase(journal') = "NONE"
  <2>1. CASE PauseController
    <3>1. /\ journal' = [journal EXCEPT !.pausedFrom = journal.status, !.status = "PAUSED"]
          /\ journal.status \in Statuses
      BY <1>1, <2>1 DEF PauseController, RunState
    <3> QED BY <1>1, <3>1 DEF RunState, Statuses, Phase
  <2>2. CASE ResumeController
    <3>1. /\ journal' = [journal EXCEPT !.status = journal.pausedFrom, !.pausedFrom = "NONE"]
          /\ journal.pausedFrom \in Statuses /\ journal.status = "PAUSED"
      BY <1>1, <2>2 DEF ResumeController, RunState
    <3> QED BY <1>1, <3>1 DEF RunState, Statuses, Phase
  <2> QED BY <2>1, <2>2
<1>3. PhaseFits(journal')
  BY <1>1, <1>2 DEF PhaseFits, LoopFits
<1>4. LoopFits(journal', adapterRuns) /\ journal' # NoRun
  BY <1>1, <1>2, <1>3, StatusOnly, NoRunIsNoState
<1> QED BY <1>1, <1>2, <1>4 DEF ControllerInv, ControllerTypeOK, LockFits

\* Wherever a host dies and whoever takes over: a call reaches an adapter at most once, the
\* model is shown each result once and only of a call that ran, and the receipts of a turn
\* answer its calls (controller.py advance, execute_pending).
THEOREM CallsAlwaysRunAtMostOnce == ControllerSpec => []CallsRunAtMostOnce
<1>1. ControllerInit => ControllerInv
  BY TurnBounds DEF ControllerInit, ControllerInv, ControllerTypeOK, LockFits
<1>2. ASSUME ControllerInv, [ControllerNext]_controllerVars PROVE ControllerInv'
  <2>1. CASE HostDies
    BY <1>2, <2>1, TurnBounds DEF HostDies, Release, ControllerInv, ControllerTypeOK, LockFits
  <2>2. CASE UNCHANGED controllerVars
    BY <1>2, <2>2 DEF controllerVars, ControllerInv, ControllerTypeOK, LockFits
  <2>3. CASE ControllerNext
    BY <1>2, <2>1, <2>3, StartStep, LockStep, AdvanceStep, AskEndsStep, AskCallsStep, ClaimStep,
       AdapterStep, PersistStep, ExecuteEndsStep, PauseStep DEF ControllerNext
  <2> QED BY <1>2, <2>2, <2>3
<1>3. ControllerInv => CallsRunAtMostOnce
  <2> SUFFICES ASSUME ControllerInv PROVE CallsRunAtMostOnce
    OBVIOUS
  <2>1. \A c \in CallIds : adapterRuns[c] <= 1
    BY DEF ControllerInv, LoopFits, RunsFit
  <2>2. ASSUME journal # NoRun
        PROVE  /\ \A t \in DOMAIN journal.transcript : adapterRuns[journal.transcript[t].id] = 1
               /\ \A t, u \in DOMAIN journal.transcript :
                     t # u => journal.transcript[t].id # journal.transcript[u].id
               /\ journal.status = "RECEIPT_READY" => ReceiptsMatch(journal)
               /\ journal.status = "RUNNING" => journal.pending = <<>> /\ journal.receipts = <<>>
    <3>1. /\ journal \in RunState /\ LoopFits(journal, adapterRuns)
          /\ journal.pending \in Seq(Pending) /\ journal.receipts \in Seq(Receipt)
          /\ journal.transcript \in Seq(Receipt)
      BY <2>2 DEF ControllerInv, ControllerTypeOK, RunState
    <3>2. /\ DOMAIN journal.transcript = 1 .. Len(journal.transcript)
          /\ DOMAIN journal.pending = 1 .. Len(journal.pending)
          /\ DOMAIN journal.receipts = 1 .. Len(journal.receipts)
          /\ Len(journal.receipts) \in Nat /\ Len(journal.pending) \in Nat
      BY <3>1, LenProperties
    <3>3. ASSUME journal.status = "RECEIPT_READY" PROVE ReceiptsMatch(journal)
      <4>1. Len(journal.receipts) = Len(journal.pending) /\ journal.receipts # <<>>
        BY <3>1, <3>3, EmptySeq DEF LoopFits, PhaseFits, Phase
      <4>2. ASSUME NEW k \in DOMAIN journal.receipts
            PROVE  /\ journal.receipts[k].id \in {journal.pending[i].id : i \in DOMAIN journal.pending}
                   /\ \A t \in DOMAIN journal.transcript : journal.transcript[t] # journal.receipts[k]
        <5>1. k \in 1 .. Len(journal.pending) /\ journal.receipts[k].id = journal.pending[k].id
          BY <3>1, <3>2, <4>1 DEF LoopFits, CallsAnswered
        <5> QED BY <3>1, <3>2, <5>1 DEF LoopFits, IdsAreNew
      <4> QED BY <4>1, <4>2 DEF ReceiptsMatch
    <3>4. journal.status = "RUNNING" => journal.pending = <<>> /\ journal.receipts = <<>>
      <4>1. journal.status = "RUNNING" => Len(journal.pending) = 0 /\ Len(journal.receipts) = 0
        BY <3>1, <3>2 DEF LoopFits, PhaseFits, Phase, CallsAnswered
      <4> QED BY <3>1, <4>1, EmptySeq
    <3> QED BY <3>1, <3>2, <3>3, <3>4 DEF LoopFits, RunsFit, IdsAreNew
  <2> QED BY <2>1, <2>2 DEF CallsRunAtMostOnce, ControllerInv
<1> QED BY <1>1, <1>2, <1>3, PTL DEF ControllerSpec

-----------------------------------------------------------------------------
(* Claims, their plans and the draft                                        *)

ClaimRowsTyped ==
    /\ contract \in 1 .. MaxContract /\ draft \in (1 .. MaxContract) \cup {NoClaim}
    /\ claims \in [ClaimIds -> ClaimRow \cup {NoClaim}]
    /\ candidates \in [Candidates -> CandidateRow \cup {NoClaim}]
    /\ planners \in [Candidates -> ClaimIds \cup {NoClaim}]
    /\ plans \in [Candidates -> PlanStates \cup {NoClaim}]
    /\ results \in [Candidates -> [Backends -> Verdicts \cup {"none"}]]
    /\ recorders \in [Recorders -> EvidenceCall \cup {NoClaim}]
    /\ importer \in ImportCall \cup {NoClaim}
    /\ obligations \in [Candidates -> ObligationRow \cup {NoClaim}]
    /\ readiness \in {NoClaim, "BLOCKED", "READY_FOR_CLOSURE_WITNESS"}

\* The direct predecessors of a claim are facts of its contract.
FactsStand(c) ==
    claims[c] # NoClaim => \A f \in claims[c].preds : CurrentFact(f, claims[c].contract)

\* A repaired claim names its repair.
RepairsMatch(c) ==
    claims[c] # NoClaim /\ claims[c].supersedes # NoClaim =>
        /\ claims[claims[c].supersedes] # NoClaim
        /\ claims[claims[c].supersedes].supersededBy = c

AllAccepted(k) == \A b \in Required : results[k][b] = "ACCEPTED"

\* A candidate has a plan, an obligation and a claim together; a plan that asks for the
\* kernel's verdict has all the evidence; a discharged obligation has its claim's verdict.
CandidateFits(k) ==
    /\ draft = NoClaim => planners[k] = NoClaim /\ plans[k] = NoClaim
    /\ draft # NoClaim => candidates[k] # NoClaim
    /\ planners[k] # NoClaim => plans[k] = NoClaim /\ claims[planners[k]] # NoClaim
    /\ (plans[k] = NoClaim) <=> (obligations[k] = NoClaim)
    /\ plans[k] # NoClaim => candidates[k].claim \in ClaimIds /\ claims[candidates[k].claim] # NoClaim
    /\ plans[k] \in {"READY_FOR_KERNEL", "IMPORTED_ACCEPTED"} => AllAccepted(k)
    /\ obligations[k] # NoClaim /\ obligations[k].status = "DISCHARGED_BY_KERNEL" =>
          /\ candidates[k].lifecycle = "ACCEPTED"
          /\ claims[candidates[k].claim].lifecycle = "ACCEPTED"
          /\ claims[candidates[k].claim].event = obligations[k].event
          /\ AllAccepted(k)

\* What a call read before its transaction and still holds.
RecorderKnows(e) == recorders[e] # NoClaim => plans[recorders[e].candidate] # NoClaim
ImporterKnows ==
    importer # NoClaim => /\ plans[importer.candidate] # NoClaim
                          /\ importer.accepted => AllAccepted(importer.candidate)
ReadinessFits ==
    (readiness = "READY_FOR_CLOSURE_WITNESS") <=>
        (Discharged(obligations) = Candidates /\ readiness # NoClaim)

ClaimInv ==
    /\ ClaimRowsTyped
    /\ \A c \in ClaimIds : FactsStand(c)
    /\ \A c \in ClaimIds : RepairsMatch(c)
    /\ \A k \in Candidates : CandidateFits(k)
    /\ \A e \in Recorders : RecorderKnows(e)
    /\ ImporterKnows
    /\ ReadinessFits

\* What no step changes in a claim: its contract, its predecessors and an acceptance.
ClaimsGrow ==
    /\ claims' \in [ClaimIds -> ClaimRow \cup {NoClaim}]
    /\ \A c \in ClaimIds : claims[c] # NoClaim =>
          /\ claims'[c] # NoClaim /\ claims'[c].contract = claims[c].contract
          /\ claims'[c].preds = claims[c].preds /\ claims'[c].supersedes = claims[c].supersedes
          /\ claims[c].lifecycle = "ACCEPTED" =>
                claims'[c].lifecycle = "ACCEPTED" /\ claims'[c].event = claims[c].event

\* A fact stays one.
LEMMA FactsStay ==
    ASSUME ClaimsGrow, NEW f, NEW v, CurrentFact(f, v)
    PROVE  CurrentFact(f, v)'
BY DEF ClaimsGrow, CurrentFact, Submitted

\* A claim that was there keeps its facts.
LEMMA FactsStandStill ==
    ASSUME ClaimInv, ClaimsGrow, NEW c \in ClaimIds, claims[c] # NoClaim
    PROVE  FactsStand(c)'
<1>1. claims'[c].preds = claims[c].preds /\ claims'[c].contract = claims[c].contract
  BY DEF ClaimsGrow
<1>2. \A f \in claims[c].preds : CurrentFact(f, claims[c].contract)
  BY DEF ClaimInv, FactsStand
<1>3. \A f \in claims[c].preds : f \in ClaimIds /\ claims'[f] # NoClaim /\ claims'[f].contract = claims[c].contract
                                 /\ claims'[f].lifecycle = "ACCEPTED"
  BY <1>2 DEF ClaimsGrow, CurrentFact, Submitted
<1> QED BY <1>1, <1>3 DEF FactsStand, CurrentFact, Submitted

\* submit_in_transaction: a new claim on current facts, and perhaps a repair.
LEMMA InsertMoves ==
    ASSUME ClaimInv, NEW label \in Candidates \cup {NoClaim}, NEW statement \in Candidates,
           NEW version \in 1 .. MaxContract, NEW preds \in SUBSET ClaimIds, NEW a \in Attempts,
           NEW old \in ClaimIds \cup {NoClaim}, InsertClaim(label, statement, version, preds, a, old)
    PROVE  /\ ClaimsGrow
           /\ \A c \in ClaimIds : FactsStand(c)' /\ RepairsMatch(c)'
           /\ NewClaim \in ClaimIds /\ claims'[NewClaim] # NoClaim
<1>1. PICK n \in ClaimIds : n = NewClaim /\ claims[n] = NoClaim
  <2>1. \E c \in ClaimIds : c \notin Submitted
    BY DEF InsertClaim, Submitted
  <2> QED BY <2>1 DEF NewClaim, Submitted
<1> DEFINE row == [label |-> IF label = NoClaim THEN n ELSE label, statement |-> statement,
                   contract |-> version, preds |-> preds, attempt |-> a,
                   lifecycle |-> "PENDING_VERIFICATION", supersedes |-> old,
                   supersededBy |-> NoClaim, event |-> NoClaim]
<1>2. /\ row \in ClaimRow /\ row.contract = version /\ row.preds = preds /\ row.supersedes = old
      /\ row # NoClaim
  BY NoClaimIsNoRow DEF ClaimRow, Lifecycles
<1>3. /\ \A f \in preds : CurrentFact(f, version)
      /\ MaySupersede(old, version, statement)
      /\ claims' = [d \in ClaimIds |->
             IF d = n THEN row
             ELSE IF d = old THEN [claims[d] EXCEPT !.supersededBy = n] ELSE claims[d]]
  BY <1>1 DEF InsertClaim
<1> HIDE DEF row
<1>4. claims \in [ClaimIds -> ClaimRow \cup {NoClaim}]
  BY DEF ClaimInv, ClaimRowsTyped
<1>5. old # NoClaim => old \in ClaimIds /\ claims[old] \in ClaimRow /\ claims[old].supersededBy = NoClaim /\ old # n
  BY <1>1, <1>3, <1>4 DEF MaySupersede, Submitted
<1>6. /\ claims'[n] = row
      /\ \A d \in ClaimIds : d # n /\ d # old => claims'[d] = claims[d]
      /\ old # NoClaim => claims'[old] = [claims[old] EXCEPT !.supersededBy = n]
  BY <1>3, <1>5
<1>7. old # NoClaim =>
         /\ claims'[old] \in ClaimRow /\ claims'[old].supersededBy = n
         /\ claims'[old].contract = claims[old].contract /\ claims'[old].preds = claims[old].preds
         /\ claims'[old].supersedes = claims[old].supersedes
         /\ claims'[old].lifecycle = claims[old].lifecycle /\ claims'[old].event = claims[old].event
  BY <1>5, <1>6 DEF ClaimRow
<1>8. ClaimsGrow
  <2>1. claims' = [d \in ClaimIds |-> claims'[d]]
    BY <1>3
  <2>2. \A d \in ClaimIds : claims'[d] \in ClaimRow \cup {NoClaim}
    <3> TAKE d \in ClaimIds
    <3>1. CASE d = n
      BY <1>2, <1>6, <3>1
    <3>2. CASE d # n /\ d = old
      BY <1>7, <3>2, NoClaimIsNoRow
    <3>3. CASE d # n /\ d # old
      BY <1>4, <1>6, <3>3
    <3> QED BY <3>1, <3>2, <3>3
  <2>3. claims' \in [ClaimIds -> ClaimRow \cup {NoClaim}]
    BY <2>1, <2>2
  <2>4. ASSUME NEW c \in ClaimIds, claims[c] # NoClaim
        PROVE  /\ claims'[c] # NoClaim /\ claims'[c].contract = claims[c].contract
               /\ claims'[c].preds = claims[c].preds /\ claims'[c].supersedes = claims[c].supersedes
               /\ claims'[c].lifecycle = claims[c].lifecycle /\ claims'[c].event = claims[c].event
    <3>1. CASE c = old
      BY <1>7, <2>4, <3>1, NoClaimIsNoRow
    <3>2. CASE c # old
      BY <1>1, <1>6, <2>4, <3>2
    <3> QED BY <3>1, <3>2
  <2> QED BY <2>3, <2>4 DEF ClaimsGrow
<1>9. FactsStand(n)'
  <2>1. \A f \in preds : CurrentFact(f, version)'
    BY <1>3, <1>8, FactsStay
  <2> QED BY <1>2, <1>6, <2>1 DEF FactsStand, CurrentFact, Submitted
<1>10. \A c \in ClaimIds : FactsStand(c)'
  <2> TAKE c \in ClaimIds
  <2>1. CASE c = n
    BY <1>9, <2>1
  <2>2. CASE c # n /\ claims[c] # NoClaim
    BY <1>8, <2>2, FactsStandStill
  <2>3. CASE c # n /\ claims[c] = NoClaim
    <3>1. claims'[c] = NoClaim
      BY <1>5, <1>6, <2>3, NoClaimIsNoRow
    <3> QED BY <3>1 DEF FactsStand
  <2> QED BY <2>1, <2>2, <2>3
<1>11. ASSUME NEW c \in ClaimIds PROVE RepairsMatch(c)'
  <2> SUFFICES ASSUME claims'[c] # NoClaim, claims'[c].supersedes # NoClaim
               PROVE  /\ claims'[claims'[c].supersedes] # NoClaim
                      /\ claims'[claims'[c].supersedes].supersededBy = c
    BY DEF RepairsMatch
  <2>1. CASE c = n
    BY <1>2, <1>5, <1>6, <1>7, <2>1, NoClaimIsNoRow
  <2>2. CASE c # n
    <3>1. claims[c] # NoClaim
      BY <1>5, <1>6, <2>2, NoClaimIsNoRow
    <3>2. claims'[c].supersedes = claims[c].supersedes
      BY <1>8, <3>1 DEF ClaimsGrow
    <3>3. PICK s \in ClaimIds : s = claims[c].supersedes
      BY <1>4, <3>1, <3>2 DEF ClaimRow
    <3>4. claims[s] # NoClaim /\ claims[s].supersededBy = c
      BY <3>1, <3>2, <3>3 DEF ClaimInv, RepairsMatch
    <3>5. s # old /\ s # n
      BY <1>1, <1>5, <3>4, NoClaimIsNoRow
    <3> QED BY <1>6, <3>2, <3>3, <3>4, <3>5
  <2> QED BY <2>1, <2>2
<1> QED BY <1>1, <1>2, <1>6, <1>8, <1>10, <1>11

\* A verdict decides one pending claim.
LEMMA VerdictMoves ==
    ASSUME ClaimInv, NEW c \in ClaimIds, claims[c] # NoClaim,
           claims[c].lifecycle = "PENDING_VERIFICATION",
           NEW accepted \in BOOLEAN, NEW event \in VerdictEvents, RecordVerdict(c, accepted, event)
    PROVE  /\ ClaimsGrow
           /\ \A d \in ClaimIds : FactsStand(d)' /\ RepairsMatch(d)'
           /\ claims'[c].event = event
           /\ accepted => claims'[c].lifecycle = "ACCEPTED"
<1> DEFINE st == IF accepted THEN "ACCEPTED" ELSE "REJECTED"
           row == [claims[c] EXCEPT !.lifecycle = st, !.event = event]
<1>1. claims \in [ClaimIds -> ClaimRow \cup {NoClaim}] /\ claims[c] \in ClaimRow
  BY DEF ClaimInv, ClaimRowsTyped
<1>2. st \in Lifecycles
  BY DEF Lifecycles
<1>3. claims' = [claims EXCEPT ![c] = row]
  BY DEF RecordVerdict
<1>4. accepted => st = "ACCEPTED"
  OBVIOUS
<1> HIDE DEF st
<1>5. /\ row \in ClaimRow /\ row.contract = claims[c].contract /\ row.preds = claims[c].preds
      /\ row.supersedes = claims[c].supersedes /\ row.supersededBy = claims[c].supersededBy
      /\ row.lifecycle = st /\ row.event = event
  BY <1>1, <1>2 DEF ClaimRow
<1> HIDE DEF row
<1>6. claims'[c] = row /\ \A d \in ClaimIds \ {c} : claims'[d] = claims[d]
  BY <1>1, <1>3
<1>7. row # NoClaim
  BY <1>5, NoClaimIsNoRow
<1>8. ClaimsGrow
  BY <1>1, <1>3, <1>5, <1>6, <1>7 DEF ClaimsGrow
<1>9. \A d \in ClaimIds : FactsStand(d)'
  <2> TAKE d \in ClaimIds
  <2>1. CASE claims[d] # NoClaim
    BY <1>8, <2>1, FactsStandStill
  <2>2. CASE claims[d] = NoClaim
    BY <1>6, <2>2 DEF FactsStand
  <2> QED BY <2>1, <2>2
<1>10. ASSUME NEW d \in ClaimIds PROVE RepairsMatch(d)'
  <2>1. \A s \in ClaimIds : claims[s] # NoClaim =>
           claims'[s] # NoClaim /\ claims'[s].supersededBy = claims[s].supersededBy
    BY <1>5, <1>6, <1>7
  <2>2. claims'[d] # NoClaim => claims[d] # NoClaim /\ claims'[d].supersedes = claims[d].supersedes
    BY <1>5, <1>6
  <2>3. claims[d] # NoClaim => claims[d].supersedes \in ClaimIds \cup {NoClaim}
    BY <1>1 DEF ClaimRow
  <2>4. RepairsMatch(d)
    BY DEF ClaimInv
  <2> QED BY <2>1, <2>2, <2>3, <2>4 DEF RepairsMatch
<1> QED BY <1>4, <1>5, <1>6, <1>8, <1>9, <1>10

\* A step that leaves a candidate's rows alone.
LEMMA CandidateKeeps ==
    ASSUME ClaimInv, ClaimsGrow, NEW k \in Candidates,
           draft' = draft, candidates'[k] = candidates[k], planners'[k] = planners[k],
           plans'[k] = plans[k], results'[k] = results[k], obligations'[k] = obligations[k]
    PROVE  CandidateFits(k)'
<1>1. CandidateFits(k) /\ planners[k] \in ClaimIds \cup {NoClaim}
  BY DEF ClaimInv, ClaimRowsTyped
<1>2. planners[k] # NoClaim => claims'[planners[k]] # NoClaim
  BY <1>1 DEF CandidateFits, ClaimsGrow
<1>3. plans[k] # NoClaim =>
         /\ claims'[candidates[k].claim] # NoClaim
         /\ claims[candidates[k].claim].lifecycle = "ACCEPTED" =>
               /\ claims'[candidates[k].claim].lifecycle = "ACCEPTED"
               /\ claims'[candidates[k].claim].event = claims[candidates[k].claim].event
  BY <1>1 DEF CandidateFits, ClaimsGrow
<1>4. AllAccepted(k) => AllAccepted(k)'
  BY DEF AllAccepted
<1> QED BY <1>1, <1>2, <1>3, <1>4 DEF CandidateFits

\* A step on the claims alone.
LEMMA ClaimsOnly ==
    ASSUME ClaimInv, ClaimsGrow, \A c \in ClaimIds : FactsStand(c)' /\ RepairsMatch(c)',
           UNCHANGED <<draft, candidates, planners, plans, results, recorders, importer,
                       obligations, readiness>>,
           contract' \in 1 .. MaxContract
    PROVE  ClaimInv'
<1>1. \A k \in Candidates : CandidateFits(k)'
  BY CandidateKeeps
<1>2. ClaimRowsTyped'
  BY DEF ClaimInv, ClaimRowsTyped, ClaimsGrow
<1>3. (\A e \in Recorders : RecorderKnows(e)') /\ ImporterKnows' /\ ReadinessFits'
  BY DEF ClaimInv, RecorderKnows, ImporterKnows, ReadinessFits, AllAccepted, Discharged
<1> QED BY <1>1, <1>2, <1>3 DEF ClaimInv

\* Claims that do not change.
LEMMA ClaimsStay ==
    ASSUME ClaimInv, claims' = claims
    PROVE  ClaimsGrow /\ \A c \in ClaimIds : FactsStand(c)' /\ RepairsMatch(c)'
BY DEF ClaimInv, ClaimRowsTyped, ClaimsGrow, FactsStand, RepairsMatch, CurrentFact, Submitted

\* Workers, the kernel and a revised contract.
LEMMA WorkerStep == ASSUME ClaimInv, WorkerNext PROVE ClaimInv'
<1>1. ASSUME NEW s \in Candidates, NEW preds \in SUBSET Submitted, NEW a \in Attempts,
             NEW old \in Submitted \cup {NoClaim}, SubmitClaim(s, preds, a, old)
      PROVE  ClaimInv'
  <2>1. preds \in SUBSET ClaimIds /\ old \in ClaimIds \cup {NoClaim} /\ contract \in 1 .. MaxContract
        /\ NoClaim \in Candidates \cup {NoClaim}
    BY DEF Submitted, ClaimInv, ClaimRowsTyped
  <2>2. ClaimsGrow /\ \A c \in ClaimIds : FactsStand(c)' /\ RepairsMatch(c)'
    BY <1>1, <2>1, InsertMoves DEF SubmitClaim
  <2> QED BY <1>1, <2>1, <2>2, ClaimsOnly DEF SubmitClaim
<1>2. ASSUME NEW c \in Submitted, NEW b \in Backends, NEW v \in Verdicts, ImportVerification(c, b, v)
      PROVE  ClaimInv'
  <2>1. c \in ClaimIds /\ claims[c] # NoClaim /\ <<"kernel", c>> \in VerdictEvents
    BY DEF Submitted, VerdictEvents
  <2>2. (v = "ACCEPTED") \in BOOLEAN
    OBVIOUS
  <2>3. ClaimsGrow /\ \A d \in ClaimIds : FactsStand(d)' /\ RepairsMatch(d)'
    BY <1>2, <2>1, <2>2, VerdictMoves DEF ImportVerification
  <2> QED BY <1>2, <2>3, ClaimsOnly DEF ImportVerification, ClaimInv, ClaimRowsTyped
<1>3. CASE ReviseContract
  <2>1. contract' \in 1 .. MaxContract
    BY <1>3, ContractsAreNumbered DEF ReviseContract, ClaimInv, ClaimRowsTyped
  <2> QED BY <1>3, <2>1, ClaimsStay, ClaimsOnly DEF ReviseContract
<1> QED BY <1>1, <1>2, <1>3 DEF WorkerNext

\* The kernel's own import, on the draft's side.
LEMMA ImportStep ==
    ASSUME ClaimInv, NEW c \in Submitted, NEW b \in Backends, NEW v \in Verdicts, ImportVerification(c, b, v)
    PROVE  ClaimInv'
BY WorkerStep DEF WorkerNext

\* NormalizeDraft: candidates without plans.
LEMMA NormalizeStep == ASSUME ClaimInv, NormalizeDraft PROVE ClaimInv'
<1> DEFINE row == [lifecycle |-> "CANDIDATE", claim |-> NoClaim]
<1>1. row \in CandidateRow /\ row # NoClaim
  BY NoClaimIsNoRow DEF CandidateRow
<1>2. /\ draft = NoClaim /\ draft' = contract /\ draft' # NoClaim
      /\ candidates' = [k \in Candidates |-> row]
      /\ UNCHANGED <<contract, claims, planners, plans, results, recorders, importer, obligations, readiness>>
  BY NoClaimIsNoRow DEF NormalizeDraft, ClaimInv, ClaimRowsTyped
<1> HIDE DEF row
<1>3. ClaimRowsTyped'
  BY <1>1, <1>2 DEF ClaimInv, ClaimRowsTyped
<1>4. ASSUME NEW k \in Candidates PROVE CandidateFits(k)'
  <2>1. CandidateFits(k) /\ planners[k] = NoClaim /\ plans[k] = NoClaim /\ obligations[k] = NoClaim
    BY <1>2 DEF ClaimInv, CandidateFits
  <2>2. candidates'[k] # NoClaim
    BY <1>1, <1>2
  <2>3. plans'[k] = NoClaim /\ planners'[k] = NoClaim /\ obligations'[k] = NoClaim
    BY <1>2, <2>1
  <2> QED BY <1>2, <2>2, <2>3, NoClaimIsNoRow DEF CandidateFits, PlanStates
<1>5. \A c \in ClaimIds : FactsStand(c)' /\ RepairsMatch(c)'
  BY <1>2, ClaimsStay
<1>6. (\A e \in Recorders : RecorderKnows(e)') /\ ImporterKnows' /\ ReadinessFits'
  BY <1>2 DEF ClaimInv, RecorderKnows, ImporterKnows, ReadinessFits, AllAccepted, Discharged
<1> QED BY <1>3, <1>4, <1>5, <1>6 DEF ClaimInv

\* SubmitCandidate: the planner holds a claim, a new one or the attempt's.
LEMMA SubmitCandidateStep ==
    ASSUME ClaimInv, NEW k \in Candidates, NEW a \in Attempts, NEW old \in Submitted \cup {NoClaim},
           SubmitCandidate(k, a, old)
    PROVE  ClaimInv'
<1>1. /\ draft # NoClaim /\ draft \in 1 .. MaxContract /\ plans[k] = NoClaim
      /\ UNCHANGED <<contract, draft, candidates, plans, results, recorders, importer, obligations, readiness>>
  BY DEF SubmitCandidate, ClaimInv, ClaimRowsTyped
<1>2. PICK n \in ClaimIds : /\ planners' = [planners EXCEPT ![k] = n] /\ claims'[n] # NoClaim
                            /\ ClaimsGrow /\ \A c \in ClaimIds : FactsStand(c)' /\ RepairsMatch(c)'
  <2>1. CASE InsertClaim(k, k, draft, Resolved(k), a, old) /\ planners' = [planners EXCEPT ![k] = NewClaim]
    <3>1. \A j \in PredecessorLabels[k] : candidates[j].claim \in ClaimIds
      BY DEF SubmitCandidate, CurrentFact, Submitted
    <3>2. Resolved(k) \in SUBSET ClaimIds
      BY <3>1 DEF Resolved
    <3>3. old \in ClaimIds \cup {NoClaim} /\ k \in Candidates \cup {NoClaim}
      BY DEF Submitted
    <3>4. /\ ClaimsGrow
          /\ \A c \in ClaimIds : FactsStand(c)' /\ RepairsMatch(c)'
          /\ NewClaim \in ClaimIds /\ claims'[NewClaim] # NoClaim
      BY <1>1, <2>1, <3>2, <3>3, InsertMoves
    <3> QED BY <2>1, <3>4
  <2>2. ASSUME NEW c \in ClaimOfAttempt(a), planners' = [planners EXCEPT ![k] = c], claims' = claims
        PROVE  \E n \in ClaimIds : /\ planners' = [planners EXCEPT ![k] = n] /\ claims'[n] # NoClaim
                                   /\ ClaimsGrow /\ \A d \in ClaimIds : FactsStand(d)' /\ RepairsMatch(d)'
    <3>1. c \in ClaimIds /\ claims'[c] # NoClaim
      BY <2>2 DEF ClaimOfAttempt, Submitted
    <3> QED BY <2>2, <3>1, ClaimsStay
  <2> QED BY <2>1, <2>2 DEF SubmitCandidate
<1>3. /\ planners' \in [Candidates -> ClaimIds \cup {NoClaim}] /\ planners'[k] = n
      /\ \A j \in Candidates \ {k} : planners'[j] = planners[j]
  BY <1>2 DEF ClaimInv, ClaimRowsTyped
<1>4. ClaimRowsTyped'
  BY <1>1, <1>2, <1>3 DEF ClaimInv, ClaimRowsTyped, ClaimsGrow
<1>5. CandidateFits(k)'
  <2>1. CandidateFits(k)
    BY DEF ClaimInv
  <2>2. /\ plans'[k] = NoClaim /\ obligations'[k] = NoClaim /\ planners'[k] = n
        /\ draft' # NoClaim /\ candidates'[k] # NoClaim
    BY <1>1, <1>3, <2>1 DEF CandidateFits
  <2> QED BY <1>2, <2>2, NoClaimIsNoRow DEF CandidateFits, PlanStates
<1>6. \A j \in Candidates : CandidateFits(j)'
  BY <1>1, <1>2, <1>3, <1>5, CandidateKeeps
<1>7. (\A e \in Recorders : RecorderKnows(e)') /\ ImporterKnows' /\ ReadinessFits'
  BY <1>1 DEF ClaimInv, RecorderKnows, ImporterKnows, ReadinessFits, AllAccepted, Discharged
<1> QED BY <1>2, <1>4, <1>6, <1>7 DEF ClaimInv

\* PlanCandidate and PlannerDies: the plan, the candidate and the obligation together.
LEMMA PlannerStep ==
    ASSUME ClaimInv, NEW k \in Candidates, PlanCandidate(k) \/ PlannerDies(k)
    PROVE  ClaimInv'
<1>1. /\ planners[k] \in ClaimIds /\ plans[k] = NoClaim /\ obligations[k] = NoClaim
      /\ draft # NoClaim /\ claims[planners[k]] # NoClaim /\ candidates[k] # NoClaim
  BY DEF ClaimInv, ClaimRowsTyped, CandidateFits, PlanCandidate, PlannerDies
<1>2. /\ planners' = [planners EXCEPT ![k] = NoClaim]
      /\ UNCHANGED <<contract, draft, claims, results, recorders, importer>>
  BY DEF PlanCandidate, PlannerDies
<1>3. /\ planners' \in [Candidates -> ClaimIds \cup {NoClaim}] /\ planners'[k] = NoClaim
      /\ \A j \in Candidates \ {k} : planners'[j] = planners[j]
  BY <1>2 DEF ClaimInv, ClaimRowsTyped
<1>4. ClaimsGrow /\ \A c \in ClaimIds : FactsStand(c)' /\ RepairsMatch(c)'
  BY <1>2, ClaimsStay
<1>5. CASE PlannerDies(k)
  <2>1. UNCHANGED <<candidates, plans, obligations, readiness>>
    BY <1>5 DEF PlannerDies
  <2>2. CandidateFits(k)'
    BY <1>1, <1>2, <1>3, <2>1, NoClaimIsNoRow DEF CandidateFits, PlanStates
  <2>3. \A j \in Candidates : CandidateFits(j)'
    BY <1>2, <1>3, <1>4, <2>1, <2>2, CandidateKeeps
  <2>4. ClaimRowsTyped'
    BY <1>2, <1>3, <2>1 DEF ClaimInv, ClaimRowsTyped
  <2>5. (\A e \in Recorders : RecorderKnows(e)') /\ ImporterKnows' /\ ReadinessFits'
    BY <1>2, <2>1 DEF ClaimInv, RecorderKnows, ImporterKnows, ReadinessFits, AllAccepted, Discharged
  <2> QED BY <1>4, <2>3, <2>4, <2>5 DEF ClaimInv
<1>6. CASE PlanCandidate(k)
  <2> DEFINE cand == [lifecycle |-> "SUBMITTED", claim |-> planners[k]]
             obl == [status |-> "WAITING_KERNEL", event |-> NoClaim]
  <2>1. /\ cand \in CandidateRow /\ cand # NoClaim /\ cand.claim = planners[k]
        /\ obl \in ObligationRow /\ obl # NoClaim /\ obl.status = "WAITING_KERNEL"
    BY <1>1, NoClaimIsNoRow DEF CandidateRow, ObligationRow
  <2>2. /\ plans' = [plans EXCEPT ![k] = "PLANNED"]
        /\ candidates' = [candidates EXCEPT ![k] = cand]
        /\ obligations' = [obligations EXCEPT ![k] = obl]
        /\ readiness' = IF readiness = NoClaim THEN "BLOCKED" ELSE readiness
    BY <1>6 DEF PlanCandidate
  <2> HIDE DEF cand, obl
  <2>3. /\ plans'[k] = "PLANNED" /\ candidates'[k] = cand /\ obligations'[k] = obl
        /\ \A j \in Candidates \ {k} : /\ plans'[j] = plans[j] /\ candidates'[j] = candidates[j]
                                       /\ obligations'[j] = obligations[j]
    BY <2>2 DEF ClaimInv, ClaimRowsTyped
  <2>4. ClaimRowsTyped'
    BY <1>2, <1>3, <2>1, <2>2 DEF ClaimInv, ClaimRowsTyped, PlanStates
  <2>5. CandidateFits(k)'
    BY <1>1, <1>2, <1>3, <2>1, <2>3, NoClaimIsNoRow DEF CandidateFits, PlanStates
  <2>6. \A j \in Candidates : CandidateFits(j)'
    BY <1>2, <1>3, <1>4, <2>3, <2>5, CandidateKeeps
  <2>7. \A e \in Recorders : RecorderKnows(e)'
    <3> TAKE e \in Recorders
    <3>1. recorders[e] # NoClaim => recorders[e].candidate \in Candidates /\ plans[recorders[e].candidate] # NoClaim
      BY DEF ClaimInv, ClaimRowsTyped, RecorderKnows, EvidenceCall
    <3> QED BY <1>2, <2>3, <3>1, NoClaimIsNoRow DEF RecorderKnows, PlanStates
  <2>8. ImporterKnows'
    <3>1. importer # NoClaim => importer.candidate \in Candidates /\ plans[importer.candidate] # NoClaim
      BY DEF ClaimInv, ClaimRowsTyped, ImporterKnows, ImportCall
    <3> QED BY <1>2, <2>3, <3>1, NoClaimIsNoRow DEF ClaimInv, ImporterKnows, PlanStates, AllAccepted
  <2>9. k \notin Discharged(obligations) /\ k \notin Discharged(obligations')
    BY <1>1, <2>1, <2>3 DEF Discharged
  <2>10. readiness # "READY_FOR_CLOSURE_WITNESS"
    BY <2>9 DEF ClaimInv, ReadinessFits
  <2>11. ReadinessFits'
    BY <2>2, <2>9, <2>10 DEF ReadinessFits
  <2> QED BY <1>4, <2>4, <2>6, <2>7, <2>8, <2>11 DEF ClaimInv
<1> QED BY <1>5, <1>6

\* CheckPlan and CheckReceipt hold what they read.
LEMMA CheckStep ==
    ASSUME ClaimInv,
           \/ \E e \in Recorders, k \in Candidates, b \in Backends, v \in Verdicts : CheckPlan(e, k, b, v)
           \/ \E k \in Candidates, b \in Backends : CheckReceipt(k, b)
    PROVE  ClaimInv'
<1>1. UNCHANGED <<contract, draft, candidates, claims, planners, plans, results, obligations, readiness>>
  BY DEF CheckPlan, CheckReceipt
<1>2. ClaimsGrow /\ \A c \in ClaimIds : FactsStand(c)' /\ RepairsMatch(c)'
  BY <1>1, ClaimsStay
<1>3. \A k \in Candidates : CandidateFits(k)'
  BY <1>1, <1>2, CandidateKeeps
<1>4. ReadinessFits'
  BY <1>1 DEF ClaimInv, ReadinessFits, Discharged
<1>5. ASSUME NEW e \in Recorders, NEW k \in Candidates, NEW b \in Backends, NEW v \in Verdicts,
             CheckPlan(e, k, b, v)
      PROVE  ClaimInv'
  <2> DEFINE call == [candidate |-> k, backend |-> b, verdict |-> v]
  <2>1. call \in EvidenceCall /\ call.candidate = k
    BY DEF EvidenceCall
  <2>2. recorders' = [recorders EXCEPT ![e] = call] /\ plans[k] # NoClaim /\ importer' = importer
    BY <1>5, NoClaimIsNoRow DEF CheckPlan, PlanStates
  <2> HIDE DEF call
  <2>3. ClaimRowsTyped'
    BY <1>1, <2>1, <2>2 DEF ClaimInv, ClaimRowsTyped
  <2>4. \A d \in Recorders : RecorderKnows(d)'
    BY <1>1, <2>1, <2>2 DEF ClaimInv, ClaimRowsTyped, RecorderKnows
  <2>5. ImporterKnows'
    BY <1>1, <2>2 DEF ClaimInv, ImporterKnows, AllAccepted
  <2> QED BY <1>2, <1>3, <1>4, <2>3, <2>4, <2>5 DEF ClaimInv
<1>6. ASSUME NEW k \in Candidates, NEW b \in Backends, CheckReceipt(k, b)
      PROVE  ClaimInv'
  <2>1. PICK acc \in BOOLEAN : /\ plans[k] = IF acc THEN "READY_FOR_KERNEL" ELSE "REJECTED"
                               /\ importer' = [candidate |-> k, backend |-> b, accepted |-> acc]
    <3> DEFINE acc == PromotionEligible(b, results[k][b])
    <3>1. acc \in BOOLEAN
      BY DEF PromotionEligible
    <3> QED BY <1>6, <3>1 DEF CheckReceipt
  <2>2. importer' \in ImportCall /\ importer'.candidate = k /\ importer'.accepted = acc /\ recorders' = recorders
    BY <1>6, <2>1 DEF ImportCall, CheckReceipt
  <2>3. ClaimRowsTyped'
    BY <1>1, <2>2 DEF ClaimInv, ClaimRowsTyped
  <2>4. \A d \in Recorders : RecorderKnows(d)'
    BY <1>1, <2>2 DEF ClaimInv, RecorderKnows
  <2>5. ImporterKnows'
    <3>1. plans[k] # NoClaim /\ (acc => AllAccepted(k))
      BY <2>1, NoClaimIsNoRow DEF ClaimInv, CandidateFits, PlanStates
    <3> QED BY <1>1, <2>2, <3>1 DEF ImporterKnows, AllAccepted
  <2> QED BY <1>2, <1>3, <1>4, <2>3, <2>4, <2>5 DEF ClaimInv
<1> QED BY <1>5, <1>6

\* RecordEvidence: a backend reports once, and a plan is ready only with every report.
LEMMA EvidenceStep ==
    ASSUME ClaimInv, NEW e \in Recorders, RecordEvidence(e)
    PROVE  ClaimInv'
<1>1. PICK r \in EvidenceCall : r = recorders[e] /\ r # NoClaim
  BY DEF RecordEvidence, ClaimInv, ClaimRowsTyped
<1>2. PICK k \in Candidates, b \in Backends, v \in Verdicts : k = r.candidate /\ b = r.backend /\ v = r.verdict
  BY DEF EvidenceCall
<1>3. /\ recorders' = [recorders EXCEPT ![e] = NoClaim] /\ plans[k] # NoClaim
      /\ UNCHANGED <<contract, draft, candidates, claims, planners, importer, obligations, readiness>>
  BY <1>1, <1>2 DEF RecordEvidence, ClaimInv, RecorderKnows
<1>4. ClaimsGrow /\ \A c \in ClaimIds : FactsStand(c)' /\ RepairsMatch(c)'
  BY <1>3, ClaimsStay
<1>5. /\ recorders' \in [Recorders -> EvidenceCall \cup {NoClaim}] /\ recorders'[e] = NoClaim
      /\ \A d \in Recorders \ {e} : recorders'[d] = recorders[d]
  BY <1>3 DEF ClaimInv, ClaimRowsTyped
<1>6. ReadinessFits'
  BY <1>3 DEF ClaimInv, ReadinessFits, Discharged
<1>7. CASE UNCHANGED <<results, plans>>
  <2>1. \A j \in Candidates : CandidateFits(j)'
    BY <1>3, <1>4, <1>7, CandidateKeeps
  <2>2. ClaimRowsTyped'
    BY <1>3, <1>5, <1>7 DEF ClaimInv, ClaimRowsTyped
  <2>3. (\A d \in Recorders : RecorderKnows(d)') /\ ImporterKnows'
    BY <1>3, <1>5, <1>7 DEF ClaimInv, RecorderKnows, ImporterKnows, AllAccepted
  <2> QED BY <1>4, <1>6, <2>1, <2>2, <2>3 DEF ClaimInv
<1>8. ASSUME results[k][b] \in {"none", v},
             results' = [results EXCEPT ![k] = [results[k] EXCEPT ![b] = v]],
             plans' = [plans EXCEPT ![k] = StatusAfterResult([results[k] EXCEPT ![b] = v], b, v)]
      PROVE  ClaimInv'
  <2> DEFINE row == [results[k] EXCEPT ![b] = v]
             st == StatusAfterResult(row, b, v)
  <2>1. results[k] \in [Backends -> Verdicts \cup {"none"}]
    BY DEF ClaimInv, ClaimRowsTyped
  <2>2. /\ row \in [Backends -> Verdicts \cup {"none"}]
        /\ \A d \in Backends : results[k][d] = "ACCEPTED" => row[d] = "ACCEPTED"
    BY <1>8, <2>1
  <2> HIDE DEF row
  <2>3. /\ st \in {"REJECTED", "PARTIALLY_VERIFIED", "READY_FOR_KERNEL"}
        /\ st = "READY_FOR_KERNEL" => \A d \in Required : row[d] = "ACCEPTED"
    BY DEF StatusAfterResult
  <2> HIDE DEF st
  <2>4. /\ results'[k] = row /\ plans'[k] = st
        /\ \A j \in Candidates \ {k} : results'[j] = results[j] /\ plans'[j] = plans[j]
        /\ results' \in [Candidates -> [Backends -> Verdicts \cup {"none"}]]
        /\ plans' \in [Candidates -> PlanStates \cup {NoClaim}]
    BY <1>8, <2>2, <2>3 DEF ClaimInv, ClaimRowsTyped, PlanStates, row, st
  <2>5. st # NoClaim /\ st # "IMPORTED_ACCEPTED"
    BY <2>3, NoClaimIsNoRow DEF PlanStates
  <2>6. \A j \in Candidates : AllAccepted(j) => AllAccepted(j)'
    BY <2>2, <2>4 DEF AllAccepted, Backends
  <2>7. CandidateFits(k)'
    <3>1. CandidateFits(k)
      BY DEF ClaimInv
    <3>2. plans'[k] \in {"READY_FOR_KERNEL", "IMPORTED_ACCEPTED"} => AllAccepted(k)'
      BY <2>3, <2>4, <2>5 DEF AllAccepted
    <3>3. draft # NoClaim /\ planners[k] = NoClaim /\ obligations[k] # NoClaim
      BY <1>3, <3>1 DEF CandidateFits
    <3>4. plans'[k] # NoClaim
      BY <2>4, <2>5
    <3> QED BY <1>3, <2>6, <3>1, <3>2, <3>3, <3>4 DEF CandidateFits
  <2>8. \A j \in Candidates : CandidateFits(j)'
    BY <1>3, <1>4, <2>4, <2>7, CandidateKeeps
  <2>9. ClaimRowsTyped'
    BY <1>3, <1>5, <2>4 DEF ClaimInv, ClaimRowsTyped
  <2>10. \A j \in Candidates : plans[j] # NoClaim => plans'[j] # NoClaim
    BY <2>4, <2>5
  <2>11. ImporterKnows'
    <3>1. importer # NoClaim => importer.candidate \in Candidates
      BY DEF ClaimInv, ClaimRowsTyped, ImportCall
    <3> QED BY <1>3, <2>6, <2>10, <3>1 DEF ClaimInv, ImporterKnows
  <2>12. \A d \in Recorders : RecorderKnows(d)'
    <3> TAKE d \in Recorders
    <3>1. recorders[d] # NoClaim => recorders[d].candidate \in Candidates /\ plans[recorders[d].candidate] # NoClaim
      BY DEF ClaimInv, ClaimRowsTyped, RecorderKnows, EvidenceCall
    <3> QED BY <1>5, <2>10, <3>1 DEF RecorderKnows
  <2> QED BY <1>4, <1>6, <2>8, <2>9, <2>11, <2>12 DEF ClaimInv
<1> QED BY <1>1, <1>2, <1>7, <1>8 DEF RecordEvidence

\* ConsumeKernelVerdict: claim, candidate, obligation, plan and readiness in one transaction.
LEMMA AdapterVerdictStep == ASSUME ClaimInv, ConsumeKernelVerdict PROVE ClaimInv'
<1>1. PICK i \in ImportCall : i = importer
  BY DEF ConsumeKernelVerdict, ClaimInv, ClaimRowsTyped
<1>2. PICK k \in Candidates, acc \in BOOLEAN : k = i.candidate /\ acc = i.accepted
  BY DEF ImportCall
<1>3. /\ importer' = NoClaim /\ plans[k] # NoClaim /\ (acc => AllAccepted(k))
      /\ UNCHANGED <<contract, draft, planners, results, recorders>>
  BY <1>1, <1>2 DEF ConsumeKernelVerdict, ClaimInv, ImporterKnows
<1>4. PICK c \in ClaimIds : c = candidates[k].claim /\ claims[c] # NoClaim
  BY <1>3 DEF ClaimInv, CandidateFits
<1>5. candidates[k] \in CandidateRow /\ obligations[k] # NoClaim /\ draft # NoClaim /\ planners[k] = NoClaim
  <2>1. draft # NoClaim /\ obligations[k] # NoClaim /\ planners[k] = NoClaim /\ candidates[k] # NoClaim
    BY <1>3 DEF ClaimInv, CandidateFits
  <2> QED BY <2>1 DEF ClaimInv, ClaimRowsTyped
<1>6. ImporterKnows'
  BY <1>3 DEF ImporterKnows
<1>7. CASE UNCHANGED <<candidates, claims, plans, obligations, readiness>>
  <2>1. ClaimsGrow /\ \A d \in ClaimIds : FactsStand(d)' /\ RepairsMatch(d)'
    BY <1>7, ClaimsStay
  <2>2. \A j \in Candidates : CandidateFits(j)'
    BY <1>3, <1>7, <2>1, CandidateKeeps
  <2>3. ClaimRowsTyped'
    BY <1>3, <1>7 DEF ClaimInv, ClaimRowsTyped
  <2>4. (\A d \in Recorders : RecorderKnows(d)') /\ ReadinessFits'
    BY <1>3, <1>7 DEF ClaimInv, RecorderKnows, ReadinessFits, Discharged
  <2> QED BY <1>6, <2>1, <2>2, <2>3, <2>4 DEF ClaimInv
<1> DEFINE event == <<"adapter", k>>
           after == IF acc THEN "DISCHARGED_BY_KERNEL" ELSE "REPAIR_REQUIRED"
           life == IF acc THEN "ACCEPTED" ELSE "REJECTED"
           obl == [status |-> after, event |-> event]
           cand == [candidates[k] EXCEPT !.lifecycle = life]
           st == IF plans[k] # (IF acc THEN "READY_FOR_KERNEL" ELSE "REJECTED") THEN plans[k]
                 ELSE IF acc THEN "IMPORTED_ACCEPTED" ELSE "IMPORTED_REJECTED"
<1>8. ASSUME claims[c].lifecycle = "PENDING_VERIFICATION", RecordVerdict(c, acc, event),
             candidates' = [candidates EXCEPT ![k].lifecycle = life],
             obligations' = [obligations EXCEPT ![k] = obl],
             plans' = [plans EXCEPT ![k] = st],
             readiness' = IF Discharged(obligations') = Candidates
                          THEN "READY_FOR_CLOSURE_WITNESS" ELSE "BLOCKED"
      PROVE  ClaimInv'
  <2>1. event \in VerdictEvents
    BY DEF VerdictEvents
  <2>2. /\ obl \in ObligationRow /\ obl.event = event
        /\ (obl.status = "DISCHARGED_BY_KERNEL") <=> acc
    BY <2>1 DEF ObligationRow
  <2>3. /\ cand \in CandidateRow /\ cand.lifecycle = life /\ cand.claim = c
        /\ (acc => life = "ACCEPTED") /\ candidates' = [candidates EXCEPT ![k] = cand]
    BY <1>4, <1>5, <1>8 DEF CandidateRow
  <2>4. /\ st \in PlanStates /\ st # NoClaim
        /\ st \in {"READY_FOR_KERNEL", "IMPORTED_ACCEPTED"} => AllAccepted(k)
    <3>1. plans[k] \in PlanStates /\ (plans[k] \in {"READY_FOR_KERNEL", "IMPORTED_ACCEPTED"} => AllAccepted(k))
      BY <1>3 DEF ClaimInv, ClaimRowsTyped, CandidateFits
    <3>2. CASE st = plans[k]
      BY <1>3, <3>1, <3>2
    <3>3. CASE acc /\ st = "IMPORTED_ACCEPTED"
      BY <1>3, <3>3, NoClaimIsNoRow DEF PlanStates
    <3>4. CASE st = "IMPORTED_REJECTED"
      BY <3>4, NoClaimIsNoRow DEF PlanStates
    <3> QED BY <3>2, <3>3, <3>4
  <2> HIDE DEF event, after, life, obl, cand, st
  <2>5. /\ ClaimsGrow
        /\ \A d \in ClaimIds : FactsStand(d)' /\ RepairsMatch(d)'
        /\ claims'[c].event = event
        /\ acc => claims'[c].lifecycle = "ACCEPTED"
    BY <1>4, <1>8, <2>1, VerdictMoves
  <2>6. /\ plans'[k] = st /\ candidates'[k] = cand /\ obligations'[k] = obl
        /\ \A j \in Candidates \ {k} : /\ plans'[j] = plans[j] /\ candidates'[j] = candidates[j]
                                       /\ obligations'[j] = obligations[j]
    BY <1>8, <2>3 DEF ClaimInv, ClaimRowsTyped
  <2>7. ClaimRowsTyped'
    BY <1>3, <1>8, <2>2, <2>3, <2>4, <2>5 DEF ClaimInv, ClaimRowsTyped, ClaimsGrow
  <2>8. AllAccepted(k) => AllAccepted(k)'
    BY <1>3 DEF AllAccepted
  <2>9. cand # NoClaim /\ obl # NoClaim /\ claims'[c] # NoClaim
    BY <1>4, <2>2, <2>3, <2>5, NoClaimIsNoRow DEF ClaimsGrow
  <2>10. CandidateFits(k)'
    <3>1. /\ draft' # NoClaim /\ planners'[k] = NoClaim
      BY <1>3, <1>5
    <3> QED BY <1>3, <2>2, <2>3, <2>4, <2>5, <2>6, <2>8, <2>9, <3>1 DEF CandidateFits
  <2>11. \A j \in Candidates : CandidateFits(j)'
    BY <1>3, <2>5, <2>6, <2>10, CandidateKeeps
  <2>12. \A d \in Recorders : RecorderKnows(d)'
    <3> TAKE d \in Recorders
    <3>1. recorders[d] # NoClaim => recorders[d].candidate \in Candidates /\ plans[recorders[d].candidate] # NoClaim
      BY DEF ClaimInv, ClaimRowsTyped, RecorderKnows, EvidenceCall
    <3> QED BY <1>3, <2>4, <2>6, <3>1 DEF RecorderKnows
  <2>13. ReadinessFits'
    BY <1>8, NoClaimIsNoRow DEF ReadinessFits
  <2> QED BY <1>6, <2>5, <2>7, <2>11, <2>12, <2>13 DEF ClaimInv
<1> QED
  <2>1. CASE /\ candidates[k].lifecycle = "SUBMITTED"
             /\ claims[c].lifecycle = "PENDING_VERIFICATION"
             /\ obligations[k].status = "WAITING_KERNEL"
    BY <1>1, <1>2, <1>4, <1>8, <2>1 DEF ConsumeKernelVerdict
  <2>2. CASE ~(/\ candidates[k].lifecycle = "SUBMITTED"
               /\ claims[c].lifecycle = "PENDING_VERIFICATION"
               /\ obligations[k].status = "WAITING_KERNEL")
    BY <1>1, <1>2, <1>4, <1>7, <2>2 DEF ConsumeKernelVerdict
  <2> QED BY <2>1, <2>2

\* Whatever verifiers, planners, workers and the two imports of a verdict do to each other:
\* a claim rests on verified facts of its contract, also through others, an obligation is
\* discharged only by the verdict that accepted its claim after every required backend, a
\* claim has one repair at most, and only a draft with every candidate discharged is ready
\* for its closure witness (claims.py, verifier_planner.py, obligation_adapter.py).
THEOREM DraftsAlwaysCloseOnVerifiedClaims == ClaimSpec => []DraftsCloseOnVerifiedClaims
<1>1. ClaimInit => ClaimInv
  <2> SUFFICES ASSUME ClaimInit PROVE ClaimInv
    OBVIOUS
  <2>1. ClaimRowsTyped
    BY ContractsAreNumbered DEF ClaimInit, ClaimRowsTyped
  <2>2. \A c \in ClaimIds : FactsStand(c) /\ RepairsMatch(c)
    BY DEF ClaimInit, FactsStand, RepairsMatch
  <2>3. \A k \in Candidates : CandidateFits(k)
    BY NoClaimIsNoRow DEF ClaimInit, CandidateFits, PlanStates
  <2>4. (\A e \in Recorders : RecorderKnows(e)) /\ ImporterKnows /\ ReadinessFits
    BY NoClaimIsNoRow DEF ClaimInit, RecorderKnows, ImporterKnows, ReadinessFits
  <2> QED BY <2>1, <2>2, <2>3, <2>4 DEF ClaimInv
<1>2. ASSUME ClaimInv, [WorkerNext \/ DraftNext]_claimVars PROVE ClaimInv'
  <2>1. CASE DraftNext
    BY <1>2, <2>1, NormalizeStep, SubmitCandidateStep, PlannerStep, CheckStep, EvidenceStep,
       AdapterVerdictStep, ImportStep DEF DraftNext
  <2>2. CASE UNCHANGED claimVars
    <3>1. contract' \in 1 .. MaxContract
      BY <1>2, <2>2 DEF claimVars, ClaimInv, ClaimRowsTyped
    <3> QED BY <1>2, <2>2, <3>1, ClaimsStay, ClaimsOnly DEF claimVars
  <2> QED BY <1>2, <2>1, <2>2, WorkerStep
<1>3. ClaimInv => DraftsCloseOnVerifiedClaims
  <2> SUFFICES ASSUME ClaimInv PROVE DraftsCloseOnVerifiedClaims
    OBVIOUS
  <2>1. ClaimTypeOK
    BY DEF ClaimInv, ClaimRowsTyped, ClaimTypeOK, Submitted
  <2>2. ASSUME NEW c \in Submitted, NEW f \in NecessarySubgraph(c)
        PROVE  claims[f].lifecycle = "ACCEPTED" /\ claims[f].contract = claims[c].contract
    <3> DEFINE fs == {g \in ClaimIds : CurrentFact(g, claims[c].contract)}
    <3>1. c \in ClaimIds /\ claims[c].preds \subseteq fs
      BY DEF Submitted, ClaimInv, FactsStand, CurrentFact
    <3>2. \A g \in fs \cap Submitted : claims[g].preds \subseteq fs
      BY DEF Submitted, ClaimInv, FactsStand, CurrentFact
    <3>3. f \in fs
      BY <2>2, <3>1, <3>2 DEF NecessarySubgraph, RestsWithin
    <3> QED BY <3>3 DEF CurrentFact
  <2>3. ASSUME NEW c \in Submitted, NEW d \in Submitted,
               claims[c].supersedes # NoClaim, claims[c].supersedes = claims[d].supersedes
        PROVE  c = d
    BY <2>3 DEF Submitted, ClaimInv, RepairsMatch
  <2>4. ASSUME NEW k \in Discharged(obligations)
        PROVE  /\ candidates[k].lifecycle = "ACCEPTED"
               /\ claims[candidates[k].claim].lifecycle = "ACCEPTED"
               /\ claims[candidates[k].claim].event = obligations[k].event
               /\ \A b \in Required : results[k][b] = "ACCEPTED"
    BY <2>4 DEF Discharged, ClaimInv, CandidateFits, AllAccepted
  <2>5. ReadinessFits
    BY DEF ClaimInv
  <2> QED BY <2>1, <2>2, <2>3, <2>4, <2>5 DEF DraftsCloseOnVerifiedClaims, ReadinessFits
<1> QED BY <1>1, <1>2, <1>3, PTL DEF ClaimSpec

-----------------------------------------------------------------------------
(* The ablation ledger                                                      *)

PlanRow == [digest : Configs, state : {"FROZEN", "RUNNING", "COMPLETED"}]
ArmStates == {"PENDING", "RUNNING", "COMPLETED"}
AssignmentStates == {"PENDING", "RUNNING", "SUCCEEDED", "FAILED", "REJECTED_BRIDGE"}
Closed == {"SUCCEEDED", "FAILED", "REJECTED_BRIDGE"}
Taken == {"RUNNING", "SUCCEEDED", "FAILED"}
ArmOf(a) == <<a[1], a[2]>>

AblatorRow == [at : {"idle", "freeze", "startPlan", "startAssignments", "insert", "close",
                     "completeArm", "completePlan"},
               plan : AblationPlans \cup {NoPlan}, key : ArmKeys \cup Assigned \cup {NoPlan},
               value : Configs \cup ResultRow \cup {NoPlan}]

AblationRowsTyped ==
    /\ plan \in [AblationPlans -> PlanRow \cup {NoPlan}]
    /\ arm \in [ArmKeys -> ArmStates \cup {NoPlan}]
    /\ assignment \in [Assigned -> AssignmentStates \cup {NoPlan}]
    /\ result \in [Assigned -> ResultRow \cup {NoPlan}]
    /\ ablator \in [AblationCallers -> AblatorRow]

\* An assignment and its result, against the plan they belong to.
AssignmentFits(a) ==
    /\ (assignment[a] = NoPlan) <=> (plan[a[1]] = NoPlan)
    /\ assignment[a] = "SUCCEEDED" => result[a] # NoPlan /\ result[a].outcome = "VERIFIED"
    /\ assignment[a] = "FAILED" => result[a] # NoPlan /\ result[a].outcome # "VERIFIED"
    /\ result[a] # NoPlan => /\ plan[a[1]] # NoPlan /\ result[a].digest = plan[a[1]].digest
                             /\ assignment[a] \in Taken

ArmFits(k) ==
    /\ arm[k] # NoPlan => plan[k[1]] # NoPlan
    /\ arm[k] = "COMPLETED" => \A a \in Assigned : ArmOf(a) = k => assignment[a] \in Closed

PlanFits(p) == plan[p] # NoPlan /\ plan[p].state = "COMPLETED" =>
                   \A g \in Arms : arm[<<p, g>>] = "COMPLETED"

\* What a caller learnt in its last statement still holds.
AblatorKnows(w) ==
    LET b == ablator[w] IN
    /\ b.at = "freeze" => b.plan \in AblationPlans /\ b.value \in Configs
    /\ b.at \in {"startPlan", "startAssignments", "completeArm", "completePlan"} =>
          b.key \in ArmKeys /\ b.plan \in AblationPlans /\ plan[b.plan] # NoPlan
    /\ b.at \in {"insert", "close"} =>
          /\ b.key \in Assigned /\ b.value \in ResultRow
          /\ plan[b.key[1]] # NoPlan /\ b.value.digest = plan[b.key[1]].digest
          /\ assignment[b.key] \in Taken
    /\ b.at = "close" => result[b.key] = b.value
    /\ b.at = "completeArm" => \A a \in Assigned : ArmOf(a) = b.key => assignment[a] \in Closed

AblationInv ==
    /\ AblationRowsTyped
    /\ \A a \in Assigned : AssignmentFits(a)
    /\ \A k \in ArmKeys : ArmFits(k)
    /\ \A p \in AblationPlans : PlanFits(p)
    /\ \A w \in AblationCallers : AblatorKnows(w)

\* The keys of the ledger.
LEMMA LedgerKeys ==
    /\ \A a \in Assigned : a[1] \in AblationPlans /\ ArmOf(a) \in ArmKeys /\ ArmOf(a)[1] = a[1]
    /\ \A k \in ArmKeys : k[1] \in AblationPlans
    /\ \A p \in AblationPlans, g \in Arms : <<p, g>> \in ArmKeys
BY DEF Assigned, ArmKeys, ArmOf

\* What no statement undoes: a frozen plan and its digest, a result, a closed assignment.
LedgerGrows ==
    /\ \A p \in AblationPlans : plan[p] # NoPlan => plan'[p] # NoPlan /\ plan'[p].digest = plan[p].digest
    /\ \A a \in Assigned : assignment[a] \in Closed => assignment'[a] \in Closed
    /\ \A a \in Assigned : assignment[a] \in Taken => assignment'[a] \in Taken
    /\ \A a \in Assigned : result[a] # NoPlan => result'[a] = result[a]

\* What a caller knows survives the statements of the others.
LEMMA CallersKeepKnowing ==
    ASSUME AblationInv, LedgerGrows, NEW w \in AblationCallers, ablator'[w] = ablator[w]
    PROVE  AblatorKnows(w)'
<1> DEFINE b == ablator[w]
<1>1. b \in AblatorRow /\ AblatorKnows(w) /\ b = ablator[w] /\ b = ablator'[w]
  BY DEF AblationInv, AblationRowsTyped
<1> HIDE DEF b
<1>2. b.at \in {"startPlan", "startAssignments", "completeArm", "completePlan"} =>
          b.key \in ArmKeys /\ b.plan \in AblationPlans /\ plan'[b.plan] # NoPlan
  BY <1>1 DEF AblatorKnows, LedgerGrows
<1>3. b.at \in {"insert", "close"} =>
          /\ b.key \in Assigned /\ b.value \in ResultRow
          /\ plan'[b.key[1]] # NoPlan /\ b.value.digest = plan'[b.key[1]].digest
          /\ assignment'[b.key] \in Taken
  BY <1>1, LedgerKeys DEF AblatorKnows, LedgerGrows
<1>4. b.at = "close" => result'[b.key] = b.value
  BY <1>1, NoPlanIsNoResult DEF AblatorKnows, LedgerGrows
<1>5. b.at = "completeArm" => \A a \in Assigned : ArmOf(a) = b.key => assignment'[a] \in Closed
  BY <1>1 DEF AblatorKnows, LedgerGrows
<1>6. b.at = "freeze" => b.plan \in AblationPlans /\ b.value \in Configs
  BY <1>1 DEF AblatorKnows
<1> QED BY <1>1, <1>2, <1>3, <1>4, <1>5, <1>6 DEF AblatorKnows, ArmOf

\* A caller at rest knows nothing.
LEMMA RestingCaller ==
    ASSUME NEW w \in AblationCallers, ablator'[w] = AtRest
    PROVE  AblatorKnows(w)' /\ AtRest \in AblatorRow
BY DEF AblatorKnows, AtRest, AblatorRow

\* A statement that changes a caller only.
LEMMA CallerMoves ==
    ASSUME AblationInv, NEW w \in AblationCallers, NEW b \in AblatorRow,
           ablator' = [ablator EXCEPT ![w] = b], UNCHANGED <<plan, arm, assignment, result>>,
           AblatorKnows(w)'
    PROVE  AblationInv'
<1>1. AblationRowsTyped'
  BY DEF AblationInv, AblationRowsTyped
<1>2. LedgerGrows
  BY DEF LedgerGrows
<1>3. \A v \in AblationCallers : AblatorKnows(v)'
  BY <1>2, CallersKeepKnowing DEF AblationInv, AblationRowsTyped
<1> QED BY <1>1, <1>3 DEF AblationInv, AssignmentFits, ArmFits, PlanFits

\* The callers after a statement that rests or advances one of them.
LEMMA CallersAfter ==
    ASSUME AblationInv, LedgerGrows, NEW w \in AblationCallers, NEW b \in AblatorRow,
           ablator' = [ablator EXCEPT ![w] = b], AblatorKnows(w)'
    PROVE  /\ \A v \in AblationCallers : AblatorKnows(v)'
           /\ ablator' \in [AblationCallers -> AblatorRow]
BY CallersKeepKnowing DEF AblationInv, AblationRowsTyped

\* Looking for a plan, checking a result and counting open assignments; a caller that dies.
LEMMA ReadStep ==
    ASSUME AblationInv, NEW w \in AblationCallers,
           \/ AblatorDies(w)
           \/ \E p \in AblationPlans, c \in Configs : LookForPlan(w, p, c)
           \/ \E k \in ArmKeys : CountOpen(w, k)
           \/ \E a \in Assigned, o \in {"VERIFIED", "REJECTED"}, c \in Configs : CheckResult(w, a, o, c)
    PROVE  AblationInv'
<1>1. CASE AblatorDies(w)
  <2>1. ablator' = [ablator EXCEPT ![w] = AtRest] /\ ablator'[w] = AtRest
    BY <1>1 DEF AblatorDies, Rests, AblationInv, AblationRowsTyped
  <2> QED BY <1>1, <2>1, RestingCaller, CallerMoves DEF AblatorDies
<1>2. ASSUME NEW p \in AblationPlans, NEW c \in Configs, LookForPlan(w, p, c) PROVE AblationInv'
  <2> DEFINE b == [at |-> "freeze", plan |-> p, key |-> NoPlan, value |-> c]
  <2>1. b \in AblatorRow /\ ablator' = [ablator EXCEPT ![w] = b] /\ ablator'[w] = b
    BY <1>2 DEF LookForPlan, AblationInv, AblationRowsTyped, AblatorRow
  <2>2. AblatorKnows(w)'
    BY <2>1 DEF AblatorKnows
  <2> QED BY <1>2, <2>1, <2>2, CallerMoves DEF LookForPlan
<1>3. ASSUME NEW k \in ArmKeys, CountOpen(w, k) PROVE AblationInv'
  <2> DEFINE b == [at |-> "completeArm", plan |-> k[1], key |-> k, value |-> NoPlan]
  <2>1. b \in AblatorRow /\ ablator' = [ablator EXCEPT ![w] = b] /\ ablator'[w] = b
    BY <1>3, LedgerKeys DEF CountOpen, AblationInv, AblationRowsTyped, AblatorRow
  <2>2. plan[k[1]] # NoPlan /\ k[1] \in AblationPlans
    BY <1>3, LedgerKeys DEF CountOpen
  <2>3. ASSUME NEW a \in Assigned, ArmOf(a) = k PROVE assignment[a] \in Closed
    <3>1. assignment[a] \notin {"PENDING", "RUNNING"}
      BY <1>3, <2>3 DEF CountOpen, OpenIn, ArmOf
    <3>2. assignment[a] # NoPlan
      <4>1. plan[a[1]] # NoPlan
        BY <2>2, <2>3, LedgerKeys
      <4> QED BY <4>1 DEF AblationInv, AssignmentFits
    <3> QED BY <3>1, <3>2 DEF AblationInv, AblationRowsTyped, AssignmentStates, Closed
  <2>4. AblatorKnows(w)'
    BY <1>3, <2>1, <2>2, <2>3 DEF CountOpen, AblatorKnows
  <2> QED BY <1>3, <2>1, <2>4, CallerMoves DEF CountOpen
<1>4. ASSUME NEW a \in Assigned, NEW o \in {"VERIFIED", "REJECTED"}, NEW c \in Configs,
             CheckResult(w, a, o, c)
      PROVE  AblationInv'
  <2> DEFINE v == [outcome |-> o, digest |-> c]
             b == [at |-> "insert", plan |-> a[1], key |-> a, value |-> v]
  <2>1. v \in ResultRow /\ v.digest = c
    BY DEF ResultRow, Outcomes
  <2>2. ablator' = [ablator EXCEPT ![w] = b]
    BY <1>4 DEF CheckResult
  <2> HIDE DEF v
  <2>3. b \in AblatorRow /\ ablator'[w] = b
    BY <2>1, <2>2, LedgerKeys DEF AblationInv, AblationRowsTyped, AblatorRow
  <2>4. /\ assignment[a] = "RUNNING" /\ plan[a[1]] # NoPlan /\ plan[a[1]].digest = c
        /\ UNCHANGED <<plan, arm, assignment, result>>
    BY <1>4, NoPlanIsNoState DEF CheckResult, AblationInv, AssignmentFits
  <2>5. AblatorKnows(w)'
    BY <2>1, <2>3, <2>4 DEF AblatorKnows, Taken
  <2> QED BY <2>2, <2>3, <2>4, <2>5, CallerMoves
<1> QED BY <1>1, <1>2, <1>3, <1>4

\* FreezePlan writes rows that were not there.
LEMMA FreezeStep ==
    ASSUME AblationInv, NEW w \in AblationCallers, FreezePlan(w)
    PROVE  AblationInv'
<1>1. PICK p \in AblationPlans, c \in Configs : p = ablator[w].plan /\ c = ablator[w].value
  BY DEF FreezePlan, AblationInv, AblatorKnows
<1>2. ablator' = [ablator EXCEPT ![w] = AtRest] /\ ablator'[w] = AtRest /\ result' = result
  BY DEF FreezePlan, Rests, AblationInv, AblationRowsTyped
<1>3. CASE UNCHANGED <<plan, arm, assignment>>
  BY <1>2, <1>3, RestingCaller, CallerMoves
<1>4. ASSUME /\ plan[p] = NoPlan
             /\ plan' = [plan EXCEPT ![p] = [digest |-> c, state |-> "FROZEN"]]
             /\ arm' = [k \in ArmKeys |-> IF k[1] = p THEN "PENDING" ELSE arm[k]]
             /\ assignment' = [a \in Assigned |-> IF a[1] = p THEN "PENDING" ELSE assignment[a]]
      PROVE  AblationInv'
  <2> DEFINE row == [digest |-> c, state |-> "FROZEN"]
  <2>1. row \in PlanRow /\ row # NoPlan /\ row.state = "FROZEN"
    BY NoPlanIsNoState DEF PlanRow
  <2>2. plan'[p] = row /\ \A q \in AblationPlans \ {p} : plan'[q] = plan[q]
    BY <1>4 DEF AblationInv, AblationRowsTyped
  <2>3. plan' \in [AblationPlans -> PlanRow \cup {NoPlan}]
    BY <1>4, <2>1 DEF AblationInv, AblationRowsTyped
  <2> HIDE DEF row
  <2>4. /\ \A a \in Assigned : a[1] = p => assignment'[a] = "PENDING" /\ assignment[a] = NoPlan /\ result[a] = NoPlan
        /\ \A a \in Assigned : a[1] # p => assignment'[a] = assignment[a]
        /\ \A k \in ArmKeys : k[1] = p => arm'[k] = "PENDING"
        /\ \A k \in ArmKeys : k[1] # p => arm'[k] = arm[k]
    BY <1>4 DEF AblationInv, AssignmentFits
  <2>5. /\ arm' \in [ArmKeys -> ArmStates \cup {NoPlan}]
        /\ assignment' \in [Assigned -> AssignmentStates \cup {NoPlan}]
    BY <1>4 DEF AblationInv, AblationRowsTyped, ArmStates, AssignmentStates
  <2>6. LedgerGrows
    <3>1. \A q \in AblationPlans : plan[q] # NoPlan => plan'[q] = plan[q]
      BY <1>4, <2>2
    <3>2. \A a \in Assigned : assignment[a] # NoPlan => assignment'[a] = assignment[a]
      BY <2>4
    <3> QED BY <1>2, <3>1, <3>2, NoPlanIsNoState DEF LedgerGrows, Closed, Taken
  <2>7. ASSUME NEW a \in Assigned PROVE AssignmentFits(a)'
    <3>1. a[1] \in AblationPlans /\ AssignmentFits(a)
      BY LedgerKeys DEF AblationInv
    <3>2. CASE a[1] = p
      BY <1>2, <2>1, <2>2, <2>4, <3>1, <3>2, NoPlanIsNoState DEF AssignmentFits
    <3>3. CASE a[1] # p
      BY <1>2, <2>2, <2>4, <3>1, <3>3 DEF AssignmentFits
    <3> QED BY <3>2, <3>3
  <2>8. ASSUME NEW k \in ArmKeys PROVE ArmFits(k)'
    <3>1. k[1] \in AblationPlans /\ ArmFits(k)
      BY LedgerKeys DEF AblationInv
    <3>2. CASE k[1] = p
      BY <2>1, <2>2, <2>4, <3>2 DEF ArmFits
    <3>3. CASE k[1] # p
      <4>1. \A a \in Assigned : ArmOf(a) = k => assignment'[a] = assignment[a]
        BY <2>4, <3>3, LedgerKeys
      <4> QED BY <2>2, <2>4, <3>1, <3>3, <4>1 DEF ArmFits, ArmOf
    <3> QED BY <3>2, <3>3
  <2>9. ASSUME NEW q \in AblationPlans PROVE PlanFits(q)'
    <3>1. CASE q = p
      BY <2>1, <2>2, <3>1 DEF PlanFits
    <3>2. CASE q # p
      <4>1. \A g \in Arms : <<q, g>> \in ArmKeys /\ <<q, g>>[1] = q
        BY LedgerKeys
      <4>2. \A g \in Arms : arm'[<<q, g>>] = arm[<<q, g>>]
        BY <2>4, <3>2, <4>1
      <4> QED BY <2>2, <3>2, <4>2 DEF PlanFits, AblationInv
    <3> QED BY <3>1, <3>2
  <2>10. /\ \A v \in AblationCallers : AblatorKnows(v)'
         /\ ablator' \in [AblationCallers -> AblatorRow]
    BY <1>2, <2>6, RestingCaller, CallersAfter
  <2>11. AblationRowsTyped'
    BY <1>2, <2>3, <2>5, <2>10 DEF AblationInv, AblationRowsTyped
  <2> QED BY <2>7, <2>8, <2>9, <2>10, <2>11 DEF AblationInv
<1> QED BY <1>1, <1>3, <1>4 DEF FreezePlan

\* RejectBridge closes a pending assignment.
LEMMA RejectBridgeStep ==
    ASSUME AblationInv, NEW a \in Assigned, RejectBridge(a)
    PROVE  AblationInv'
<1>1. /\ assignment[a] = "PENDING" /\ assignment'[a] = "REJECTED_BRIDGE"
      /\ \A x \in Assigned \ {a} : assignment'[x] = assignment[x]
      /\ UNCHANGED <<plan, arm, result, ablator>>
  BY DEF RejectBridge, AblationInv, AblationRowsTyped
<1>2. AblationRowsTyped'
  BY <1>1 DEF RejectBridge, AblationInv, AblationRowsTyped, AssignmentStates
<1>3. LedgerGrows
  BY <1>1 DEF LedgerGrows, Closed, Taken
<1>4. \A v \in AblationCallers : AblatorKnows(v)'
  BY <1>1, <1>3, CallersKeepKnowing
<1>5. ASSUME NEW x \in Assigned PROVE AssignmentFits(x)'
  <2>1. AssignmentFits(x)
    BY DEF AblationInv
  <2>2. CASE x = a
    BY <1>1, <2>1, <2>2, NoPlanIsNoState DEF AssignmentFits, Taken
  <2>3. CASE x # a
    BY <1>1, <2>1, <2>3 DEF AssignmentFits
  <2> QED BY <2>2, <2>3
<1>6. ASSUME NEW k \in ArmKeys PROVE ArmFits(k)'
  BY <1>1, <1>3 DEF AblationInv, ArmFits, LedgerGrows, ArmOf
<1>7. \A p \in AblationPlans : PlanFits(p)'
  BY <1>1 DEF AblationInv, PlanFits
<1> QED BY <1>2, <1>4, <1>5, <1>6, <1>7 DEF AblationInv

\* StartArm, and the assignments it starts.
LEMMA StartArmStep ==
    ASSUME AblationInv, NEW w \in AblationCallers, NEW k \in ArmKeys, NEW c \in Configs,
           StartArm(w, k, c)
    PROVE  AblationInv'
<1> DEFINE b == [at |-> "startPlan", plan |-> k[1], key |-> k, value |-> NoPlan]
<1>1. /\ b \in AblatorRow /\ ablator' = [ablator EXCEPT ![w] = b] /\ ablator'[w] = b
      /\ k[1] \in AblationPlans
  BY LedgerKeys DEF StartArm, AblationInv, AblationRowsTyped, AblatorRow
<1>2. /\ arm'[k] = "RUNNING" /\ plan[k[1]] # NoPlan /\ \A j \in ArmKeys \ {k} : arm'[j] = arm[j]
      /\ arm' \in [ArmKeys -> ArmStates \cup {NoPlan}] /\ arm[k] = "PENDING"
      /\ UNCHANGED <<plan, assignment, result>>
  BY DEF StartArm, AblationInv, AblationRowsTyped, ArmStates
<1>3. LedgerGrows
  BY <1>2 DEF LedgerGrows
<1>4. AblatorKnows(w)'
  BY <1>1, <1>2 DEF AblatorKnows
<1> HIDE DEF b
<1>5. /\ \A v \in AblationCallers : AblatorKnows(v)'
      /\ ablator' \in [AblationCallers -> AblatorRow]
  BY <1>1, <1>3, <1>4, CallersAfter
<1>6. AblationRowsTyped' /\ \A a \in Assigned : AssignmentFits(a)'
  BY <1>2, <1>5 DEF AblationInv, AblationRowsTyped, AssignmentFits
<1>7. \A j \in ArmKeys : ArmFits(j)'
  BY <1>2 DEF AblationInv, ArmFits
<1>8. ASSUME NEW p \in AblationPlans PROVE PlanFits(p)'
  BY <1>2, LedgerKeys DEF AblationInv, PlanFits
<1> QED BY <1>5, <1>6, <1>7, <1>8 DEF AblationInv

\* A caller that advances keeps its plan, key and value.
LEMMA StepMoves ==
    ASSUME AblationInv, NEW w \in AblationCallers, NEW at \in {"startAssignments", "close", "completePlan"},
           Step(w, at)
    PROVE  \E b \in AblatorRow : /\ ablator' = [ablator EXCEPT ![w] = b] /\ ablator'[w] = b
                                 /\ b.at = at /\ b.plan = ablator[w].plan
                                 /\ b.key = ablator[w].key /\ b.value = ablator[w].value
<1> DEFINE b == [ablator[w] EXCEPT !.at = at]
<1>1. ablator[w] \in AblatorRow
  BY DEF AblationInv, AblationRowsTyped
<1>2. /\ b \in AblatorRow /\ b.at = at /\ b.plan = ablator[w].plan
      /\ b.key = ablator[w].key /\ b.value = ablator[w].value
  BY <1>1 DEF AblatorRow
<1>3. ablator' = [ablator EXCEPT ![w] = b] /\ ablator'[w] = b
  BY DEF Step, AblationInv, AblationRowsTyped
<1> HIDE DEF b
<1> QED BY <1>2, <1>3

\* A plan's state moves: its digest does not, and it is complete only with its arms.
LEMMA PlanMoves ==
    ASSUME AblationInv, NEW p \in AblationPlans, plan[p] # NoPlan,
           NEW st \in {"FROZEN", "RUNNING", "COMPLETED"},
           st = "COMPLETED" => \A g \in Arms : arm[<<p, g>>] = "COMPLETED",
           plan' = [plan EXCEPT ![p].state = st],
           UNCHANGED <<arm, assignment, result>>
    PROVE  /\ LedgerGrows
           /\ plan' \in [AblationPlans -> PlanRow \cup {NoPlan}]
           /\ \A a \in Assigned : AssignmentFits(a)'
           /\ \A k \in ArmKeys : ArmFits(k)'
           /\ \A q \in AblationPlans : PlanFits(q)'
<1> DEFINE row == [plan[p] EXCEPT !.state = st]
<1>1. plan[p] \in PlanRow
  BY DEF AblationInv, AblationRowsTyped
<1>2. row \in PlanRow /\ row.state = st /\ row.digest = plan[p].digest
  BY <1>1 DEF PlanRow
<1>3. plan' = [plan EXCEPT ![p] = row] /\ row # NoPlan
  BY <1>2, NoPlanIsNoState DEF PlanRow
<1> HIDE DEF row
<1>4. /\ plan' \in [AblationPlans -> PlanRow \cup {NoPlan}] /\ plan'[p] = row
      /\ \A q \in AblationPlans \ {p} : plan'[q] = plan[q]
  BY <1>2, <1>3 DEF AblationInv, AblationRowsTyped
<1>5. \A q \in AblationPlans : /\ (plan'[q] = NoPlan) <=> (plan[q] = NoPlan)
                               /\ plan'[q].digest = plan[q].digest
  BY <1>2, <1>3, <1>4
<1>6. LedgerGrows
  BY <1>5 DEF LedgerGrows
<1>7. \A a \in Assigned : AssignmentFits(a)'
  <2> TAKE a \in Assigned
  <2>1. a[1] \in AblationPlans /\ AssignmentFits(a)
    BY LedgerKeys DEF AblationInv
  <2> QED BY <1>5, <2>1 DEF AssignmentFits
<1>8. \A k \in ArmKeys : ArmFits(k)'
  <2> TAKE k \in ArmKeys
  <2>1. k[1] \in AblationPlans /\ ArmFits(k)
    BY LedgerKeys DEF AblationInv
  <2> QED BY <1>5, <2>1 DEF ArmFits
<1>9. \A q \in AblationPlans : PlanFits(q)'
  BY <1>2, <1>4 DEF AblationInv, PlanFits
<1> QED BY <1>4, <1>6, <1>7, <1>8, <1>9

\* StartPlan and CompletePlan.
LEMMA PlanStep ==
    ASSUME AblationInv, NEW w \in AblationCallers, StartPlan(w) \/ CompletePlan(w)
    PROVE  AblationInv'
<1>1. ablator[w].at \in {"startPlan", "completePlan"}
  BY DEF StartPlan, CompletePlan
<1>2. PICK p \in AblationPlans : p = ablator[w].plan /\ plan[p] # NoPlan
  BY <1>1 DEF AblationInv, AblatorKnows
<1>3. plan[p] \in PlanRow
  BY <1>2 DEF AblationInv, AblationRowsTyped
<1>4. PICK st \in {"FROZEN", "RUNNING", "COMPLETED"} :
          /\ st = "COMPLETED" => \A g \in Arms : arm[<<p, g>>] = "COMPLETED"
          /\ plan' = [plan EXCEPT ![p].state = st]
  <2>1. CASE StartPlan(w)
    <3> DEFINE st == IF plan[p].state = "FROZEN" THEN "RUNNING" ELSE plan[p].state
    <3>1. st \in {"FROZEN", "RUNNING", "COMPLETED"} /\ plan' = [plan EXCEPT ![p].state = st]
      BY <1>2, <1>3, <2>1 DEF StartPlan, PlanRow
    <3>2. st = "COMPLETED" => \A g \in Arms : arm[<<p, g>>] = "COMPLETED"
      BY <1>2 DEF AblationInv, PlanFits
    <3> QED BY <3>1, <3>2
  <2>2. CASE CompletePlan(w)
    <3> DEFINE st == IF \A g \in Arms : arm[<<p, g>>] = "COMPLETED" THEN "COMPLETED" ELSE plan[p].state
    <3>1. st \in {"FROZEN", "RUNNING", "COMPLETED"} /\ plan' = [plan EXCEPT ![p].state = st]
      BY <1>2, <1>3, <2>2 DEF CompletePlan, PlanRow
    <3>2. st = "COMPLETED" => \A g \in Arms : arm[<<p, g>>] = "COMPLETED"
      BY <1>2 DEF AblationInv, PlanFits
    <3> QED BY <3>1, <3>2
  <2> QED BY <2>1, <2>2
<1>5. /\ LedgerGrows
      /\ plan' \in [AblationPlans -> PlanRow \cup {NoPlan}]
      /\ \A a \in Assigned : AssignmentFits(a)'
      /\ \A k \in ArmKeys : ArmFits(k)'
      /\ \A q \in AblationPlans : PlanFits(q)'
      /\ UNCHANGED <<arm, assignment, result>>
  BY <1>2, <1>4, PlanMoves DEF StartPlan, CompletePlan
<1>6. PICK b \in AblatorRow : ablator' = [ablator EXCEPT ![w] = b] /\ AblatorKnows(w)'
  <2>1. CASE StartPlan(w)
    <3>1. PICK b \in AblatorRow : /\ ablator' = [ablator EXCEPT ![w] = b] /\ ablator'[w] = b
                                  /\ b.at = "startAssignments" /\ b.plan = ablator[w].plan
                                  /\ b.key = ablator[w].key
      BY <2>1, StepMoves DEF StartPlan
    <3>2. b.key \in ArmKeys /\ b.plan = p /\ plan'[p] # NoPlan
      BY <1>1, <1>2, <1>5, <3>1 DEF AblationInv, AblatorKnows, LedgerGrows
    <3>3. AblatorKnows(w)'
      BY <3>1, <3>2 DEF AblatorKnows
    <3> QED BY <3>1, <3>3
  <2>2. CASE CompletePlan(w)
    <3>1. ablator' = [ablator EXCEPT ![w] = AtRest] /\ ablator'[w] = AtRest
      BY <2>2 DEF CompletePlan, Rests, AblationInv, AblationRowsTyped
    <3> QED BY <3>1, RestingCaller
  <2> QED BY <2>1, <2>2
<1>7. /\ \A v \in AblationCallers : AblatorKnows(v)'
      /\ ablator' \in [AblationCallers -> AblatorRow]
  BY <1>5, <1>6, CallersAfter
<1> QED BY <1>5, <1>7 DEF AblationInv, AblationRowsTyped

\* Assignments that advance: PENDING becomes RUNNING, or a taken one is closed as its result says.
LEMMA AssignmentsMove ==
    ASSUME AblationInv, UNCHANGED <<plan, arm, result>>,
           assignment' \in [Assigned -> AssignmentStates \cup {NoPlan}],
           \A a \in Assigned :
              \/ assignment'[a] = assignment[a]
              \/ assignment[a] = "PENDING" /\ assignment'[a] = "RUNNING"
              \/ /\ assignment[a] \in Taken /\ result[a] # NoPlan
                 /\ assignment'[a] = IF result[a].outcome = "VERIFIED" THEN "SUCCEEDED" ELSE "FAILED"
    PROVE  /\ LedgerGrows
           /\ \A a \in Assigned : AssignmentFits(a)'
           /\ \A k \in ArmKeys : ArmFits(k)'
           /\ \A q \in AblationPlans : PlanFits(q)'
<1>1. LedgerGrows
  BY DEF LedgerGrows, Closed, Taken
<1>2. \A a \in Assigned : AssignmentFits(a)'
  <2> TAKE a \in Assigned
  <2>1. AssignmentFits(a)
    BY DEF AblationInv
  <2> QED BY <2>1, NoPlanIsNoState DEF AssignmentFits, Taken
<1>3. \A k \in ArmKeys : ArmFits(k)'
  BY <1>1 DEF AblationInv, ArmFits, LedgerGrows, ArmOf
<1>4. \A q \in AblationPlans : PlanFits(q)'
  BY DEF AblationInv, PlanFits
<1> QED BY <1>1, <1>2, <1>3, <1>4

\* StartAssignments and CloseAssignment.
LEMMA AssignmentStep ==
    ASSUME AblationInv, NEW w \in AblationCallers, StartAssignments(w) \/ CloseAssignment(w)
    PROVE  AblationInv'
<1>1. /\ ablator' = [ablator EXCEPT ![w] = AtRest] /\ ablator'[w] = AtRest
      /\ UNCHANGED <<plan, arm, result>>
  BY DEF StartAssignments, CloseAssignment, Rests, AblationInv, AblationRowsTyped
<1>2. /\ assignment' \in [Assigned -> AssignmentStates \cup {NoPlan}]
      /\ \A a \in Assigned :
           \/ assignment'[a] = assignment[a]
           \/ assignment[a] = "PENDING" /\ assignment'[a] = "RUNNING"
           \/ /\ assignment[a] \in Taken /\ result[a] # NoPlan
              /\ assignment'[a] = IF result[a].outcome = "VERIFIED" THEN "SUCCEEDED" ELSE "FAILED"
  <2>1. CASE StartAssignments(w)
    BY <2>1 DEF StartAssignments, AblationInv, AblationRowsTyped, AssignmentStates
  <2>2. CASE CloseAssignment(w)
    <3>1. PICK a \in Assigned : a = ablator[w].key
      BY <2>2 DEF CloseAssignment, AblationInv, AblatorKnows
    <3>2. result[a] = ablator[w].value /\ result[a] \in ResultRow /\ assignment[a] \in Taken
      BY <2>2, <3>1 DEF CloseAssignment, AblationInv, AblatorKnows
    <3>3. assignment' = [assignment EXCEPT ![a] = IF result[a].outcome = "VERIFIED" THEN "SUCCEEDED" ELSE "FAILED"]
      BY <2>2, <3>1, <3>2 DEF CloseAssignment
    <3> QED BY <3>2, <3>3, NoPlanIsNoResult DEF AblationInv, AblationRowsTyped, AssignmentStates
  <2> QED BY <2>1, <2>2
<1>3. /\ LedgerGrows
      /\ \A a \in Assigned : AssignmentFits(a)'
      /\ \A k \in ArmKeys : ArmFits(k)'
      /\ \A q \in AblationPlans : PlanFits(q)'
  BY <1>1, <1>2, AssignmentsMove
<1>4. /\ \A v \in AblationCallers : AblatorKnows(v)'
      /\ ablator' \in [AblationCallers -> AblatorRow]
  BY <1>1, <1>3, RestingCaller, CallersAfter
<1> QED BY <1>1, <1>2, <1>3, <1>4 DEF AblationInv, AblationRowsTyped

\* InsertResult writes the one result of a taken assignment.
LEMMA InsertResultStep ==
    ASSUME AblationInv, NEW w \in AblationCallers, InsertResult(w)
    PROVE  AblationInv'
<1>1. PICK a \in Assigned, v \in ResultRow : a = ablator[w].key /\ v = ablator[w].value
  BY DEF InsertResult, AblationInv, AblatorKnows
<1>2. /\ plan[a[1]] # NoPlan /\ v.digest = plan[a[1]].digest /\ assignment[a] \in Taken
  BY <1>1 DEF InsertResult, AblationInv, AblatorKnows
<1>3. CASE result[a] # NoPlan
  <2>1. ablator' = [ablator EXCEPT ![w] = AtRest] /\ ablator'[w] = AtRest /\ UNCHANGED <<plan, arm, assignment, result>>
    BY <1>1, <1>3 DEF InsertResult, Rests, AblationInv, AblationRowsTyped
  <2> QED BY <2>1, RestingCaller, CallerMoves
<1>4. CASE result[a] = NoPlan
  <2>1. /\ result' = [result EXCEPT ![a] = v] /\ Step(w, "close") /\ UNCHANGED <<plan, arm, assignment>>
    BY <1>1, <1>4 DEF InsertResult
  <2>2. /\ result' \in [Assigned -> ResultRow \cup {NoPlan}] /\ result'[a] = v
        /\ \A x \in Assigned \ {a} : result'[x] = result[x]
    BY <2>1 DEF AblationInv, AblationRowsTyped
  <2>3. LedgerGrows
    BY <1>4, <2>1, <2>2 DEF LedgerGrows
  <2>4. PICK b \in AblatorRow : /\ ablator' = [ablator EXCEPT ![w] = b] /\ ablator'[w] = b
                                /\ b.at = "close" /\ b.key = a /\ b.value = v
    BY <1>1, <2>1, StepMoves
  <2>5. AblatorKnows(w)'
    BY <1>2, <2>1, <2>2, <2>4 DEF AblatorKnows
  <2>6. /\ \A u \in AblationCallers : AblatorKnows(u)'
        /\ ablator' \in [AblationCallers -> AblatorRow]
    BY <2>3, <2>4, <2>5, CallersAfter
  <2>7. ASSUME NEW x \in Assigned PROVE AssignmentFits(x)'
    <3>1. AssignmentFits(x)
      BY DEF AblationInv
    <3>2. CASE x = a
      <4>1. assignment[a] = "RUNNING"
        BY <1>2, <1>4, <3>1, <3>2 DEF AssignmentFits, Taken
      <4> QED BY <1>2, <2>1, <2>2, <3>1, <3>2, <4>1 DEF AssignmentFits
    <3>3. CASE x # a
      BY <2>1, <2>2, <3>1, <3>3 DEF AssignmentFits
    <3> QED BY <3>2, <3>3
  <2>8. \A k \in ArmKeys : ArmFits(k)'
    BY <2>1 DEF AblationInv, ArmFits
  <2>9. \A q \in AblationPlans : PlanFits(q)'
    BY <2>1 DEF AblationInv, PlanFits
  <2> QED BY <2>1, <2>2, <2>6, <2>7, <2>8, <2>9 DEF AblationInv, AblationRowsTyped
<1> QED BY <1>3, <1>4

\* CompleteArm closes an arm that had no open assignment, then or since.
LEMMA CompleteArmStep ==
    ASSUME AblationInv, NEW w \in AblationCallers, CompleteArm(w)
    PROVE  AblationInv'
<1>1. PICK k \in ArmKeys, p \in AblationPlans : k = ablator[w].key /\ p = ablator[w].plan
  BY DEF CompleteArm, AblationInv, AblatorKnows
<1>2. /\ \A a \in Assigned : ArmOf(a) = k => assignment[a] \in Closed
      /\ plan[p] # NoPlan
  BY <1>1 DEF CompleteArm, AblationInv, AblatorKnows
<1>3. CASE arm[k] # "RUNNING"
  <2>1. ablator' = [ablator EXCEPT ![w] = AtRest] /\ ablator'[w] = AtRest /\ UNCHANGED <<plan, arm, assignment, result>>
    BY <1>1, <1>3 DEF CompleteArm, Rests, AblationInv, AblationRowsTyped
  <2> QED BY <2>1, RestingCaller, CallerMoves
<1>4. CASE arm[k] = "RUNNING"
  <2>1. /\ arm' = [arm EXCEPT ![k] = "COMPLETED"] /\ Step(w, "completePlan")
        /\ UNCHANGED <<plan, assignment, result>>
    BY <1>1, <1>4 DEF CompleteArm
  <2>2. /\ arm' \in [ArmKeys -> ArmStates \cup {NoPlan}] /\ arm'[k] = "COMPLETED"
        /\ \A j \in ArmKeys \ {k} : arm'[j] = arm[j]
    BY <2>1 DEF AblationInv, AblationRowsTyped, ArmStates
  <2>3. LedgerGrows
    BY <2>1 DEF LedgerGrows
  <2>4. PICK b \in AblatorRow : /\ ablator' = [ablator EXCEPT ![w] = b] /\ ablator'[w] = b
                                /\ b.at = "completePlan" /\ b.key = k /\ b.plan = p
    BY <1>1, <2>1, StepMoves
  <2>5. AblatorKnows(w)'
    BY <1>2, <2>1, <2>4 DEF AblatorKnows
  <2>6. /\ \A u \in AblationCallers : AblatorKnows(u)'
        /\ ablator' \in [AblationCallers -> AblatorRow]
    BY <2>3, <2>4, <2>5, CallersAfter
  <2>7. \A a \in Assigned : AssignmentFits(a)'
    BY <2>1 DEF AblationInv, AssignmentFits
  <2>8. ASSUME NEW j \in ArmKeys PROVE ArmFits(j)'
    <3>1. ArmFits(j)
      BY DEF AblationInv
    <3>2. CASE j = k
      BY <1>2, <1>4, <2>1, <2>2, <3>1, <3>2, NoPlanIsNoState DEF ArmFits, ArmOf
    <3>3. CASE j # k
      BY <2>1, <2>2, <3>1, <3>3 DEF ArmFits, ArmOf
    <3> QED BY <3>2, <3>3
  <2>9. ASSUME NEW q \in AblationPlans PROVE PlanFits(q)'
    BY <2>1, <2>2, LedgerKeys DEF AblationInv, PlanFits
  <2> QED BY <2>1, <2>2, <2>6, <2>7, <2>8, <2>9 DEF AblationInv, AblationRowsTyped
<1> QED BY <1>3, <1>4

\* The rows of an arm: one for each problem of the pool.
LEMMA RowsOfArmFinite ==
    ASSUME NEW k \in ArmKeys
    PROVE  IsFiniteSet({a \in Assigned : <<a[1], a[2]>> = k})
<1> DEFINE rows == {a \in Assigned : <<a[1], a[2]>> = k}
           f == [q \in ArmProblems |-> <<k[1], k[2], q>>]
<1>1. \A q \in ArmProblems : f[q] \in rows
  BY DEF ArmKeys, Assigned
<1>2. \A a \in rows : a[3] \in ArmProblems /\ f[a[3]] = a
  BY DEF ArmKeys, Assigned
<1>3. f \in [ArmProblems -> rows]
  BY <1>1
<1> HIDE DEF f, rows
<1>4. f \in Surjection(ArmProblems, rows)
  BY <1>2, <1>3, Zenon DEF Surjection
<1>5. IsFiniteSet(rows)
  BY <1>4, FS_Surjection, ArmsAreFar
<1> QED BY <1>5 DEF rows

\* Two disjoint parts of a finite set.
LEMMA DisjointCount ==
    ASSUME NEW S, NEW T, IsFiniteSet(S), IsFiniteSet(T), S \cap T = {}
    PROVE  /\ IsFiniteSet(S \cup T)
           /\ Cardinality(S \cup T) = Cardinality(S) + Cardinality(T)
           /\ Cardinality(S) \in Nat /\ Cardinality(T) \in Nat
BY FS_Union, FS_EmptySet, FS_CardinalityType

\* The counts of a completed arm add up to its denominator.
LEMMA CountsAddUp ==
    ASSUME AblationInv, NEW k \in ArmKeys, arm[k] = "COMPLETED"
    PROVE  LET r == ReportOf(k) IN
           r.verified + r.rejected + r.inconclusive + r.failed + r.bridges = r.denominator
<1> DEFINE rows == {a \in Assigned : <<a[1], a[2]>> = k}
           With(o) == {a \in rows : result[a] # NoPlan /\ result[a].outcome = o}
           V == With("VERIFIED")
           R == With("REJECTED")
           I == With("INCONCLUSIVE")
           F == With("EXECUTION_FAILED")
           B == {a \in rows : assignment[a] = "REJECTED_BRIDGE"}
<1>1. \A a \in rows : a \in Assigned /\ assignment[a] \in Closed
  BY DEF AblationInv, ArmFits, ArmOf
<1>2. ASSUME NEW a \in rows
      PROVE  /\ (assignment[a] = "REJECTED_BRIDGE") <=> (result[a] = NoPlan)
             /\ result[a] # NoPlan => result[a].outcome \in Outcomes
  <2>1. a \in Assigned /\ AssignmentFits(a) /\ assignment[a] \in Closed
    BY <1>1, <1>2 DEF AblationInv
  <2>2. result[a] # NoPlan => result[a].outcome \in Outcomes
    BY <2>1 DEF AblationInv, AblationRowsTyped, ResultRow
  <2> QED BY <2>1, <2>2 DEF AssignmentFits, Closed, Taken
<1>3. IsFiniteSet(rows)
  BY RowsOfArmFinite
<1>4. V \cup R \cup I \cup F \cup B = rows
  BY <1>2 DEF Outcomes
<1>5. /\ V \cap R = {} /\ (V \cup R) \cap I = {} /\ (V \cup R \cup I) \cap F = {}
      /\ (V \cup R \cup I \cup F) \cap B = {}
  BY <1>2
<1>6. /\ V \in SUBSET rows /\ R \in SUBSET rows /\ I \in SUBSET rows /\ F \in SUBSET rows
      /\ B \in SUBSET rows
  OBVIOUS
<1>7. /\ ReportOf(k).denominator = Cardinality(rows) /\ ReportOf(k).verified = Cardinality(V)
      /\ ReportOf(k).rejected = Cardinality(R) /\ ReportOf(k).inconclusive = Cardinality(I)
      /\ ReportOf(k).failed = Cardinality(F) /\ ReportOf(k).bridges = Cardinality(B)
  BY DEF ReportOf
<1> HIDE DEF rows, With, V, R, I, F, B
<1>8. IsFiniteSet(V) /\ IsFiniteSet(R) /\ IsFiniteSet(I) /\ IsFiniteSet(F) /\ IsFiniteSet(B)
  BY <1>3, <1>6, FS_Subset
<1>9. IsFiniteSet(V \cup R) /\ Cardinality(V \cup R) = Cardinality(V) + Cardinality(R)
  BY <1>5, <1>8, DisjointCount
<1>10. /\ IsFiniteSet(V \cup R \cup I)
       /\ Cardinality(V \cup R \cup I) = Cardinality(V \cup R) + Cardinality(I)
  BY <1>5, <1>8, <1>9, DisjointCount
<1>11. /\ IsFiniteSet(V \cup R \cup I \cup F)
       /\ Cardinality(V \cup R \cup I \cup F) = Cardinality(V \cup R \cup I) + Cardinality(F)
  BY <1>5, <1>8, <1>10, DisjointCount
<1>12. Cardinality(rows) = Cardinality(V \cup R \cup I \cup F) + Cardinality(B)
  BY <1>4, <1>5, <1>8, <1>11, DisjointCount
<1>13. /\ Cardinality(V) \in Nat /\ Cardinality(R) \in Nat /\ Cardinality(I) \in Nat
       /\ Cardinality(F) \in Nat /\ Cardinality(B) \in Nat
  BY <1>8, FS_CardinalityType
<1> QED BY <1>7, <1>9, <1>10, <1>11, <1>12, <1>13

\* Whoever records, completes or dies between two statements: a completed arm leaves no
\* problem of its denominator out, and no plan is complete before its arms (ablation.py
\* record_result, complete_group, report).
THEOREM CompletedArmsAlwaysCount == AblationSpec => []CompletedArmsCountEveryProblem
<1>1. AblationInit => AblationInv
  <2> SUFFICES ASSUME AblationInit PROVE AblationInv
    OBVIOUS
  <2>1. /\ \A p \in AblationPlans : plan[p] = NoPlan
        /\ \A k \in ArmKeys : arm[k] = NoPlan
        /\ \A a \in Assigned : assignment[a] = NoPlan /\ result[a] = NoPlan
        /\ \A w \in AblationCallers : ablator[w] = AtRest
    BY DEF AblationInit
  <2>2. AblationRowsTyped
    BY DEF AblationInit, AblationRowsTyped, AtRest, AblatorRow
  <2>3. \A w \in AblationCallers : AblatorKnows(w)
    BY <2>1 DEF AblatorKnows, AtRest
  <2>4. \A a \in Assigned : AssignmentFits(a)
    BY <2>1, LedgerKeys, NoPlanIsNoState DEF AssignmentFits
  <2>5. \A k \in ArmKeys : ArmFits(k)
    BY <2>1, NoPlanIsNoState DEF ArmFits
  <2>6. \A p \in AblationPlans : PlanFits(p)
    BY <2>1 DEF PlanFits
  <2> QED BY <2>2, <2>3, <2>4, <2>5, <2>6 DEF AblationInv
<1>2. ASSUME AblationInv, [AblationNext]_ablationVars PROVE AblationInv'
  <2>1. CASE AblationNext
    BY <1>2, <2>1, ReadStep, FreezeStep, RejectBridgeStep, StartArmStep, PlanStep, AssignmentStep,
       InsertResultStep, CompleteArmStep DEF AblationNext
  <2>2. CASE UNCHANGED ablationVars
    BY <1>2, <2>2 DEF ablationVars, AblationInv, AblationRowsTyped, AssignmentFits, ArmFits,
       PlanFits, AblatorKnows
  <2> QED BY <1>2, <2>1, <2>2
<1>3. AblationInv => CompletedArmsCountEveryProblem
  <2> SUFFICES ASSUME AblationInv PROVE CompletedArmsCountEveryProblem
    OBVIOUS
  <2>1. AblationTypeOK
    BY DEF AblationInv, AblationRowsTyped, AblationTypeOK, PlanRow, ArmStates, AssignmentStates
  <2>2. \A a \in Assigned :
         /\ assignment[a] = "SUCCEEDED" => result[a] # NoPlan /\ result[a].outcome = "VERIFIED"
         /\ assignment[a] = "FAILED" => result[a] # NoPlan /\ result[a].outcome # "VERIFIED"
         /\ result[a] # NoPlan => result[a].digest = plan[a[1]].digest /\ assignment[a] # "PENDING"
    BY DEF AblationInv, AssignmentFits, Taken
  <2>3. \A p \in AblationPlans : plan[p] # NoPlan /\ plan[p].state = "COMPLETED"
         => \A g \in Arms : arm[<<p, g>>] = "COMPLETED"
    BY DEF AblationInv, PlanFits
  <2> QED BY <2>1, <2>2, <2>3, CountsAddUp DEF CompletedArmsCountEveryProblem
<1> QED BY <1>1, <1>2, <1>3, PTL DEF AblationSpec
=============================================================================
