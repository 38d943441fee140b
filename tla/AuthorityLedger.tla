--------------------------- MODULE AuthorityLedger --------------------------
(***************************************************************************)
(* Withdrawn authority in the product layer: the ledger of invalidations   *)
(* and its watermark (invalidation.py), revoke previews and replacement    *)
(* (revocation.py), the closure the kernel computes for them (authority.py)*)
(* and the CONFIRM_REVOKE handler.                                         *)
(*                                                                         *)
(* One run.  Every kernel commit moves its revision by one, so a revision  *)
(* also names the kernel event that made it.  A write transaction is one   *)
(* step; the handler is three, and may die between any two of them.        *)
(***************************************************************************)
EXTENDS Naturals, Sequences, FiniteSets, FiniteSetsExt

CONSTANTS Objects,         \* jobs, checkpoints, reviews, ... bound to the run
          Facts,
          ReverseClosure,  \* fact -> the facts that fall with it
          MaxRevision,     \* bound on the kernel's revision
          NoPreview

ASSUME ClosureHoldsItsTarget == /\ ReverseClosure \in [Facts -> SUBSET Facts]
                                /\ \A f \in Facts : f \in ReverseClosure[f]
ASSUME RevisionsAreNumbered == MaxRevision \in Nat

VARIABLES kernelRev, revoked,
          recomputes,      \* what recompute_in_transaction looks at
          contractVersion, \* current version of the run's contract, 0 before there is one
          binding,         \* product_authority_bindings
          consumes,        \* product_revocation_dependencies
          ledger,          \* product_authority_invalidation_ledger
          mark,            \* the watermark; zeros stand for a missing row
          materialized,    \* (event, object) rows
          revPreview,      \* fact -> its last revoke preview
          announced,       \* invalidations that confirm returned
          recoveries,      \* (object, revision) of replacements
          revoker          \* the handler of CONFIRM_REVOKE

authorityVars == <<kernelRev, revoked, recomputes, contractVersion, binding, consumes, ledger,
                   mark, materialized, revPreview, announced, recoveries, revoker>>

Revisions == 0..MaxRevision
Invalidation == [rev : Revisions, affected : SUBSET Objects, kept : SUBSET Objects]
RevokePreview == [closure : [rev : Revisions, facts : SUBSET Facts, version : Nat],
                  state : {"ACTIVE", "STALE", "CONSUMED"}]
ASSUME NoPreviewIsNoFact == NoPreview \notin Facts /\ NoPreview \notin RevokePreview

Unbound == [state |-> "NONE", bound |-> 0, version |-> 0]
IdleRevoker == [pc |-> "idle", fact |-> NoPreview, rev |-> 0]

CaughtUp == mark.procSeq = mark.recSeq /\ mark.procRev = mark.recRev
Entries == {ledger[k] : k \in DOMAIN ledger}
Bound(o) == binding[o].state # "NONE"

-----------------------------------------------------------------------------
(* The invalidation engine *)

\* A binding created at a newer revision drags the watermark of a caught-up run along.
RegisterBinding(o, rev) ==
    /\ ~Bound(o) /\ contractVersion > 0 /\ rev <= kernelRev
    /\ binding' = [binding EXCEPT ![o] = [state |-> "VALID", bound |-> rev,
                                          version |-> contractVersion]]
    /\ mark' = IF CaughtUp /\ rev > mark.recRev
               THEN [mark EXCEPT !.recRev = rev, !.procRev = rev] ELSE mark
    /\ UNCHANGED <<kernelRev, revoked, recomputes, contractVersion, consumes, ledger,
                   materialized, revPreview, announced, recoveries, revoker>>

\* _validate_bindings: everything named must be bound to the run.
BindingsExist(inv) == \A o \in inv.affected \cup inv.kept : Bound(o)
Recordable(inv) ==
    /\ inv.rev > mark.recRev /\ BindingsExist(inv)
    /\ inv.affected # {} /\ inv.affected \cap inv.kept = {}

\* An event that is in the ledger already is not recorded again.
RecordedAlready(inv) == inv \in Entries

LedgerWith(inv) == Append(ledger, inv)
MarkWith(inv) == [mark EXCEPT !.recSeq = Len(ledger) + 1, !.recRev = inv.rev]

\* The bindings an event names fall, the ones that fell already stay as they are.
Materialize(e) == [o \in Objects |->
    IF o \in e.affected /\ binding[o].state = "VALID"
    THEN [binding[o] EXCEPT !.state = "INVALIDATED"] ELSE binding[o]]

\* One event of the ledger becomes visible in the bindings, with the watermark.
CatchUp ==
    /\ mark.procSeq < Len(ledger)
    /\ LET e == ledger[mark.procSeq + 1] IN
        /\ materialized' = materialized \cup ({e.rev} \X e.affected)
        /\ binding' = Materialize(e)
        /\ mark' = [mark EXCEPT !.procSeq = @ + 1, !.procRev = e.rev]
    /\ UNCHANGED <<kernelRev, revoked, recomputes, contractVersion, consumes, ledger,
                   revPreview, announced, recoveries, revoker>>

\* Mutant: a reader that only compares revisions.
ConsumableByRevision(o, rev) == mark.procRev >= rev /\ binding[o].state = "VALID"

\* assert_consumable
Consumable(o, rev) ==
    /\ mark.procRev >= rev /\ mark.procSeq >= mark.recSeq
    /\ binding[o].state = "VALID"

-----------------------------------------------------------------------------
(* Revocation *)

RegisterFactDependency(o, f) ==
    /\ Bound(o) /\ <<o, f>> \notin consumes
    /\ consumes' = consumes \cup {<<o, f>>}
    /\ UNCHANGED <<kernelRev, revoked, recomputes, contractVersion, binding, ledger, mark,
                   materialized, revPreview, announced, recoveries, revoker>>

\* _objects_for_facts
ObjectsFor(fs) == {o \in Objects : Bound(o) /\ \E f \in fs : <<o, f>> \in consumes}

\* The closure: its revision is the kernel's at the time of the read.
Closure(f) == [rev |-> kernelRev, facts |-> ReverseClosure[f], version |-> contractVersion]

PreviewRevoke(f) ==
    /\ revoker.pc = "idle" /\ f \notin revoked
    /\ revPreview' = [revPreview EXCEPT ![f] = [closure |-> Closure(f), state |-> "ACTIVE"]]
    /\ revoker' = [pc |-> "apply", fact |-> f, rev |-> 0]
    /\ UNCHANGED <<kernelRev, revoked, recomputes, contractVersion, binding, consumes, ledger,
                   mark, materialized, announced, recoveries>>

\* The kernel takes CONFIRM_REVOKE only at the revision the handler's fence names.
KernelRevokes ==
    /\ revoker.pc = "apply" /\ kernelRev < MaxRevision
    /\ kernelRev = revPreview[revoker.fact].closure.rev
    /\ kernelRev' = kernelRev + 1
    /\ revoked' = revoked \cup ReverseClosure[revoker.fact]
    /\ revoker' = [revoker EXCEPT !.pc = "confirm", !.rev = kernelRev + 1]
    /\ UNCHANGED <<recomputes, contractVersion, binding, consumes, ledger, mark,
                   materialized, revPreview, announced, recoveries>>

\* A rejected command, or a process that dies.
RevokerStops ==
    /\ revoker.pc # "idle" /\ revoker' = IdleRevoker
    /\ UNCHANGED <<kernelRev, revoked, recomputes, contractVersion, binding, consumes, ledger,
                   mark, materialized, revPreview, announced, recoveries>>

\* ResearchKernelRevocationAuthority inspects the kernel as it is now, after the event; the
\* protocol also admits an authority that answers for the revision before it.
RecomputedRevision == IF recomputes = "now" THEN kernelRev ELSE revoker.rev - 1
StillTrue(p) == /\ [Closure(revoker.fact) EXCEPT !.rev = RecomputedRevision] = p.closure
                /\ revoker.rev > RecomputedRevision

RevocationOf(p) ==
    LET lost == ObjectsFor(p.closure.facts)
    IN [rev |-> revoker.rev, affected |-> lost, kept |-> ObjectsFor(Facts \ p.closure.facts) \ lost]

ConfirmStale ==
    /\ revoker.pc = "confirm" /\ ~StillTrue(revPreview[revoker.fact])
    /\ revPreview' = [revPreview EXCEPT ![revoker.fact].state = "STALE"]
    /\ revoker' = IdleRevoker
    /\ UNCHANGED <<kernelRev, revoked, recomputes, contractVersion, binding, consumes, ledger,
                   mark, materialized, announced, recoveries>>

Confirm ==
    /\ revoker.pc = "confirm"
    /\ LET p == revPreview[revoker.fact] IN
        /\ StillTrue(p) /\ ObjectsFor(p.closure.facts) # {}
        /\ announced' = announced \cup {RevocationOf(p)}
    /\ revPreview' = [revPreview EXCEPT ![revoker.fact].state = "CONSUMED"]
    /\ revoker' = IdleRevoker
    /\ UNCHANGED <<kernelRev, revoked, recomputes, contractVersion, binding, consumes, ledger,
                   mark, materialized, recoveries>>

\* A registered consumer is handed the invalidation, perhaps late and perhaps twice.
ConsumeRevocation(inv) ==
    /\ inv \in announced /\ ~RecordedAlready(inv) /\ Recordable(inv)
    /\ ledger' = LedgerWith(inv) /\ mark' = MarkWith(inv)
    /\ UNCHANGED <<kernelRev, revoked, recomputes, contractVersion, binding, consumes,
                   materialized, revPreview, announced, recoveries, revoker>>

\* recover_with_replacement: the receipt must name the kernel's current revision.
TargetBound(o, f) == /\ revPreview[f] # NoPreview /\ revPreview[f].state = "CONSUMED"
                     /\ \E g \in revPreview[f].closure.facts : <<o, g>> \in consumes
RecoverWithReplacement(o, f) ==
    /\ binding[o].state = "INVALIDATED" /\ TargetBound(o, f) /\ kernelRev >= 1
    /\ recoveries' = recoveries \cup {<<o, kernelRev>>}
    /\ UNCHANGED <<kernelRev, revoked, recomputes, contractVersion, binding, consumes, ledger,
                   mark, materialized, revPreview, announced, revoker>>

EffectiveState(o) ==
    LET lost == {m[1] : m \in {x \in materialized : x[2] = o}}
        back == {m[2] : m \in {x \in recoveries : x[1] = o}}
    IN IF binding[o].state # "INVALIDATED" THEN binding[o].state
       ELSE IF Max({0} \cup back) > Max({0} \cup lost) THEN "RESTORED" ELSE "INVALIDATED"

-----------------------------------------------------------------------------
\* Any other command of the run.
KernelMoves ==
    /\ kernelRev < MaxRevision /\ kernelRev' = kernelRev + 1
    /\ UNCHANGED <<revoked, recomputes, contractVersion, binding, consumes, ledger, mark,
                   materialized, revPreview, announced, recoveries, revoker>>

AuthorityInit ==
    /\ kernelRev = 0 /\ revoked = {} /\ contractVersion = 0
    /\ recomputes \in {"now", "before"}
    /\ binding = [o \in Objects |-> Unbound] /\ consumes = {}
    /\ ledger = <<>> /\ materialized = {} /\ announced = {} /\ recoveries = {}
    /\ mark = [recSeq |-> 0, recRev |-> 0, procSeq |-> 0, procRev |-> 0]
    /\ revPreview = [f \in Facts |-> NoPreview] /\ revoker = IdleRevoker

AuthorityNext ==
    \/ \E o \in Objects, rev \in Revisions : RegisterBinding(o, rev)
    \/ \E o \in Objects, f \in Facts : RegisterFactDependency(o, f) \/ RecoverWithReplacement(o, f)
    \/ \E f \in Facts : PreviewRevoke(f)
    \/ KernelRevokes \/ ConfirmStale \/ Confirm \/ RevokerStops
    \/ \E inv \in announced : ConsumeRevocation(inv)
    \/ CatchUp \/ KernelMoves

AuthorityTypeOK ==
    /\ kernelRev \in Revisions /\ revoked \subseteq Facts /\ consumes \subseteq Objects \X Facts
    /\ \A o \in Objects : binding[o].state \in {"NONE", "VALID", "INVALIDATED"}
    /\ \A k \in DOMAIN ledger : ledger[k] \in Invalidation
    /\ mark \in [recSeq : 0..Len(ledger), recRev : Revisions, procSeq : 0..Len(ledger),
                 procRev : Revisions]
    /\ \A f \in Facts : revPreview[f] \in RevokePreview \cup {NoPreview}
    /\ announced \subseteq Invalidation /\ recoveries \subseteq Objects \X Revisions
    /\ materialized \subseteq Revisions \X Objects
    /\ revoker.pc \in {"idle", "apply", "confirm"}

\* What the ledger withdrew cannot be consumed at any revision, not even before the event is
\* materialised; and once the watermark passed an event every binding it names is withdrawn,
\* whatever bindings were registered or events re-delivered in between.  Only an object that
\* depended on a confirmed revocation is ever shown as restored.
WithdrawnIsNotConsumable ==
    /\ AuthorityTypeOK
    /\ \A e \in Entries, o \in Objects, rev \in Revisions : o \in e.affected => ~Consumable(o, rev)
    /\ materialized = UNION {{ledger[k].rev} \X ledger[k].affected : k \in 1..mark.procSeq}
    /\ \A o \in Objects : binding[o].state = "INVALIDATED" <=> \E m \in materialized : m[2] = o
    /\ \A j, k \in DOMAIN ledger : j < k => ledger[j].rev < ledger[k].rev
    /\ \A o \in Objects : EffectiveState(o) = "RESTORED" => \E f \in revoked : TargetBound(o, f)

\* product-architecture.md: whatever consumed an entity that was revoked becomes STALE or
\* INVALIDATED, and a reader at the kernel's revision is told the projection lags until then.
RevokedFactHasNoConsumer ==
    \A o \in Objects, f \in Facts :
        <<o, f>> \in consumes /\ f \in revoked => ~Consumable(o, kernelRev)
=============================================================================
