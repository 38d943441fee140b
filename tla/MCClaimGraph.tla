---------------------------- MODULE MCClaimGraph ----------------------------
(* Small instances of ClaimGraph for TLC. *)
EXTENDS ClaimGraph, TLC

CONSTANTS r, l, m, e1, e2, e3, o, v1, v2

Edge(from, to, direction) == [from |-> from, to |-> to, direction |-> direction]

\* m proves l proves the root r; e2 is written from its conclusion to its premise; e3
\* would close a circle with the two others.
CircleEnds == (e1 :> Edge(l, r, "FORWARD")) @@ (e2 :> Edge(l, m, "REVERSE"))
                @@ (e3 :> Edge(r, m, "BIDIRECTIONAL"))
ChainEnds == e1 :> Edge(l, r, "FORWARD")
RootObligation == o :> r
LemmaChild == o :> {l}
DirectRule == o :> "DIRECT_EDGE"

\* Proof plans of the root: by its lemma under the obligation o, cut off from m where e2
\* enters; and by its own replay, cut off from the lemma.
ByLemma == [parent |-> r, claims |-> {r, l}, edges |-> {e1}, obligations |-> {o},
            cuts |-> {e2}]
Alone == [parent |-> r, claims |-> {r}, edges |-> {}, obligations |-> {}, cuts |-> {e1}]
LemmaPlan == {ByLemma}
RootPlan == {Alone}

Receipts == {<<r, "LEAN_REPLAY">>, <<l, "LEAN_REPLAY">>, <<l, "CHECKER_CERTIFICATE">>,
             <<r, "SEMANTIC_TESTS">>}
LemmaDefect == {{l}}
SomeDefect == {{l}, {r, m}}
RootReplay == {<<r, "LEAN_REPLAY">>}
PlanReview == {<<r, v1, ByLemma>>}
LemmaReview == {<<l, v1, NoPlan>>}
=============================================================================
