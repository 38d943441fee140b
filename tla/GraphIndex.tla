----------------------------- MODULE GraphIndex -----------------------------
(***************************************************************************)
(* The rebuildable projection of the claim graph (graph_index.py) and the  *)
(* paged reads over it (graph_query.py).  Kernel events carry deltas; the  *)
(* index applies them up to a watermark, or is rebuilt from a snapshot     *)
(* taken earlier.  A reader asks for pages at one fence (cursor, revision) *)
(* with a token between pages, while the index may move on.                *)
(***************************************************************************)
EXTENDS Naturals, Sequences, FiniteSets, Functions

CONSTANTS Deltas,       \* the graph deltas kernel events may carry
          MaxActivity, GraphReaders,
          Queries,      \* what readers ask: slices and searches
          Matching,     \* nodes whose text matches the search terms
          OtherEvent, NoSnapshot, NoQuery

VARIABLES activity,     \* product_activity_events: a delta or OtherEvent, with the revision
          index,        \* nodes, edges and watermark of the projection
          snapshot,     \* an authority snapshot on its way to rebuild
          query         \* reader -> its request, token and the items it was given

graphVars == <<activity, index, snapshot, query>>

EmptyGraph == [nodes |-> {}, edges |-> {}]
IdleReader0 == [at |-> "idle", ask |-> NoQuery, cursor |-> 0, revision |-> 0,
                token |-> 0, last |-> 0, given |-> <<>>]

Ids(nodes) == {n.id : n \in nodes}

\* A delta writes each node once; a request has a depth and a page size of at least one.
ASSUME GraphInputs ==
    /\ MaxActivity \in Nat
    /\ \A d \in Deltas : /\ IsFiniteSet(d.nodes) /\ Ids(d.nodes) \subseteq Nat
                         /\ \A m, n \in d.nodes : m.id = n.id => m = n
    /\ \A q \in Queries : /\ IsFiniteSet(q.seeds) /\ q.seeds \subseteq Nat
                          /\ q.depth \in Nat /\ q.limit \in Nat \ {0}

-----------------------------------------------------------------------------
(* Applying deltas *)

Deletes(g, d) ==
    LET nodes == {n \in g.nodes : n.id \notin d.deleteNodes}
    IN  [nodes |-> nodes,
         edges |-> {e \in g.edges : e.id \notin d.deleteEdges /\ {e.from, e.to} \subseteq Ids(nodes)}]

UpsertNodes(g, d) ==
    [g EXCEPT !.nodes = {n \in @ : n.id \notin Ids(d.nodes)} \cup d.nodes]

UpsertEdges(g, d) ==
    [g EXCEPT !.edges = {e \in @ : e.id \notin Ids(d.edges)} \cup d.edges]

\* Edges and nodes are deleted before nodes and edges are written.
ApplyDelta(g, d) == UpsertEdges(UpsertNodes(Deletes(g, d), d), d)

\* Mutant: deletions come last.
ApplyDeltaDeletesLast(g, event) ==
    IF event.delta = OtherEvent THEN g
    ELSE Deletes(UpsertEdges(UpsertNodes(g, event.delta), event.delta), event.delta)

ApplyActivity(g, event) == IF event.delta = OtherEvent THEN g ELSE ApplyDelta(g, event.delta)

GraphAfter(g, from, to) ==
    LET after[k \in from..to] == IF k = from THEN g ELSE ApplyActivity(after[k - 1], activity[k])
    IN  after[to]

\* What the kernel's graph is after an event: the deltas are the kernel's own record of it.
Authority(c) ==
    LET graph[k \in 0..c] ==
          IF k = 0 THEN EmptyGraph
          ELSE IF activity[k].delta = OtherEvent THEN graph[k - 1] ELSE ApplyDelta(graph[k - 1], activity[k].delta)
    IN  graph[c]
RevisionAt(c) == IF c = 0 THEN 0 ELSE activity[c].revision

-----------------------------------------------------------------------------
(* The index *)

GraphInit ==
    /\ activity = <<>>
    /\ index = [graph |-> EmptyGraph, cursor |-> 0, revision |-> 0]
    /\ snapshot = NoSnapshot
    /\ query = [r \in GraphReaders |-> IdleReader0]

\* The kernel publishes a delta, whose edges join nodes that are then present, or another event.
Publish(d) ==
    /\ Len(activity) < MaxActivity
    /\ LET g == Authority(Len(activity))
           h == IF d = OtherEvent THEN g ELSE ApplyDelta(g, d)
       IN  \A e \in h.edges : {e.from, e.to} \subseteq Ids(h.nodes)
    /\ activity' = Append(activity, [delta |-> d,
         revision |-> RevisionAt(Len(activity)) + (IF d = OtherEvent THEN 0 ELSE 1)])
    /\ UNCHANGED <<index, snapshot, query>>

RequireForward(cursor, revision) ==
    \/ cursor = index.cursor /\ revision = index.revision
    \/ cursor > index.cursor /\ revision >= index.revision

RequireReachable(cursor) == cursor <= Len(activity)

\* One transaction: every event up to the target, none beyond the requested revision.
CatchUp(cursor, revision) ==
    /\ RequireForward(cursor, revision) /\ RequireReachable(cursor)
    /\ \A k \in (index.cursor + 1)..cursor :
         activity[k].delta # OtherEvent => activity[k].revision <= revision
    /\ index' = [graph |-> GraphAfter(index.graph, index.cursor, cursor),
                 cursor |-> cursor, revision |-> revision]
    /\ UNCHANGED <<activity, snapshot, query>>

CaptureSnapshot(c) ==
    /\ snapshot = NoSnapshot /\ c \in 0..Len(activity)
    /\ snapshot' = [graph |-> Authority(c), cursor |-> c, revision |-> RevisionAt(c)]
    /\ UNCHANGED <<activity, index, query>>

\* The rebuild replaces rows and watermark together, also by an older snapshot.
Rebuild ==
    /\ snapshot # NoSnapshot /\ RequireReachable(snapshot.cursor)
    /\ index' = snapshot /\ snapshot' = NoSnapshot /\ UNCHANGED <<activity, query>>

-----------------------------------------------------------------------------
(* Traversal *)

Node(g, id) == CHOOSE n \in g.nodes : n.id = id

\* The members of a finite set in the order of `before'.
Sorted(S, before) ==
    CHOOSE s \in Bijection(1..Cardinality(S), S) :
       \A i, j \in 1..Cardinality(S) : i < j => <<s[i], s[j]>> \in before

IdOrder == {p \in Nat \X Nat : p[1] < p[2]}
PairOrder == {p \in (Nat \X Nat) \X (Nat \X Nat) :
                p[1][1] < p[2][1] \/ (p[1][1] = p[2][1] /\ p[1][2] < p[2][2])}

\* (source, target) pairs that an edge stands for.
Arcs(e) == (IF e.direction \in {"FORWARD", "BIDIRECTIONAL"} THEN {<<e.from, e.to>>} ELSE {})
           \cup (IF e.direction \in {"REVERSE", "BIDIRECTIONAL"} THEN {<<e.to, e.from>>} ELSE {})

EdgeTransitions(g, current, direction) ==
    LET arcs == UNION {Arcs(e) : e \in g.edges}
    IN  {a[2] : a \in {b \in arcs : direction # "PREDECESSORS" /\ b[1] = current}}
        \cup {a[1] : a \in {b \in arcs : direction # "SUCCESSORS" /\ b[2] = current}}

ModeMatches(n, mode) == n.dependable = (mode = "VERIFIED")
RouteOnlyMismatch(n, routes) == routes # {} /\ n.route \notin routes
Matches(n, q) == ModeMatches(n, q.mode) /\ ~RouteOnlyMismatch(n, q.routes)

\* Neighbours of a frontier in the order they are met: by frontier node, then by neighbour.
NextFrontier(g, q, frontier, visited) ==
    LET met == {p \in UNION {{c} \X EdgeTransitions(g, c, q.direction) : c \in frontier} :
                  p[2] \notin visited /\ p[2] \in Ids(g.nodes) /\ Matches(Node(g, p[2]), q)}
        first == {p \in met : \A o \in met : o[2] = p[2] => p[1] <= o[1]}
    IN  Sorted(first, PairOrder)

Traverse(g, q) ==
    LET seeds == Sorted(q.seeds, IdOrder)
        level[k \in 0..q.depth] ==
          IF k = 0 THEN [ordered |-> seeds, frontier |-> q.seeds]
          ELSE LET new == NextFrontier(g, q, level[k - 1].frontier, Range(level[k - 1].ordered))
               IN  [ordered |-> level[k - 1].ordered \o [i \in DOMAIN new |-> new[i][2]],
                    frontier |-> {new[i][2] : i \in DOMAIN new}]
    IN  level[q.depth].ordered

\* Nodes of other routes that the traversal meets and does not enter: the last level is not left.
Expanded(g, q) == IF q.depth = 0 THEN {} ELSE Range(Traverse(g, [q EXCEPT !.depth = @ - 1]))
CrossRouteBoundaries(g, q) ==
    {id \in UNION {EdgeTransitions(g, c, q.direction) : c \in Expanded(g, q)} :
       /\ id \in Ids(g.nodes) /\ ModeMatches(Node(g, id), q.mode)
       /\ Node(g, id).dependable /\ RouteOnlyMismatch(Node(g, id), q.routes)}

SeedsPresent(g, q) == \A s \in q.seeds : s \in Ids(g.nodes) /\ Matches(Node(g, s), q)

SearchHits(g, q) ==
    Sorted({n.id : n \in {m \in g.nodes : m.id \in Matching /\ ModeMatches(m, q.mode)}}, IdOrder)

ResultOf(g, q) == IF q.kind = "SLICE" THEN Traverse(g, q) ELSE SearchHits(g, q)

-----------------------------------------------------------------------------
(* Paged reads *)

Ask(r, q, c) ==
    /\ query[r].at = "idle" /\ c \in 0..Len(activity)
    /\ query' = [query EXCEPT ![r] = [IdleReader0 EXCEPT !.at = "asking", !.ask = q, !.cursor = c,
                                                         !.revision = RevisionAt(c)]]
    /\ UNCHANGED <<activity, index, snapshot>>

\* Mutant: any index at the requested cursor or beyond will do.
AlignedOrAhead(r) == index.cursor >= query[r].cursor

\* Pages are only read at the exact fence of the request.
Aligned(r) == index.cursor = query[r].cursor /\ index.revision = query[r].revision

\* The token names the offset and the last item; both must still be there.
VerifyBoundary(items, token, last) ==
    /\ token <= Len(items)
    /\ token > 0 => items[token] = last

Pages(r, items) ==
    LET end == IF query[r].token + query[r].ask.limit < Len(items)
               THEN query[r].token + query[r].ask.limit ELSE Len(items)
    IN  [at |-> IF end < Len(items) THEN "asking" ELSE "done",
         ask |-> query[r].ask, cursor |-> query[r].cursor, revision |-> query[r].revision,
         token |-> end, last |-> IF end = 0 THEN 0 ELSE items[end],
         given |-> query[r].given \o SubSeq(items, query[r].token + 1, end)]

ReadPage(r) ==
    /\ query[r].at = "asking" /\ Aligned(r)
    /\ query[r].ask.kind = "SLICE" => SeedsPresent(index.graph, query[r].ask)
    /\ VerifyBoundary(ResultOf(index.graph, query[r].ask), query[r].token, query[r].last)
    /\ query' = [query EXCEPT ![r] = Pages(r, ResultOf(index.graph, query[r].ask))]
    /\ UNCHANGED <<activity, index, snapshot>>

\* An absent seed, a lag, a fence that is gone or a boundary that changed ends the request.
RefusePage(r) ==
    /\ query[r].at = "asking"
    /\ \/ ~Aligned(r)
       \/ query[r].ask.kind = "SLICE" /\ ~SeedsPresent(index.graph, query[r].ask)
       \/ ~VerifyBoundary(ResultOf(index.graph, query[r].ask), query[r].token, query[r].last)
    /\ query' = [query EXCEPT ![r] = IdleReader0] /\ UNCHANGED <<activity, index, snapshot>>

\* A lagging read may bring the index to its fence itself, once.
ReadCatchesUp(r) ==
    /\ query[r].at = "asking" /\ index.cursor < query[r].cursor
    /\ CatchUp(query[r].cursor, query[r].revision)

CloseQuery(r) ==
    /\ query[r].at = "done" /\ query' = [query EXCEPT ![r] = IdleReader0]
    /\ UNCHANGED <<activity, index, snapshot>>

GraphNext ==
    \/ \E d \in Deltas \cup {OtherEvent} : Publish(d)
    \/ \E c \in 0..MaxActivity, v \in 0..MaxActivity : CatchUp(c, v)
    \/ \E c \in 0..MaxActivity : CaptureSnapshot(c)
    \/ Rebuild
    \/ \E r \in GraphReaders : \/ ReadPage(r) \/ RefusePage(r) \/ ReadCatchesUp(r) \/ CloseQuery(r)
                               \/ \E q \in Queries, c \in 0..MaxActivity : Ask(r, q, c)

GraphSpec == GraphInit /\ [][GraphNext]_graphVars

-----------------------------------------------------------------------------

GraphTypeOK ==
    /\ Len(activity) <= MaxActivity
    /\ index.cursor \in 0..Len(activity) /\ index.revision \in 0..MaxActivity
    /\ \A e \in index.graph.edges : {e.from, e.to} \subseteq Ids(index.graph.nodes)
    /\ \A r \in GraphReaders : query[r].at \in {"idle", "asking", "done"}

\* The nodes a slice must show: within its depth of a seed, along nodes that match.
Within(g, q) ==
    LET reach[k \in 0..q.depth] ==
          IF k = 0 THEN q.seeds
          ELSE reach[k - 1] \cup
               {n.id : n \in {m \in g.nodes : /\ Matches(m, q)
                                              /\ \E c \in reach[k - 1] : m.id \in EdgeTransitions(g, c, q.direction)}}
    IN  reach[q.depth]

\* Whatever order deltas are applied, rebuilt or caught up in, the index is the kernel's graph at
\* its watermark (_apply_activity, rebuild).  A reader that came to the last page was given, in
\* pages read at different times, exactly the nodes of one graph, the one at its fence: nothing
\* twice, nothing missing, nothing of a later state (_aligned_read, _verify_boundary).
PagesAreOneGraph ==
    /\ GraphTypeOK
    /\ index.graph = Authority(index.cursor)
    /\ \A r \in GraphReaders : query[r].at = "done" =>
         LET g == Authority(query[r].cursor)
             q == query[r].ask
         IN  /\ \A i, j \in DOMAIN query[r].given : i # j => query[r].given[i] # query[r].given[j]
             /\ Range(query[r].given)
                  = IF q.kind = "SLICE" THEN Within(g, q)
                    ELSE {n.id : n \in {m \in g.nodes : m.id \in Matching /\ ModeMatches(m, q.mode)}}
             /\ q.kind = "SLICE" => CrossRouteBoundaries(g, q) \cap Range(query[r].given) = {}
=============================================================================
