------------------------- MODULE ResearchPassProofs -------------------------
(***************************************************************************)
(* Proofs about ResearchPass, for every set of processes, routes and       *)
(* plans.  A checkpoint is sound when its queue, together with the batch   *)
(* a pass has in flight, continues what its routes say is unfinished; the  *)
(* lemmas show for each way a queue is changed that it stays sound.        *)
(***************************************************************************)
EXTENDS ResearchPass, Integers, SequenceTheorems, FiniteSetTheorems, TLAPS

\* The status of a route for which a kind of work is pending.
At(kind) == CASE kind = "FALSIFY_ROUTE" -> "FALSIFYING"
              [] kind = "DEVELOP_ROUTE" -> "DEVELOPING"
              [] kind = "GAP_REVIEW" -> "REVIEWING"
              [] kind = "REVISE_ROUTE" -> "REVISING"
              [] kind = "FORMALIZE_ROUTE" -> "FORMALIZING"
              [] OTHER -> "SEMANTIC_AUDIT"

Live(rt, r) == rt[r].status \notin Terminal \cup {"UNSCOUTED"}

\* A review reopens a route that is READY: its revision is pending.
Reopens(rt, i) == Stands(i) = "REVISE_ROUTE" /\ rt[i.route].status = "READY"

\* An item fits the state of its route and the limits of the plan.
ItemOk(pl, rt, i) ==
    /\ i \in WorkItem
    /\ (i.kind = "INTEGRATE_TOOLS") = (i.parent # "NONE")
    /\ Stands(i) \in RouteWork =>
           /\ i.route \in Routes
           /\ rt[i.route].status = At(Stands(i)) \/ Reopens(rt, i)
    /\ Stands(i) \in RunWork => i.route = NoRoute
    /\ Stands(i) = "REVISE_ROUTE" => i.round <= pl.max_route_revisions
    /\ Stands(i) = "REVISE_COMPOSITION" => i.round <= pl.max_composition_revisions

\* Two items that must not be pending together: of one route, or one of them of the run.
Conflict(x, y) ==
    /\ x.kind # "TOOL_REQUEST" /\ y.kind # "TOOL_REQUEST"
    /\ x.route = y.route \/ x.route = NoRoute \/ y.route = NoRoute

Continues(i, r) == i.kind # "TOOL_REQUEST" /\ i.route = r

\* The queue q and the batch b continue the routes rt.
Sound(pl, rt, q, b) ==
    /\ rt \in [Routes -> RouteState] /\ q \in Seq(WorkItem) /\ b \in Seq(WorkItem)
    /\ \A r \in Routes : rt[r].round <= pl.max_route_revisions
    /\ \A k \in 1..Len(q) : ItemOk(pl, rt, q[k])
    /\ \A k \in 1..Len(b) : ItemOk(pl, rt, b[k]) /\ b[k].kind = "FALSIFY_ROUTE"
    /\ \A j, k \in 1..Len(q) : j # k => ~Conflict(q[j], q[k])
    /\ \A j, k \in 1..Len(b) : j # k => ~Conflict(b[j], b[k])
    /\ \A j \in 1..Len(b), k \in 1..Len(q) : ~Conflict(b[j], q[k])
    /\ \A r \in Routes : Live(rt, r) => \/ \E k \in 1..Len(q) : Continues(q[k], r)
                                        \/ \E k \in 1..Len(b) : Continues(b[k], r)
    /\ Len(q) > 0 => q[Len(q)].kind # "TOOL_REQUEST"
    /\ \A k \in 1..Len(q) : Reopens(rt, q[k]) =>
           /\ b = <<>>
           /\ \A j \in 1..Len(q) : j < k => Stands(q[j]) \in {"REVISE_ROUTE", "TOOL_REQUEST"}

\* Machine evidence of a route at its audit or beyond is of its last revision.
Evidence(rt) ==
    \A r \in Routes : rt[r].status \in {"SEMANTIC_AUDIT", "READY"} /\ rt[r].machine
                          => rt[r].verified = rt[r].round

Concluded(cp) ==
    cp.outcome \in {"PROVED_CANDIDATE", "DISPROVED_CANDIDATE"} =>
        /\ cp.review = "ACCEPTED" /\ cp.closed
        /\ cp.judged = Progress(cp.routes, cp.comp)
        /\ ReadyVerified(cp) # {}

\* An accepted review is followed by the synthesis of what was reviewed, nothing else.
Accepted(cp) ==
    cp.review = "ACCEPTED" /\ cp.outcome = "NONE" =>
        /\ cp.judged = Progress(cp.routes, cp.comp)
        /\ \E k \in 1..Len(cp.queue) : Stands(cp.queue[k]) = "FINAL_SYNTHESIS"

Good(pl, cp, b) ==
    /\ cp \in Checkpoint
    /\ cp.comp <= pl.max_composition_revisions
    /\ Sound(pl, cp.routes, cp.queue, b)
    /\ b # <<>> => cp.status = "RUNNING"
    /\ cp.status \in {"WAITING_HUMAN_REVIEW", "COMPLETED"} => cp.queue = <<>>
    /\ cp.status = "PAUSED" /\ cp.reason \in {"BUDGET_EXHAUSTED", "RUNTIME_UNAVAILABLE"}
           => cp.queue # <<>>
    /\ cp.outcome # "NONE" => cp.status = "COMPLETED"
    /\ Evidence(cp.routes)
    /\ Accepted(cp)
    /\ Concluded(cp)

\* What a process has in memory; only one at work has a batch.
ProcRow ==
    {u \in [pc : {"idle", "starting", "working"}, cp : Checkpoint, batch : Seq(WorkItem)] :
        u.pc # "working" => u.batch = <<>>}

AllGood(pl, f) ==
    f \in [Procs -> ProcRow] /\ \A p \in Procs : Good(pl, f[p].cp, f[p].batch)

IInv ==
    /\ plan \in Plans
    /\ prepared \in 0..3 /\ moved \in BOOLEAN /\ amended \in Nat
    /\ reviews \in 0..plan.max_reviews /\ mishaps \in 0..MaxMishaps
    /\ AllGood(plan, proc)
    /\ Exists => Good(plan, file, <<>>)

-----------------------------------------------------------------------------
(* Sequences *)

\* A sequence with an item put in front.
LEMMA Prepended ==
    ASSUME NEW S, NEW x \in S, NEW s \in Seq(S), NEW t, t = <<x>> \o s
    PROVE  /\ t \in Seq(S) /\ Len(s) \in Nat /\ Len(t) = Len(s) + 1 /\ t[1] = x
           /\ \A k \in 1..Len(s) : k + 1 \in 1..Len(t) /\ t[k + 1] = s[k]
           /\ \A k \in 1..Len(t) : k # 1 => k - 1 \in 1..Len(s) /\ t[k] = s[k - 1]
<1>1. <<x>> \in Seq(S) /\ Len(<<x>>) = 1 /\ <<x>>[1] = x
  OBVIOUS
<1>2. PICK n \in Nat : n = Len(s)
  BY LenProperties
<1>3. /\ t \in Seq(S) /\ Len(t) = 1 + n
      /\ \A k \in 1..(1 + n) : t[k] = IF k <= 1 THEN <<x>>[k] ELSE s[k - 1]
  BY <1>1, <1>2, ConcatProperties
<1>4. t[1] = x
  BY <1>1, <1>3
<1>5. ASSUME NEW k \in 1..n PROVE k + 1 \in 1..(n + 1) /\ t[k + 1] = s[k]
  <2>1. k + 1 \in 1..(1 + n) /\ ~(k + 1 <= 1) /\ (k + 1) - 1 = k
    OBVIOUS
  <2> QED BY <1>3, <2>1
<1>6. ASSUME NEW k \in 1..(n + 1), k # 1 PROVE k - 1 \in 1..n /\ t[k] = s[k - 1]
  <2>1. k \in 1..(1 + n) /\ ~(k <= 1) /\ k - 1 \in 1..n
    BY <1>6
  <2> QED BY <1>3, <2>1
<1>7. Len(t) = n + 1
  BY <1>3
<1> QED BY <1>2, <1>3, <1>4, <1>5, <1>6, <1>7

\* A sequence is its head put in front of the rest.
LEMMA HeadInFront ==
    ASSUME NEW S, NEW s \in Seq(S), s # <<>>
    PROVE  /\ Head(s) \in S /\ Tail(s) \in Seq(S) /\ s = <<Head(s)>> \o Tail(s) /\ Head(s) = s[1]
           /\ Len(s) \in Nat /\ Len(s) >= 1
<1>1. Head(s) \in S /\ Tail(s) \in Seq(S)
  BY HeadTailProperties
<1>2. PICK n \in Nat : n = Len(s) /\ n >= 1 /\ Len(Tail(s)) = n - 1
  BY HeadTailProperties, LenProperties, EmptySeq
<1>3. \A i \in 1..(n - 1) : Tail(s)[i] = s[i + 1]
  BY <1>2, HeadTailProperties
<1>4. Head(s) = s[1]
  BY <1>2
<1> DEFINE t == <<Head(s)>> \o Tail(s)
<1>5. /\ t \in Seq(S) /\ Len(t) = (n - 1) + 1 /\ t[1] = Head(s)
      /\ \A k \in 1..((n - 1) + 1) : k # 1 => k - 1 \in 1..(n - 1) /\ t[k] = Tail(s)[k - 1]
  BY <1>1, <1>2, Prepended
<1> HIDE DEF t
<1>6. ASSUME NEW k \in 1..n PROVE s[k] = t[k]
  <2>1. CASE k = 1
    BY <1>4, <1>5, <2>1
  <2>2. CASE k # 1
    <3>1. k - 1 \in 1..(n - 1) /\ (k - 1) + 1 = k /\ k \in 1..((n - 1) + 1)
      BY <2>2
    <3> QED BY <1>3, <1>5, <2>2, <3>1
  <2> QED BY <2>1, <2>2
<1>7. Len(t) = Len(s)
  BY <1>2, <1>5
<1>8. s = t
  BY <1>2, <1>5, <1>6, <1>7, SeqEqual
<1> QED BY <1>1, <1>2, <1>4, <1>8 DEF t

-----------------------------------------------------------------------------
(* Queues *)

\* What Sound says of a queue that begins with the item i.
Headed(pl, rt, i, q, b) ==
    /\ rt \in [Routes -> RouteState] /\ q \in Seq(WorkItem) /\ b \in Seq(WorkItem)
    /\ \A r \in Routes : rt[r].round <= pl.max_route_revisions
    /\ ItemOk(pl, rt, i)
    /\ \A k \in 1..Len(q) : ItemOk(pl, rt, q[k])
    /\ \A k \in 1..Len(b) : ItemOk(pl, rt, b[k]) /\ b[k].kind = "FALSIFY_ROUTE"
    /\ \A k \in 1..Len(q) : ~Conflict(i, q[k])
    /\ \A k \in 1..Len(b) : ~Conflict(i, b[k])
    /\ \A j, k \in 1..Len(q) : j # k => ~Conflict(q[j], q[k])
    /\ \A j, k \in 1..Len(b) : j # k => ~Conflict(b[j], b[k])
    /\ \A j \in 1..Len(b), k \in 1..Len(q) : ~Conflict(b[j], q[k])
    /\ \A r \in Routes : Live(rt, r) => \/ Continues(i, r)
                                        \/ \E k \in 1..Len(q) : Continues(q[k], r)
                                        \/ \E k \in 1..Len(b) : Continues(b[k], r)
    /\ Len(q) > 0 => q[Len(q)].kind # "TOOL_REQUEST"
    /\ Len(q) = 0 => i.kind # "TOOL_REQUEST"
    /\ Reopens(rt, i) => b = <<>>
    /\ \A k \in 1..Len(q) : Reopens(rt, q[k]) =>
           /\ b = <<>>
           /\ Stands(i) \in {"REVISE_ROUTE", "TOOL_REQUEST"}
           /\ \A j \in 1..Len(q) : j < k => Stands(q[j]) \in {"REVISE_ROUTE", "TOOL_REQUEST"}

\* Conflict does not depend on which of the two items comes first.
LEMMA ConflictSymmetric ==
    ASSUME NEW x, NEW y PROVE Conflict(x, y) <=> Conflict(y, x)
BY DEF Conflict

\* A sound queue that begins with an item, taken apart.
LEMMA SoundIsHeaded ==
    ASSUME NEW pl, NEW rt, NEW i, NEW q \in Seq(WorkItem), NEW b, i \in WorkItem,
           NEW t, t = <<i>> \o q, Sound(pl, rt, t, b)
    PROVE  Headed(pl, rt, i, q, b)
<1>1. PICK n \in Nat : n = Len(q)
  BY LenProperties
<1>2. /\ t \in Seq(WorkItem) /\ Len(t) = n + 1 /\ t[1] = i
      /\ \A k \in 1..n : k + 1 \in 1..(n + 1) /\ t[k + 1] = q[k]
  BY <1>1, Prepended
<1>3. 1 \in 1..(n + 1)
  OBVIOUS
<1>4. ItemOk(pl, rt, i) /\ (Reopens(rt, i) => b = <<>>)
  BY <1>2, <1>3 DEF Sound
<1>5. ASSUME NEW k \in 1..n
      PROVE  /\ ItemOk(pl, rt, q[k]) /\ ~Conflict(i, q[k])
             /\ \A j \in 1..Len(b) : ~Conflict(b[j], q[k])
  <2>1. k + 1 \in 1..(n + 1) /\ t[k + 1] = q[k] /\ k + 1 # 1
    BY <1>2
  <2> QED BY <1>2, <1>3, <2>1 DEF Sound
<1>6. ASSUME NEW k \in 1..Len(b) PROVE ~Conflict(i, b[k])
  <2>1. ~Conflict(b[k], t[1])
    BY <1>2, <1>3 DEF Sound
  <2> QED BY <1>2, <2>1, ConflictSymmetric
<1>7. ASSUME NEW j \in 1..n, NEW k \in 1..n, j # k PROVE ~Conflict(q[j], q[k])
  <2>1. k + 1 \in 1..(n + 1) /\ t[k + 1] = q[k] /\ j + 1 \in 1..(n + 1) /\ t[j + 1] = q[j] /\ j + 1 # k + 1
    BY <1>2, <1>7
  <2> QED BY <1>2, <2>1 DEF Sound
<1>8. ASSUME NEW r \in Routes, Live(rt, r)
      PROVE  \/ Continues(i, r)
             \/ \E k \in 1..n : Continues(q[k], r)
             \/ \E k \in 1..Len(b) : Continues(b[k], r)
  <2>1. CASE \E k \in 1..Len(b) : Continues(b[k], r)
    BY <2>1
  <2>2. CASE \E k \in 1..(n + 1) : Continues(t[k], r)
    <3>1. PICK k \in 1..(n + 1) : Continues(t[k], r)
      BY <2>2
    <3>2. CASE k = 1
      BY <1>2, <3>1, <3>2
    <3>3. CASE k # 1
      <4>1. PICK m \in 1..n : m = k - 1 /\ m + 1 = k
        BY <3>3
      <4>2. t[k] = q[m]
        BY <1>2, <4>1
      <4> QED BY <3>1, <4>2
    <3> QED BY <3>2, <3>3
  <2> QED BY <1>2, <1>8, <2>1, <2>2 DEF Sound
<1>9. (n > 0 => q[n].kind # "TOOL_REQUEST") /\ (n = 0 => i.kind # "TOOL_REQUEST")
  <2>1. t[n + 1].kind # "TOOL_REQUEST"
    BY <1>2 DEF Sound
  <2>2. CASE n = 0
    BY <1>2, <2>1, <2>2
  <2>3. CASE n > 0
    <3>1. n \in 1..n
      BY <2>3
    <3> QED BY <1>2, <2>1, <2>3, <3>1
  <2> QED BY <2>2, <2>3
<1>10. ASSUME NEW k \in 1..n, Reopens(rt, q[k])
       PROVE  /\ b = <<>>
              /\ Stands(i) \in {"REVISE_ROUTE", "TOOL_REQUEST"}
              /\ \A j \in 1..n : j < k => Stands(q[j]) \in {"REVISE_ROUTE", "TOOL_REQUEST"}
  <2>1. PICK m \in 1..(n + 1) : m = k + 1 /\ t[m] = q[k] /\ m > 1
    BY <1>2
  <2>2. Reopens(rt, t[m])
    BY <1>10, <2>1
  <2>3. b = <<>> /\ \A j \in 1..(n + 1) : j < m => Stands(t[j]) \in {"REVISE_ROUTE", "TOOL_REQUEST"}
    BY <1>2, <2>2 DEF Sound
  <2>4. Stands(t[1]) \in {"REVISE_ROUTE", "TOOL_REQUEST"}
    BY <1>3, <2>1, <2>3
  <2>5. ASSUME NEW j \in 1..n, j < k PROVE Stands(q[j]) \in {"REVISE_ROUTE", "TOOL_REQUEST"}
    <3>1. PICK l \in 1..(n + 1) : l = j + 1 /\ t[l] = q[j] /\ l < m
      BY <1>2, <2>1, <2>5
    <3>2. Stands(t[l]) \in {"REVISE_ROUTE", "TOOL_REQUEST"}
      BY <2>3, <3>1
    <3> QED BY <3>1, <3>2
  <2> QED BY <1>2, <2>3, <2>4, <2>5
<1>11. /\ rt \in [Routes -> RouteState] /\ b \in Seq(WorkItem)
       /\ \A r \in Routes : rt[r].round <= pl.max_route_revisions
       /\ \A k \in 1..Len(b) : ItemOk(pl, rt, b[k]) /\ b[k].kind = "FALSIFY_ROUTE"
       /\ \A j, k \in 1..Len(b) : j # k => ~Conflict(b[j], b[k])
  BY DEF Sound
<1> QED BY <1>1, <1>4, <1>5, <1>6, <1>7, <1>8, <1>9, <1>10, <1>11 DEF Headed

\* ... and put together.
LEMMA HeadedIsSound ==
    ASSUME NEW pl, NEW rt, NEW i, NEW q, NEW b, i \in WorkItem,
           Headed(pl, rt, i, q, b)
    PROVE  Sound(pl, rt, <<i>> \o q, b)
<1> DEFINE t == <<i>> \o q
<1>1. q \in Seq(WorkItem)
  BY DEF Headed
<1>2. PICK n \in Nat : n = Len(q)
  BY <1>1, LenProperties
<1>3. /\ t \in Seq(WorkItem) /\ Len(t) = n + 1 /\ t[1] = i
      /\ \A k \in 1..(n + 1) : k # 1 => k - 1 \in 1..n /\ t[k] = q[k - 1]
  BY <1>1, <1>2, Prepended
<1>33. \A k \in 1..n : k + 1 \in 1..(n + 1) /\ t[k + 1] = q[k]
  BY <1>1, <1>2, Prepended
<1> HIDE DEF t
<1>4. ASSUME NEW k \in 1..(n + 1)
      PROVE  (k = 1 /\ t[k] = i) \/ \E m \in 1..n : k = m + 1 /\ t[k] = q[m]
  <2>1. CASE k = 1
    BY <1>3, <2>1
  <2>2. CASE k # 1
    <3>1. PICK m \in 1..n : m = k - 1 /\ t[k] = q[m]
      BY <1>3, <2>2
    <3> QED BY <3>1
  <2> QED BY <2>1, <2>2
<1>5. ASSUME NEW k \in 1..(n + 1) PROVE ItemOk(pl, rt, t[k])
  BY <1>2, <1>4 DEF Headed
<1>6. ASSUME NEW j \in 1..(n + 1), NEW k \in 1..(n + 1), j # k PROVE ~Conflict(t[j], t[k])
  <2>1. CASE j = 1 /\ t[j] = i
    <3>1. PICK m \in 1..n : k = m + 1 /\ t[k] = q[m]
      BY <1>4, <1>6, <2>1
    <3> QED BY <1>2, <2>1, <3>1 DEF Headed
  <2>2. CASE k = 1 /\ t[k] = i
    <3>1. PICK m \in 1..n : j = m + 1 /\ t[j] = q[m]
      BY <1>4, <1>6, <2>2
    <3>2. ~Conflict(i, q[m])
      BY <1>2 DEF Headed
    <3> QED BY <2>2, <3>1, <3>2, ConflictSymmetric
  <2>3. CASE ~(j = 1 /\ t[j] = i) /\ ~(k = 1 /\ t[k] = i)
    <3>1. PICK m \in 1..n : k = m + 1 /\ t[k] = q[m]
      BY <1>4, <2>3
    <3>2. PICK l \in 1..n : j = l + 1 /\ t[j] = q[l]
      BY <1>4, <2>3
    <3>3. l # m
      BY <1>6, <3>1, <3>2
    <3> QED BY <1>2, <3>1, <3>2, <3>3 DEF Headed
  <2> QED BY <2>1, <2>2, <2>3
<1>7. ASSUME NEW j \in 1..Len(b), NEW k \in 1..(n + 1) PROVE ~Conflict(b[j], t[k])
  <2>1. ~Conflict(b[j], i)
    <3>1. ~Conflict(i, b[j])
      BY DEF Headed
    <3> QED BY <3>1, ConflictSymmetric
  <2>2. \A m \in 1..n : ~Conflict(b[j], q[m])
    BY <1>2 DEF Headed
  <2> QED BY <1>4, <2>1, <2>2
<1>8. ASSUME NEW r \in Routes, Live(rt, r)
      PROVE  \/ \E k \in 1..(n + 1) : Continues(t[k], r)
             \/ \E k \in 1..Len(b) : Continues(b[k], r)
  <2>1. CASE Continues(i, r)
    <3>1. 1 \in 1..(n + 1)
      OBVIOUS
    <3> QED BY <1>3, <2>1, <3>1
  <2>2. CASE \E k \in 1..n : Continues(q[k], r)
    <3>1. PICK k \in 1..n : Continues(q[k], r)
      BY <2>2
    <3>2. PICK m \in 1..(n + 1) : m = k + 1 /\ t[m] = q[k]
      BY <1>33
    <3> QED BY <3>1, <3>2
  <2> QED BY <1>2, <1>8, <2>1, <2>2 DEF Headed
<1>9. t[n + 1].kind # "TOOL_REQUEST"
  <2>1. CASE n = 0
    BY <1>2, <1>3, <2>1 DEF Headed
  <2>2. CASE n > 0
    <3>1. n + 1 \in 1..(n + 1) /\ n + 1 # 1 /\ (n + 1) - 1 = n
      BY <2>2
    <3>2. t[n + 1] = q[n]
      BY <1>3, <3>1
    <3> QED BY <1>2, <2>2, <3>2 DEF Headed
  <2> QED BY <2>1, <2>2
<1>10. ASSUME NEW k \in 1..(n + 1), Reopens(rt, t[k])
       PROVE  /\ b = <<>>
              /\ \A j \in 1..(n + 1) : j < k => Stands(t[j]) \in {"REVISE_ROUTE", "TOOL_REQUEST"}
  <2>1. CASE k = 1 /\ t[k] = i
    <3>1. b = <<>>
      BY <1>10, <2>1 DEF Headed
    <3> QED BY <2>1, <3>1
  <2>2. CASE \E m \in 1..n : k = m + 1 /\ t[k] = q[m]
    <3>1. PICK m \in 1..n : k = m + 1 /\ t[k] = q[m]
      BY <2>2
    <3>2. Reopens(rt, q[m])
      BY <1>10, <3>1
    <3>3. /\ b = <<>> /\ Stands(i) \in {"REVISE_ROUTE", "TOOL_REQUEST"}
          /\ \A j \in 1..n : j < m => Stands(q[j]) \in {"REVISE_ROUTE", "TOOL_REQUEST"}
      BY <1>2, <3>2 DEF Headed
    <3>4. ASSUME NEW j \in 1..(n + 1), j < k PROVE Stands(t[j]) \in {"REVISE_ROUTE", "TOOL_REQUEST"}
      <4>1. CASE j = 1 /\ t[j] = i
        BY <3>3, <4>1
      <4>2. CASE \E l \in 1..n : j = l + 1 /\ t[j] = q[l]
        <5>1. PICK l \in 1..n : j = l + 1 /\ t[j] = q[l]
          BY <4>2
        <5>2. l < m
          BY <3>1, <3>4, <5>1
        <5> QED BY <3>3, <5>1, <5>2
      <4> QED BY <1>4, <4>1, <4>2
    <3> QED BY <3>3, <3>4
  <2> QED BY <1>4, <2>1, <2>2
<1>11. /\ rt \in [Routes -> RouteState] /\ b \in Seq(WorkItem)
       /\ \A r \in Routes : rt[r].round <= pl.max_route_revisions
       /\ \A k \in 1..Len(b) : ItemOk(pl, rt, b[k]) /\ b[k].kind = "FALSIFY_ROUTE"
       /\ \A j, k \in 1..Len(b) : j # k => ~Conflict(b[j], b[k])
  BY DEF Headed
<1>12. Sound(pl, rt, t, b)
  BY <1>3, <1>5, <1>6, <1>7, <1>8, <1>9, <1>10, <1>11 DEF Sound
<1> QED BY <1>12 DEF t

\* Work taken from the front of a batch, seen as the head of the queue.
LEMMA TakenFromBatch ==
    ASSUME NEW pl, NEW rt, NEW i, NEW q, NEW b, NEW c \in Seq(WorkItem), i \in WorkItem,
           b = <<i>> \o c, Sound(pl, rt, q, b)
    PROVE  Headed(pl, rt, i, q, c)
<1>1. PICK n \in Nat : n = Len(c)
  BY LenProperties
<1>2. /\ Len(b) = n + 1 /\ b[1] = i
      /\ \A k \in 1..n : k + 1 \in 1..(n + 1) /\ b[k + 1] = c[k]
  BY <1>1, Prepended
<1>3. 1 \in 1..(n + 1) /\ q \in Seq(WorkItem) /\ b # <<>>
  BY <1>2 DEF Sound
<1>4. ItemOk(pl, rt, i) /\ i.kind = "FALSIFY_ROUTE"
  BY <1>2, <1>3 DEF Sound
<1>5. \A k \in 1..Len(q) : ~Reopens(rt, q[k])
  BY <1>3 DEF Sound
<1>6. ~Reopens(rt, i)
  BY <1>4 DEF Reopens, Stands
<1>7. \A k \in 1..Len(q) : ~Conflict(i, q[k])
  BY <1>2, <1>3 DEF Sound
<1>8. ASSUME NEW k \in 1..n
      PROVE  /\ ItemOk(pl, rt, c[k]) /\ c[k].kind = "FALSIFY_ROUTE" /\ ~Conflict(i, c[k])
             /\ \A j \in 1..Len(q) : ~Conflict(c[k], q[j])
  <2>1. k + 1 \in 1..(n + 1) /\ b[k + 1] = c[k] /\ k + 1 # 1
    BY <1>2
  <2> QED BY <1>2, <1>3, <2>1 DEF Sound
<1>9. ASSUME NEW j \in 1..n, NEW k \in 1..n, j # k PROVE ~Conflict(c[j], c[k])
  <2>1. k + 1 \in 1..(n + 1) /\ b[k + 1] = c[k] /\ j + 1 \in 1..(n + 1) /\ b[j + 1] = c[j] /\ j + 1 # k + 1
    BY <1>2, <1>9
  <2> QED BY <1>2, <2>1 DEF Sound
<1>10. ASSUME NEW r \in Routes, Live(rt, r)
      PROVE  \/ Continues(i, r)
             \/ \E k \in 1..Len(q) : Continues(q[k], r)
             \/ \E k \in 1..n : Continues(c[k], r)
  <2>1. CASE \E k \in 1..Len(q) : Continues(q[k], r)
    BY <2>1
  <2>2. CASE \E k \in 1..(n + 1) : Continues(b[k], r)
    <3>1. PICK k \in 1..(n + 1) : Continues(b[k], r)
      BY <2>2
    <3>2. CASE k = 1
      BY <1>2, <3>1, <3>2
    <3>3. CASE k # 1
      <4>1. PICK m \in 1..n : m = k - 1 /\ m + 1 = k
        BY <3>3
      <4>2. b[k] = c[m]
        BY <1>2, <4>1
      <4> QED BY <3>1, <4>2
    <3> QED BY <3>2, <3>3
  <2> QED BY <1>2, <1>10, <2>1, <2>2 DEF Sound
<1>11. /\ rt \in [Routes -> RouteState]
       /\ \A r \in Routes : rt[r].round <= pl.max_route_revisions
       /\ \A k \in 1..Len(q) : ItemOk(pl, rt, q[k])
       /\ \A j, k \in 1..Len(q) : j # k => ~Conflict(q[j], q[k])
       /\ Len(q) > 0 => q[Len(q)].kind # "TOOL_REQUEST"
  BY DEF Sound
<1>12. i.kind # "TOOL_REQUEST"
  BY <1>4
<1> QED BY <1>1, <1>3, <1>4, <1>5, <1>6, <1>7, <1>8, <1>9, <1>10, <1>11, <1>12 DEF Headed

\* An item replaced by one that stands for the same work.
LEMMA AlikeInFront ==
    ASSUME NEW pl, NEW rt, NEW i, NEW j, NEW q, NEW b,
           Headed(pl, rt, i, q, b), i.kind # "TOOL_REQUEST",
           j \in WorkItem, j.kind # "TOOL_REQUEST",
           Stands(j) = Stands(i), j.route = i.route, j.round = i.round,
           (j.kind = "INTEGRATE_TOOLS") = (j.parent # "NONE")
    PROVE  Headed(pl, rt, j, q, b)
<1>1. ItemOk(pl, rt, j)
  BY DEF Headed, ItemOk, Reopens
<1>2. \A x : Conflict(j, x) = Conflict(i, x)
  BY DEF Conflict
<1>3. \A r : Continues(j, r) = Continues(i, r)
  BY DEF Continues
<1>4. Reopens(rt, j) = Reopens(rt, i)
  BY DEF Reopens
<1> QED BY <1>1, <1>2, <1>3, <1>4 DEF Headed

\* A tool request is put before the work that asks for it.
LEMMA ToolInFront ==
    ASSUME NEW pl, NEW rt, NEW i, NEW t, NEW q, NEW b,
           Headed(pl, rt, i, q, b), i \in WorkItem, i.kind # "TOOL_REQUEST",
           t \in WorkItem, t.kind = "TOOL_REQUEST", t.parent = "NONE"
    PROVE  Headed(pl, rt, t, <<i>> \o q, b)
<1>1. PICK s : s = <<i>> \o q
  OBVIOUS
<1>2. Sound(pl, rt, s, b)
  BY <1>1, HeadedIsSound
<1>3. q \in Seq(WorkItem)
  BY DEF Headed
<1>4. Len(s) \in Nat /\ Len(s) > 0 /\ Len(s) # 0
  BY <1>1, <1>3, Prepended
<1>5. Stands(t) = "TOOL_REQUEST"
  BY DEF Stands
<1>6. ItemOk(pl, rt, t)
  BY <1>5 DEF ItemOk, RouteWork, RunWork
<1>7. \A x : ~Conflict(t, x)
  BY DEF Conflict
<1>8. ~Reopens(rt, t)
  BY <1>5 DEF Reopens
<1>9. Headed(pl, rt, t, s, b)
  BY <1>2, <1>4, <1>5, <1>6, <1>7, <1>8 DEF Headed, Sound
<1> QED BY <1>1, <1>9

\* ... and taken away when it is answered.
LEMMA ToolTaken ==
    ASSUME NEW pl, NEW rt, NEW t, NEW q, NEW b,
           Headed(pl, rt, t, q, b), t.kind = "TOOL_REQUEST"
    PROVE  Sound(pl, rt, q, b)
<1>1. \A r : ~Continues(t, r)
  BY DEF Continues
<1> QED BY <1>1 DEF Headed, Sound

\* The work of a route is replaced by the next work of the same route, at the end.
LEMMA RouteGoesOn ==
    ASSUME NEW pl, NEW rt, NEW i, NEW q, NEW b, NEW s, NEW u, NEW x,
           Headed(pl, rt, i, q, b), i.kind # "TOOL_REQUEST", i.route \in Routes,
           s \in RouteState, s.round <= pl.max_route_revisions, s.status # "READY",
           u = [rt EXCEPT ![i.route] = s],
           ItemOk(pl, u, x), x.kind # "TOOL_REQUEST", x.route = i.route
    PROVE  Sound(pl, u, Append(q, x), b)
<1>1. PICK r0 \in Routes : r0 = i.route
  OBVIOUS
<1>2. /\ rt \in [Routes -> RouteState] /\ q \in Seq(WorkItem) /\ b \in Seq(WorkItem) /\ x \in WorkItem
  BY DEF Headed, ItemOk
<1>3. u \in [Routes -> RouteState] /\ u[r0] = s /\ \A r \in Routes : r # r0 => u[r] = rt[r]
  BY <1>1, <1>2
<1>4. PICK n \in Nat : n = Len(q)
  BY <1>2, LenProperties
<1> DEFINE t == Append(q, x)
<1>5. /\ t \in Seq(WorkItem) /\ Len(t) = n + 1 /\ t[n + 1] = x
      /\ \A k \in 1..n : t[k] = q[k]
  BY <1>2, <1>4, AppendProperties
<1> HIDE DEF t
<1>6. ASSUME NEW k \in 1..(n + 1) PROVE (k = n + 1 /\ t[k] = x) \/ (k \in 1..n /\ t[k] = q[k])
  <2>0. t[n + 1] = x
    BY <1>5
  <2>1. CASE k = n + 1
    BY <2>0, <2>1
  <2>2. CASE k # n + 1
    <3>1. k \in 1..n
      BY <2>2
    <3> QED BY <1>5, <3>1
  <2> QED BY <2>1, <2>2
<1>7. ASSUME NEW y, ItemOk(pl, rt, y), ~Conflict(i, y)
      PROVE  ItemOk(pl, u, y) /\ Reopens(u, y) = Reopens(rt, y) /\ ~Conflict(x, y)
  <2>0. ~Conflict(x, y)
    BY <1>7 DEF Conflict
  <2>1. CASE Stands(y) \notin RouteWork
    <3>1. Stands(y) # "REVISE_ROUTE"
      BY <2>1 DEF RouteWork
    <3> QED BY <1>7, <2>0, <2>1, <3>1 DEF ItemOk, Reopens
  <2>2. CASE Stands(y) \in RouteWork
    <3>1. y.kind # "TOOL_REQUEST"
      BY <2>2 DEF Stands, RouteWork
    <3>2. y.route \in Routes /\ y.route # r0
      BY <1>1, <1>7, <2>2, <3>1 DEF ItemOk, Conflict
    <3>3. u[y.route] = rt[y.route]
      BY <1>3, <3>2
    <3> QED BY <1>7, <2>0, <3>3 DEF ItemOk, Reopens
  <2> QED BY <2>1, <2>2
<1>8. \A k \in 1..n : ItemOk(pl, rt, q[k]) /\ ~Conflict(i, q[k])
  BY <1>4 DEF Headed
<1>9. \A k \in 1..Len(b) : ItemOk(pl, rt, b[k]) /\ ~Conflict(i, b[k]) /\ b[k].kind = "FALSIFY_ROUTE"
  BY DEF Headed
<1>10. \A k \in 1..(n + 1) : ItemOk(pl, u, t[k])
  BY <1>6, <1>7, <1>8
<1>11. \A k \in 1..Len(b) : ItemOk(pl, u, b[k]) /\ b[k].kind = "FALSIFY_ROUTE" /\ ~Conflict(x, b[k])
  BY <1>7, <1>9
<1>12. ASSUME NEW j \in 1..(n + 1), NEW k \in 1..(n + 1), j # k PROVE ~Conflict(t[j], t[k])
  <2>1. CASE j \in 1..n /\ t[j] = q[j] /\ k \in 1..n /\ t[k] = q[k]
    BY <1>4, <1>12, <2>1 DEF Headed
  <2>2. CASE j = n + 1 /\ t[j] = x /\ k \in 1..n /\ t[k] = q[k]
    BY <1>7, <1>8, <2>2
  <2>3. CASE j \in 1..n /\ t[j] = q[j] /\ k = n + 1 /\ t[k] = x
    BY <1>7, <1>8, <2>3, ConflictSymmetric
  <2> QED BY <1>6, <1>12, <2>1, <2>2, <2>3
<1>13. ASSUME NEW j \in 1..Len(b), NEW k \in 1..(n + 1) PROVE ~Conflict(b[j], t[k])
  <2>1. CASE k \in 1..n /\ t[k] = q[k]
    BY <1>4, <2>1 DEF Headed
  <2>2. CASE k = n + 1 /\ t[k] = x
    BY <1>11, <2>2, ConflictSymmetric
  <2> QED BY <1>6, <2>1, <2>2
<1>14. ASSUME NEW r \in Routes, Live(u, r)
       PROVE  \/ \E k \in 1..(n + 1) : Continues(t[k], r)
              \/ \E k \in 1..Len(b) : Continues(b[k], r)
  <2>1. CASE r = r0
    <3>1. Continues(t[n + 1], r) /\ n + 1 \in 1..(n + 1)
      BY <1>1, <1>5, <2>1 DEF Continues
    <3> QED BY <3>1
  <2>2. CASE r # r0
    <3>1. Live(rt, r)
      BY <1>3, <1>14, <2>2 DEF Live
    <3>2. ~Continues(i, r)
      BY <1>1, <2>2 DEF Continues
    <3>3. CASE \E k \in 1..n : Continues(q[k], r)
      <4>1. PICK k \in 1..n : Continues(q[k], r)
        BY <3>3
      <4>2. Continues(t[k], r) /\ k \in 1..(n + 1)
        BY <1>5, <4>1
      <4> QED BY <4>2
    <3>4. CASE \E k \in 1..Len(b) : Continues(b[k], r)
      BY <3>4
    <3> QED BY <1>4, <3>1, <3>2, <3>3, <3>4 DEF Headed
  <2> QED BY <2>1, <2>2
<1>15. t[n + 1].kind # "TOOL_REQUEST"
  BY <1>5
<1>16. ~Reopens(u, x)
  BY <1>1, <1>3 DEF Reopens
<1>17. ASSUME NEW k \in 1..(n + 1), Reopens(u, t[k])
       PROVE  /\ b = <<>>
              /\ \A j \in 1..(n + 1) : j < k => Stands(t[j]) \in {"REVISE_ROUTE", "TOOL_REQUEST"}
  <2>1. k \in 1..n /\ t[k] = q[k]
    BY <1>6, <1>16, <1>17
  <2>2. Reopens(rt, q[k])
    BY <1>7, <1>8, <1>17, <2>1
  <2>3. b = <<>> /\ \A j \in 1..n : j < k => Stands(q[j]) \in {"REVISE_ROUTE", "TOOL_REQUEST"}
    BY <1>4, <2>1, <2>2 DEF Headed
  <2>4. \A j \in 1..(n + 1) : j < k => j \in 1..n /\ t[j] = q[j]
    BY <1>5, <2>1
  <2> QED BY <2>3, <2>4
<1>18. \A r \in Routes : u[r].round <= pl.max_route_revisions
  BY <1>3 DEF Headed
<1>19. \A j, k \in 1..Len(b) : j # k => ~Conflict(b[j], b[k])
  BY DEF Headed
<1>20. Sound(pl, u, t, b)
  BY <1>2, <1>3, <1>5, <1>10, <1>11, <1>12, <1>13, <1>14, <1>15, <1>17, <1>18, <1>19 DEF Sound
<1> QED BY <1>20 DEF t

\* The work of a route that comes to an end is not replaced.
LEMMA RouteComesToItsEnd ==
    ASSUME NEW pl, NEW rt, NEW i, NEW q, NEW b, NEW s, NEW u,
           Headed(pl, rt, i, q, b), i.kind # "TOOL_REQUEST", i.route \in Routes,
           s \in RouteState, s.round <= pl.max_route_revisions, s.status \in Terminal,
           u = [rt EXCEPT ![i.route] = s]
    PROVE  Sound(pl, u, q, b)
<1>1. PICK r0 \in Routes : r0 = i.route
  OBVIOUS
<1>2. /\ rt \in [Routes -> RouteState] /\ q \in Seq(WorkItem) /\ b \in Seq(WorkItem)
  BY DEF Headed
<1>3. u \in [Routes -> RouteState] /\ u[r0] = s /\ \A r \in Routes : r # r0 => u[r] = rt[r]
  BY <1>1, <1>2
<1>7. ASSUME NEW y, ItemOk(pl, rt, y), ~Conflict(i, y)
      PROVE  ItemOk(pl, u, y) /\ Reopens(u, y) = Reopens(rt, y)
  <2>1. CASE Stands(y) \notin RouteWork
    <3>1. Stands(y) # "REVISE_ROUTE"
      BY <2>1 DEF RouteWork
    <3> QED BY <1>7, <2>1, <3>1 DEF ItemOk, Reopens
  <2>2. CASE Stands(y) \in RouteWork
    <3>1. y.kind # "TOOL_REQUEST"
      BY <2>2 DEF Stands, RouteWork
    <3>2. y.route \in Routes /\ y.route # r0
      BY <1>1, <1>7, <2>2, <3>1 DEF ItemOk, Conflict
    <3>3. u[y.route] = rt[y.route]
      BY <1>3, <3>2
    <3> QED BY <1>7, <3>3 DEF ItemOk, Reopens
  <2> QED BY <2>1, <2>2
<1>8. \A k \in 1..Len(q) : ItemOk(pl, rt, q[k]) /\ ~Conflict(i, q[k])
  BY DEF Headed
<1>9. \A k \in 1..Len(b) : ItemOk(pl, rt, b[k]) /\ ~Conflict(i, b[k]) /\ b[k].kind = "FALSIFY_ROUTE"
  BY DEF Headed
<1>10. \A k \in 1..Len(q) : ItemOk(pl, u, q[k]) /\ Reopens(u, q[k]) = Reopens(rt, q[k])
  BY <1>7, <1>8
<1>11. \A k \in 1..Len(b) : ItemOk(pl, u, b[k]) /\ b[k].kind = "FALSIFY_ROUTE"
  BY <1>7, <1>9
<1>12. \A r \in Routes : Live(u, r) => Live(rt, r) /\ ~Continues(i, r)
  BY <1>1, <1>3 DEF Live, Continues
<1>13. \A r \in Routes : u[r].round <= pl.max_route_revisions
  BY <1>3 DEF Headed
<1> QED BY <1>2, <1>3, <1>10, <1>11, <1>12, <1>13 DEF Headed, Sound

\* The work of the run is pending alone, and no route is unfinished then.
LEMMA RunWorkIsAlone ==
    ASSUME NEW pl, NEW rt, NEW i, NEW q, NEW b,
           Headed(pl, rt, i, q, b), i.kind # "TOOL_REQUEST", i.route = NoRoute
    PROVE  q = <<>> /\ b = <<>> /\ \A r \in Routes : ~Live(rt, r)
<1>1. q \in Seq(WorkItem) /\ b \in Seq(WorkItem)
  BY DEF Headed
<1>2. PICK n \in Nat, m \in Nat : n = Len(q) /\ m = Len(b)
  BY <1>1, LenProperties
<1>3. n = 0
  <2>1. SUFFICES ASSUME n > 0 PROVE FALSE
    OBVIOUS
  <2>2. n \in 1..n /\ q[n].kind # "TOOL_REQUEST"
    BY <1>2, <2>1 DEF Headed
  <2>3. Conflict(i, q[n])
    BY <2>2 DEF Conflict
  <2> QED BY <1>2, <2>2, <2>3 DEF Headed
<1>4. m = 0
  <2>1. SUFFICES ASSUME m > 0 PROVE FALSE
    OBVIOUS
  <2>2. m \in 1..m
    BY <2>1
  <2>3. b[m].kind = "FALSIFY_ROUTE" /\ ~Conflict(i, b[m])
    BY <1>2, <2>2 DEF Headed
  <2> QED BY <2>3 DEF Conflict
<1>5. q = <<>> /\ b = <<>>
  BY <1>1, <1>2, <1>3, <1>4, EmptySeq
<1>6. ASSUME NEW r \in Routes, Live(rt, r) PROVE FALSE
  <2>1. ~Continues(i, r)
    BY ConstantsAssumption DEF Continues
  <2> QED BY <1>2, <1>3, <1>4, <1>6, <2>1 DEF Headed
<1> QED BY <1>5, <1>6

\* A run without unfinished routes may have nothing to do ...
LEMMA NothingPending ==
    ASSUME NEW pl, NEW rt \in [Routes -> RouteState],
           \A r \in Routes : rt[r].round <= pl.max_route_revisions /\ ~Live(rt, r)
    PROVE  Sound(pl, rt, <<>>, <<>>)
<1>1. Len(<<>>) = 0 /\ <<>> \in Seq(WorkItem) /\ \A k \in 1..0 : FALSE
  BY EmptySeq
<1> QED BY <1>1 DEF Sound

\* ... or one work of the run.
LEMMA OneWorkOfTheRun ==
    ASSUME NEW pl, NEW rt \in [Routes -> RouteState], NEW x,
           \A r \in Routes : rt[r].round <= pl.max_route_revisions /\ ~Live(rt, r),
           ItemOk(pl, rt, x), Stands(x) \in RunWork, x.kind # "TOOL_REQUEST"
    PROVE  Sound(pl, rt, <<x>>, <<>>)
<1>1. Len(<<>>) = 0 /\ <<>> \in Seq(WorkItem) /\ \A k \in 1..0 : FALSE
  BY EmptySeq
<1>2. x \in WorkItem /\ ~Reopens(rt, x)
  BY DEF ItemOk, Reopens, RunWork
<1>3. <<x>> \in Seq(WorkItem) /\ Len(<<x>>) = 1 /\ <<x>>[1] = x
  BY <1>2
<1>4. \A k \in 1..1 : k = 1
  OBVIOUS
<1> QED BY <1>1, <1>2, <1>3, <1>4 DEF Sound

-----------------------------------------------------------------------------
(* Batches *)

\* The entries of TR are those of T followed by those of R.
Joined(T, R, TR) ==
    /\ TR \in Seq(WorkItem) /\ Len(TR) = Len(T) + Len(R) /\ Len(T) \in Nat /\ Len(R) \in Nat
    /\ \A k \in 1..Len(TR) : \/ k \in 1..Len(T) /\ TR[k] = T[k]
                             \/ \E i \in 1..Len(R) : k = Len(T) + i /\ TR[k] = R[i]
    /\ \A i \in 1..Len(R) : Len(T) + i \in 1..Len(TR) /\ TR[Len(T) + i] = R[i]
    /\ \A k \in 1..Len(T) : k \in 1..Len(TR) /\ TR[k] = T[k]

\* What a concatenation holds is an entry of the one part or of the other.
LEMMA ConcatEntries ==
    ASSUME NEW T \in Seq(WorkItem), NEW R \in Seq(WorkItem)
    PROVE  Joined(T, R, T \o R)
<1>0. PICK TR : TR = T \o R
  OBVIOUS
<1>1. /\ TR \in Seq(WorkItem) /\ Len(TR) = Len(T) + Len(R) /\ Len(T) \in Nat /\ Len(R) \in Nat
      /\ \A k \in 1 .. Len(TR) : TR[k] = IF k <= Len(T) THEN T[k] ELSE R[k - Len(T)]
  BY <1>0, ConcatProperties, LenProperties
<1> DEFINE n == Len(T)
           m == Len(R)
<1> HIDE DEF n, m
<1>2. n \in Nat /\ m \in Nat /\ Len(TR) = n + m /\ n = Len(T) /\ m = Len(R)
  BY <1>1 DEF n, m
<1>3. ASSUME NEW i \in 1 .. m PROVE n + i \in 1 .. (n + m) /\ TR[n + i] = R[i]
  <2>1. n + i \in 1 .. (n + m) /\ ~(n + i <= n) /\ (n + i) - n = i
    BY <1>2
  <2> QED BY <1>1, <1>2, <2>1
<1>4. ASSUME NEW k \in 1 .. n PROVE k \in 1 .. (n + m) /\ TR[k] = T[k]
  BY <1>1, <1>2, <1>4
<1>5. ASSUME NEW k \in 1 .. (n + m)
      PROVE  \/ k \in 1 .. n /\ TR[k] = T[k]
             \/ \E i \in 1 .. m : k = n + i /\ TR[k] = R[i]
  <2>1. CASE k <= n
    BY <1>2, <1>4, <2>1
  <2>2. CASE ~(k <= n)
    <3>1. k - n \in 1 .. m /\ k = n + (k - n)
      BY <1>2, <2>2
    <3> QED BY <1>3, <3>1
  <2> QED BY <2>1, <2>2
<1>6. Joined(T, R, TR)
  BY <1>1, <1>2, <1>3, <1>4, <1>5 DEF Joined
<1> QED BY <1>0, <1>6

\* Marking items as done changes nothing that Sound looks at.
LEMMA MarkedIsSound ==
    ASSUME NEW pl, NEW rt, NEW q, NEW b, NEW s \in Seq(WorkItem), Sound(pl, rt, q, b),
           Len(s) = Len(q),
           \A k \in 1..Len(q) : /\ s[k].kind = q[k].kind /\ s[k].route = q[k].route
                                /\ s[k].round = q[k].round /\ s[k].parent = q[k].parent
    PROVE  Sound(pl, rt, s, b)
<1>1. PICK n : n = Len(q)
  OBVIOUS
<1>2. \A k \in 1..n : s[k] \in WorkItem
  BY <1>1, ElementOfSeq
<1>3. q \in Seq(WorkItem) /\ n \in Nat
  BY <1>1, LenProperties DEF Sound
<1>4. ASSUME NEW k \in 1..n
      PROVE  /\ Stands(s[k]) = Stands(q[k]) /\ ItemOk(pl, rt, s[k])
             /\ Reopens(rt, s[k]) = Reopens(rt, q[k])
             /\ \A r \in Routes : Continues(s[k], r) = Continues(q[k], r)
             /\ \A y : Conflict(y, s[k]) = Conflict(y, q[k])
  <2>1. Stands(s[k]) = Stands(q[k])
    BY <1>1 DEF Stands
  <2>2. Reopens(rt, s[k]) = Reopens(rt, q[k])
    BY <1>1, <2>1 DEF Reopens
  <2>3. ItemOk(pl, rt, q[k])
    BY <1>1 DEF Sound
  <2>4. ItemOk(pl, rt, s[k])
    BY <1>1, <1>2, <2>1, <2>2, <2>3 DEF ItemOk
  <2>5. \A y : Conflict(y, s[k]) = Conflict(y, q[k])
    BY <1>1 DEF Conflict
  <2>6. \A r \in Routes : Continues(s[k], r) = Continues(q[k], r)
    BY <1>1 DEF Continues
  <2> QED BY <2>1, <2>2, <2>4, <2>5, <2>6
<1>5. ASSUME NEW j \in 1..n, NEW k \in 1..n, j # k PROVE ~Conflict(s[j], s[k])
  <2>1. ~Conflict(q[k], q[j])
    BY <1>1, <1>5 DEF Sound
  <2> QED BY <1>4, <2>1, ConflictSymmetric
<1>6. \A j \in 1..Len(b), k \in 1..n : ~Conflict(b[j], s[k])
  BY <1>1, <1>4 DEF Sound
<1>7. \A r \in Routes : Live(rt, r) => \/ \E k \in 1..n : Continues(s[k], r)
                                       \/ \E k \in 1..Len(b) : Continues(b[k], r)
  BY <1>1, <1>4 DEF Sound
<1>8. n > 0 => s[n].kind # "TOOL_REQUEST"
  <2>1. SUFFICES ASSUME n > 0 PROVE s[n].kind # "TOOL_REQUEST"
    OBVIOUS
  <2>2. n \in 1..n /\ q[n].kind # "TOOL_REQUEST"
    BY <1>1, <1>3, <2>1 DEF Sound
  <2> QED BY <1>1, <2>2
<1>9. \A k \in 1..n : Reopens(rt, s[k]) =>
           /\ b = <<>>
           /\ \A j \in 1..n : j < k => Stands(s[j]) \in {"REVISE_ROUTE", "TOOL_REQUEST"}
  BY <1>1, <1>4 DEF Sound
<1>10. \A k \in 1..n : ItemOk(pl, rt, s[k])
  BY <1>4
<1> QED BY <1>1, <1>5, <1>6, <1>7, <1>8, <1>9, <1>10 DEF Sound

\* The items of a batch, marked as done, put before the rest of a queue.
LEMMA BatchGoesBehindTheHead ==
    ASSUME NEW pl, NEW rt, NEW h, NEW q, NEW b, NEW kept \in Seq(WorkItem), h \in WorkItem,
           Headed(pl, rt, h, q, b), b # <<>>, Len(kept) = Len(b),
           \A k \in 1..Len(b) : /\ kept[k].kind = b[k].kind /\ kept[k].route = b[k].route
                                /\ kept[k].round = b[k].round /\ kept[k].parent = b[k].parent
    PROVE  Headed(pl, rt, h, kept \o q, <<>>)
<1>1. q \in Seq(WorkItem) /\ b \in Seq(WorkItem)
  BY DEF Headed
<1>2. PICK n \in Nat, m \in Nat : n = Len(q) /\ m = Len(b) /\ m > 0
  BY <1>1, LenProperties, EmptySeq
<1>20. PICK t : t = kept \o q
  OBVIOUS
<1>21. Joined(kept, q, t)
  BY <1>1, <1>20, ConcatEntries
<1>3. /\ t \in Seq(WorkItem) /\ Len(t) = m + n
      /\ \A k \in 1..(m + n) : \/ k \in 1..m /\ t[k] = kept[k]
                               \/ \E i \in 1..n : k = m + i /\ t[k] = q[i]
      /\ \A i \in 1..n : m + i \in 1..(m + n) /\ t[m + i] = q[i]
      /\ \A k \in 1..m : k \in 1..(m + n) /\ t[k] = kept[k]
  <2>1. Len(kept) = m /\ Len(q) = n
    BY <1>2
  <2>2. t \in Seq(WorkItem) /\ Len(t) = m + n
    BY ONLY <1>21, <2>1 DEF Joined
  <2>3. \A k \in 1..(m + n) : (k \in 1..m /\ t[k] = kept[k]) \/ (\E i \in 1..n : k = m + i /\ t[k] = q[i])
    BY ONLY <1>21, <2>1, <2>2 DEF Joined
  <2>4. /\ \A i \in 1..n : m + i \in 1..(m + n) /\ t[m + i] = q[i]
        /\ \A k \in 1..m : k \in 1..(m + n) /\ t[k] = kept[k]
    BY ONLY <1>21, <2>1, <2>2 DEF Joined
  <2> QED BY ONLY <2>2, <2>3, <2>4
<1>4. ASSUME NEW k \in 1..m
      PROVE  /\ ItemOk(pl, rt, kept[k]) /\ kept[k].kind = "FALSIFY_ROUTE" /\ ~Reopens(rt, kept[k])
             /\ \A r \in Routes : Continues(kept[k], r) = Continues(b[k], r)
             /\ \A y : Conflict(y, kept[k]) = Conflict(y, b[k])
             /\ Stands(kept[k]) = "FALSIFY_ROUTE"
  <2>1. kept[k].kind = b[k].kind /\ kept[k].route = b[k].route
        /\ kept[k].round = b[k].round /\ kept[k].parent = b[k].parent /\ b[k].kind = "FALSIFY_ROUTE"
    BY <1>2 DEF Headed
  <2>2. kept[k] \in WorkItem
    BY <1>2, ElementOfSeq
  <2>3. Stands(kept[k]) = Stands(b[k]) /\ Stands(b[k]) = "FALSIFY_ROUTE"
    BY <2>1 DEF Stands
  <2>4. ItemOk(pl, rt, b[k])
    BY <1>2 DEF Headed
  <2>5. ~Reopens(rt, kept[k]) /\ ~Reopens(rt, b[k])
    BY <2>3 DEF Reopens
  <2>6. ItemOk(pl, rt, kept[k])
    BY <2>1, <2>2, <2>3, <2>4, <2>5 DEF ItemOk
  <2>7. \A y : Conflict(y, kept[k]) = Conflict(y, b[k])
    BY <2>1 DEF Conflict
  <2>8. \A r \in Routes : Continues(kept[k], r) = Continues(b[k], r)
    BY <2>1 DEF Continues
  <2> QED BY <2>1, <2>3, <2>5, <2>6, <2>7, <2>8
<1>5. \A k \in 1..n : ItemOk(pl, rt, q[k]) /\ ~Conflict(h, q[k]) /\ ~Reopens(rt, q[k])
  BY <1>2 DEF Headed
<1>6. \A k \in 1..m : ~Conflict(h, kept[k])
  BY <1>2, <1>4 DEF Headed
<1>7. ASSUME NEW k \in 1..(m + n) PROVE ItemOk(pl, rt, t[k]) /\ ~Conflict(h, t[k]) /\ ~Reopens(rt, t[k])
  BY <1>3, <1>4, <1>5, <1>6
<1>8. ASSUME NEW j \in 1..m, NEW k \in 1..n PROVE ~Conflict(kept[j], q[k]) /\ ~Conflict(q[k], kept[j])
  <2>1. ~Conflict(b[j], q[k])
    BY <1>2 DEF Headed
  <2> QED BY <1>4, <2>1, ConflictSymmetric
<1>9. ASSUME NEW j \in 1..m, NEW k \in 1..m, j # k PROVE ~Conflict(kept[j], kept[k])
  <2>1. ~Conflict(b[k], b[j])
    BY <1>2, <1>9 DEF Headed
  <2> QED BY <1>4, <2>1, ConflictSymmetric
<1>10. ASSUME NEW j \in 1..(m + n), NEW k \in 1..(m + n), j # k PROVE ~Conflict(t[j], t[k])
  <2>1. CASE j \in 1..m /\ t[j] = kept[j] /\ k \in 1..m /\ t[k] = kept[k]
    BY <1>9, <1>10, <2>1
  <2>2. CASE (j \in 1..m /\ t[j] = kept[j]) /\ \E i \in 1..n : k = m + i /\ t[k] = q[i]
    BY <1>8, <2>2
  <2>3. CASE (k \in 1..m /\ t[k] = kept[k]) /\ \E i \in 1..n : j = m + i /\ t[j] = q[i]
    BY <1>8, <2>3
  <2>4. CASE (\E i \in 1..n : j = m + i /\ t[j] = q[i]) /\ (\E i \in 1..n : k = m + i /\ t[k] = q[i])
    <3>1. PICK i \in 1..n : j = m + i /\ t[j] = q[i]
      BY <2>4
    <3>2. PICK l \in 1..n : k = m + l /\ t[k] = q[l]
      BY <2>4
    <3>3. i # l
      BY <1>10, <3>1, <3>2
    <3> QED BY <1>2, <3>1, <3>2, <3>3 DEF Headed
  <2> QED BY <1>3, <2>1, <2>2, <2>3, <2>4
<1>11. ASSUME NEW r \in Routes, Live(rt, r)
       PROVE  Continues(h, r) \/ \E k \in 1..(m + n) : Continues(t[k], r)
  <2>1. CASE \E k \in 1..n : Continues(q[k], r)
    BY <1>3, <2>1
  <2>2. CASE \E k \in 1..m : Continues(b[k], r)
    <3>1. PICK k \in 1..m : Continues(b[k], r)
      BY <2>2
    <3>2. Continues(kept[k], r)
      BY <1>4, <3>1
    <3> QED BY <1>3, <3>2
  <2> QED BY <1>2, <1>11, <2>1, <2>2 DEF Headed
<1>12. t[m + n].kind # "TOOL_REQUEST"
  <2>1. CASE n = 0
    <3>1. m \in 1..m /\ m + n = m
      BY <1>2, <2>1
    <3>2. t[m + n] = kept[m]
      BY <1>3, <3>1
    <3>3. kept[m].kind = "FALSIFY_ROUTE"
      BY <1>4, <3>1
    <3> QED BY <3>2, <3>3
  <2>2. CASE n > 0
    <3>1. n \in 1..n
      BY <2>2
    <3>2. t[m + n] = q[n]
      BY <1>3, <3>1
    <3> QED BY <1>2, <2>2, <3>2 DEF Headed
  <2> QED BY <2>1, <2>2
<1>13. Len(<<>>) = 0 /\ <<>> \in Seq(WorkItem) /\ \A k \in 1..0 : FALSE
  BY EmptySeq
<1>14. /\ rt \in [Routes -> RouteState] /\ ItemOk(pl, rt, h)
       /\ \A r \in Routes : rt[r].round <= pl.max_route_revisions
  BY DEF Headed
<1>15. m + n # 0
  BY <1>2
<1>16. Headed(pl, rt, h, t, <<>>)
  BY <1>3, <1>7, <1>10, <1>11, <1>12, <1>13, <1>14, <1>15 DEF Headed
<1> QED BY <1>16, <1>20

\* An item that is marked as done is the same work.
LEMMA MarkedItem ==
    ASSUME NEW w \in WorkItem, NEW d \in BOOLEAN, NEW v, v = [w EXCEPT !.done = d]
    PROVE  /\ v \in WorkItem /\ v.kind = w.kind /\ v.route = w.route
           /\ v.round = w.round /\ v.parent = w.parent
BY DEF WorkItem

\* A function on an initial segment of the positive numbers is a sequence.
LEMMA FunctionIsSeq ==
    ASSUME NEW n \in Nat, NEW f, f = [k \in 1..n |-> f[k]], \A k \in 1..n : f[k] \in WorkItem
    PROVE  f \in Seq(WorkItem) /\ Len(f) = n
<1>1. f \in [1..n -> WorkItem] /\ DOMAIN f = 1..n
  OBVIOUS
<1>2. f \in Seq(WorkItem)
  BY <1>1, SeqDef
<1> QED BY <1>1, <1>2, LenProperties

\* Concatenation of three queues.
LEMMA ConcatThree ==
    ASSUME NEW x \in Seq(WorkItem), NEW y \in Seq(WorkItem), NEW z \in Seq(WorkItem)
    PROVE  (x \o y) \o z = x \o (y \o z)
BY ConcatAssociative

\* kept is the batch b with its results, s the queue q with it behind the first item.
Preserving(q, b, kept, s) ==
    /\ kept = [k \in DOMAIN b |-> [b[k] EXCEPT !.done = TRUE]]
    /\ s = SubSeq(q, 1, IF q = <<>> THEN 0 ELSE 1) \o kept \o SubSeq(q, 2, Len(q))

\* What is left of a batch that stops is queued behind the item that stopped it.
LEMMA PreservedIsSound ==
    ASSUME NEW pl, NEW rt, NEW q, NEW b, Sound(pl, rt, q, b), NEW kept, NEW s,
           Preserving(q, b, kept, s)
    PROVE  /\ Sound(pl, rt, s, <<>>)
           /\ b = <<>> => s = q
           /\ b # <<>> => s # <<>>
<1>0. /\ kept = [k \in DOMAIN b |-> [b[k] EXCEPT !.done = TRUE]]
      /\ s = SubSeq(q, 1, IF q = <<>> THEN 0 ELSE 1) \o kept \o SubSeq(q, 2, Len(q))
  BY DEF Preserving
<1> USE <1>0
<1>1. q \in Seq(WorkItem) /\ b \in Seq(WorkItem)
  BY DEF Sound
<1>2. PICK n \in Nat, m \in Nat : n = Len(q) /\ m = Len(b)
  BY <1>1, LenProperties
<1>3. DOMAIN b = 1..m /\ \A k \in 1..m : b[k] \in WorkItem
  BY <1>1, <1>2, LenProperties, ElementOfSeq
<1>4. ASSUME NEW k \in 1..m
      PROVE  /\ kept[k] \in WorkItem /\ kept[k].kind = b[k].kind /\ kept[k].route = b[k].route
             /\ kept[k].round = b[k].round /\ kept[k].parent = b[k].parent
  <2>1. kept[k] = [b[k] EXCEPT !.done = TRUE] /\ b[k] \in WorkItem
    BY <1>3
  <2>2. PICK w, v : w = b[k] /\ v = kept[k]
    OBVIOUS
  <2>3. w \in WorkItem /\ v = [w EXCEPT !.done = TRUE]
    BY <2>1, <2>2
  <2>4. PICK d \in BOOLEAN : d = TRUE
    OBVIOUS
  <2>5. w \in WorkItem /\ v = [w EXCEPT !.done = d]
    BY ONLY <2>3, <2>4
  <2>6. /\ v \in WorkItem /\ v.kind = w.kind /\ v.route = w.route
        /\ v.round = w.round /\ v.parent = w.parent
    BY ONLY <2>5, MarkedItem
  <2> QED BY ONLY <2>2, <2>6
<1>5. kept \in Seq(WorkItem) /\ Len(kept) = m
  <2>1. kept = [k \in 1..m |-> kept[k]]
    BY <1>3
  <2>2. \A k \in 1..m : kept[k] \in WorkItem
    BY <1>4
  <2> QED BY <2>1, <2>2, FunctionIsSeq
<1>6. <<>> \in Seq(WorkItem)
  BY EmptySeq
<1>7. CASE q = <<>>
  <2>1. n = 0
    BY <1>2, <1>7
  <2>2. SubSeq(q, 1, 0) = <<>> /\ SubSeq(q, 2, Len(q)) = <<>>
    BY <1>2, <2>1, SubSeqEmpty
  <2>3. (IF q = <<>> THEN 0 ELSE 1) = 0
    BY <1>7
  <2>4. s = kept
    BY <1>5, <1>6, <2>2, <2>3, ConcatEmptySeq
  <2>5. CASE b = <<>>
    <3>1. m = 0
      BY <1>2, <2>5
    <3>2. kept = <<>>
      BY <1>5, <3>1, EmptySeq
    <3> QED BY <1>7, <2>4, <2>5, <3>2
  <2>6. CASE b # <<>>
    <3>1. Head(b) \in WorkItem /\ Tail(b) \in Seq(WorkItem) /\ b = <<Head(b)>> \o Tail(b) /\ Head(b) = b[1] /\ m >= 1
      BY <1>1, <1>2, <2>6, HeadInFront
    <3>2. PICK h, c : h = Head(b) /\ c = Tail(b)
      OBVIOUS
    <3>3. h \in WorkItem /\ c \in Seq(WorkItem) /\ b = <<h>> \o c
      BY <3>1, <3>2
    <3>4. Headed(pl, rt, h, q, c)
      BY <3>3, TakenFromBatch
    <3>5. kept # <<>>
      BY <1>5, <3>1
    <3>6. Sound(pl, rt, b, <<>>)
      <4>1. /\ \A k \in 1..m : ItemOk(pl, rt, b[k]) /\ b[k].kind = "FALSIFY_ROUTE"
            /\ \A j, k \in 1..m : j # k => ~Conflict(b[j], b[k])
            /\ \A r \in Routes : Live(rt, r) => \E k \in 1..m : Continues(b[k], r)
            /\ rt \in [Routes -> RouteState]
            /\ \A r \in Routes : rt[r].round <= pl.max_route_revisions
        BY <1>2, <2>1 DEF Sound
      <4>2. m \in 1..m
        BY <3>1
      <4>3. b[m].kind # "TOOL_REQUEST"
        BY <4>1, <4>2
      <4>4. \A k \in 1..m : ~Reopens(rt, b[k])
        BY <4>1 DEF Reopens, Stands
      <4>5. Len(<<>>) = 0 /\ \A k \in 1..0 : FALSE
        OBVIOUS
      <4> QED BY <1>1, <1>2, <1>6, <4>1, <4>3, <4>4, <4>5 DEF Sound
    <3>7. Sound(pl, rt, kept, <<>>)
      BY <1>2, <1>4, <1>5, <3>6, MarkedIsSound
    <3> QED BY <2>4, <2>6, <3>5, <3>7
  <2> QED BY <2>5, <2>6
<1>8. CASE q # <<>>
  <2>1. /\ Head(q) \in WorkItem /\ Tail(q) \in Seq(WorkItem) /\ q = <<Head(q)>> \o Tail(q)
        /\ Head(q) = q[1] /\ n >= 1
    BY <1>1, <1>2, <1>8, HeadInFront
  <2>2. PICK h, c : h = Head(q) /\ c = Tail(q)
    OBVIOUS
  <2>3. h \in WorkItem /\ c \in Seq(WorkItem) /\ q = <<h>> \o c /\ h = q[1]
    BY <2>1, <2>2
  <2>4. SubSeq(q, 2, Len(q)) = c
    BY <1>1, <1>8, <2>2, TailIsSubSeq
  <2>5. SubSeq(q, 1, 1) = <<h>>
    <3>1. /\ SubSeq(q, 1, 1) \in Seq(WorkItem) /\ Len(SubSeq(q, 1, 1)) = 1 /\ SubSeq(q, 1, 1)[1] = q[1]
      <4>1. \A i \in 1..1 : q[i] \in WorkItem
        BY <2>3
      <4> QED BY <4>1, SubSeqProperties
    <3>2. <<h>> \in Seq(WorkItem) /\ Len(<<h>>) = 1 /\ <<h>>[1] = h
      BY <2>3
    <3>3. \A i \in 1..1 : i = 1
      OBVIOUS
    <3> QED BY <2>3, <3>1, <3>2, <3>3, SeqEqual
  <2>6. (IF q = <<>> THEN 0 ELSE 1) = 1
    BY <1>8
  <2>66. PICK kc : kc = kept \o c
    OBVIOUS
  <2>67. kc \in Seq(WorkItem)
    BY <1>5, <2>3, <2>66, ConcatProperties
  <2>7. s = <<h>> \o kc
    <3>1. PICK hh : hh = <<h>>
      OBVIOUS
    <3>2. hh \in Seq(WorkItem)
      BY <2>3, <3>1
    <3>3. s = (hh \o kept) \o c
      BY <2>4, <2>5, <2>6, <3>1
    <3>4. (hh \o kept) \o c = hh \o (kept \o c)
      BY <1>5, <2>3, <3>2, ConcatThree
    <3> QED BY <2>66, <3>1, <3>3, <3>4
  <2>8. Headed(pl, rt, h, c, b)
    BY <2>3, SoundIsHeaded
  <2>9. CASE b = <<>>
    <3>1. m = 0
      BY <1>2, <2>9
    <3>2. kept = <<>>
      BY <1>5, <3>1, EmptySeq
    <3>3. kc = c
      BY <2>3, <2>66, <3>2, ConcatEmptySeq
    <3>4. s = q
      BY <2>3, <2>7, <3>3
    <3> QED BY <2>9, <3>4
  <2>10. CASE b # <<>>
    <3>1. Headed(pl, rt, h, kept \o c, <<>>)
      BY <1>2, <1>4, <1>5, <2>3, <2>8, <2>10, BatchGoesBehindTheHead
    <3>11. Headed(pl, rt, h, kc, <<>>)
      BY <2>66, <3>1
    <3>2. Sound(pl, rt, s, <<>>)
      BY ONLY <2>3, <2>7, <3>11, HeadedIsSound
    <3>4. Len(kc) \in Nat /\ Len(s) = Len(kc) + 1
      BY ONLY <2>3, <2>67, <2>7, Prepended
    <3>5. s # <<>>
      BY ONLY <3>4
    <3> QED BY <2>10, <3>2, <3>5
  <2> QED BY <2>9, <2>10
<1> QED BY <1>7, <1>8

\* The falsifications at the front of a queue become a batch.
LEMMA BatchTakenIsSound ==
    ASSUME NEW pl, NEW rt, NEW q, Sound(pl, rt, q, <<>>), NEW n \in Nat, n >= 1, n <= Len(q),
           \A k \in 1..n : q[k].kind = "FALSIFY_ROUTE"
    PROVE  Sound(pl, rt, SubSeq(q, n + 1, Len(q)), SubSeq(q, 1, n))
<1>1. q \in Seq(WorkItem)
  BY DEF Sound
<1>2. PICK l \in Nat : l = Len(q)
  BY <1>1, LenProperties
<1>3. \A k \in 1..l : q[k] \in WorkItem
  BY <1>1, <1>2, ElementOfSeq
<1>4. PICK c, b : c = SubSeq(q, n + 1, l) /\ b = SubSeq(q, 1, n)
  OBVIOUS
<1>5. b \in Seq(WorkItem) /\ Len(b) = n /\ \A k \in 1..n : b[k] = q[k] /\ k \in 1..l
  <2>1. \A k \in 1..n : q[k] \in WorkItem /\ k \in 1..l
    BY <1>2, <1>3
  <2>2. /\ b \in Seq(WorkItem) /\ Len(b) = n - 1 + 1
        /\ \A k \in 1..(n - 1 + 1) : b[k] = q[1 + k - 1]
    BY <1>4, <2>1, SubSeqProperties
  <2>3. n - 1 + 1 = n /\ \A k \in 1..n : 1 + k - 1 = k
    OBVIOUS
  <2>4. \A k \in 1..n : b[k] = q[k]
    BY <2>2, <2>3
  <2> QED BY <2>1, <2>2, <2>3, <2>4
<1>6. c \in Seq(WorkItem) /\ Len(c) = l - n /\ l - n \in Nat /\ \A k \in 1..(l - n) : c[k] = q[n + k] /\ n + k \in 1..l
  <2>1. \A k \in (n + 1)..l : q[k] \in WorkItem
    BY <1>2, <1>3
  <2>2. n + 1 \in Int /\ l \in Int /\ l - (n + 1) + 1 = l - n /\ l - n \in Nat
    BY <1>2
  <2>3. /\ c \in Seq(WorkItem) /\ Len(c) = IF n + 1 <= l THEN l - (n + 1) + 1 ELSE 0
        /\ \A k \in 1..(l - (n + 1) + 1) : c[k] = q[(n + 1) + k - 1]
    BY <1>4, <2>1, <2>2, SubSeqProperties
  <2>4. Len(c) = l - n
    BY <1>2, <2>2, <2>3
  <2>5. ASSUME NEW k \in 1..(l - n) PROVE c[k] = q[n + k] /\ n + k \in 1..l
    <3>1. (n + 1) + k - 1 = n + k /\ n + k \in 1..l
      BY <2>2
    <3> QED BY <2>2, <2>3, <3>1
  <2> QED BY <2>2, <2>3, <2>4, <2>5
<1>7. /\ \A k \in 1..l : ItemOk(pl, rt, q[k])
      /\ \A j, k \in 1..l : j # k => ~Conflict(q[j], q[k])
  BY <1>2 DEF Sound
<1>8. \A k \in 1..l : ~Reopens(rt, q[k])
  <2>1. 1 \in 1..n /\ 1 \in 1..l
    BY <1>2
  <2>2. Stands(q[1]) = "FALSIFY_ROUTE" /\ ~Reopens(rt, q[1])
    BY <2>1 DEF Stands, Reopens
  <2>3. ASSUME NEW k \in 1..l, Reopens(rt, q[k]) PROVE FALSE
    <3>1. k # 1
      BY <2>2, <2>3
    <3>2. 1 < k
      BY <3>1
    <3>3. Stands(q[1]) \in {"REVISE_ROUTE", "TOOL_REQUEST"}
      BY <1>2, <2>1, <2>3, <3>2 DEF Sound
    <3> QED BY <2>2, <3>3
  <2> QED BY <2>3
<1>9. \A k \in 1..(l - n) : ItemOk(pl, rt, c[k]) /\ ~Reopens(rt, c[k])
  BY <1>6, <1>7, <1>8
<1>10. \A k \in 1..n : ItemOk(pl, rt, b[k]) /\ b[k].kind = "FALSIFY_ROUTE"
  BY <1>5, <1>7
<1>11. ASSUME NEW j \in 1..(l - n), NEW k \in 1..(l - n), j # k PROVE ~Conflict(c[j], c[k])
  <2>1. n + j # n + k
    BY <1>6, <1>11
  <2> QED BY <1>6, <1>7, <2>1
<1>12. \A j, k \in 1..n : j # k => ~Conflict(b[j], b[k])
  BY <1>5, <1>7
<1>13. ASSUME NEW j \in 1..n, NEW k \in 1..(l - n) PROVE ~Conflict(b[j], c[k])
  <2>1. j # n + k
    BY <1>6
  <2> QED BY <1>5, <1>6, <1>7, <2>1
<1>14. ASSUME NEW r \in Routes, Live(rt, r)
       PROVE  (\E k \in 1..(l - n) : Continues(c[k], r)) \/ (\E k \in 1..n : Continues(b[k], r))
  <2>1. Len(<<>>) = 0 /\ \A k \in 1..0 : FALSE
    OBVIOUS
  <2>2. PICK k \in 1..l : Continues(q[k], r)
    BY <1>2, <1>14, <2>1 DEF Sound
  <2>3. CASE k <= n
    <3>1. k \in 1..n
      BY <2>3
    <3> QED BY <1>5, <2>2, <3>1
  <2>4. CASE ~(k <= n)
    <3>1. PICK i \in 1..(l - n) : n + i = k
      <4>1. k - n \in 1..(l - n) /\ n + (k - n) = k
        BY <1>6, <2>4
      <4> QED BY <4>1
    <3> QED BY <1>6, <2>2, <3>1
  <2> QED BY <2>3, <2>4
<1>15. l - n > 0 => c[l - n].kind # "TOOL_REQUEST"
  <2>1. SUFFICES ASSUME l - n > 0 PROVE c[l - n].kind # "TOOL_REQUEST"
    OBVIOUS
  <2>2. l - n \in 1..(l - n) /\ n + (l - n) = l /\ l > 0
    BY <1>6, <2>1
  <2>3. c[l - n] = q[l]
    BY <1>6, <2>2
  <2>4. q[l].kind # "TOOL_REQUEST"
    BY <1>2, <2>2 DEF Sound
  <2> QED BY <2>3, <2>4
<1>16. rt \in [Routes -> RouteState] /\ \A r \in Routes : rt[r].round <= pl.max_route_revisions
  BY DEF Sound
<1>17. Sound(pl, rt, c, b)
  BY <1>5, <1>6, <1>9, <1>10, <1>11, <1>12, <1>13, <1>14, <1>15, <1>16 DEF Sound
<1> QED BY <1>2, <1>4, <1>17

-----------------------------------------------------------------------------
(* Work for several routes at once *)

\* The order of a set of routes has each of them once.
LEMMA RouteOrderHasEachOnce ==
    ASSUME NEW rs, rs \subseteq Routes, NEW s, s = RouteOrder(rs)
    PROVE  /\ Cardinality(rs) \in Nat
           /\ \A k \in 1..Cardinality(rs) : s[k] \in rs
           /\ \A j, k \in 1..Cardinality(rs) : j # k => s[j] # s[k]
           /\ \A r \in rs : \E k \in 1..Cardinality(rs) : s[k] = r
<1>1. IsFiniteSet(rs)
  BY ConstantsAssumption, FS_Subset
<1>2. Cardinality(rs) \in Nat /\ ExistsBijection(1..Cardinality(rs), rs)
  BY <1>1, FS_CardinalityType
<1>3. s \in Bijection(1..Cardinality(rs), rs)
  BY <1>2 DEF ExistsBijection, RouteOrder
<1> QED BY <1>2, <1>3 DEF Bijection, Injection, IsInjective, Surjection

\* A queue with one work for each route of a set that holds the unfinished ones.
LEMMA OneWorkForEachRoute ==
    ASSUME NEW pl, NEW rt \in [Routes -> RouteState], NEW q \in Seq(WorkItem),
           \A r \in Routes : rt[r].round <= pl.max_route_revisions,
           NEW rs, rs \subseteq Routes, NEW kind, kind \in RouteWork, NEW s, s = RouteOrder(rs),
           Len(q) = Cardinality(rs),
           \A k \in 1..Len(q) : ItemOk(pl, rt, q[k]) /\ q[k].kind = kind /\ q[k].route = s[k],
           \A r \in Routes : Live(rt, r) => r \in rs
    PROVE  Sound(pl, rt, q, <<>>)
<1>1. PICK n \in Nat : n = Cardinality(rs) /\ n = Len(q)
  BY RouteOrderHasEachOnce
<1>2. /\ \A k \in 1..n : s[k] \in rs
      /\ \A j, k \in 1..n : j # k => s[j] # s[k]
      /\ \A r \in rs : \E k \in 1..n : s[k] = r
  BY <1>1, RouteOrderHasEachOnce
<1>3. kind # "TOOL_REQUEST" /\ kind # "INTEGRATE_TOOLS"
  BY DEF RouteWork
<1>4. \A k \in 1..n : /\ ItemOk(pl, rt, q[k]) /\ q[k].kind # "TOOL_REQUEST" /\ q[k].route = s[k]
                      /\ q[k].route # NoRoute /\ Stands(q[k]) = kind
  BY <1>1, <1>2, <1>3, ConstantsAssumption DEF Stands
<1>5. \A j, k \in 1..n : j # k => ~Conflict(q[j], q[k])
  BY <1>2, <1>4 DEF Conflict
<1>6. ASSUME NEW r \in Routes, Live(rt, r) PROVE \E k \in 1..n : Continues(q[k], r)
  <2>1. PICK k \in 1..n : s[k] = r
    BY <1>2, <1>6
  <2>2. Continues(q[k], r)
    BY <1>4, <2>1 DEF Continues
  <2> QED BY <2>2
<1>7. Len(<<>>) = 0 /\ <<>> \in Seq(WorkItem) /\ \A k \in 1..0 : FALSE
  BY EmptySeq
<1>8. n > 0 => q[n].kind # "TOOL_REQUEST"
  BY <1>4
<1>9. \A k \in 1..n : Reopens(rt, q[k]) =>
          \A j \in 1..n : j < k => Stands(q[j]) \in {"REVISE_ROUTE", "TOOL_REQUEST"}
  BY <1>4 DEF Reopens
<1>10. \A k \in 1..n : ItemOk(pl, rt, q[k])
  BY <1>4
<1> QED BY <1>1, <1>5, <1>6, <1>7, <1>8, <1>9, <1>10 DEF Sound

-----------------------------------------------------------------------------
(* Checkpoints *)

\* The fields of a checkpoint that the operations on queues and routes leave alone.
Same(c, d) ==
    /\ d.status = c.status /\ d.reason = c.reason /\ d.comp = c.comp /\ d.review = c.review
    /\ d.outcome = c.outcome /\ d.judged = c.judged /\ d.spent = c.spent

\* A new item is work of its kind.
LEMMA ItemIsWork ==
    ASSUME NEW kind, kind \in RouteWork \cup RunWork \cup {"TOOL_REQUEST"},
           NEW route, route \in Routes \cup {NoRoute}, NEW round \in Nat, NEW claim \in BOOLEAN,
           NEW x, x = Item(kind, route, round, claim)
    PROVE  /\ x \in WorkItem /\ x.kind = kind /\ x.route = route /\ x.round = round
           /\ x.parent = "NONE" /\ Stands(x) = kind
<1>1. /\ x.kind = kind /\ x.route = route /\ x.round = round /\ x.cycle = 0 /\ x.claim = claim
      /\ x.parent = "NONE" /\ x.done = FALSE
  BY DEF Item
<1>2. kind \in RouteWork \cup RunWork \cup {"TOOL_REQUEST", "INTEGRATE_TOOLS"} /\ kind # "INTEGRATE_TOOLS"
  BY DEF RouteWork, RunWork
<1>3. x \in WorkItem
  BY <1>2 DEF Item, WorkItem
<1>4. Stands(x) = kind
  BY <1>1, <1>2 DEF Stands
<1> QED BY <1>1, <1>3, <1>4

\* What the queue operations do to a checkpoint.
LEMMA QueueFields ==
    ASSUME NEW c \in Checkpoint, NEW q \in Seq(WorkItem), NEW d, d = [c EXCEPT !.queue = q]
    PROVE  d \in Checkpoint /\ d.queue = q /\ d.routes = c.routes /\ Same(c, d) /\ d.closed = c.closed
<1> QED BY DEF Checkpoint, Same

\* ... and Enqueue.
LEMMA EnqueueFields ==
    ASSUME NEW c \in Checkpoint, NEW x \in WorkItem, NEW d, d = Enqueue(c, x)
    PROVE  /\ d \in Checkpoint /\ d.queue = Append(c.queue, x) /\ d.routes = c.routes /\ Same(c, d)
           /\ d.queue # <<>>
<1>1. c.queue \in Seq(WorkItem)
  BY DEF Checkpoint
<1>2. PICK q : q = Append(c.queue, x)
  OBVIOUS
<1>3. q \in Seq(WorkItem) /\ q # <<>>
  BY <1>1, <1>2, AppendProperties
<1>4. d = [c EXCEPT !.queue = q]
  BY <1>2 DEF Enqueue
<1>5. d \in Checkpoint /\ d.queue = q /\ d.routes = c.routes /\ Same(c, d) /\ d.closed = c.closed
  BY ONLY <1>3, <1>4, c \in Checkpoint, QueueFields
<1> QED BY <1>2, <1>3, <1>5

\* What a change of one route does to a checkpoint.
LEMMA RoutesFields ==
    ASSUME NEW c \in Checkpoint, NEW u \in [Routes -> RouteState], NEW d, d = [c EXCEPT !.routes = u]
    PROVE  d \in Checkpoint /\ d.queue = c.queue /\ d.routes = u /\ Same(c, d)
BY DEF Checkpoint, Same

\* The parts of a checkpoint.
LEMMA CheckpointParts ==
    ASSUME NEW c \in Checkpoint
    PROVE  /\ c.queue \in Seq(WorkItem) /\ c.routes \in [Routes -> RouteState] /\ c.comp \in Nat
           /\ c.status \in {"RUNNING", "PAUSED", "WAITING_HUMAN_REVIEW", "COMPLETED"}
           /\ c.spent \in BOOLEAN /\ c.closed \in BOOLEAN /\ c.version \in Nat
BY DEF Checkpoint

\* d is c with the state s of route r, which differs from its state in c by the status.
Patched(c, r, st, d, s) ==
    /\ d \in Checkpoint /\ d.queue = c.queue /\ Same(c, d)
    /\ d.routes = [c.routes EXCEPT ![r] = s]
    /\ s.status = st /\ s.round = c.routes[r].round /\ s.machine = c.routes[r].machine
    /\ s.verified = c.routes[r].verified

\* What UpdateRoute does.
LEMMA UpdateRouteFields ==
    ASSUME NEW c \in Checkpoint, NEW r \in Routes, NEW st \in RouteStatus, NEW d, d = UpdateRoute(c, r, st)
    PROVE  \E s \in RouteState : Patched(c, r, st, d, s)
<1>1. PICK rt \in [Routes -> RouteState] : rt = c.routes
  BY CheckpointParts
<1>2. PICK s : s = [rt[r] EXCEPT !.status = st]
  OBVIOUS
<1>3. rt[r] \in RouteState
  BY <1>1
<1>4. /\ s \in RouteState /\ s.status = st /\ s.round = rt[r].round /\ s.machine = rt[r].machine
      /\ s.verified = rt[r].verified
  BY <1>2, <1>3 DEF RouteState
<1>5. PICK u : u = [rt EXCEPT ![r] = s]
  OBVIOUS
<1>6. u \in [Routes -> RouteState]
  BY <1>4, <1>5
<1>7. d = [c EXCEPT !.routes = u]
  BY <1>1, <1>2, <1>5 DEF UpdateRoute
<1>8. d \in Checkpoint /\ d.queue = c.queue /\ d.routes = u /\ Same(c, d)
  BY ONLY <1>6, <1>7, c \in Checkpoint, RoutesFields
<1>9. Patched(c, r, st, d, s)
  BY <1>1, <1>4, <1>5, <1>8 DEF Patched
<1> QED BY <1>4, <1>9

-----------------------------------------------------------------------------
(* A result is handled *)

\* The checkpoint c from which the item i was taken, with the rest b of its batch.
Going(pl, c, i, b) ==
    /\ c \in Checkpoint /\ i \in WorkItem
    /\ c.comp <= pl.max_composition_revisions
    /\ Headed(pl, c.routes, i, c.queue, b)
    /\ c.status = "RUNNING" /\ c.outcome = "NONE"
    /\ Evidence(c.routes)
    /\ c.review = "ACCEPTED" =>
           /\ c.judged = Progress(c.routes, c.comp)
           /\ \/ i.kind # "TOOL_REQUEST" /\ Stands(i) = "FINAL_SYNTHESIS"
              \/ /\ i.kind = "TOOL_REQUEST"
                 /\ \E k \in 1..Len(c.queue) : Stands(c.queue[k]) = "FINAL_SYNTHESIS"

\* A checkpoint that is good as soon as the rest b of its batch is put back or kept.
Nearly(pl, d, b) ==
    /\ d \in Checkpoint
    /\ d.comp <= pl.max_composition_revisions
    /\ Sound(pl, d.routes, d.queue, b)
    /\ d.status \in {"WAITING_HUMAN_REVIEW", "COMPLETED"} => d.queue = <<>> /\ b = <<>>
    /\ d.status = "PAUSED" /\ d.reason \in {"BUDGET_EXHAUSTED", "RUNTIME_UNAVAILABLE"}
           => d.queue # <<>> \/ b # <<>>
    /\ d.outcome # "NONE" => d.status = "COMPLETED"
    /\ Evidence(d.routes)
    /\ Accepted(d)
    /\ Concluded(d)

\* Work of the run is followed by other work of the run.
LEMMA RunGoesOn ==
    ASSUME NEW pl, NEW c, NEW i, NEW b, NEW d, NEW x,
           Going(pl, c, i, b), i.kind \in RunWork, i.kind # "FINAL_SYNTHESIS",
           d \in Checkpoint, d.routes = c.routes, d.queue = Append(c.queue, x),
           d.status = c.status, d.outcome = c.outcome, d.review = c.review,
           d.comp <= pl.max_composition_revisions,
           x.kind \in RunWork, ItemOk(pl, c.routes, x)
    PROVE  Nearly(pl, d, b) /\ d.queue # <<>>
<1>1. i.kind # "TOOL_REQUEST" /\ i.kind # "INTEGRATE_TOOLS" /\ x.kind # "TOOL_REQUEST" /\ x.kind # "INTEGRATE_TOOLS"
  BY DEF RunWork
<1>2. Stands(i) = i.kind /\ Stands(x) = x.kind
  BY <1>1 DEF Stands
<1>3. i.route = NoRoute
  BY <1>2 DEF Going, Headed, ItemOk
<1>4. c.queue = <<>> /\ b = <<>> /\ \A r \in Routes : ~Live(c.routes, r)
  BY <1>1, <1>3, RunWorkIsAlone DEF Going
<1>5. c.routes \in [Routes -> RouteState] /\ \A r \in Routes : c.routes[r].round <= pl.max_route_revisions
  BY DEF Going, Headed
<1>6. Sound(pl, c.routes, <<x>>, <<>>)
  BY <1>1, <1>2, <1>4, <1>5, OneWorkOfTheRun
<1>7. d.queue = <<x>> /\ d.queue # <<>>
  BY <1>4
<1>8. c.review # "ACCEPTED" /\ c.status = "RUNNING" /\ c.outcome = "NONE" /\ Evidence(c.routes)
  BY <1>1, <1>2 DEF Going
<1> QED BY <1>4, <1>6, <1>7, <1>8 DEF Nearly, Accepted, Concluded

\* Work of the run is the last before somebody is asked.
LEMMA RunStops ==
    ASSUME NEW pl, NEW c, NEW i, NEW b, NEW d,
           Going(pl, c, i, b), i.kind \in RunWork, i.kind # "FINAL_SYNTHESIS",
           d \in Checkpoint, d.routes = c.routes, d.queue = c.queue,
           \/ d.status = "WAITING_HUMAN_REVIEW"
           \/ d.status = "PAUSED" /\ d.reason = "CONTRACT_AMBIGUOUS",
           d.outcome = c.outcome, d.review = c.review,
           d.comp <= pl.max_composition_revisions
    PROVE  Nearly(pl, d, b)
<1>1. i.kind # "TOOL_REQUEST" /\ i.kind # "INTEGRATE_TOOLS"
  BY DEF RunWork
<1>2. Stands(i) = i.kind
  BY <1>1 DEF Stands
<1>3. i.route = NoRoute
  BY <1>2 DEF Going, Headed, ItemOk
<1>4. c.queue = <<>> /\ b = <<>> /\ \A r \in Routes : ~Live(c.routes, r)
  BY <1>1, <1>3, RunWorkIsAlone DEF Going
<1>5. c.routes \in [Routes -> RouteState] /\ \A r \in Routes : c.routes[r].round <= pl.max_route_revisions
  BY DEF Going, Headed
<1>6. Sound(pl, c.routes, <<>>, <<>>)
  BY <1>4, <1>5, NothingPending
<1>8. c.review # "ACCEPTED" /\ c.outcome = "NONE" /\ Evidence(c.routes)
  BY <1>1, <1>2 DEF Going
<1> QED BY <1>4, <1>6, <1>8 DEF Nearly, Accepted, Concluded

\* What is known of an item that is work of a route.
LEMMA RouteItem ==
    ASSUME NEW pl, NEW c, NEW i, NEW b, Going(pl, c, i, b), i.kind \in RouteWork
    PROVE  /\ i.kind # "TOOL_REQUEST" /\ Stands(i) = i.kind /\ i.route \in Routes
           /\ c.review # "ACCEPTED" /\ c.status = "RUNNING" /\ c.outcome = "NONE"
           /\ c.routes \in [Routes -> RouteState] /\ c.routes[i.route] \in RouteState
           /\ c.routes[i.route].round <= pl.max_route_revisions
           /\ c \in Checkpoint /\ c.comp <= pl.max_composition_revisions
           /\ i.kind # "REVISE_ROUTE" => c.routes[i.route].status = At(i.kind)
           /\ i.kind = "REVISE_ROUTE" => i.round <= pl.max_route_revisions
           /\ Headed(pl, c.routes, i, c.queue, b) /\ Evidence(c.routes)
           /\ i.round \in Nat /\ i.claim \in BOOLEAN /\ i \in WorkItem
<1>1. i.kind # "TOOL_REQUEST" /\ i.kind # "INTEGRATE_TOOLS" /\ i.kind # "FINAL_SYNTHESIS"
  BY DEF RouteWork
<1>2. Stands(i) = i.kind
  BY <1>1 DEF Stands
<1>3. ItemOk(pl, c.routes, i) /\ Headed(pl, c.routes, i, c.queue, b) /\ Evidence(c.routes)
  BY DEF Going, Headed
<1>4. i.route \in Routes
  BY <1>2, <1>3 DEF ItemOk
<1>5. /\ i.kind # "REVISE_ROUTE" => c.routes[i.route].status = At(i.kind)
      /\ i.kind = "REVISE_ROUTE" => i.round <= pl.max_route_revisions
  BY <1>2, <1>3 DEF ItemOk, Reopens
<1>6. c.review # "ACCEPTED" /\ c.status = "RUNNING" /\ c.outcome = "NONE" /\ c \in Checkpoint /\ i \in WorkItem
      /\ c.comp <= pl.max_composition_revisions
  BY <1>1, <1>2 DEF Going
<1>7. c.routes \in [Routes -> RouteState] /\ \A r \in Routes : c.routes[r].round <= pl.max_route_revisions
  BY <1>3 DEF Headed
<1>8. c.routes[i.route] \in RouteState
  BY <1>4, <1>7
<1>9. i.round \in Nat /\ i.claim \in BOOLEAN
  BY <1>6 DEF WorkItem
<1> QED BY <1>1, <1>2, <1>3, <1>4, <1>5, <1>6, <1>7, <1>8, <1>9

\* d is c after the work i of a route, which is now in state s and has the work x.
Follows(pl, c, i, d, x, s) ==
    /\ d \in Checkpoint /\ Same(c, d) /\ d.queue = Append(c.queue, x)
    /\ s \in RouteState /\ d.routes = [c.routes EXCEPT ![i.route] = s]
    /\ s.round <= pl.max_route_revisions /\ s.status # "READY"
    /\ s.status = "SEMANTIC_AUDIT" /\ s.machine => s.verified = s.round
    /\ x \in WorkItem /\ x.kind \in RouteWork /\ x.route = i.route /\ x.parent = "NONE"
    /\ s.status = At(x.kind)
    /\ x.kind = "REVISE_ROUTE" => x.round <= pl.max_route_revisions

\* Work of a route is followed by other work of the route.
LEMMA RouteWorkGoesOn ==
    ASSUME NEW pl, NEW c, NEW i, NEW b, NEW d, NEW x, NEW s,
           Going(pl, c, i, b), i.kind \in RouteWork, Follows(pl, c, i, d, x, s)
    PROVE  Nearly(pl, d, b) /\ d.queue # <<>> /\ d.status = "RUNNING"
<1>0. /\ d \in Checkpoint /\ Same(c, d) /\ d.queue = Append(c.queue, x)
      /\ s \in RouteState /\ d.routes = [c.routes EXCEPT ![i.route] = s]
      /\ s.round <= pl.max_route_revisions /\ s.status # "READY"
      /\ s.status = "SEMANTIC_AUDIT" /\ s.machine => s.verified = s.round
      /\ x \in WorkItem /\ x.kind \in RouteWork /\ x.route = i.route /\ x.parent = "NONE"
      /\ s.status = At(x.kind)
      /\ x.kind = "REVISE_ROUTE" => x.round <= pl.max_route_revisions
  BY DEF Follows
<1> USE <1>0
<1>1. /\ i.kind # "TOOL_REQUEST" /\ i.route \in Routes
      /\ c.review # "ACCEPTED" /\ c.status = "RUNNING" /\ c.outcome = "NONE"
      /\ c.routes \in [Routes -> RouteState] /\ c \in Checkpoint /\ c.comp <= pl.max_composition_revisions
      /\ Headed(pl, c.routes, i, c.queue, b) /\ Evidence(c.routes)
  BY RouteItem
<1>2. x.kind # "TOOL_REQUEST" /\ x.kind # "INTEGRATE_TOOLS" /\ x.kind \notin RunWork
  BY DEF RouteWork, RunWork
<1>3. Stands(x) = x.kind
  BY <1>2 DEF Stands
<1>4. PICK u : u = d.routes
  OBVIOUS
<1>5. u[i.route] = s /\ \A r \in Routes : r # i.route => u[r] = c.routes[r]
  BY <1>1, <1>4
<1>6. ItemOk(pl, u, x)
  <2>1. x.kind # "REVISE_COMPOSITION"
    BY DEF RouteWork
  <2> QED BY <1>1, <1>2, <1>3, <1>5, <2>1 DEF ItemOk
<1>7. Sound(pl, u, Append(c.queue, x), b)
  BY <1>1, <1>2, <1>4, <1>6, RouteGoesOn
<1>8. Evidence(u)
  <2>1. ASSUME NEW r \in Routes, u[r].status \in {"SEMANTIC_AUDIT", "READY"}, u[r].machine
        PROVE  u[r].verified = u[r].round
    <3>1. CASE r = i.route
      BY <1>5, <2>1, <3>1
    <3>2. CASE r # i.route
      BY <1>1, <1>5, <2>1, <3>2 DEF Evidence
    <3> QED BY <3>1, <3>2
  <2> QED BY <2>1 DEF Evidence
<1>9. c.queue \in Seq(WorkItem)
  BY <1>1, CheckpointParts
<1>10. d.queue # <<>>
  BY <1>9, AppendProperties
<1>11. /\ d.review # "ACCEPTED" /\ d.status = "RUNNING" /\ d.outcome = "NONE"
       /\ d.comp <= pl.max_composition_revisions
  BY <1>1 DEF Same
<1> QED BY <1>4, <1>7, <1>8, <1>10, <1>11 DEF Nearly, Accepted, Concluded

\* A route ends, and composition is scheduled when it was the last.
LEMMA RouteWorkEnds ==
    ASSUME NEW pl, NEW c, NEW i, NEW b, NEW st, NEW d,
           Going(pl, c, i, b), i.kind \in {"GAP_REVIEW", "SEMANTIC_AUDIT"},
           st = "FAILED" \/ (st = "READY" /\ i.kind = "SEMANTIC_AUDIT"),
           d = MaybeScheduleComposition(UpdateRoute(c, i.route, st))
    PROVE  Nearly(pl, d, b) /\ (d.queue # <<>> \/ b # <<>>) /\ d.status = "RUNNING"
<1>0. i.kind \in RouteWork
  BY DEF RouteWork
<1>1. /\ i.kind # "TOOL_REQUEST" /\ i.route \in Routes /\ Stands(i) = i.kind
      /\ c.review # "ACCEPTED" /\ c.status = "RUNNING" /\ c.outcome = "NONE"
      /\ c.routes \in [Routes -> RouteState] /\ c.routes[i.route] \in RouteState
      /\ c \in Checkpoint /\ c.comp <= pl.max_composition_revisions
      /\ c.routes[i.route].round <= pl.max_route_revisions
      /\ Headed(pl, c.routes, i, c.queue, b) /\ Evidence(c.routes)
      /\ c.routes[i.route].status = At(i.kind)
  BY <1>0, RouteItem
<1>2. st \in RouteStatus /\ st \in Terminal
  BY DEF RouteStatus, Terminal
<1>3. PICK e : e = UpdateRoute(c, i.route, st)
  OBVIOUS
<1>40. PICK s \in RouteState : Patched(c, i.route, st, e, s)
  BY ONLY <1>1, <1>2, <1>3, UpdateRouteFields
<1>4. /\ e \in Checkpoint /\ e.queue = c.queue /\ Same(c, e)
      /\ e.routes = [c.routes EXCEPT ![i.route] = s]
      /\ s.status = st /\ s.round = c.routes[i.route].round /\ s.machine = c.routes[i.route].machine
      /\ s.verified = c.routes[i.route].verified
  BY <1>40 DEF Patched
<1>5. PICK u, q : u = e.routes /\ q = e.queue
  OBVIOUS
<1>6. u \in [Routes -> RouteState] /\ u[i.route] = s /\ \A r \in Routes : r # i.route => u[r] = c.routes[r]
  BY <1>1, <1>4, <1>5
<1>7. Sound(pl, u, q, b)
  <2>1. Headed(pl, c.routes, i, q, b) /\ s.round <= pl.max_route_revisions /\ s.status \in Terminal
        /\ u = [c.routes EXCEPT ![i.route] = s]
    BY <1>1, <1>2, <1>4, <1>5
  <2> QED BY ONLY <1>1, <1>4, <2>1, RouteComesToItsEnd
<1>8. Evidence(u)
  <2>1. ASSUME NEW r \in Routes, u[r].status \in {"SEMANTIC_AUDIT", "READY"}, u[r].machine
        PROVE  u[r].verified = u[r].round
    <3>1. CASE r = i.route
      <4>1. i.kind = "SEMANTIC_AUDIT"
        BY <1>4, <1>6, <2>1, <3>1
      <4>2. c.routes[i.route].status = "SEMANTIC_AUDIT"
        BY <1>1, <4>1 DEF At
      <4>3. c.routes[i.route].machine
        BY <1>4, <1>6, <2>1, <3>1
      <4>4. c.routes[i.route].verified = c.routes[i.route].round
        BY <1>1, <4>2, <4>3 DEF Evidence
      <4> QED BY <1>4, <1>6, <3>1, <4>4
    <3>2. CASE r # i.route
      BY <1>1, <1>6, <2>1, <3>2 DEF Evidence
    <3> QED BY <3>1, <3>2
  <2> QED BY <2>1 DEF Evidence
<1>9. /\ e.review # "ACCEPTED" /\ e.status = "RUNNING" /\ e.outcome = "NONE"
      /\ e.comp <= pl.max_composition_revisions
  BY <1>1, <1>4 DEF Same
<1>10. q \in Seq(WorkItem) /\ b \in Seq(WorkItem)
  BY <1>7 DEF Sound
<1>11. PICK n \in Nat, m \in Nat : n = Len(q) /\ m = Len(b)
  BY <1>10, LenProperties
<1> DEFINE all == /\ Scouted(e) # {}
                  /\ \A r \in Scouted(e) : e.routes[r].status \in Terminal
                  /\ \A k \in DOMAIN e.queue : e.queue[k].kind # "COMPOSITION_CHECK"
<1>12. i.route \in Scouted(e)
  BY <1>1, <1>2, <1>4, <1>5, <1>6 DEF Scouted, Terminal
<1>13. CASE all
  <2>1. \A r \in Routes : ~Live(u, r)
    BY <1>5, <1>13 DEF Live, Scouted
  <2>2. ASSUME NEW y, ItemOk(pl, u, y), Stands(y) \in RouteWork, ~Reopens(u, y) PROVE FALSE
    <3>1. y.route \in Routes /\ u[y.route].status = At(Stands(y))
      BY <2>2 DEF ItemOk
    <3>2. At(Stands(y)) \notin Terminal \cup {"UNSCOUTED"}
      BY <2>2 DEF At, RouteWork, Terminal
    <3> QED BY <2>1, <3>1, <3>2 DEF Live
  <2>3. n = 0
    <3>1. SUFFICES ASSUME n > 0 PROVE FALSE
      OBVIOUS
    <3>2. n \in 1..n
      BY <3>1
    <3>3. PICK y : y = q[n]
      OBVIOUS
    <3>4. ItemOk(pl, u, y) /\ y.kind # "TOOL_REQUEST"
      BY <1>7, <1>11, <3>1, <3>2, <3>3 DEF Sound
    <3>5. ~Conflict(i, y)
      BY <1>1, <1>4, <1>5, <1>11, <3>2, <3>3 DEF Headed
    <3>6. y.route # NoRoute /\ y.route # i.route
      BY <1>1, <3>4, <3>5 DEF Conflict
    <3>7. Stands(y) \in RouteWork
      <4>1. y.kind = "INTEGRATE_TOOLS" => y.parent \in RouteWork \cup RunWork
        BY <3>4 DEF ItemOk, WorkItem
      <4>2. y.kind # "INTEGRATE_TOOLS" => y.kind \in RouteWork \cup RunWork
        BY <3>4 DEF ItemOk, WorkItem
      <4>3. Stands(y) \in RouteWork \cup RunWork
        BY <4>1, <4>2 DEF Stands
      <4> QED BY <3>4, <3>6, <4>3 DEF ItemOk
    <3>8. y.route \in Routes
      BY <3>4, <3>7 DEF ItemOk
    <3>9. u[y.route] = c.routes[y.route]
      BY <1>6, <3>6, <3>8
    <3>10. Reopens(u, y) => Reopens(c.routes, y)
      BY <3>9 DEF Reopens
    <3>11. Reopens(c.routes, y) => Stands(i) \in {"REVISE_ROUTE", "TOOL_REQUEST"}
      BY <1>1, <1>4, <1>5, <1>11, <3>2, <3>3 DEF Headed
    <3>12. ~Reopens(u, y)
      BY <1>1, <3>10, <3>11
    <3> QED BY <2>2, <3>4, <3>7, <3>12
  <2>4. m = 0
    <3>1. SUFFICES ASSUME m > 0 PROVE FALSE
      OBVIOUS
    <3>2. m \in 1..m
      BY <3>1
    <3>3. ItemOk(pl, u, b[m]) /\ b[m].kind = "FALSIFY_ROUTE"
      BY <1>7, <1>11, <3>2 DEF Sound
    <3>4. Stands(b[m]) = "FALSIFY_ROUTE"
      BY <3>3 DEF Stands
    <3>5. Stands(b[m]) \in RouteWork /\ ~Reopens(u, b[m])
      BY <3>4 DEF RouteWork, Reopens
    <3> QED BY <2>2, <3>3, <3>5
  <2>5. q = <<>> /\ b = <<>>
    BY <1>10, <1>11, <2>3, <2>4, EmptySeq
  <2>6. PICK x : x = Item("COMPOSITION_CHECK", NoRoute, 0, FALSE)
    OBVIOUS
  <2>7. /\ x \in WorkItem /\ x.kind = "COMPOSITION_CHECK" /\ x.route = NoRoute
        /\ x.parent = "NONE" /\ Stands(x) = "COMPOSITION_CHECK"
    <3>1. "COMPOSITION_CHECK" \in RouteWork \cup RunWork \cup {"TOOL_REQUEST"} /\ 0 \in Nat
      BY DEF RunWork
    <3>2. PICK f \in BOOLEAN : f = FALSE
      OBVIOUS
    <3>3. x = Item("COMPOSITION_CHECK", NoRoute, 0, f) /\ NoRoute \in Routes \cup {NoRoute}
      BY <2>6, <3>2
    <3> QED BY ONLY <3>1, <3>3, ItemIsWork
  <2>8. d = Enqueue(e, x)
    BY <1>3, <1>13, <2>6 DEF MaybeScheduleComposition
  <2>9. /\ d \in Checkpoint /\ d.queue = Append(e.queue, x) /\ d.routes = e.routes /\ Same(e, d)
        /\ d.queue # <<>>
    BY ONLY <1>4, <2>7, <2>8, EnqueueFields
  <2>10. d.queue = <<x>>
    <3>1. d.queue = Append(<<>>, x)
      BY ONLY <1>5, <2>5, <2>9
    <3> QED BY ONLY <3>1
  <2>11. ItemOk(pl, u, x)
    BY <2>7 DEF ItemOk, RouteWork
  <2>12. Stands(x) \in RunWork /\ x.kind # "TOOL_REQUEST"
    BY <2>7 DEF RunWork
  <2>13. Sound(pl, u, <<x>>, <<>>)
    <3>1. \A r \in Routes : u[r].round <= pl.max_route_revisions
      BY <1>7 DEF Sound
    <3> QED BY ONLY <1>6, <2>1, <2>11, <2>12, <3>1, OneWorkOfTheRun
  <2>14. Sound(pl, d.routes, d.queue, b)
    BY <1>5, <2>5, <2>9, <2>10, <2>13
  <2>15. /\ d.review # "ACCEPTED" /\ d.status = "RUNNING" /\ d.outcome = "NONE"
         /\ d.comp <= pl.max_composition_revisions
    BY <1>9, <2>9 DEF Same
  <2> QED BY <1>5, <1>8, <2>9, <2>14, <2>15 DEF Nearly, Accepted, Concluded
<1>14. CASE ~all
  <2>1. d = e
    BY <1>3, <1>14 DEF MaybeScheduleComposition
  <2>2. q # <<>> \/ b # <<>>
    <3>1. CASE \E r \in Scouted(e) : e.routes[r].status \notin Terminal
      <4>1. PICK r \in Routes : Live(u, r)
        BY <1>5, <3>1 DEF Scouted, Live
      <4>2. \/ \E k \in 1..n : Continues(q[k], r)
            \/ \E k \in 1..m : Continues(b[k], r)
        BY <1>7, <1>11, <4>1 DEF Sound
      <4>3. n > 0 \/ m > 0
        BY <4>2
      <4> QED BY <1>11, <4>3
    <3>2. CASE \E k \in DOMAIN e.queue : e.queue[k].kind = "COMPOSITION_CHECK"
      BY <1>5, <3>2
    <3> QED BY <1>12, <1>14, <3>1, <3>2
  <2> QED BY <1>4, <1>5, <1>7, <1>8, <1>9, <2>1, <2>2 DEF Nearly, Accepted, Concluded
<1> QED BY <1>13, <1>14

\* x is the work of a kind, of a route and of a round.
IsWork(x, kind, route, n) ==
    /\ x \in WorkItem /\ x.kind = kind /\ x.route = route /\ x.round = n /\ x.parent = "NONE"

\* A new item of a route, with or without a claim.
LEMMA RouteItemIsWork ==
    ASSUME NEW kind, kind \in RouteWork, NEW route \in Routes, NEW n \in Nat, NEW x,
           x = Item(kind, route, n, TRUE) \/ x = Item(kind, route, n, FALSE)
    PROVE  IsWork(x, kind, route, n)
<1>1. /\ x.kind = kind /\ x.route = route /\ x.round = n /\ x.parent = "NONE"
  BY DEF Item
<1>2. kind \in RouteWork \cup RunWork \cup {"TOOL_REQUEST", "INTEGRATE_TOOLS"}
  OBVIOUS
<1>3. CASE x = Item(kind, route, n, TRUE)
  BY <1>1, <1>2, <1>3 DEF Item, WorkItem, IsWork
<1>4. CASE x = Item(kind, route, n, FALSE)
  BY <1>1, <1>2, <1>4 DEF Item, WorkItem, IsWork
<1> QED BY <1>3, <1>4

\* A route gets a new status and its next work.
LEMMA UpdateAndEnqueue ==
    ASSUME NEW pl, NEW c, NEW i, NEW b, NEW d, NEW kind, NEW st, NEW n \in Nat, NEW x,
           Going(pl, c, i, b), i.kind \in RouteWork, kind \in RouteWork,
           st = At(kind), st # "SEMANTIC_AUDIT",
           kind = "REVISE_ROUTE" => n <= pl.max_route_revisions,
           IsWork(x, kind, i.route, n),
           d = Enqueue(UpdateRoute(c, i.route, st), x)
    PROVE  Nearly(pl, d, b) /\ d.queue # <<>> /\ d.status = "RUNNING"
<1>1. i.route \in Routes /\ c \in Checkpoint /\ c.routes[i.route].round <= pl.max_route_revisions
      /\ c.status = "RUNNING"
  BY RouteItem
<1>2. st \in RouteStatus /\ st # "READY"
  BY DEF At, RouteStatus
<1>3. PICK e : e = UpdateRoute(c, i.route, st)
  OBVIOUS
<1>40. PICK s \in RouteState : Patched(c, i.route, st, e, s)
  BY ONLY <1>1, <1>2, <1>3, UpdateRouteFields
<1>4. /\ e \in Checkpoint /\ e.queue = c.queue /\ Same(c, e)
      /\ e.routes = [c.routes EXCEPT ![i.route] = s]
      /\ s.status = st /\ s.round = c.routes[i.route].round /\ s.machine = c.routes[i.route].machine
      /\ s.verified = c.routes[i.route].verified
  BY <1>40 DEF Patched
<1>5. /\ x \in WorkItem /\ x.kind = kind /\ x.route = i.route /\ x.round = n /\ x.parent = "NONE"
  BY DEF IsWork
<1>6. /\ d \in Checkpoint /\ d.queue = Append(e.queue, x) /\ d.routes = e.routes /\ Same(e, d)
  BY <1>3, <1>4, <1>5, EnqueueFields
<1>7. Same(c, d) /\ d.queue = Append(c.queue, x) /\ d.routes = [c.routes EXCEPT ![i.route] = s]
  BY <1>4, <1>6 DEF Same
<1>8. s.round <= pl.max_route_revisions /\ s.status # "READY" /\ s.status # "SEMANTIC_AUDIT" /\ s.status = At(x.kind)
  BY <1>1, <1>2, <1>4, <1>5
<1>9. Nearly(pl, d, b) /\ d.queue # <<>>
  <2>1. x \in WorkItem /\ x.kind \in RouteWork /\ x.route = i.route /\ x.parent = "NONE"
        /\ (x.kind = "REVISE_ROUTE" => x.round <= pl.max_route_revisions)
    BY <1>5
  <2>2. s.status = "SEMANTIC_AUDIT" /\ s.machine => s.verified = s.round
    BY <1>8
  <2>3. Going(pl, c, i, b) /\ i.kind \in RouteWork /\ d \in Checkpoint /\ s \in RouteState
    BY <1>6
  <2>4. Follows(pl, c, i, d, x, s)
    BY ONLY <1>7, <1>8, <2>1, <2>2, <2>3 DEF Follows
  <2> QED BY ONLY <2>3, <2>4, RouteWorkGoesOn
<1> QED BY <1>1, <1>7, <1>9 DEF Same

\* A result was handled: if the pass goes on there is something to do.
DoneOk(pl, d, b) == Nearly(pl, d, b) /\ (d.status = "RUNNING" => d.queue # <<>> \/ b # <<>>)

\* The limits of the plan of the run.
LEMMA PlanFacts ==
    ASSUME plan \in Plans
    PROVE  /\ plan.minimum_routes \in Nat \ {0} /\ plan.max_route_revisions \in Nat
           /\ plan.max_composition_revisions \in Nat /\ plan.found \subseteq Routes
           /\ plan.max_tool_cycles \in Nat /\ plan.max_reviews \in Nat
BY ConstantsAssumption DEF PlanType

WorkOfTheRun(kind, n) == Item(kind, NoRoute, n, FALSE)

\* A new work of the run.
LEMMA RunItem ==
    ASSUME NEW pl, NEW rt, NEW kind, kind \in RunWork, NEW n \in Nat,
           kind = "REVISE_COMPOSITION" => n <= pl.max_composition_revisions,
           NEW x, x = WorkOfTheRun(kind, n)
    PROVE  x \in WorkItem /\ x.kind = kind /\ Stands(x) = kind /\ ItemOk(pl, rt, x)
<1>1. /\ x.kind = kind /\ x.route = NoRoute /\ x.round = n /\ x.parent = "NONE"
  BY DEF Item, WorkOfTheRun
<1>2. kind \in RouteWork \cup RunWork \cup {"TOOL_REQUEST", "INTEGRATE_TOOLS"} /\ kind # "INTEGRATE_TOOLS"
  BY DEF RunWork
<1>3. /\ x \in WorkItem /\ x.kind = kind /\ x.route = NoRoute /\ x.round = n
      /\ x.parent = "NONE" /\ Stands(x) = kind
  <2>1. x \in WorkItem
    BY <1>2 DEF Item, WorkItem, WorkOfTheRun
  <2>2. Stands(x) = kind
    BY <1>1, <1>2 DEF Stands
  <2> QED BY <1>1, <2>1, <2>2
<1>4. kind \notin RouteWork /\ kind # "INTEGRATE_TOOLS" /\ kind # "REVISE_ROUTE"
  BY DEF RouteWork, RunWork
<1>5. ItemOk(pl, rt, x)
  BY <1>3, <1>4 DEF ItemOk
<1> QED BY <1>3, <1>5

\* e is c as far as the work of the run is concerned.
Kept(pl, c, e) ==
    /\ e \in Checkpoint /\ e.queue = c.queue /\ e.routes = c.routes /\ e.status = c.status
    /\ e.outcome = c.outcome /\ e.review = c.review /\ e.comp <= pl.max_composition_revisions

\* The next work of the run is queued.
LEMMA EnqueueRunWork ==
    ASSUME NEW pl, NEW c, NEW i, NEW b, NEW e, NEW d, NEW kind, NEW n \in Nat,
           Going(pl, c, i, b), i.kind \in RunWork, i.kind # "FINAL_SYNTHESIS",
           Kept(pl, c, e), kind \in RunWork,
           kind = "REVISE_COMPOSITION" => n <= pl.max_composition_revisions,
           d = Enqueue(e, WorkOfTheRun(kind, n))
    PROVE  DoneOk(pl, d, b)
<1>1. PICK x : x = WorkOfTheRun(kind, n)
  OBVIOUS
<1>2. x \in WorkItem /\ x.kind = kind /\ ItemOk(pl, c.routes, x)
  <2>1. PICK rt : rt = c.routes
    OBVIOUS
  <2>2. x \in WorkItem /\ x.kind = kind /\ Stands(x) = kind /\ ItemOk(pl, rt, x)
    BY <1>1, RunItem
  <2> QED BY <2>1, <2>2
<1>3. e \in Checkpoint /\ d = Enqueue(e, x)
  BY <1>1 DEF Kept
<1>4. d \in Checkpoint /\ d.queue = Append(e.queue, x) /\ d.routes = e.routes /\ Same(e, d)
  BY ONLY <1>2, <1>3, EnqueueFields
<1>5. /\ d.routes = c.routes /\ d.queue = Append(c.queue, x) /\ d.status = c.status
      /\ d.outcome = c.outcome /\ d.review = c.review /\ d.comp <= pl.max_composition_revisions
  BY <1>4 DEF Kept, Same
<1>6. x.kind \in RunWork
  BY <1>2
<1>7. Nearly(pl, d, b) /\ d.queue # <<>>
  BY <1>2, <1>4, <1>5, <1>6, RunGoesOn
<1> QED BY <1>7 DEF DoneOk

\* What is known when work of the run was taken.
LEMMA RunItemTaken ==
    ASSUME NEW pl, NEW c, NEW i, NEW b, Going(pl, c, i, b), i.kind \in RunWork
    PROVE  /\ c.queue = <<>> /\ b = <<>> /\ (\A r \in Routes : ~Live(c.routes, r))
           /\ c \in Checkpoint /\ c.comp <= pl.max_composition_revisions /\ Kept(pl, c, c)
           /\ c.routes \in [Routes -> RouteState] /\ c.comp \in Nat
           /\ (\A r \in Routes : c.routes[r].round <= pl.max_route_revisions)
           /\ c.status = "RUNNING" /\ c.outcome = "NONE" /\ Evidence(c.routes)
           /\ i.round \in Nat /\ Stands(i) = i.kind
           /\ i.kind # "FINAL_SYNTHESIS" => c.review # "ACCEPTED"
           /\ i.kind = "REVISE_COMPOSITION" => i.round <= pl.max_composition_revisions
<1>1. i.kind # "TOOL_REQUEST" /\ i.kind # "INTEGRATE_TOOLS"
  BY DEF RunWork
<1>2. Stands(i) = i.kind
  BY <1>1 DEF Stands
<1>3. i.route = NoRoute /\ (i.kind = "REVISE_COMPOSITION" => i.round <= pl.max_composition_revisions)
  BY <1>2 DEF Going, Headed, ItemOk
<1>4. c.queue = <<>> /\ b = <<>> /\ \A r \in Routes : ~Live(c.routes, r)
  BY <1>1, <1>3, RunWorkIsAlone DEF Going
<1>5. c.routes \in [Routes -> RouteState] /\ \A r \in Routes : c.routes[r].round <= pl.max_route_revisions
  BY DEF Going, Headed
<1>6. /\ c \in Checkpoint /\ c.comp <= pl.max_composition_revisions
      /\ c.status = "RUNNING" /\ c.outcome = "NONE" /\ Evidence(c.routes) /\ i \in WorkItem
      /\ i.kind # "FINAL_SYNTHESIS" => c.review # "ACCEPTED"
  BY <1>1, <1>2 DEF Going
<1>7. i.round \in Nat
  BY <1>6 DEF WorkItem
<1>8. Kept(pl, c, c) /\ c.comp \in Nat
  BY <1>6, CheckpointParts DEF Kept
<1> QED BY <1>2, <1>3, <1>4, <1>5, <1>6, <1>7, <1>8

\* The clarification of the contract.
LEMMA ContractClarifiedOk ==
    ASSUME NEW pl, NEW c, NEW i, NEW b, NEW a, NEW d,
           Going(pl, c, i, b), i.kind = "CONTRACT_CLARIFY", d = ContractClarified(c, a)
    PROVE  DoneOk(pl, d, b)
<1>1. i.kind \in RunWork /\ i.kind # "FINAL_SYNTHESIS" /\ "LITERATURE_AUDIT" \in RunWork
  BY DEF RunWork
<1>2. c \in Checkpoint /\ Kept(pl, c, c) /\ c.comp <= pl.max_composition_revisions
  BY <1>1, RunItemTaken
<1>3. CASE a.failed \/ a.say = "ambiguous"
  <2>1. d = [c EXCEPT !.status = "PAUSED", !.reason = "CONTRACT_AMBIGUOUS"]
    BY <1>3 DEF ContractClarified, Pause
  <2>2. /\ d \in Checkpoint /\ d.routes = c.routes /\ d.queue = c.queue /\ d.status = "PAUSED"
        /\ d.reason = "CONTRACT_AMBIGUOUS" /\ d.outcome = c.outcome /\ d.review = c.review /\ d.comp = c.comp
    BY <1>2, <2>1 DEF Checkpoint
  <2>3. Nearly(pl, d, b)
    BY <1>1, <1>2, <2>2, RunStops
  <2> QED BY <2>2, <2>3 DEF DoneOk
<1>4. CASE ~(a.failed \/ a.say = "ambiguous")
  <2>1. d = Enqueue(c, WorkOfTheRun("LITERATURE_AUDIT", 0)) /\ 0 \in Nat
    BY <1>4 DEF ContractClarified, WorkOfTheRun
  <2> QED BY <1>1, <1>2, <2>1, EnqueueRunWork
<1> QED BY <1>3, <1>4

\* The audit of the literature.
LEMMA LiteratureAuditedOk ==
    ASSUME NEW pl, NEW c, NEW i, NEW b, NEW a, NEW d,
           Going(pl, c, i, b), i.kind = "LITERATURE_AUDIT", d = LiteratureAudited(c, a)
    PROVE  DoneOk(pl, d, b)
<1>1. i.kind \in RunWork /\ i.kind # "FINAL_SYNTHESIS" /\ "ROUTE_SCOUT" \in RunWork /\ 0 \in Nat
  BY DEF RunWork
<1>2. c \in Checkpoint /\ c.comp <= pl.max_composition_revisions
  BY <1>1, RunItemTaken
<1>3. PICK f \in BOOLEAN : f = (a.say = "exact")
  OBVIOUS
<1>4. PICK e : e = [c EXCEPT !.exact = f]
  OBVIOUS
<1>5. /\ e \in Checkpoint /\ e.routes = c.routes /\ e.queue = c.queue /\ e.status = c.status
      /\ e.outcome = c.outcome /\ e.review = c.review /\ e.comp = c.comp
  BY <1>2, <1>4 DEF Checkpoint
<1>6. Kept(pl, c, e)
  BY <1>2, <1>5 DEF Kept
<1>7. d = Enqueue(e, WorkOfTheRun("ROUTE_SCOUT", 0))
  BY <1>3, <1>4 DEF LiteratureAudited, WorkOfTheRun
<1> QED BY <1>1, <1>6, <1>7, EnqueueRunWork

\* The check of the composition.
LEMMA CompositionCheckedOk ==
    ASSUME plan \in Plans, NEW c, NEW i, NEW b, NEW a, NEW d,
           Going(plan, c, i, b), i.kind = "COMPOSITION_CHECK", d = CompositionChecked(c, a)
    PROVE  DoneOk(plan, d, b)
<1>1. i.kind \in RunWork /\ i.kind # "FINAL_SYNTHESIS" /\ "REVISE_COMPOSITION" \in RunWork
  BY DEF RunWork
<1>2. c \in Checkpoint /\ c.comp <= plan.max_composition_revisions /\ c.comp \in Nat
  BY <1>1, RunItemTaken
<1>3. PICK f \in BOOLEAN : f = (~a.failed /\ ~a.over /\ a.say = "closed")
  OBVIOUS
<1>4. PICK e : e = [c EXCEPT !.closed = f]
  OBVIOUS
<1>5. /\ e \in Checkpoint /\ e.routes = c.routes /\ e.queue = c.queue /\ e.status = c.status
      /\ e.outcome = c.outcome /\ e.review = c.review /\ e.comp = c.comp
  BY <1>2, <1>4 DEF Checkpoint
<1>6. Kept(plan, c, e)
  BY <1>2, <1>5 DEF Kept
<1>7. CASE ~f /\ c.comp < plan.max_composition_revisions
  <2>1. d = Enqueue(e, WorkOfTheRun("REVISE_COMPOSITION", c.comp + 1))
    BY <1>3, <1>4, <1>7 DEF CompositionChecked, WorkOfTheRun
  <2>2. PICK n \in Nat : n = c.comp + 1 /\ n <= plan.max_composition_revisions
    BY <1>2, <1>7, PlanFacts
  <2>3. d = Enqueue(e, WorkOfTheRun("REVISE_COMPOSITION", n))
    BY <2>1, <2>2
  <2> QED BY <1>1, <1>6, <2>2, <2>3, EnqueueRunWork
<1>8. CASE ~(~f /\ c.comp < plan.max_composition_revisions)
  <2>1. d = EnterHumanReview(e)
    BY <1>3, <1>4, <1>8 DEF CompositionChecked
  <2>2. /\ d \in Checkpoint /\ d.routes = e.routes /\ d.queue = e.queue /\ d.status = "WAITING_HUMAN_REVIEW"
        /\ d.outcome = e.outcome /\ d.review = e.review /\ d.comp = e.comp
    BY <1>5, <2>1 DEF Checkpoint, EnterHumanReview
  <2>3. Nearly(plan, d, b)
    BY <1>1, <1>2, <1>5, <2>2, RunStops
  <2> QED BY <2>2, <2>3 DEF DoneOk
<1> QED BY <1>7, <1>8

\* The revision of the composition.
LEMMA CompositionRevisedOk ==
    ASSUME NEW pl, NEW c, NEW i, NEW b, NEW d,
           Going(pl, c, i, b), i.kind = "REVISE_COMPOSITION", d = CompositionRevised(c, i)
    PROVE  DoneOk(pl, d, b)
<1>1. i.kind \in RunWork /\ i.kind # "FINAL_SYNTHESIS" /\ "COMPOSITION_CHECK" \in RunWork
  BY DEF RunWork
<1>2. c \in Checkpoint /\ i.round <= pl.max_composition_revisions /\ i.round \in Nat
  BY <1>1, RunItemTaken
<1>4. PICK e : e = [c EXCEPT !.comp = i.round]
  OBVIOUS
<1>5. /\ e \in Checkpoint /\ e.routes = c.routes /\ e.queue = c.queue /\ e.status = c.status
      /\ e.outcome = c.outcome /\ e.review = c.review /\ e.comp = i.round
  BY <1>2, <1>4 DEF Checkpoint
<1>6. Kept(pl, c, e)
  BY <1>2, <1>5 DEF Kept
<1>7. d = Enqueue(e, WorkOfTheRun("COMPOSITION_CHECK", i.round))
  BY <1>4 DEF CompositionRevised, WorkOfTheRun
<1> QED BY <1>1, <1>2, <1>6, <1>7, EnqueueRunWork

\* A route that is revised.
LEMMA ReviseOk ==
    ASSUME plan \in Plans, NEW c, NEW i, NEW b, NEW d,
           Going(plan, c, i, b), i.kind \in RouteWork, Revisable(c, i.route), d = Revise(c, i.route)
    PROVE  DoneOk(plan, d, b)
<1>1. i.route \in Routes /\ c.routes[i.route] \in RouteState
  BY RouteItem
<1>2. PICK n \in Nat : n = c.routes[i.route].round + 1 /\ n <= plan.max_route_revisions
  <2>1. c.routes[i.route].round \in Nat
    BY <1>1 DEF RouteState
  <2> QED BY <2>1, PlanFacts DEF Revisable
<1>3. PICK x : x = Item("REVISE_ROUTE", i.route, n, FALSE)
  OBVIOUS
<1>4. "REVISE_ROUTE" \in RouteWork /\ "REVISING" = At("REVISE_ROUTE") /\ "REVISING" # "SEMANTIC_AUDIT"
  BY DEF RouteWork, At
<1>5. IsWork(x, "REVISE_ROUTE", i.route, n)
  BY <1>1, <1>3, <1>4, RouteItemIsWork
<1>6. d = Enqueue(UpdateRoute(c, i.route, "REVISING"), x)
  BY <1>2, <1>3 DEF Revise
<1>7. Nearly(plan, d, b) /\ d.queue # <<>>
  BY <1>2, <1>4, <1>5, <1>6, UpdateAndEnqueue
<1> QED BY <1>7 DEF DoneOk

\* The falsification of a route.
LEMMA RouteFalsifiedOk ==
    ASSUME NEW pl, NEW c, NEW i, NEW b, NEW a, NEW d,
           Going(pl, c, i, b), i.kind = "FALSIFY_ROUTE", d = RouteFalsified(c, i, a)
    PROVE  DoneOk(pl, d, b)
<1>0. i.kind \in RouteWork /\ 0 \in Nat
  BY DEF RouteWork
<1>1. /\ i.route \in Routes /\ c \in Checkpoint /\ c.routes \in [Routes -> RouteState]
      /\ c.routes[i.route].round <= pl.max_route_revisions
  BY <1>0, RouteItem
<1>2. CASE a.say = "hit"
  <2>1. PICK x : x = Item("GAP_REVIEW", i.route, 0, FALSE)
    OBVIOUS
  <2>2. "GAP_REVIEW" \in RouteWork /\ "REVIEWING" = At("GAP_REVIEW") /\ "REVIEWING" \in RouteStatus
    BY DEF RouteWork, At, RouteStatus
  <2>3. IsWork(x, "GAP_REVIEW", i.route, 0)
    BY <1>0, <1>1, <2>1, <2>2, RouteItemIsWork
  <2>4. PICK e, r : e = UpdateRoute(c, i.route, "REVIEWING") /\ r = i.route
    OBVIOUS
  <2>5. PICK s1 \in RouteState : Patched(c, i.route, "REVIEWING", e, s1)
    BY ONLY <1>1, <2>2, <2>4, UpdateRouteFields
  <2>6. PICK s : s = [s1 EXCEPT !.counterexample = TRUE]
    OBVIOUS
  <2>7. s \in RouteState /\ s.status = s1.status /\ s.round = s1.round
    BY <2>6 DEF RouteState
  <2>8. /\ e \in Checkpoint /\ e.queue = c.queue /\ Same(c, e) /\ e.routes = [c.routes EXCEPT ![r] = s1]
        /\ s1.status = "REVIEWING" /\ s1.round = c.routes[r].round /\ r \in Routes
    BY <1>1, <2>4, <2>5 DEF Patched
  <2>9. PICK u : u = [c.routes EXCEPT ![r] = s]
    OBVIOUS
  <2>10. u \in [Routes -> RouteState]
    BY <1>1, <2>7, <2>9
  <2>11. PICK f : f = [e EXCEPT !.routes[r].counterexample = TRUE]
    OBVIOUS
  <2>12. u = [e.routes EXCEPT ![r] = [e.routes[r] EXCEPT !.counterexample = TRUE]]
    <3>1. e.routes[r] = s1
      BY <1>1, <2>8
    <3>2. [e.routes EXCEPT ![r] = s] = u
      BY <1>1, <2>8, <2>9
    <3> QED BY <2>6, <3>1, <3>2
  <2>13. f = [e EXCEPT !.routes = u]
    BY <2>11, <2>12
  <2>14. f \in Checkpoint /\ f.queue = e.queue /\ f.routes = u /\ Same(e, f)
    BY ONLY <2>8, <2>10, <2>13, RoutesFields
  <2>15. d = Enqueue(f, x)
    BY <1>2, <2>1, <2>4, <2>11 DEF RouteFalsified
  <2>16. x \in WorkItem /\ x.kind = "GAP_REVIEW" /\ x.route = r /\ x.parent = "NONE"
    BY <2>3, <2>4 DEF IsWork
  <2>17. d \in Checkpoint /\ d.queue = Append(f.queue, x) /\ d.routes = f.routes /\ Same(f, d)
    BY ONLY <2>14, <2>15, <2>16, EnqueueFields
  <2>18. Same(c, d) /\ d.queue = Append(c.queue, x) /\ d.routes = [c.routes EXCEPT ![i.route] = s]
    BY <2>4, <2>8, <2>9, <2>14, <2>17 DEF Same
  <2>19. s.round <= pl.max_route_revisions /\ s.status = "REVIEWING"
    BY <1>1, <2>4, <2>7, <2>8
  <2>20. Follows(pl, c, i, d, x, s)
    BY <2>2, <2>4, <2>7, <2>16, <2>17, <2>18, <2>19 DEF Follows
  <2> QED BY <1>0, <2>20, RouteWorkGoesOn DEF DoneOk
<1>3. CASE a.say # "hit"
  <2>1. PICK x : x = Item("DEVELOP_ROUTE", i.route, 0, FALSE)
    OBVIOUS
  <2>2. "DEVELOP_ROUTE" \in RouteWork /\ "DEVELOPING" = At("DEVELOP_ROUTE") /\ "DEVELOPING" # "SEMANTIC_AUDIT"
        /\ "DEVELOP_ROUTE" # "REVISE_ROUTE"
    BY DEF RouteWork, At
  <2>3. IsWork(x, "DEVELOP_ROUTE", i.route, 0)
    BY <1>0, <1>1, <2>1, <2>2, RouteItemIsWork
  <2>4. d = Enqueue(UpdateRoute(c, i.route, "DEVELOPING"), x)
    BY <1>3, <2>1 DEF RouteFalsified
  <2>5. Nearly(pl, d, b) /\ d.queue # <<>>
    BY <1>0, <2>2, <2>3, <2>4, UpdateAndEnqueue
  <2> QED BY <2>5 DEF DoneOk
<1> QED BY <1>2, <1>3

\* The development of a route.
LEMMA RouteDevelopedOk ==
    ASSUME NEW pl, NEW c, NEW i, NEW b, NEW a, NEW d,
           Going(pl, c, i, b), i.kind = "DEVELOP_ROUTE", d = RouteDeveloped(c, i, a)
    PROVE  DoneOk(pl, d, b)
<1>0. i.kind \in RouteWork /\ 0 \in Nat
  BY DEF RouteWork
<1>1. i.route \in Routes
  BY <1>0, RouteItem
<1>2. PICK x : x = Item("GAP_REVIEW", i.route, 0, CarriesClaim(a))
  OBVIOUS
<1>3. "GAP_REVIEW" \in RouteWork /\ "REVIEWING" = At("GAP_REVIEW") /\ "REVIEWING" # "SEMANTIC_AUDIT"
      /\ "GAP_REVIEW" # "REVISE_ROUTE"
  BY DEF RouteWork, At
<1>4. x = Item("GAP_REVIEW", i.route, 0, TRUE) \/ x = Item("GAP_REVIEW", i.route, 0, FALSE)
  BY <1>2 DEF CarriesClaim
<1>5. IsWork(x, "GAP_REVIEW", i.route, 0)
  BY <1>0, <1>1, <1>3, <1>4, RouteItemIsWork
<1>6. d = Enqueue(UpdateRoute(c, i.route, "REVIEWING"), x)
  BY <1>2 DEF RouteDeveloped
<1>7. Nearly(pl, d, b) /\ d.queue # <<>>
  BY <1>0, <1>3, <1>5, <1>6, UpdateAndEnqueue
<1> QED BY <1>7 DEF DoneOk

\* The gap review of a route.
LEMMA GapReviewedOk ==
    ASSUME plan \in Plans, NEW c, NEW i, NEW b, NEW a, NEW d,
           Going(plan, c, i, b), i.kind = "GAP_REVIEW", d = GapReviewed(c, i, a)
    PROVE  DoneOk(plan, d, b)
<1>0. i.kind \in RouteWork /\ 0 \in Nat
  BY DEF RouteWork
<1>1. i.route \in Routes /\ i.claim \in BOOLEAN
  BY <1>0, RouteItem
<1>2. CASE a.failed \/ a.say = "FATAL"
  <2>1. d = MaybeScheduleComposition(UpdateRoute(c, i.route, "FAILED"))
    BY <1>2 DEF GapReviewed
  <2>2. Nearly(plan, d, b) /\ (d.queue # <<>> \/ b # <<>>)
    BY <2>1, RouteWorkEnds
  <2> QED BY <2>2 DEF DoneOk
<1>3. CASE ~a.failed /\ a.say = "REVISE" /\ Revisable(c, i.route)
  <2>1. d = Revise(c, i.route)
    BY <1>3 DEF GapReviewed
  <2> QED BY <1>0, <1>3, <2>1, ReviseOk
<1>4. CASE ~(a.failed \/ a.say = "FATAL") /\ ~(~a.failed /\ a.say = "REVISE" /\ Revisable(c, i.route))
  <2>1. PICK x : x = Item("FORMALIZE_ROUTE", i.route, 0, i.claim)
    OBVIOUS
  <2>2. "FORMALIZE_ROUTE" \in RouteWork /\ "FORMALIZING" = At("FORMALIZE_ROUTE") /\ "FORMALIZING" # "SEMANTIC_AUDIT"
        /\ "FORMALIZE_ROUTE" # "REVISE_ROUTE"
    BY DEF RouteWork, At
  <2>3. x = Item("FORMALIZE_ROUTE", i.route, 0, TRUE) \/ x = Item("FORMALIZE_ROUTE", i.route, 0, FALSE)
    BY <1>1, <2>1
  <2>4. IsWork(x, "FORMALIZE_ROUTE", i.route, 0)
    BY <1>0, <1>1, <2>2, <2>3, RouteItemIsWork
  <2>5. d = Enqueue(UpdateRoute(c, i.route, "FORMALIZING"), x)
    BY <1>4, <2>1 DEF GapReviewed
  <2>6. Nearly(plan, d, b) /\ d.queue # <<>>
    BY <1>0, <2>2, <2>4, <2>5, UpdateAndEnqueue
  <2> QED BY <2>6 DEF DoneOk
<1> QED BY <1>2, <1>3, <1>4

\* f is e with the state s of route r.
RouteSet(e, r, s, f) == f = [e EXCEPT !.routes = [e.routes EXCEPT ![r] = s]]

\* The state of a route is set after its status was.
LEMMA RouteSetTwice ==
    ASSUME NEW c \in Checkpoint, NEW r \in Routes, NEW st, NEW e, NEW s1, Patched(c, r, st, e, s1),
           NEW s \in RouteState, NEW f, RouteSet(e, r, s, f)
    PROVE  f \in Checkpoint /\ f.queue = c.queue /\ f.routes = [c.routes EXCEPT ![r] = s] /\ Same(c, f)
<1>1. c.routes \in [Routes -> RouteState] /\ e \in Checkpoint /\ e.routes = [c.routes EXCEPT ![r] = s1]
      /\ e.queue = c.queue /\ Same(c, e)
  BY CheckpointParts DEF Patched
<1>2. PICK u : u = [c.routes EXCEPT ![r] = s]
  OBVIOUS
<1>3. u \in [Routes -> RouteState]
  BY <1>1, <1>2
<1>4. u = [e.routes EXCEPT ![r] = s]
  BY <1>1, <1>2
<1>5. f = [e EXCEPT !.routes = u]
  BY <1>4 DEF RouteSet
<1>6. f \in Checkpoint /\ f.queue = e.queue /\ f.routes = u /\ Same(e, f)
  BY ONLY <1>1, <1>3, <1>5, RoutesFields
<1> QED BY <1>1, <1>2, <1>6 DEF Same

\* The revision of a route.
LEMMA RouteRevisedOk ==
    ASSUME NEW pl, NEW c, NEW i, NEW b, NEW a, NEW d,
           Going(pl, c, i, b), i.kind = "REVISE_ROUTE", d = RouteRevised(c, i, a)
    PROVE  DoneOk(pl, d, b)
<1>0. i.kind \in RouteWork /\ 0 \in Nat
  BY DEF RouteWork
<1>1. /\ i.route \in Routes /\ c \in Checkpoint /\ c.routes \in [Routes -> RouteState]
      /\ i.round <= pl.max_route_revisions /\ i.round \in Nat
  BY <1>0, RouteItem
<1>2. PICK x : x = Item("GAP_REVIEW", i.route, 0, CarriesClaim(a))
  OBVIOUS
<1>3. "GAP_REVIEW" \in RouteWork /\ "REVIEWING" = At("GAP_REVIEW") /\ "REVIEWING" \in RouteStatus
      /\ "GAP_REVIEW" # "REVISE_ROUTE"
  BY DEF RouteWork, At, RouteStatus
<1>4. x = Item("GAP_REVIEW", i.route, 0, TRUE) \/ x = Item("GAP_REVIEW", i.route, 0, FALSE)
  BY <1>2 DEF CarriesClaim
<1>5. IsWork(x, "GAP_REVIEW", i.route, 0)
  BY <1>0, <1>1, <1>3, <1>4, RouteItemIsWork
<1>6. PICK e, r, n : e = UpdateRoute(c, i.route, "REVIEWING") /\ r = i.route /\ n = i.round
  OBVIOUS
<1>7. PICK s1 \in RouteState : Patched(c, r, "REVIEWING", e, s1)
  BY <1>1, <1>3, <1>6, UpdateRouteFields
<1>8. PICK s : s = [s1 EXCEPT !.round = n]
  OBVIOUS
<1>9. s \in RouteState /\ s.status = s1.status /\ s.round = n
  BY <1>1, <1>6, <1>8 DEF RouteState
<1>10. s1.status = "REVIEWING" /\ e.routes[r] = s1
  BY <1>1, <1>6, <1>7 DEF Patched
<1>11. PICK f : f = [e EXCEPT !.routes[r].round = n]
  OBVIOUS
<1>12. RouteSet(e, r, s, f)
  BY <1>8, <1>10, <1>11 DEF RouteSet
<1>13. r \in Routes
  BY <1>1, <1>6
<1>14. f \in Checkpoint /\ f.queue = c.queue /\ f.routes = [c.routes EXCEPT ![r] = s] /\ Same(c, f)
  BY ONLY <1>1, <1>7, <1>9, <1>12, <1>13, RouteSetTwice
<1>15. d = Enqueue(f, x)
  BY <1>2, <1>6, <1>11 DEF RouteRevised
<1>16. x \in WorkItem /\ x.kind = "GAP_REVIEW" /\ x.route = i.route /\ x.parent = "NONE"
  BY <1>5 DEF IsWork
<1>17. d \in Checkpoint /\ d.queue = Append(f.queue, x) /\ d.routes = f.routes /\ Same(f, d)
  BY ONLY <1>14, <1>15, <1>16, EnqueueFields
<1>18. Same(c, d) /\ d.queue = Append(c.queue, x) /\ d.routes = [c.routes EXCEPT ![i.route] = s]
  BY <1>6, <1>14, <1>17 DEF Same
<1>19. s.round <= pl.max_route_revisions /\ s.status = "REVIEWING"
  BY <1>1, <1>6, <1>9, <1>10
<1>20. Follows(pl, c, i, d, x, s)
  BY <1>3, <1>9, <1>16, <1>17, <1>18, <1>19 DEF Follows
<1> QED BY <1>0, <1>20, RouteWorkGoesOn DEF DoneOk

\* The formalization of a route.
LEMMA RouteFormalizedOk ==
    ASSUME plan \in Plans, NEW c, NEW i, NEW b, NEW a, NEW d,
           Going(plan, c, i, b), i.kind = "FORMALIZE_ROUTE", d = RouteFormalized(c, i, a)
    PROVE  DoneOk(plan, d, b)
<1>0. i.kind \in RouteWork /\ 0 \in Nat
  BY DEF RouteWork
<1>1. /\ i.route \in Routes /\ c \in Checkpoint /\ c.routes \in [Routes -> RouteState]
      /\ c.routes[i.route] \in RouteState /\ c.routes[i.route].round <= plan.max_route_revisions
      /\ i.claim \in BOOLEAN
  BY <1>0, RouteItem
<1>2. CASE a.say = "not replayed" /\ Revisable(c, i.route)
  <2>1. d = Revise(c, i.route)
    BY <1>2 DEF RouteFormalized
  <2> QED BY <1>0, <1>2, <2>1, ReviseOk
<1>3. CASE ~(a.say = "not replayed" /\ Revisable(c, i.route))
  <2>1. PICK x : x = Item("SEMANTIC_AUDIT", i.route, 0, FALSE)
    OBVIOUS
  <2>2. "SEMANTIC_AUDIT" \in RouteWork /\ "SEMANTIC_AUDIT" = At("SEMANTIC_AUDIT") /\ "SEMANTIC_AUDIT" \in RouteStatus
        /\ "SEMANTIC_AUDIT" # "REVISE_ROUTE"
    BY DEF RouteWork, At, RouteStatus
  <2>3. IsWork(x, "SEMANTIC_AUDIT", i.route, 0)
    BY <1>0, <1>1, <2>1, <2>2, RouteItemIsWork
  <2>4. PICK e, r, n : e = UpdateRoute(c, i.route, "SEMANTIC_AUDIT") /\ r = i.route /\ n = c.routes[i.route].round
    OBVIOUS
  <2>5. PICK s1 \in RouteState : Patched(c, r, "SEMANTIC_AUDIT", e, s1)
    BY <1>1, <2>2, <2>4, UpdateRouteFields
  <2>6. PICK m \in BOOLEAN : m = FactVerified(i, a)
    BY <1>1 DEF FactVerified
  <2>7. PICK s : s = [s1 EXCEPT !.machine = m, !.verified = n]
    OBVIOUS
  <2>8. n \in Nat /\ n <= plan.max_route_revisions
    BY <1>1, <2>4 DEF RouteState
  <2>9. s \in RouteState /\ s.status = s1.status /\ s.round = s1.round /\ s.verified = n
    BY <2>7, <2>8 DEF RouteState
  <2>10. s1.status = "SEMANTIC_AUDIT" /\ e.routes[r] = s1 /\ s1.round = n /\ e.routes \in [Routes -> RouteState]
    BY <1>1, <2>4, <2>5 DEF Patched
  <2>11. PICK f : f = [e EXCEPT !.routes[r].machine = m, !.routes[r].verified = n]
    OBVIOUS
  <2>12. RouteSet(e, r, s, f)
    <3>1. e \in Checkpoint
      BY <2>5 DEF Patched
    <3>2. PICK g : g = [e EXCEPT !.routes[r].machine = m]
      OBVIOUS
    <3>3. PICK s2 : s2 = [s1 EXCEPT !.machine = m]
      OBVIOUS
    <3>4. s2 \in RouteState /\ s = [s2 EXCEPT !.verified = n]
      BY <2>7, <3>3 DEF RouteState
    <3>5. g = [e EXCEPT !.routes = [e.routes EXCEPT ![r] = s2]]
      BY <2>10, <3>2, <3>3
    <3>6. PICK u : u = [e.routes EXCEPT ![r] = s2]
      OBVIOUS
    <3>7. u \in [Routes -> RouteState] /\ u[r] = s2
      BY <1>1, <2>4, <2>10, <3>4, <3>6
    <3>8. g \in Checkpoint /\ g.routes = u
      BY <3>1, <3>5, <3>6, <3>7, RoutesFields
    <3>9. f = [g EXCEPT !.routes[r].verified = n]
      BY <2>11, <3>2
    <3>10. f = [g EXCEPT !.routes = [u EXCEPT ![r] = s]]
      BY <3>4, <3>7, <3>8, <3>9
    <3>11. [u EXCEPT ![r] = s] = [e.routes EXCEPT ![r] = s]
      BY <2>10, <3>6
    <3>12. PICK w : w = [e.routes EXCEPT ![r] = s]
      OBVIOUS
    <3>13. f = [g EXCEPT !.routes = w] /\ g = [e EXCEPT !.routes = u]
      BY <3>5, <3>6, <3>10, <3>11, <3>12
    <3>14. f = [e EXCEPT !.routes = w]
      BY ONLY <3>1, <3>13 DEF Checkpoint
    <3> QED BY <3>12, <3>14 DEF RouteSet
  <2>13. r \in Routes
    BY <1>1, <2>4
  <2>14. f \in Checkpoint /\ f.queue = c.queue /\ f.routes = [c.routes EXCEPT ![r] = s] /\ Same(c, f)
    BY ONLY <1>1, <2>5, <2>9, <2>12, <2>13, RouteSetTwice
  <2>15. d = Enqueue(f, x)
    BY <1>3, <2>1, <2>4, <2>6, <2>11 DEF RouteFormalized
  <2>16. x \in WorkItem /\ x.kind = "SEMANTIC_AUDIT" /\ x.route = i.route /\ x.parent = "NONE"
    BY <2>3 DEF IsWork
  <2>17. d \in Checkpoint /\ d.queue = Append(f.queue, x) /\ d.routes = f.routes /\ Same(f, d)
    BY ONLY <2>14, <2>15, <2>16, EnqueueFields
  <2>18. Same(c, d) /\ d.queue = Append(c.queue, x) /\ d.routes = [c.routes EXCEPT ![i.route] = s]
    BY <2>4, <2>14, <2>17 DEF Same
  <2>19. s.round <= plan.max_route_revisions /\ s.status = "SEMANTIC_AUDIT" /\ s.verified = s.round
    BY <2>8, <2>9, <2>10
  <2>20. Follows(plan, c, i, d, x, s)
    BY <2>2, <2>9, <2>16, <2>17, <2>18, <2>19 DEF Follows
  <2> QED BY <1>0, <2>20, RouteWorkGoesOn DEF DoneOk
<1> QED BY <1>2, <1>3

\* The semantic audit of a route.
LEMMA SemanticsAuditedOk ==
    ASSUME plan \in Plans, NEW c, NEW i, NEW b, NEW a, NEW d,
           Going(plan, c, i, b), i.kind = "SEMANTIC_AUDIT", d = SemanticsAudited(c, i, a)
    PROVE  DoneOk(plan, d, b)
<1>0. i.kind \in RouteWork
  BY DEF RouteWork
<1>1. PICK f \in BOOLEAN : f = (~a.failed /\ a.say = "faithful")
  OBVIOUS
<1>2. CASE ~f /\ Revisable(c, i.route)
  <2>1. d = Revise(c, i.route)
    BY <1>1, <1>2 DEF SemanticsAudited
  <2> QED BY <1>0, <1>2, <2>1, ReviseOk
<1>3. CASE ~(~f /\ Revisable(c, i.route))
  <2>1. PICK st : st = IF f THEN "READY" ELSE "FAILED"
    OBVIOUS
  <2>2. d = MaybeScheduleComposition(UpdateRoute(c, i.route, st))
    BY <1>1, <1>3, <2>1 DEF SemanticsAudited
  <2>3. Nearly(plan, d, b) /\ (d.queue # <<>> \/ b # <<>>)
    BY <2>1, <2>2, RouteWorkEnds
  <2> QED BY <2>3 DEF DoneOk
<1> QED BY <1>2, <1>3

\* The item a route is falsified by.
Falsification(r) == Item("FALSIFY_ROUTE", r, 0, FALSE)

\* A route before and after it was scouted.
LEMMA ScoutedRoute ==
    ASSUME NEW r \in Routes, NEW s, s = NoRoutes[r] \/ s = [NoRoutes[r] EXCEPT !.status = "FALSIFYING"]
    PROVE  s \in RouteState /\ s.round = 0 /\ (s = NoRoutes[r] => s.status = "UNSCOUTED")
           /\ (s # NoRoutes[r] => s.status = "FALSIFYING")
<1>1. NoRoutes[r] = [status |-> "UNSCOUTED", round |-> 0, counterexample |-> FALSE,
                     machine |-> FALSE, verified |-> 0]
  BY DEF NoRoutes
<1>2. "UNSCOUTED" \in RouteStatus /\ "FALSIFYING" \in RouteStatus /\ 0 \in Nat /\ FALSE \in BOOLEAN
  BY DEF RouteStatus
<1>3. CASE s = NoRoutes[r]
  BY <1>1, <1>2, <1>3 DEF RouteState
<1>4. CASE s = [NoRoutes[r] EXCEPT !.status = "FALSIFYING"]
  <2>1. NoRoutes[r] \in RouteState /\ NoRoutes[r].round = 0
    BY ONLY <1>1, <1>2 DEF RouteState
  <2>2. s \in RouteState /\ s.round = 0 /\ s.status = "FALSIFYING"
    BY ONLY <1>2, <1>4, <2>1 DEF RouteState
  <2>3. NoRoutes[r].status = "UNSCOUTED"
    BY ONLY <1>1
  <2> QED BY ONLY <2>2, <2>3
<1> QED BY <1>3, <1>4

\* The scouted routes are registered, each with its falsification.
LEMMA RegisteredOk ==
    ASSUME plan \in Plans, NEW c, NEW i, NEW b, NEW d, NEW rs, rs \subseteq Routes, rs # {},
           Going(plan, c, i, b), i.kind = "ROUTE_SCOUT", d = RegisterKernelRoutes(c, rs)
    PROVE  DoneOk(plan, d, b)
<1>1. i.kind \in RunWork /\ i.kind # "FINAL_SYNTHESIS"
  BY DEF RunWork
<1>2. /\ c.queue = <<>> /\ b = <<>> /\ c \in Checkpoint /\ c.comp <= plan.max_composition_revisions
      /\ c.status = "RUNNING" /\ c.outcome = "NONE" /\ c.review # "ACCEPTED"
  BY <1>1, RunItemTaken
<1>3. PICK s : s = RouteOrder(rs)
  OBVIOUS
<1>4. /\ Cardinality(rs) \in Nat
      /\ \A k \in 1..Cardinality(rs) : s[k] \in rs
      /\ \A r \in rs : \E k \in 1..Cardinality(rs) : s[k] = r
  BY <1>3, RouteOrderHasEachOnce
<1>5. PICK n \in Nat : n = Cardinality(rs)
  BY <1>4
<1>6. PICK w : w = [k \in 1..n |-> Falsification(s[k])]
  OBVIOUS
<1>7. PICK u : u = [r \in Routes |-> IF r \in rs THEN [NoRoutes[r] EXCEPT !.status = "FALSIFYING"]
                                                 ELSE NoRoutes[r]]
  OBVIOUS
<1>8. ASSUME NEW r \in Routes
      PROVE  /\ u[r] \in RouteState /\ u[r].round = 0
             /\ r \in rs => u[r].status = "FALSIFYING"
             /\ r \notin rs => u[r].status = "UNSCOUTED"
  <2>1. NoRoutes[r].status = "UNSCOUTED"
    BY DEF NoRoutes
  <2>2. CASE r \in rs
    <3>1. u[r] = [NoRoutes[r] EXCEPT !.status = "FALSIFYING"]
      BY <1>7, <2>2
    <3>2. u[r].status = "FALSIFYING"
      BY <3>1 DEF NoRoutes
    <3> QED BY <2>2, <3>1, <3>2, ScoutedRoute
  <2>3. CASE r \notin rs
    <3>1. u[r] = NoRoutes[r]
      BY <1>7, <2>3
    <3> QED BY <2>3, <3>1, ScoutedRoute
  <2> QED BY <2>2, <2>3
<1>9. u \in [Routes -> RouteState]
  BY <1>7, <1>8
<1>10. ASSUME NEW k \in 1..n
       PROVE  /\ w[k] \in WorkItem /\ w[k].kind = "FALSIFY_ROUTE" /\ w[k].route = s[k]
              /\ ItemOk(plan, u, w[k])
  <2>1. s[k] \in rs /\ s[k] \in Routes /\ w[k] = Falsification(s[k])
    BY <1>4, <1>5, <1>6
  <2>2. PICK x, r : x = w[k] /\ r = s[k]
    OBVIOUS
  <2>3. x = Item("FALSIFY_ROUTE", r, 0, FALSE) /\ "FALSIFY_ROUTE" \in RouteWork /\ r \in Routes /\ 0 \in Nat
    BY <2>1, <2>2 DEF Falsification, RouteWork
  <2>4. IsWork(x, "FALSIFY_ROUTE", r, 0)
    BY ONLY <2>3, RouteItemIsWork
  <2>5. /\ x \in WorkItem /\ x.kind = "FALSIFY_ROUTE" /\ x.route = r /\ x.parent = "NONE"
        /\ Stands(x) = "FALSIFY_ROUTE"
    BY <2>4 DEF IsWork, Stands
  <2>6. u[r].status = At("FALSIFY_ROUTE")
    BY <1>8, <2>1, <2>2 DEF At
  <2>7. ItemOk(plan, u, x)
    BY <2>3, <2>5, <2>6 DEF ItemOk, RunWork
  <2> QED BY <2>2, <2>5, <2>7
<1>11. w \in Seq(WorkItem) /\ Len(w) = n
  <2>1. w = [k \in 1..n |-> w[k]] /\ \A k \in 1..n : w[k] \in WorkItem
    BY <1>6, <1>10
  <2> QED BY ONLY <1>5, <2>1, FunctionIsSeq
<1>12. d = [c EXCEPT !.routes = u, !.queue = c.queue \o w]
  <2>1. w = [k \in 1..Cardinality(rs) |-> Item("FALSIFY_ROUTE", RouteOrder(rs)[k], 0, FALSE)]
    BY <1>3, <1>5, <1>6 DEF Falsification
  <2> QED BY <1>7, <2>1 DEF RegisterKernelRoutes
<1>13. d = [c EXCEPT !.routes = u, !.queue = w]
  <2>1. c.queue \o w = w
    BY ONLY <1>2, <1>11
  <2> QED BY <1>12, <2>1
<1>14. PICK e : e = [c EXCEPT !.routes = u]
  OBVIOUS
<1>15. e \in Checkpoint /\ e.queue = c.queue /\ e.routes = u /\ Same(c, e)
  BY ONLY <1>2, <1>9, <1>14, RoutesFields
<1>16. d = [e EXCEPT !.queue = w]
  BY <1>13, <1>14
<1>17. d \in Checkpoint /\ d.queue = w /\ d.routes = u /\ Same(e, d)
  BY <1>11, <1>15, <1>16, QueueFields
<1>18. Sound(plan, u, w, <<>>)
  <2>1. \A r \in Routes : u[r].round <= plan.max_route_revisions
    BY <1>8, PlanFacts
  <2>2. \A r \in Routes : Live(u, r) => r \in rs
    BY <1>8 DEF Live
  <2>3. "FALSIFY_ROUTE" \in RouteWork
    BY DEF RouteWork
  <2>4. \A k \in 1..Len(w) : ItemOk(plan, u, w[k]) /\ w[k].kind = "FALSIFY_ROUTE" /\ w[k].route = s[k]
    BY <1>10, <1>11
  <2>5. Len(w) = Cardinality(rs)
    BY <1>5, <1>11
  <2> QED BY ONLY <1>3, <1>9, <1>11, <2>1, <2>2, <2>3, <2>4, <2>5, rs \subseteq Routes, OneWorkForEachRoute
<1>19. Evidence(u)
  BY <1>8 DEF Evidence
<1>20. w # <<>>
  <2>1. PICK r : r \in rs
    OBVIOUS
  <2>2. PICK k \in 1..n : s[k] = r
    BY <1>4, <1>5, <2>1
  <2> QED BY <1>11, <2>2
<1>21. /\ d.status = "RUNNING" /\ d.outcome = "NONE" /\ d.review # "ACCEPTED"
       /\ d.comp <= plan.max_composition_revisions
  BY <1>2, <1>15, <1>17 DEF Same
<1> QED BY <1>2, <1>17, <1>18, <1>19, <1>20, <1>21 DEF DoneOk, Nearly, Accepted, Concluded

\* The scouting of routes.
LEMMA RoutesScoutedOk ==
    ASSUME plan \in Plans, NEW c, NEW i, NEW b, NEW a, NEW d, a.say \subseteq Routes,
           Going(plan, c, i, b), i.kind = "ROUTE_SCOUT", d = RoutesScouted(c, i, a)
    PROVE  DoneOk(plan, d, b)
<1>1. /\ i.kind \in RunWork /\ i.kind # "FINAL_SYNTHESIS" /\ "ROUTE_SCOUT" \in RunWork
      /\ "COMPOSITION_CHECK" \in RunWork
  BY DEF RunWork
<1>2. Kept(plan, c, c) /\ i.round \in Nat
  BY <1>1, RunItemTaken
<1>3. PICK n \in Nat : n = Cardinality(a.say)
  <2>1. IsFiniteSet(a.say)
    BY ConstantsAssumption, FS_Subset
  <2> QED BY <2>1, FS_CardinalityType
<1>4. plan.minimum_routes \in Nat /\ plan.minimum_routes >= 1
  BY PlanFacts
<1>5. CASE n >= plan.minimum_routes
  <2>1. d = RegisterKernelRoutes(c, a.say)
    <3>1. Cardinality(a.say) >= plan.minimum_routes /\ ~(Cardinality(a.say) < plan.minimum_routes)
      BY <1>3, <1>4, <1>5
    <3> QED BY <3>1 DEF RoutesScouted
  <2>2. n # 0
    BY <1>4, <1>5
  <2>3. a.say # {}
    BY <1>3, <2>2, FS_EmptySet
  <2> QED BY <2>1, <2>3, RegisteredOk
<1>6. CASE n < plan.minimum_routes /\ i.round = 0
  <2>1. ~(n >= plan.minimum_routes)
    BY <1>4, <1>6
  <2>2. d = Enqueue(c, WorkOfTheRun("ROUTE_SCOUT", 1))
    BY <1>3, <1>6, <2>1 DEF RoutesScouted, WorkOfTheRun
  <2>3. 1 \in Nat /\ "ROUTE_SCOUT" # "REVISE_COMPOSITION"
    OBVIOUS
  <2> QED BY <1>1, <1>2, <2>2, <2>3, EnqueueRunWork
<1>7. CASE n < plan.minimum_routes /\ i.round # 0
  <2>1. ~(n >= plan.minimum_routes)
    BY <1>4, <1>7
  <2>2. d = Enqueue(c, WorkOfTheRun("COMPOSITION_CHECK", 0))
    BY <1>3, <1>7, <2>1 DEF RoutesScouted, WorkOfTheRun
  <2>3. 0 \in Nat /\ "COMPOSITION_CHECK" # "REVISE_COMPOSITION"
    OBVIOUS
  <2> QED BY <1>1, <1>2, <2>2, <2>3, EnqueueRunWork
<1> QED BY <1>4, <1>5, <1>6, <1>7

\* The conclusion that is drawn.
LEMMA OutcomeDerived ==
    ASSUME NEW c, NEW o, o = DeriveOutcome(c)
    PROVE  /\ o \in {"PROVED_CANDIDATE", "DISPROVED_CANDIDATE", "KNOWN_RESULT", "UNRESOLVED"}
           /\ o \in {"PROVED_CANDIDATE", "DISPROVED_CANDIDATE"} =>
                  c.closed /\ c.review = "ACCEPTED" /\ ReadyVerified(c) # {}
<1>1. PICK known \in BOOLEAN : known = (c.exact /\ c.review = "ACCEPTED")
  OBVIOUS
<1>2. PICK open \in BOOLEAN : open = (~c.closed \/ c.review # "ACCEPTED" \/ ReadyVerified(c) = {})
  OBVIOUS
<1>3. CASE known
  <2>1. o = "KNOWN_RESULT"
    BY <1>1, <1>3 DEF DeriveOutcome
  <2> QED BY <2>1
<1>4. CASE ~known /\ open
  <2>1. o = "UNRESOLVED"
    BY <1>1, <1>2, <1>4 DEF DeriveOutcome
  <2> QED BY <2>1
<1>5. CASE ~known /\ ~open
  <2>1. o = IF \E r \in ReadyVerified(c) : c.routes[r].counterexample
            THEN "DISPROVED_CANDIDATE" ELSE "PROVED_CANDIDATE"
    BY <1>1, <1>2, <1>5 DEF DeriveOutcome
  <2> QED BY <1>2, <1>5, <2>1
<1> QED BY <1>3, <1>4, <1>5

\* The final synthesis.
LEMMA SynthesizedOk ==
    ASSUME NEW pl, NEW c, NEW i, NEW b, NEW d,
           Going(pl, c, i, b), i.kind = "FINAL_SYNTHESIS", d = Synthesized(c)
    PROVE  DoneOk(pl, d, b)
<1>1. i.kind \in RunWork /\ i.kind # "TOOL_REQUEST"
  BY DEF RunWork
<1>2. /\ b = <<>> /\ c \in Checkpoint /\ c.comp <= pl.max_composition_revisions
      /\ (\A r \in Routes : ~Live(c.routes, r)) /\ Evidence(c.routes)
      /\ c.routes \in [Routes -> RouteState]
      /\ (\A r \in Routes : c.routes[r].round <= pl.max_route_revisions)
  BY <1>1, RunItemTaken
<1>3. PICK o : o = DeriveOutcome(c)
  OBVIOUS
<1>4. /\ o \in {"PROVED_CANDIDATE", "DISPROVED_CANDIDATE", "KNOWN_RESULT", "UNRESOLVED"}
      /\ o \in {"PROVED_CANDIDATE", "DISPROVED_CANDIDATE"} =>
             c.closed /\ c.review = "ACCEPTED" /\ ReadyVerified(c) # {}
  BY <1>3, OutcomeDerived
<1>5. d = [c EXCEPT !.status = "COMPLETED", !.queue = <<>>, !.outcome = o]
  BY <1>3 DEF Synthesized
<1>6. /\ d \in Checkpoint /\ d.status = "COMPLETED" /\ d.queue = <<>> /\ d.outcome = o
      /\ d.routes = c.routes /\ d.comp = c.comp /\ d.review = c.review /\ d.closed = c.closed
      /\ d.judged = c.judged
  <2>1. <<>> \in Seq(WorkItem)
    OBVIOUS
  <2>2. PICK e : e = [c EXCEPT !.queue = <<>>]
    OBVIOUS
  <2>3. e \in Checkpoint /\ e.queue = <<>> /\ e.routes = c.routes /\ Same(c, e) /\ e.closed = c.closed
    BY <1>2, <2>1, <2>2, QueueFields, ZenonT(40)
  <2>4. d = [e EXCEPT !.status = "COMPLETED", !.outcome = o]
    BY <1>5, <2>2
  <2>5. o \in {"NONE", "PROVED_CANDIDATE", "DISPROVED_CANDIDATE", "KNOWN_RESULT", "UNRESOLVED"}
    BY <1>4
  <2>6. /\ d \in Checkpoint /\ d.status = "COMPLETED" /\ d.queue = e.queue /\ d.outcome = o
        /\ d.routes = e.routes /\ d.comp = e.comp /\ d.review = e.review /\ d.closed = e.closed
        /\ d.judged = e.judged
    BY ONLY <2>3, <2>4, <2>5 DEF Checkpoint
  <2> QED BY <2>3, <2>6 DEF Same
<1>7. Sound(pl, d.routes, d.queue, b)
  BY <1>2, <1>6, NothingPending
<1>8. Accepted(d)
  BY <1>4, <1>6 DEF Accepted
<1>9. Concluded(d)
  <2>1. ReadyVerified(d) = ReadyVerified(c)
    BY <1>6 DEF ReadyVerified
  <2>2. c.review = "ACCEPTED" => c.judged = Progress(c.routes, c.comp)
    BY DEF Going
  <2> QED BY <1>4, <1>6, <2>1, <2>2 DEF Concluded
<1>10. Nearly(pl, d, b)
  BY <1>2, <1>6, <1>7, <1>8, <1>9 DEF Nearly
<1> QED BY <1>6, <1>10 DEF DoneOk

\* Whatever the answer is, handling it leaves the pass with what continues the work.
LEMMA Handled ==
    ASSUME plan \in Plans, NEW c, NEW i, NEW b, NEW a, NEW d, Going(plan, c, i, b),
           i.kind \in RouteWork \cup RunWork, a \in Answers(i), d = HandleResult(c, i, a)
    PROVE  DoneOk(plan, d, b)
<1>1. a.say \in Says(i.kind)
  BY DEF Answers
<1>2. CASE i.kind = "CONTRACT_CLARIFY"
  <2>1. d = ContractClarified(c, a)
    BY <1>2 DEF HandleResult
  <2> QED BY <1>2, <2>1, ContractClarifiedOk
<1>3. CASE i.kind = "LITERATURE_AUDIT"
  <2>1. d = LiteratureAudited(c, a)
    BY <1>3 DEF HandleResult
  <2> QED BY <1>3, <2>1, LiteratureAuditedOk
<1>4. CASE i.kind = "ROUTE_SCOUT"
  <2>1. d = RoutesScouted(c, i, a)
    BY <1>4 DEF HandleResult
  <2>2. a.say \in SUBSET plan.found
    BY <1>1, <1>4 DEF Says
  <2>3. a.say \subseteq Routes
    BY <2>2, PlanFacts
  <2> QED BY <1>4, <2>1, <2>3, RoutesScoutedOk
<1>5. CASE i.kind = "FALSIFY_ROUTE"
  <2>1. d = RouteFalsified(c, i, a)
    BY <1>5 DEF HandleResult
  <2> QED BY <1>5, <2>1, RouteFalsifiedOk
<1>6. CASE i.kind = "DEVELOP_ROUTE"
  <2>1. d = RouteDeveloped(c, i, a)
    BY <1>6 DEF HandleResult
  <2> QED BY <1>6, <2>1, RouteDevelopedOk
<1>7. CASE i.kind = "GAP_REVIEW"
  <2>1. d = GapReviewed(c, i, a)
    BY <1>7 DEF HandleResult
  <2> QED BY <1>7, <2>1, GapReviewedOk
<1>8. CASE i.kind = "REVISE_ROUTE"
  <2>1. d = RouteRevised(c, i, a)
    BY <1>8 DEF HandleResult
  <2> QED BY <1>8, <2>1, RouteRevisedOk
<1>9. CASE i.kind = "FORMALIZE_ROUTE"
  <2>1. d = RouteFormalized(c, i, a)
    BY <1>9 DEF HandleResult
  <2> QED BY <1>9, <2>1, RouteFormalizedOk
<1>10. CASE i.kind = "SEMANTIC_AUDIT"
  <2>1. d = SemanticsAudited(c, i, a)
    BY <1>10 DEF HandleResult
  <2> QED BY <1>10, <2>1, SemanticsAuditedOk
<1>11. CASE i.kind = "COMPOSITION_CHECK"
  <2>1. d = CompositionChecked(c, a)
    BY <1>11 DEF HandleResult
  <2> QED BY <1>11, <2>1, CompositionCheckedOk
<1>12. CASE i.kind = "REVISE_COMPOSITION"
  <2>1. d = CompositionRevised(c, i)
    BY <1>12 DEF HandleResult
  <2> QED BY <1>12, <2>1, CompositionRevisedOk
<1>13. CASE i.kind = "FINAL_SYNTHESIS"
  <2>1. d = Synthesized(c)
    BY <1>13 DEF HandleResult
  <2> QED BY <1>13, <2>1, SynthesizedOk
<1> QED BY <1>2, <1>3, <1>4, <1>5, <1>6, <1>7, <1>8, <1>9, <1>10, <1>11, <1>12, <1>13 DEF RouteWork, RunWork

-----------------------------------------------------------------------------
(* Work is taken and its result promoted *)

\* d is c up to its status, its reason, its budget and whether it is stale.
Carried(c, d) ==
    /\ d \in Checkpoint /\ d.queue = c.queue /\ d.routes = c.routes /\ d.comp = c.comp
    /\ d.review = c.review /\ d.outcome = c.outcome /\ d.judged = c.judged /\ d.closed = c.closed

\* What was reviewed and concluded is carried with it.
LEMMA CarriedConclusion ==
    ASSUME NEW c, NEW d, Carried(c, d)
    PROVE  (Accepted(c) => Accepted(d)) /\ (Concluded(c) => Concluded(d))
<1>1. ReadyVerified(d) = ReadyVerified(c)
  BY DEF Carried, ReadyVerified
<1>2. Accepted(c) => Accepted(d)
  BY DEF Carried, Accepted
<1>3. Concluded(c) => Concluded(d)
  BY <1>1 DEF Carried, Concluded
<1> QED BY <1>2, <1>3

\* A pause changes the status and the reason.
LEMMA PauseFields ==
    ASSUME NEW c \in Checkpoint, NEW d, NEW reason, d = Pause(c, reason),
           reason \in {"USER_REQUEST", "CONTRACT_AMBIGUOUS", "BUDGET_EXHAUSTED", "RUNTIME_UNAVAILABLE"}
    PROVE  Carried(c, d) /\ d.status = "PAUSED" /\ d.reason = reason
BY DEF Pause, Checkpoint, Carried

\* The pass pauses for a reason of its own.
LEMMA PausedOk ==
    ASSUME NEW pl, NEW c, NEW b, NEW d, DoneOk(pl, c, b), c.status = "RUNNING",
           NEW reason, reason \in {"BUDGET_EXHAUSTED", "RUNTIME_UNAVAILABLE"}, d = Pause(c, reason)
    PROVE  Nearly(pl, d, b)
<1>1. c \in Checkpoint
  BY DEF DoneOk, Nearly
<1>2. Carried(c, d) /\ d.status = "PAUSED"
  BY <1>1, PauseFields
<1>3. Accepted(d) /\ Concluded(d)
  BY <1>2, CarriedConclusion DEF DoneOk, Nearly
<1> QED BY <1>2, <1>3 DEF DoneOk, Nearly, Carried

\* The synthesis is pending alone.
LEMMA FinalIsAlone ==
    ASSUME NEW pl, NEW rt, NEW q, NEW b, Sound(pl, rt, q, b), NEW k \in 1..Len(q),
           Stands(q[k]) = "FINAL_SYNTHESIS"
    PROVE  /\ b = <<>> /\ q[k].kind # "TOOL_REQUEST"
           /\ \A j \in 1..Len(q) : j # k => q[j].kind = "TOOL_REQUEST"
<1>1. ItemOk(pl, rt, q[k])
  BY DEF Sound
<1>2. q[k].kind # "TOOL_REQUEST"
  BY DEF Stands
<1>3. "FINAL_SYNTHESIS" \in RunWork
  BY DEF RunWork
<1>4. q[k].route = NoRoute
  BY <1>1, <1>3 DEF ItemOk
<1>5. ASSUME NEW j \in 1..Len(q), j # k PROVE q[j].kind = "TOOL_REQUEST"
  <2>1. ~Conflict(q[j], q[k])
    BY <1>5 DEF Sound
  <2> QED BY <1>2, <1>4, <2>1 DEF Conflict
<1>6. b = <<>>
  <2>1. SUFFICES ASSUME b # <<>> PROVE FALSE
    OBVIOUS
  <2>2. b \in Seq(WorkItem)
    BY DEF Sound
  <2>3. Len(b) \in Nat /\ Len(b) # 0
    BY <2>1, <2>2, EmptySeq, LenProperties
  <2>4. 1 \in 1..Len(b)
    BY <2>3
  <2>5. ~Conflict(b[1], q[k]) /\ b[1].kind = "FALSIFY_ROUTE"
    BY <2>4 DEF Sound
  <2> QED BY <1>2, <1>4, <2>5 DEF Conflict
<1> QED BY <1>2, <1>5, <1>6

\* The work in hand and what is left do not depend on the budget.
LEMMA GoingCarried ==
    ASSUME NEW pl, NEW c, NEW i, NEW b, NEW d, Going(pl, c, i, b), Carried(c, d), d.status = c.status
    PROVE  Going(pl, d, i, b)
BY DEF Going, Carried

\* The first item of the queue is taken.
LEMMA TakenFromTheQueue ==
    ASSUME NEW pl, NEW c, NEW i, NEW q, NEW d, Good(pl, c, <<>>), c.status = "RUNNING", c.queue # <<>>,
           i = Head(c.queue), q = Tail(c.queue), d = [c EXCEPT !.queue = q]
    PROVE  Going(pl, d, i, <<>>)
<1>1. /\ c \in Checkpoint /\ c.comp <= pl.max_composition_revisions /\ c.outcome = "NONE"
      /\ Evidence(c.routes) /\ Accepted(c) /\ Sound(pl, c.routes, c.queue, <<>>)
  BY DEF Good
<1>2. c.queue \in Seq(WorkItem)
  BY <1>1, CheckpointParts
<1>3. i \in WorkItem /\ q \in Seq(WorkItem) /\ c.queue = <<i>> \o q /\ i = c.queue[1]
  BY <1>2, HeadInFront
<1>4. Headed(pl, c.routes, i, q, <<>>)
  <2>1. PICK t, rt : t = c.queue /\ rt = c.routes
    OBVIOUS
  <2>2. t = <<i>> \o q /\ Sound(pl, rt, t, <<>>)
    BY <1>1, <1>3, <2>1
  <2>3. Headed(pl, rt, i, q, <<>>)
    BY ONLY <1>3, <2>2, SoundIsHeaded
  <2> QED BY <2>1, <2>3
<1>5. d \in Checkpoint /\ d.queue = q /\ d.routes = c.routes /\ Same(c, d)
  <2>1. d = [c EXCEPT !.queue = q]
    OBVIOUS
  <2> QED BY ONLY <1>1, <1>3, <2>1, QueueFields
<1>6. ASSUME c.review = "ACCEPTED"
      PROVE  /\ c.judged = Progress(c.routes, c.comp)
             /\ \/ i.kind # "TOOL_REQUEST" /\ Stands(i) = "FINAL_SYNTHESIS"
                \/ /\ i.kind = "TOOL_REQUEST"
                   /\ \E k \in 1..Len(q) : Stands(q[k]) = "FINAL_SYNTHESIS"
  <2>1. c.judged = Progress(c.routes, c.comp)
    BY <1>1, <1>6 DEF Accepted
  <2>2. PICK k \in 1..Len(c.queue) : Stands(c.queue[k]) = "FINAL_SYNTHESIS"
    BY <1>1, <1>6 DEF Accepted
  <2>3. c.queue[k].kind # "TOOL_REQUEST" /\ \A j \in 1..Len(c.queue) : j # k => c.queue[j].kind = "TOOL_REQUEST"
    BY <1>1, <2>2, FinalIsAlone
  <2>4. CASE k = 1
    BY <1>3, <2>1, <2>2, <2>3, <2>4
  <2>5. CASE k # 1
    <3>1. Len(c.queue) = Len(q) + 1 /\ Len(q) \in Nat /\ c.queue[k] = q[k - 1] /\ k - 1 \in 1..Len(q)
      BY <1>3, <2>5, Prepended
    <3>2. PICK m \in 1..Len(q) : m = k - 1
      BY <3>1
    <3>3. Stands(q[m]) = "FINAL_SYNTHESIS"
      BY <2>2, <3>1, <3>2
    <3>4. 1 \in 1..Len(c.queue)
      BY <3>1
    <3>5. i.kind = "TOOL_REQUEST"
      BY <1>3, <2>3, <2>5, <3>4
    <3> QED BY <2>1, <3>3, <3>5
  <2> QED BY <2>4, <2>5
<1>7. d.review = c.review /\ d.judged = c.judged /\ d.comp = c.comp /\ d.status = "RUNNING" /\ d.outcome = "NONE"
  BY <1>1, <1>5 DEF Same
<1> QED BY <1>1, <1>3, <1>4, <1>5, <1>6, <1>7 DEF Going

\* The first result of a batch is taken.
LEMMA TakenFromTheBatch ==
    ASSUME NEW pl, NEW c, NEW i, NEW b, NEW q, Good(pl, c, b), b # <<>>, i = Head(b), q = Tail(b)
    PROVE  Going(pl, c, i, q)
<1>1. /\ c \in Checkpoint /\ c.comp <= pl.max_composition_revisions /\ c.outcome = "NONE"
      /\ Evidence(c.routes) /\ Accepted(c) /\ Sound(pl, c.routes, c.queue, b) /\ c.status = "RUNNING"
  BY DEF Good
<1>2. b \in Seq(WorkItem)
  BY <1>1 DEF Sound
<1>3. i \in WorkItem /\ q \in Seq(WorkItem) /\ b = <<i>> \o q
  BY <1>2, HeadInFront
<1>4. Headed(pl, c.routes, i, c.queue, q)
  <2>1. PICK t, rt : t = c.queue /\ rt = c.routes
    OBVIOUS
  <2>2. Sound(pl, rt, t, b)
    BY <1>1, <2>1
  <2>3. Headed(pl, rt, i, t, q)
    BY ONLY <1>3, <2>2, TakenFromBatch
  <2> QED BY <2>1, <2>3
<1>5. c.review # "ACCEPTED"
  <2>1. SUFFICES ASSUME c.review = "ACCEPTED" PROVE FALSE
    OBVIOUS
  <2>2. PICK k \in 1..Len(c.queue) : Stands(c.queue[k]) = "FINAL_SYNTHESIS"
    BY <1>1, <2>1 DEF Accepted
  <2> QED BY <1>1, <2>2, FinalIsAlone
<1> QED BY <1>1, <1>3, <1>4, <1>5 DEF Going

\* A pass that goes on keeps its batch.
LEMMA RunningIsGood ==
    ASSUME NEW pl, NEW d, NEW b, Nearly(pl, d, b), d.status = "RUNNING"
    PROVE  Good(pl, d, b)
BY DEF Nearly, Good

\* A pass that stops keeps its batch in the queue.
LEMMA StoppedIsGood ==
    ASSUME NEW pl, NEW d, NEW b, NEW e, Nearly(pl, d, b), d.status # "RUNNING", e = Preserve(d, b)
    PROVE  Good(pl, e, <<>>)
<1>1. /\ d \in Checkpoint /\ d.comp <= pl.max_composition_revisions /\ Sound(pl, d.routes, d.queue, b)
      /\ d.status \in {"WAITING_HUMAN_REVIEW", "COMPLETED"} => d.queue = <<>> /\ b = <<>>
      /\ d.status = "PAUSED" /\ d.reason \in {"BUDGET_EXHAUSTED", "RUNTIME_UNAVAILABLE"}
             => d.queue # <<>> \/ b # <<>>
      /\ d.outcome # "NONE" => d.status = "COMPLETED"
      /\ Evidence(d.routes) /\ Accepted(d) /\ Concluded(d)
  BY DEF Nearly
<1>2. PICK q, rt, kept, s : /\ q = d.queue /\ rt = d.routes
                            /\ kept = [k \in DOMAIN b |-> [b[k] EXCEPT !.done = TRUE]]
                            /\ s = SubSeq(q, 1, IF q = <<>> THEN 0 ELSE 1) \o kept \o SubSeq(q, 2, Len(q))
  OBVIOUS
<1>3. Sound(pl, rt, s, <<>>) /\ (b = <<>> => s = q) /\ (b # <<>> => s # <<>>)
  <2>1. Sound(pl, rt, q, b)
    BY <1>1, <1>2
  <2>2. Preserving(q, b, kept, s)
    BY <1>2 DEF Preserving
  <2> QED BY ONLY <2>1, <2>2, PreservedIsSound
<1>4. e = [d EXCEPT !.queue = s]
  BY <1>2 DEF Preserve
<1>5. s \in Seq(WorkItem)
  BY <1>3 DEF Sound
<1>6. e \in Checkpoint /\ e.queue = s /\ e.routes = d.routes /\ Same(d, e) /\ e.closed = d.closed
  BY <1>1, <1>4, <1>5, QueueFields
<1>7. Accepted(e)
  <2>1. SUFFICES ASSUME d.review = "ACCEPTED", d.outcome = "NONE"
                 PROVE  /\ d.judged = Progress(d.routes, d.comp)
                        /\ \E k \in 1..Len(s) : Stands(s[k]) = "FINAL_SYNTHESIS"
    BY <1>6 DEF Accepted, Same
  <2>2. PICK k \in 1..Len(q) : Stands(q[k]) = "FINAL_SYNTHESIS"
    BY <1>1, <1>2, <2>1 DEF Accepted
  <2>3. b = <<>>
    BY <1>1, <1>2, <2>2, FinalIsAlone
  <2> QED BY <1>1, <1>3, <2>1, <2>2, <2>3 DEF Accepted
<1>8. Concluded(e)
  <2>1. ReadyVerified(e) = ReadyVerified(d)
    BY <1>6 DEF ReadyVerified
  <2> QED BY <1>1, <1>6, <2>1 DEF Concluded, Same
<1>9. /\ e.status \in {"WAITING_HUMAN_REVIEW", "COMPLETED"} => e.queue = <<>>
      /\ e.status = "PAUSED" /\ e.reason \in {"BUDGET_EXHAUSTED", "RUNTIME_UNAVAILABLE"} => e.queue # <<>>
      /\ e.outcome # "NONE" => e.status = "COMPLETED"
      /\ e.comp <= pl.max_composition_revisions
  BY <1>1, <1>2, <1>3, <1>6 DEF Same
<1> QED BY <1>1, <1>2, <1>3, <1>6, <1>7, <1>8, <1>9 DEF Good

\* What is left of the batch when its first result is promoted.
Rest(p) == IF InBatch(p) THEN Tail(proc[p].batch) ELSE <<>>

\* One process gets a new row.
LEMMA RowChanged ==
    ASSUME NEW pl, NEW f, NEW g, AllGood(pl, f), NEW p \in Procs, NEW u \in ProcRow,
           Good(pl, u.cp, u.batch), g = [f EXCEPT ![p] = u]
    PROVE  AllGood(pl, g)
<1>1. f \in [Procs -> ProcRow] /\ \A x \in Procs : Good(pl, f[x].cp, f[x].batch)
  BY DEF AllGood
<1>2. g \in [Procs -> ProcRow]
  BY <1>1
<1>3. ASSUME NEW x \in Procs PROVE Good(pl, g[x].cp, g[x].batch)
  <2>1. CASE x = p
    <3>1. g[x] = u
      BY <1>1, <2>1
    <3> QED BY <3>1
  <2>2. CASE x # p
    <3>1. g[x] = f[x]
      BY <1>1, <2>2
    <3> QED BY <1>1, <3>1
  <2> QED BY <2>1, <2>2
<1> QED BY <1>2, <1>3 DEF AllGood

\* Promoting a result keeps every process in order.
LEMMA PromoteOk ==
    ASSUME AllGood(plan, proc), NEW p \in Procs, NEW d, Nearly(plan, d, Rest(p)), Promote(p, d)
    PROVE  AllGood(plan, proc')
<1>1. PICK b : b = Rest(p)
  OBVIOUS
<1>2. Nearly(plan, d, b)
  BY <1>1
<1>3. d \in Checkpoint /\ b \in Seq(WorkItem)
  BY <1>2 DEF Nearly, Sound
<1>4. PICK w \in ProcRow : w = proc[p]
  BY DEF AllGood
<1>41. w \in ProcRow
  OBVIOUS
<1>5. CASE d.status # "RUNNING"
  <2>1. PICK e : e = Preserve(d, b)
    OBVIOUS
  <2>2. Good(plan, e, <<>>)
    BY <1>2, <1>5, <2>1, StoppedIsGood
  <2>3. e \in Checkpoint /\ <<>> \in Seq(WorkItem)
    BY <2>2 DEF Good
  <2>4. PICK u : u = [w EXCEPT !.cp = e, !.batch = <<>>]
    OBVIOUS
  <2>5. u \in ProcRow /\ u.cp = e /\ u.batch = <<>>
    BY ONLY <1>41, <2>3, <2>4 DEF ProcRow
  <2>6. proc' = [proc EXCEPT ![p] = u]
    BY <1>1, <1>4, <1>5, <2>1, <2>4 DEF Promote, Rest
  <2>7. Good(plan, u.cp, u.batch)
    BY <2>2, <2>5
  <2> QED BY <2>5, <2>6, <2>7, RowChanged
<1>6. CASE d.status = "RUNNING"
  <2>2. Good(plan, d, b)
    BY <1>2, <1>6, RunningIsGood
  <2>4. PICK u : u = [w EXCEPT !.cp = d, !.batch = b]
    OBVIOUS
  <2>5. u \in ProcRow /\ u.cp = d /\ u.batch = b
    <3>1. w.pc = "working" \/ b = <<>>
      BY <1>1, <1>4 DEF Rest, InBatch, ProcRow
    <3> QED BY ONLY <1>3, <1>41, <2>4, <3>1 DEF ProcRow
  <2>6. proc' = [proc EXCEPT ![p] = u]
    BY <1>1, <1>4, <1>6, <2>4 DEF Promote, Rest
  <2>7. Good(plan, u.cp, u.batch)
    BY <2>2, <2>5
  <2> QED BY <2>5, <2>6, <2>7, RowChanged
<1> QED BY <1>5, <1>6

\* The work a process takes, before and after it is charged.
LEMMA WorkTaken ==
    ASSUME AllGood(plan, proc), NEW p \in Procs, Working(p)
    PROVE  /\ Going(plan, Taken(p), Current(p), Rest(p))
           /\ \A f \in BOOLEAN : Going(plan, Charged(p, f), Current(p), Rest(p))
<1>1. PICK c, b : c = proc[p].cp /\ b = proc[p].batch
  OBVIOUS
<1>2. Good(plan, c, b)
  BY <1>1 DEF AllGood
<1>3. PICK d, i, q : d = Taken(p) /\ i = Current(p) /\ q = Rest(p)
  OBVIOUS
<1>4. Going(plan, d, i, q)
  <2>1. CASE InBatch(p)
    <3>1. b # <<>> /\ i = Head(b) /\ q = Tail(b) /\ d = c
      BY <1>1, <1>3, <2>1 DEF InBatch, Current, Taken, Rest
    <3>2. Going(plan, c, i, q)
      BY ONLY <1>2, <3>1, TakenFromTheBatch
    <3> QED BY <3>1, <3>2
  <2>2. CASE ~InBatch(p)
    <3>1. b = <<>> /\ q = <<>> /\ c.status = "RUNNING" /\ c.queue # <<>>
      BY <1>1, <1>3, <2>2 DEF InBatch, Working, Rest
    <3>2. PICK t : t = Tail(c.queue)
      OBVIOUS
    <3>3. i = Head(c.queue) /\ d = [c EXCEPT !.queue = t]
      BY <1>1, <1>3, <2>2, <3>2 DEF Current, Taken
    <3>4. Good(plan, c, <<>>)
      BY <1>2, <3>1
    <3>5. Going(plan, d, i, <<>>)
      BY ONLY <3>1, <3>2, <3>3, <3>4, TakenFromTheQueue
    <3> QED BY <3>1, <3>5
  <2> QED BY <2>1, <2>2
<1>5. ASSUME NEW f \in BOOLEAN PROVE Going(plan, Charged(p, f), i, q)
  <2>1. d \in Checkpoint
    BY <1>4 DEF Going
  <2>2. PICK g \in BOOLEAN : g = (d.spent \/ f)
    OBVIOUS
  <2>3. PICK e : e = [d EXCEPT !.spent = g]
    OBVIOUS
  <2>4. Charged(p, f) = e
    BY <1>3, <2>2, <2>3 DEF Charged
  <2>5. Carried(d, e) /\ e.status = d.status
    BY <2>1, <2>3 DEF Carried, Checkpoint
  <2>6. Going(plan, e, i, q)
    BY ONLY <1>4, <2>5, GoingCarried
  <2> QED BY <2>4, <2>6
<1> QED BY <1>3, <1>4, <1>5

\* The item in hand, or one that stands for the same work, goes back to the front.
LEMMA PutBackOk ==
    ASSUME NEW pl, NEW c, NEW i, NEW b, NEW x, NEW d, Going(pl, c, i, b), x \in WorkItem,
           Headed(pl, c.routes, x, c.queue, b), Stands(x) = Stands(i),
           d = PutBack(c, x)
    PROVE  DoneOk(pl, d, b) /\ d.status = "RUNNING"
<1>1. /\ c \in Checkpoint /\ c.comp <= pl.max_composition_revisions /\ c.status = "RUNNING"
      /\ c.outcome = "NONE" /\ Evidence(c.routes)
  BY DEF Going
<1>2. PICK q, t : q = c.queue /\ t = <<x>> \o q
  OBVIOUS
<1>3. q \in Seq(WorkItem)
  BY <1>1, <1>2, CheckpointParts
<1>4. /\ t \in Seq(WorkItem) /\ Len(q) \in Nat /\ Len(t) = Len(q) + 1 /\ t[1] = x
      /\ \A k \in 1..Len(q) : k + 1 \in 1..Len(t) /\ t[k + 1] = q[k]
  BY ONLY <1>2, <1>3, x \in WorkItem, Prepended
<1>5. d = [c EXCEPT !.queue = t]
  BY <1>2 DEF PutBack
<1>6. d \in Checkpoint /\ d.queue = t /\ d.routes = c.routes /\ Same(c, d)
  BY ONLY <1>1, <1>4, <1>5, QueueFields
<1>7. Sound(pl, c.routes, t, b)
  <2>1. PICK rt : rt = c.routes
    OBVIOUS
  <2>2. Headed(pl, rt, x, q, b)
    BY <1>2, <2>1
  <2>3. Sound(pl, rt, <<x>> \o q, b)
    BY ONLY <2>2, x \in WorkItem, HeadedIsSound
  <2> QED BY <1>2, <2>1, <2>3
<1>8. t # <<>> /\ 1 \in 1..Len(t)
  BY <1>4
<1>9. Accepted(d)
  <2>1. SUFFICES ASSUME c.review = "ACCEPTED"
                 PROVE  /\ c.judged = Progress(c.routes, c.comp)
                        /\ \E k \in 1..Len(t) : Stands(t[k]) = "FINAL_SYNTHESIS"
    BY <1>6 DEF Accepted, Same
  <2>2. c.judged = Progress(c.routes, c.comp)
    BY <2>1 DEF Going
  <2>3. CASE Stands(i) = "FINAL_SYNTHESIS"
    BY <1>4, <1>8, <2>2, <2>3
  <2>4. CASE \E k \in 1..Len(q) : Stands(q[k]) = "FINAL_SYNTHESIS"
    <3>1. PICK k \in 1..Len(q) : Stands(q[k]) = "FINAL_SYNTHESIS"
      BY <2>4
    <3>2. k + 1 \in 1..Len(t) /\ t[k + 1] = q[k]
      BY <1>4
    <3> QED BY <2>2, <3>1, <3>2
  <2> QED BY <1>2, <2>1, <2>3, <2>4 DEF Going
<1>10. d.status = "RUNNING" /\ d.outcome = "NONE" /\ d.comp <= pl.max_composition_revisions
  BY <1>1, <1>6 DEF Same
<1> QED BY <1>1, <1>6, <1>7, <1>8, <1>9, <1>10 DEF DoneOk, Nearly, Concluded

\* A tool has answered: the item it was asked by is next.
LEMMA ToolDone ==
    ASSUME NEW pl, NEW c, NEW i, NEW b, Going(pl, c, i, b), i.kind = "TOOL_REQUEST"
    PROVE  Nearly(pl, c, b)
<1>1. Sound(pl, c.routes, c.queue, b)
  BY ToolTaken DEF Going
<1>2. Accepted(c)
  BY DEF Going, Accepted
<1> QED BY <1>1, <1>2 DEF Going, Nearly, Concluded

\* The item in hand goes back and the pass pauses.
LEMMA PutBackAndPause ==
    ASSUME AllGood(plan, proc), NEW p \in Procs, NEW c, NEW i, NEW reason,
           Going(plan, c, i, Rest(p)), reason \in {"BUDGET_EXHAUSTED", "RUNTIME_UNAVAILABLE"},
           Promote(p, Pause(PutBack(c, i), reason))
    PROVE  AllGood(plan, proc')
<1>1. PICK b, d, e : b = Rest(p) /\ d = PutBack(c, i) /\ e = Pause(d, reason)
  OBVIOUS
<1>2. Going(plan, c, i, b)
  BY <1>1
<1>3. i \in WorkItem /\ Headed(plan, c.routes, i, c.queue, b)
  BY <1>2 DEF Going
<1>4. DoneOk(plan, d, b) /\ d.status = "RUNNING"
  BY <1>1, <1>2, <1>3, PutBackOk
<1>5. Nearly(plan, e, b)
  BY <1>1, <1>4, PausedOk
<1>6. Nearly(plan, e, Rest(p)) /\ Promote(p, e)
  BY <1>1, <1>5
<1> QED BY <1>6, PromoteOk

\* The answers of the tools are handed to the work that asked for them.
LEMMA IntegrateToolsOk ==
    ASSUME AllGood(plan, proc), NEW p \in Procs, IntegrateTools(p)
    PROVE  AllGood(plan, proc')
<1>1. PICK c, i, b : c = Taken(p) /\ i = Current(p) /\ b = Rest(p)
  OBVIOUS
<1>2. Going(plan, c, i, b)
  BY <1>1, WorkTaken DEF IntegrateTools, Single
<1>3. PICK x : x = [i EXCEPT !.kind = i.parent, !.parent = "NONE"]
  OBVIOUS
<1>4. /\ i \in WorkItem /\ Headed(plan, c.routes, i, c.queue, b) /\ ItemOk(plan, c.routes, i)
      /\ i.kind = "INTEGRATE_TOOLS"
  BY <1>1, <1>2 DEF Going, Headed, IntegrateTools
<1>5. i.parent \in RouteWork \cup RunWork /\ Stands(i) = i.parent
  <2>1. i.parent # "NONE"
    BY <1>4 DEF ItemOk
  <2>2. i.parent \in RouteWork \cup RunWork \cup {"NONE"}
    BY <1>4 DEF WorkItem
  <2> QED BY <1>4, <2>1, <2>2 DEF Stands
<1>6. i.parent # "INTEGRATE_TOOLS" /\ i.parent # "TOOL_REQUEST"
  BY <1>5 DEF RouteWork, RunWork
<1>7. /\ x \in WorkItem /\ x.kind = i.parent /\ x.parent = "NONE" /\ x.route = i.route
      /\ x.round = i.round
  BY <1>3, <1>4, <1>5 DEF WorkItem
<1>8. Stands(x) = Stands(i)
  BY <1>5, <1>6, <1>7 DEF Stands
<1>9. Headed(plan, c.routes, x, c.queue, b)
  <2>1. PICK rt, q : rt = c.routes /\ q = c.queue
    OBVIOUS
  <2>2. /\ Headed(plan, rt, i, q, b) /\ i.kind # "TOOL_REQUEST" /\ x.kind # "TOOL_REQUEST"
        /\ (x.kind = "INTEGRATE_TOOLS") = (x.parent # "NONE")
    BY <1>4, <1>6, <1>7, <2>1
  <2>3. Headed(plan, rt, x, q, b)
    BY ONLY <1>7, <1>8, <2>2, AlikeInFront
  <2> QED BY <2>1, <2>3
<1>10. PICK d : d = PutBack(c, x)
  OBVIOUS
<1>11. Nearly(plan, d, b)
  BY ONLY <1>2, <1>7, <1>8, <1>9, <1>10, PutBackOk DEF DoneOk
<1>12. Nearly(plan, d, Rest(p)) /\ Promote(p, d)
  BY <1>1, <1>3, <1>10, <1>11 DEF IntegrateTools
<1> QED BY <1>12, PromoteOk

\* A call raised.
LEMMA CallFailsOk ==
    ASSUME AllGood(plan, proc), NEW p \in Procs, CallFails(p)
    PROVE  AllGood(plan, proc')
<1>1. PICK c, i : c = Taken(p) /\ i = Current(p)
  OBVIOUS
<1>2. Going(plan, c, i, Rest(p))
  BY <1>1, WorkTaken DEF CallFails, Single
<1>3. Promote(p, Pause(PutBack(c, i), "RUNTIME_UNAVAILABLE"))
  BY <1>1 DEF CallFails
<1> QED BY <1>2, <1>3, PutBackAndPause

\* The result could not be used.
LEMMA AnswerRefusedOk ==
    ASSUME AllGood(plan, proc), NEW p \in Procs, AnswerRefused(p)
    PROVE  AllGood(plan, proc')
<1>1. PICK f \in BOOLEAN, reason \in {"BUDGET_EXHAUSTED", "RUNTIME_UNAVAILABLE"} :
          Promote(p, Pause(PutBack(Charged(p, f), Current(p)), reason))
  BY DEF AnswerRefused
<1>2. PICK c, i : c = Charged(p, f) /\ i = Current(p)
  OBVIOUS
<1>3. Going(plan, c, i, Rest(p))
  BY <1>2, WorkTaken DEF AnswerRefused, Answered, Single
<1>4. Promote(p, Pause(PutBack(c, i), reason))
  BY <1>1, <1>2
<1> QED BY <1>3, <1>4, PutBackAndPause

\* A tool answered.
LEMMA ToolAnsweredOk ==
    ASSUME AllGood(plan, proc), NEW p \in Procs, ToolAnswered(p)
    PROVE  AllGood(plan, proc')
<1>1. PICK f \in BOOLEAN : Promote(p, Charged(p, f))
  BY DEF ToolAnswered
<1>2. PICK c, i, b : c = Charged(p, f) /\ i = Current(p) /\ b = Rest(p)
  OBVIOUS
<1>3. Going(plan, c, i, b) /\ i.kind = "TOOL_REQUEST"
  BY <1>2, WorkTaken DEF ToolAnswered, Answered, Single
<1>4. Nearly(plan, c, b)
  BY <1>3, ToolDone
<1>5. Nearly(plan, c, Rest(p)) /\ Promote(p, c)
  BY <1>1, <1>2, <1>4
<1> QED BY <1>5, PromoteOk

\* The request a component makes, and the item that takes its answer up.
Request(i) == Item("TOOL_REQUEST", i.route, 0, FALSE)
Waiting(i) == [i EXCEPT !.kind = "INTEGRATE_TOOLS", !.parent = i.kind,
                        !.cycle = i.cycle + 1, !.done = FALSE]

\* The request is a tool item.
LEMMA RequestItem ==
    ASSUME NEW i \in WorkItem, NEW t, t = Request(i)
    PROVE  t \in WorkItem /\ t.kind = "TOOL_REQUEST" /\ t.parent = "NONE"
<1>1. i.route \in Routes \cup {NoRoute} /\ 0 \in Nat /\ FALSE \in BOOLEAN
  BY DEF WorkItem
<1> QED BY <1>1 DEF Request, Item, WorkItem

\* The item that waits for the answer stands for the same work.
LEMMA WaitingItem ==
    ASSUME NEW i \in WorkItem, i.kind \in RouteWork \cup RunWork, NEW x, x = Waiting(i)
    PROVE  /\ x \in WorkItem /\ x.kind = "INTEGRATE_TOOLS" /\ x.parent = i.kind /\ x.route = i.route
           /\ x.round = i.round /\ Stands(x) = Stands(i)
<1>1. i.cycle \in Nat /\ i.cycle + 1 \in Nat /\ FALSE \in BOOLEAN
  BY DEF WorkItem
<1>2. i.kind # "INTEGRATE_TOOLS"
  BY DEF RouteWork, RunWork
<1>3. x \in WorkItem
  BY <1>1 DEF Waiting, WorkItem
<1>4. x.kind = "INTEGRATE_TOOLS" /\ x.parent = i.kind /\ x.route = i.route /\ x.round = i.round
  BY DEF Waiting, WorkItem
<1> QED BY <1>2, <1>3, <1>4 DEF Stands

\* Two items, one after the other.
LEMMA TwoItems ==
    ASSUME NEW t \in WorkItem, NEW x \in WorkItem
    PROVE  <<t>> \in Seq(WorkItem) /\ <<x>> \in Seq(WorkItem) /\ <<t>> \o <<x>> = <<t, x>>
<1>1. <<t>> \in Seq(WorkItem) /\ <<x>> \in Seq(WorkItem)
  OBVIOUS
<1>2. PICK y : y = <<t>> \o <<x>>
  OBVIOUS
<1>3. y \in Seq(WorkItem) /\ Len(y) = 2 /\ y[1] = t /\ y[2] = x
  BY <1>1, <1>2
<1>4. PICK z : z = <<t, x>>
  OBVIOUS
<1>5. z \in Seq(WorkItem) /\ Len(z) = 2 /\ z[1] = t /\ z[2] = x
  BY <1>4
<1>6. Len(y) = Len(z) /\ \A k \in 1..Len(y) : y[k] = z[k]
  BY <1>3, <1>5
<1>7. y = z
  BY ONLY <1>3, <1>5, <1>6, SeqEqual
<1> QED BY <1>1, <1>2, <1>4, <1>7

\* Tools are asked for: request and continuation go to the front.
LEMMA AskedOk ==
    ASSUME NEW pl, NEW c, NEW i, NEW b, NEW d, Going(pl, c, i, b), i.kind \in RouteWork \cup RunWork,
           d = [c EXCEPT !.queue = <<Request(i), Waiting(i)>> \o c.queue]
    PROVE  Nearly(pl, d, b)
<1>1. PICK t, x, q, rt : t = Request(i) /\ x = Waiting(i) /\ q = c.queue /\ rt = c.routes
  OBVIOUS
<1>2. /\ i \in WorkItem /\ c \in Checkpoint /\ Headed(pl, rt, i, q, b) /\ q \in Seq(WorkItem)
      /\ c.comp <= pl.max_composition_revisions /\ c.status = "RUNNING" /\ c.outcome = "NONE"
      /\ Evidence(rt)
  BY <1>1, CheckpointParts DEF Going
<1>3. t \in WorkItem /\ t.kind = "TOOL_REQUEST" /\ t.parent = "NONE"
  BY <1>1, <1>2, RequestItem
<1>4. /\ x \in WorkItem /\ x.kind = "INTEGRATE_TOOLS" /\ x.parent = i.kind /\ x.route = i.route
      /\ x.round = i.round /\ Stands(x) = Stands(i)
  BY <1>1, <1>2, WaitingItem
<1>5. i.kind # "TOOL_REQUEST" /\ i.kind # "NONE" /\ i.kind # "INTEGRATE_TOOLS"
  BY DEF RouteWork, RunWork
<1>6. Headed(pl, rt, x, q, b)
  <2>1. x.kind # "TOOL_REQUEST" /\ ((x.kind = "INTEGRATE_TOOLS") = (x.parent # "NONE"))
    BY <1>4, <1>5
  <2> QED BY ONLY <1>2, <1>4, <1>5, <2>1, AlikeInFront
<1>7. PICK s : s = <<x>> \o q
  OBVIOUS
<1>8. Headed(pl, rt, t, s, b)
  <2>1. x.kind # "TOOL_REQUEST"
    BY <1>4
  <2>2. Headed(pl, rt, t, <<x>> \o q, b)
    BY ONLY <1>3, <1>4, <1>6, <2>1, ToolInFront
  <2> QED BY <1>7, <2>2
<1>9. Sound(pl, rt, <<t>> \o s, b)
  BY ONLY <1>3, <1>8, HeadedIsSound
<1>10. PICK y : y = <<t>> \o s
  OBVIOUS
<1>11. y = <<t, x>> \o q
  <2>1. <<t>> \in Seq(WorkItem) /\ <<x>> \in Seq(WorkItem) /\ <<t>> \o <<x>> = <<t, x>>
    BY <1>3, <1>4, TwoItems
  <2>2. (<<t>> \o <<x>>) \o q = <<t>> \o (<<x>> \o q)
    BY ONLY <1>2, <2>1, ConcatThree
  <2> QED BY ONLY <1>7, <1>10, <2>1, <2>2
<1>12. y \in Seq(WorkItem) /\ Sound(pl, rt, y, b)
  BY <1>9, <1>10 DEF Sound
<1>13. d = [c EXCEPT !.queue = y]
  BY <1>1, <1>11
<1>14. d \in Checkpoint /\ d.queue = y /\ d.routes = c.routes /\ Same(c, d)
  BY ONLY <1>2, <1>12, <1>13, QueueFields
<1>15. 2 \in 1..Len(y) /\ y[2] = x
  <2>1. /\ s \in Seq(WorkItem) /\ Len(q) \in Nat /\ Len(s) = Len(q) + 1 /\ s[1] = x
    BY ONLY <1>2, <1>4, <1>7, Prepended
  <2>2. /\ Len(s) \in Nat /\ Len(y) = Len(s) + 1
        /\ \A k \in 1..Len(s) : k + 1 \in 1..Len(y) /\ y[k + 1] = s[k]
    BY ONLY <1>3, <1>10, <2>1, Prepended
  <2>3. 1 \in 1..Len(s)
    BY <2>1
  <2>4. 1 + 1 \in 1..Len(y) /\ y[1 + 1] = s[1]
    BY <2>2, <2>3
  <2> QED BY <2>1, <2>4
<1>16. Accepted(d)
  <2>1. SUFFICES ASSUME c.review = "ACCEPTED"
                 PROVE  /\ c.judged = Progress(c.routes, c.comp)
                        /\ \E k \in 1..Len(y) : Stands(y[k]) = "FINAL_SYNTHESIS"
    BY <1>14 DEF Accepted, Same
  <2>2. c.judged = Progress(c.routes, c.comp) /\ Stands(i) = "FINAL_SYNTHESIS"
    BY <1>5, <2>1 DEF Going
  <2> QED BY <1>4, <1>15, <2>2
<1>17. d.status = "RUNNING" /\ d.outcome = "NONE" /\ d.comp <= pl.max_composition_revisions
  BY <1>2, <1>14 DEF Same
<1> QED BY <1>1, <1>2, <1>12, <1>14, <1>16, <1>17 DEF Nearly, Concluded

\* A component asks for tools.
LEMMA ToolsRequestedOk ==
    ASSUME plan \in Plans, AllGood(plan, proc), NEW p \in Procs, ToolsRequested(p)
    PROVE  AllGood(plan, proc')
<1>1. PICK i : i = Current(p)
  OBVIOUS
<1>2. PICK f \in BOOLEAN :
          Promote(p, [Charged(p, f) EXCEPT !.queue = <<Request(i), Waiting(i)>> \o @])
  BY <1>1 DEF ToolsRequested, Request, Waiting
<1>3. PICK c, b : c = Charged(p, f) /\ b = Rest(p)
  OBVIOUS
<1>4. Going(plan, c, i, b)
  BY <1>1, <1>3, WorkTaken DEF ToolsRequested, Answered, Single
<1>5. i.kind \in RouteWork \cup RunWork
  <2>1. plan.tools \subseteq RouteWork \cup RunWork
    BY ConstantsAssumption DEF PlanType
  <2> QED BY <1>1, <2>1 DEF ToolsRequested
<1>6. PICK d : d = [c EXCEPT !.queue = <<Request(i), Waiting(i)>> \o c.queue]
  OBVIOUS
<1>7. Nearly(plan, d, b)
  BY ONLY <1>4, <1>5, <1>6, AskedOk
<1>8. Nearly(plan, d, Rest(p)) /\ Promote(p, d)
  BY <1>2, <1>3, <1>6, <1>7
<1> QED BY <1>8, PromoteOk

\* A component has done its work.
LEMMA WorkDoneOk ==
    ASSUME plan \in Plans, AllGood(plan, proc), NEW p \in Procs, WorkDone(p)
    PROVE  AllGood(plan, proc')
<1>1. PICK i, b : i = Current(p) /\ b = Rest(p)
  OBVIOUS
<1>2. i.kind \in RouteWork \cup RunWork /\ Working(p)
  BY <1>1 DEF WorkDone, Answered, Single
<1>3. PICK f \in BOOLEAN, a \in Answers(i) :
          LET c == HandleResult(Charged(p, f), i, a) IN
          Promote(p, IF c.spent /\ c.status = "RUNNING" THEN Pause(c, "BUDGET_EXHAUSTED") ELSE c)
  BY <1>1 DEF WorkDone
<1>4. PICK c : c = Charged(p, f)
  OBVIOUS
<1>5. Going(plan, c, i, b)
  BY <1>1, <1>2, <1>4, WorkTaken
<1>6. PICK d : d = HandleResult(c, i, a)
  OBVIOUS
<1>7. DoneOk(plan, d, b)
  BY <1>2, <1>5, <1>6, Handled
<1>8. PICK e : e = IF d.spent /\ d.status = "RUNNING" THEN Pause(d, "BUDGET_EXHAUSTED") ELSE d
  OBVIOUS
<1>9. Nearly(plan, e, b)
  <2>1. CASE d.spent /\ d.status = "RUNNING"
    <3>1. e = Pause(d, "BUDGET_EXHAUSTED")
      BY <1>8, <2>1
    <3> QED BY <1>7, <2>1, <3>1, PausedOk
  <2>2. CASE ~(d.spent /\ d.status = "RUNNING")
    <3>1. e = d
      BY <1>8, <2>2
    <3> QED BY <1>7, <3>1 DEF DoneOk
  <2> QED BY <2>1, <2>2
<1>10. Nearly(plan, e, Rest(p)) /\ Promote(p, e)
  BY <1>1, <1>3, <1>4, <1>6, <1>8, <1>9
<1> QED BY <1>10, PromoteOk

\* As many items as the run of falsifications has are falsifications.
LEMMA RunOfFalsifications ==
    ASSUME NEW q \in Seq(WorkItem), NEW n, n = Cardinality(FalsifyRun(q))
    PROVE  n \in Nat /\ n <= Len(q) /\ \A k \in 1..n : q[k].kind = "FALSIFY_ROUTE"
<1>1. PICK l \in Nat : l = Len(q)
  BY LenProperties
<1>2. PICK F : F = FalsifyRun(q)
  OBVIOUS
<1>3. F \subseteq 1..l /\ \A m \in F : \A k \in 1..m : q[k].kind = "FALSIFY_ROUTE"
  BY <1>1, <1>2 DEF FalsifyRun
<1>4. IsFiniteSet(1..l) /\ Cardinality(1..l) = l
  BY FS_Interval
<1>5. n \in Nat /\ n <= l
  <2>1. IsFiniteSet(F) /\ Cardinality(F) <= Cardinality(1..l)
    BY <1>3, <1>4, FS_Subset
  <2> QED BY <1>2, <1>4, <2>1, FS_CardinalityType
<1>6. ASSUME NEW k \in 1..n PROVE q[k].kind = "FALSIFY_ROUTE"
  <2>1. SUFFICES ASSUME q[k].kind # "FALSIFY_ROUTE" PROVE FALSE
    OBVIOUS
  <2>2. k \in Nat /\ k >= 1 /\ k <= n
    BY <1>5
  <2>3. ASSUME NEW m \in F PROVE m \in 1..(k - 1)
    <3>1. m \in 1..l /\ ~(k \in 1..m)
      BY <1>3, <2>1
    <3> QED BY <2>2, <3>1
  <2>4. PICK j \in Nat : j = k - 1
    BY <2>2
  <2>5. F \subseteq 1..j
    BY <2>3, <2>4
  <2>6. IsFiniteSet(1..j) /\ Cardinality(1..j) = j
    BY FS_Interval
  <2>7. Cardinality(F) <= j
    BY <2>5, <2>6, FS_Subset
  <2> QED BY <1>2, <1>5, <2>2, <2>4, <2>7
<1> QED BY <1>1, <1>5, <1>6

\* The first n items of a queue, with the results of the calls that did not fail.
Marked(q, n, failed) == [k \in 1..n |-> [q[k] EXCEPT !.done = k \notin failed]]

\* The queue of a checkpoint is exchanged and it pauses.
PausedWith(c, q) == Pause([c EXCEPT !.queue = q], "RUNTIME_UNAVAILABLE")

\* The parallel calls of a batch, answered or failed.
LEMMA FalsifyInParallelOk ==
    ASSUME AllGood(plan, proc), NEW p \in Procs, FalsifyInParallel(p)
    PROVE  AllGood(plan, proc')
<1>1. PICK w \in ProcRow : w = proc[p]
  BY DEF AllGood
<1>2. PICK c, q, n : c = proc[p].cp /\ q = c.queue /\ n = Cardinality(FalsifyRun(q))
  OBVIOUS
<1>3. /\ proc[p].batch = <<>> /\ c.status = "RUNNING" /\ n >= 2
  BY <1>2 DEF FalsifyInParallel, InBatch, Working
<1>4. Good(plan, c, <<>>)
  BY <1>2, <1>3 DEF AllGood
<1>5. /\ c \in Checkpoint /\ Sound(plan, c.routes, q, <<>>) /\ c.outcome = "NONE"
      /\ c.comp <= plan.max_composition_revisions /\ Evidence(c.routes) /\ Accepted(c)
  BY <1>2, <1>3, <1>4 DEF Good
<1>6. q \in Seq(WorkItem)
  BY <1>2, <1>5, CheckpointParts
<1>7. n \in Nat /\ n <= Len(q) /\ (\A k \in 1..n : q[k].kind = "FALSIFY_ROUTE") /\ n >= 1
  <2>1. n \in Nat /\ n <= Len(q) /\ \A k \in 1..n : q[k].kind = "FALSIFY_ROUTE"
    BY <1>2, <1>6, RunOfFalsifications
  <2> QED BY <1>3, <2>1
<1>8. PICK b, s : b = SubSeq(q, 1, n) /\ s = SubSeq(q, n + 1, Len(q))
  OBVIOUS
<1>9. Sound(plan, c.routes, s, b)
  <2>1. PICK rt : rt = c.routes
    OBVIOUS
  <2>2. Sound(plan, rt, q, <<>>)
    BY <1>5, <2>1
  <2>3. Sound(plan, rt, SubSeq(q, n + 1, Len(q)), SubSeq(q, 1, n))
    BY ONLY <1>7, <2>2, BatchTakenIsSound
  <2> QED BY <1>8, <2>1, <2>3
<1>10. s \in Seq(WorkItem) /\ b \in Seq(WorkItem)
  BY <1>9 DEF Sound
<1>11. c.review # "ACCEPTED"
  <2>1. SUFFICES ASSUME c.review = "ACCEPTED" PROVE FALSE
    OBVIOUS
  <2>2. PICK k \in 1..Len(q) : Stands(q[k]) = "FINAL_SYNTHESIS"
    BY <1>2, <1>5, <2>1 DEF Accepted
  <2>3. Len(q) \in Nat
    BY <1>6, LenProperties
  <2>4. 1 \in 1..n /\ 2 \in 1..n /\ 1 \in 1..Len(q) /\ 2 \in 1..Len(q)
    BY <1>3, <1>7, <2>3
  <2>5. q[1].kind = "FALSIFY_ROUTE" /\ q[2].kind = "FALSIFY_ROUTE"
    BY <1>7, <2>4
  <2>6. \A j \in 1..Len(q) : j # k => q[j].kind = "TOOL_REQUEST"
    BY <1>5, <2>2, FinalIsAlone
  <2> QED BY <2>4, <2>5, <2>6
<1>12. CASE proc' = [proc EXCEPT ![p].batch = b, ![p].cp.queue = s]
  <2>1. PICK d : d = [c EXCEPT !.queue = s]
    OBVIOUS
  <2>2. d \in Checkpoint /\ d.queue = s /\ d.routes = c.routes /\ Same(c, d)
    BY ONLY <1>5, <1>10, <2>1, QueueFields
  <2>3. Good(plan, d, b)
    BY <1>3, <1>5, <1>9, <1>11, <2>2 DEF Good, Same, Accepted, Concluded
  <2>4. PICK u : u = [w EXCEPT !.cp = d, !.batch = b]
    OBVIOUS
  <2>5. u \in ProcRow /\ u.cp = d /\ u.batch = b
    <3>1. w \in ProcRow /\ w.pc = "working"
      BY <1>1 DEF FalsifyInParallel, Working
    <3> QED BY ONLY <1>10, <2>2, <2>4, <3>1 DEF ProcRow
  <2>6. proc' = [proc EXCEPT ![p] = u]
    <3>1. proc \in [Procs -> ProcRow]
      BY DEF AllGood
    <3>2. w.cp = c /\ w \in ProcRow
      BY <1>1, <1>2
    <3>3. proc' = [proc EXCEPT ![p] = [[w EXCEPT !.batch = b] EXCEPT !.cp.queue = s]]
      BY <1>1, <1>12, <3>1
    <3>4. [[w EXCEPT !.batch = b] EXCEPT !.cp.queue = s] = u
      BY ONLY <2>1, <2>4, <3>2 DEF ProcRow
    <3> QED BY <3>3, <3>4
  <2>7. Good(plan, u.cp, u.batch)
    BY <2>3, <2>5
  <2> QED BY <2>5, <2>6, <2>7, RowChanged
<1>13. ASSUME NEW failed, proc' = [proc EXCEPT ![p].cp = PausedWith(c, Marked(q, n, failed) \o s)]
       PROVE  AllGood(plan, proc')
  <2>0. PICK m : m = Marked(q, n, failed)
    OBVIOUS
  <2>1. m = [k \in 1..n |-> [q[k] EXCEPT !.done = k \notin failed]]
    BY <2>0 DEF Marked
  <2>2. ASSUME NEW k \in 1..n
        PROVE  /\ m[k] \in WorkItem /\ m[k].kind = q[k].kind /\ m[k].route = q[k].route
               /\ m[k].round = q[k].round /\ m[k].parent = q[k].parent
    <3>1. k \in 1..Len(q)
      <4>1. Len(q) \in Nat
        BY <1>6, LenProperties
      <4> QED BY <1>7, <4>1
    <3>2. PICK y, v : y = q[k] /\ v = m[k]
      OBVIOUS
    <3>3. PICK g \in BOOLEAN : g = (k \notin failed)
      OBVIOUS
    <3>4. y \in WorkItem
      BY <1>6, <3>1, <3>2, ElementOfSeq
    <3>5. v = [y EXCEPT !.done = g]
      BY <2>1, <3>2, <3>3
    <3>6. /\ v \in WorkItem /\ v.kind = y.kind /\ v.route = y.route
          /\ v.round = y.round /\ v.parent = y.parent
      BY ONLY <3>3, <3>4, <3>5, MarkedItem
    <3> QED BY ONLY <3>2, <3>6
  <2>3. m \in Seq(WorkItem) /\ Len(m) = n
    <3>1. m = [k \in 1..n |-> m[k]] /\ \A k \in 1..n : m[k] \in WorkItem
      BY <2>1, <2>2
    <3> QED BY ONLY <1>7, <3>1, FunctionIsSeq
  <2>4. PICK t : t = m \o s
    OBVIOUS
  <2>5. Joined(m, s, t)
    BY <1>10, <2>3, <2>4, ConcatEntries
  <2>6. PICK l \in Nat : l = Len(q)
    BY <1>6, LenProperties
  <2>7. Len(s) = l - n /\ \A j \in 1..(l - n) : s[j] = q[n + j]
    <3>1. n + 1 \in 1..(l + 1) /\ l \in Nat
      BY <1>7, <2>6
    <3>2. s = SubSeq(q, n + 1, l)
      BY <1>8, <2>6
    <3>3. Len(s) = IF n + 1 <= l THEN l - (n + 1) + 1 ELSE 0
      BY <1>6, <1>7, <2>6, <3>1, <3>2, SubSeqProperties
    <3>4. ASSUME NEW j \in 1..(l - n) PROVE s[j] = q[n + j]
      <4>1. j \in 1..(l - (n + 1) + 1) /\ n + 1 <= l /\ (n + 1) + j - 1 = n + j
        BY <1>7, <2>6, <3>4
      <4> QED BY <1>6, <1>7, <2>6, <3>1, <3>2, <4>1, SubSeqProperties
    <3> QED BY <1>7, <2>6, <3>3, <3>4
  <2>8. Len(t) = Len(q)
    BY <1>7, <2>3, <2>5, <2>6, <2>7 DEF Joined
  <2>9. ASSUME NEW k \in 1..Len(q)
        PROVE  /\ t[k].kind = q[k].kind /\ t[k].route = q[k].route
               /\ t[k].round = q[k].round /\ t[k].parent = q[k].parent
    <3>1. \/ k \in 1..Len(m) /\ t[k] = m[k]
          \/ \E j \in 1..Len(s) : k = Len(m) + j /\ t[k] = s[j]
      BY <2>5, <2>8 DEF Joined
    <3>2. CASE k \in 1..n /\ t[k] = m[k]
      BY <2>2, <3>2
    <3>3. CASE \E j \in 1..Len(s) : k = n + j /\ t[k] = s[j]
      <4>1. PICK j \in 1..(l - n) : k = n + j /\ t[k] = s[j]
        BY <2>7, <3>3
      <4>2. t[k] = q[k]
        BY <2>7, <4>1
      <4> QED BY <4>2
    <3> QED BY <2>3, <3>1, <3>2, <3>3
  <2>10. t \in Seq(WorkItem)
    BY <2>5 DEF Joined
  <2>11. Sound(plan, c.routes, t, <<>>)
    <3>1. PICK rt : rt = c.routes
      OBVIOUS
    <3>2. Sound(plan, rt, q, <<>>)
      BY <1>5, <3>1
    <3>3. Sound(plan, rt, t, <<>>)
      BY ONLY <2>8, <2>9, <2>10, <3>2, MarkedIsSound
    <3> QED BY <3>1, <3>3
  <2>12. PICK e : e = [c EXCEPT !.queue = t]
    OBVIOUS
  <2>13. e \in Checkpoint /\ e.queue = t /\ e.routes = c.routes /\ Same(c, e)
    BY ONLY <1>5, <2>10, <2>12, QueueFields
  <2>14. PICK d : d = Pause(e, "RUNTIME_UNAVAILABLE")
    OBVIOUS
  <2>15. Carried(e, d) /\ d.status = "PAUSED" /\ d.reason = "RUNTIME_UNAVAILABLE"
    BY ONLY <2>13, <2>14, PauseFields
  <2>16. t # <<>>
    BY <1>3, <1>7, <2>6, <2>8
  <2>17. Good(plan, d, <<>>)
    <3>1. /\ d \in Checkpoint /\ d.queue = t /\ d.routes = c.routes /\ d.outcome = "NONE"
          /\ d.comp <= plan.max_composition_revisions /\ d.review # "ACCEPTED"
      BY <1>5, <1>11, <2>13, <2>15 DEF Carried, Same
    <3> QED BY <1>5, <2>11, <2>15, <2>16, <3>1 DEF Good, Accepted, Concluded
  <2>18. PICK u : u = [w EXCEPT !.cp = d]
    OBVIOUS
  <2>19. u \in ProcRow /\ u.cp = d /\ u.batch = w.batch
    <3>1. w \in ProcRow /\ d \in Checkpoint
      BY <2>15 DEF Carried
    <3> QED BY ONLY <2>18, <3>1 DEF ProcRow
  <2>20. proc' = [proc EXCEPT ![p] = u]
    <3>1. proc' = [proc EXCEPT ![p].cp = d]
      BY <1>13, <2>0, <2>4, <2>12, <2>14 DEF PausedWith
    <3> QED BY <1>1, <2>18, <3>1
  <2>21. Good(plan, u.cp, u.batch)
    BY <1>1, <1>3, <2>17, <2>19
  <2> QED BY <2>19, <2>20, <2>21, RowChanged
<1>14. \/ proc' = [proc EXCEPT ![p].batch = b, ![p].cp.queue = s]
       \/ \E failed : proc' = [proc EXCEPT ![p].cp = PausedWith(c, Marked(q, n, failed) \o s)]
  <2>1. LET r == proc[p].cp.queue
            l == Cardinality(FalsifyRun(r))
        IN \/ proc' = [proc EXCEPT ![p].batch = SubSeq(r, 1, l), ![p].cp.queue = SubSeq(r, l + 1, Len(r))]
           \/ \E failed : proc' = [proc EXCEPT ![p].cp = PausedWith(proc[p].cp, Marked(r, l, failed)
                                                                  \o SubSeq(r, l + 1, Len(r)))]
    BY DEF FalsifyInParallel, Marked, PausedWith
  <2> QED BY <1>2, <1>8, <2>1
<1> QED BY <1>12, <1>13, <1>14

\* A spent budget stops the pass.
LEMMA BudgetStopOk ==
    ASSUME AllGood(plan, proc), NEW p \in Procs, BudgetStop(p)
    PROVE  AllGood(plan, proc')
<1>1. PICK w \in ProcRow : w = proc[p]
  BY DEF AllGood
<1>2. PICK c : c = w.cp
  OBVIOUS
<1>3. w.batch = <<>> /\ c.status = "RUNNING" /\ c.queue # <<>>
  BY <1>1, <1>2 DEF BudgetStop, InBatch
<1>4. Good(plan, c, <<>>)
  BY <1>1, <1>2, <1>3 DEF AllGood
<1>5. c \in Checkpoint
  BY <1>4 DEF Good
<1>6. PICK d : d = Pause(c, "BUDGET_EXHAUSTED")
  OBVIOUS
<1>7. Carried(c, d) /\ d.status = "PAUSED"
  BY ONLY <1>5, <1>6, PauseFields
<1>8. Accepted(d) /\ Concluded(d)
  BY <1>4, <1>7, CarriedConclusion DEF Good
<1>9. Good(plan, d, <<>>)
  BY <1>3, <1>4, <1>7, <1>8 DEF Good, Carried
<1>10. PICK u : u = [w EXCEPT !.cp = d]
  OBVIOUS
<1>11. u \in ProcRow /\ u.cp = d /\ u.batch = w.batch
  <2>1. w \in ProcRow /\ d \in Checkpoint
    BY <1>7 DEF Carried
  <2> QED BY ONLY <1>10, <2>1 DEF ProcRow
<1>12. proc' = [proc EXCEPT ![p] = u]
  BY <1>1, <1>2, <1>6, <1>10 DEF BudgetStop
<1>13. Good(plan, u.cp, u.batch)
  BY <1>3, <1>9, <1>11
<1> QED BY <1>11, <1>12, <1>13, RowChanged

-----------------------------------------------------------------------------
(* Loading and saving *)

\* No route has been scouted.
LEMMA NoRoutesFacts ==
    /\ NoRoutes \in [Routes -> RouteState]
    /\ \A r \in Routes : NoRoutes[r].round = 0 /\ NoRoutes[r].status = "UNSCOUTED"
<1>1. ASSUME NEW r \in Routes
      PROVE  NoRoutes[r] \in RouteState /\ NoRoutes[r].round = 0 /\ NoRoutes[r].status = "UNSCOUTED"
  BY ScoutedRoute
<1>2. NoRoutes = [r \in Routes |-> NoRoutes[r]]
  BY DEF NoRoutes
<1> QED BY <1>1, <1>2

\* What a review is about.
LEMMA ProgressType ==
    ASSUME NEW rt \in [Routes -> RouteState], NEW n \in Nat, NEW j, j = Progress(rt, n)
    PROVE  j \in [rounds : [Routes -> Nat], comp : Nat]
<1>1. \A r \in Routes : rt[r].round \in Nat
  BY DEF RouteState
<1>2. [r \in Routes |-> rt[r].round] \in [Routes -> Nat]
  BY <1>1
<1> QED BY <1>2 DEF Progress

\* A plan that has just begun has the clarification of its contract to do.
LEMMA FreshIsGood ==
    ASSUME plan \in Plans, NEW v \in Nat, NEW f \in BOOLEAN, NEW c, c = Fresh(v, f)
    PROVE  Good(plan, c, <<>>)
<1>1. PICK x, j : x = WorkOfTheRun("CONTRACT_CLARIFY", 0) /\ j = Progress(NoRoutes, 0)
  OBVIOUS
<1>2. "CONTRACT_CLARIFY" \in RunWork /\ 0 \in Nat /\ "CONTRACT_CLARIFY" # "REVISE_COMPOSITION"
  BY DEF RunWork
<1>3. x \in WorkItem /\ x.kind = "CONTRACT_CLARIFY" /\ Stands(x) = "CONTRACT_CLARIFY" /\ ItemOk(plan, NoRoutes, x)
  BY <1>1, <1>2, RunItem
<1>4. j \in [rounds : [Routes -> Nat], comp : Nat]
  BY <1>1, <1>2, NoRoutesFacts, ProgressType
<1>5. PICK q : q = <<x>>
  OBVIOUS
<1>6. q \in Seq(WorkItem)
  BY <1>3, <1>5
<1>7. c = [status |-> "RUNNING", reason |-> "NONE", queue |-> q,
           routes |-> NoRoutes, spent |-> f, exact |-> FALSE, closed |-> FALSE, comp |-> 0,
           review |-> "NONE", outcome |-> "NONE", version |-> v, judged |-> j, stale |-> FALSE]
  BY <1>1, <1>5 DEF Fresh, WorkOfTheRun
<1>8. c \in Checkpoint /\ c.status = "RUNNING" /\ c.queue = q /\ c.routes = NoRoutes /\ c.comp = 0
      /\ c.review = "NONE" /\ c.outcome = "NONE"
  BY ONLY <1>2, <1>4, <1>6, <1>7, NoRoutesFacts, v \in Nat, f \in BOOLEAN DEF Checkpoint
<1>9. Sound(plan, NoRoutes, q, <<>>)
  <2>1. \A r \in Routes : NoRoutes[r].round <= plan.max_route_revisions /\ ~Live(NoRoutes, r)
    BY NoRoutesFacts, PlanFacts DEF Live
  <2>2. Stands(x) \in RunWork /\ x.kind # "TOOL_REQUEST"
    BY <1>2, <1>3
  <2>3. PICK rt \in [Routes -> RouteState] : rt = NoRoutes
    BY NoRoutesFacts
  <2>4. /\ \A r \in Routes : rt[r].round <= plan.max_route_revisions /\ ~Live(rt, r)
        /\ ItemOk(plan, rt, x)
    BY <1>3, <2>1, <2>3
  <2>5. Sound(plan, rt, <<x>>, <<>>)
    BY ONLY <2>2, <2>3, <2>4, OneWorkOfTheRun
  <2> QED BY <1>5, <2>3, <2>5
<1>10. Evidence(NoRoutes)
  BY NoRoutesFacts DEF Evidence
<1>11. c.comp <= plan.max_composition_revisions
  BY <1>8, PlanFacts
<1> QED BY <1>8, <1>9, <1>10, <1>11 DEF Good, Accepted, Concluded

\* What is loaded, or begun anew because the kernel has moved, is in order.
LEMMA LoadedIsGood ==
    ASSUME IInv, Exists, NEW c \in Loaded
    PROVE  Good(plan, c, <<>>) /\ c \in Checkpoint
<1>1. plan \in Plans /\ amended \in Nat /\ Good(plan, file, <<>>)
  BY DEF IInv
<1>2. CASE moved \/ file.version # amended
  <2>1. PICK f \in BOOLEAN : c = Fresh(amended, f)
    BY <1>2 DEF Loaded
  <2>2. Good(plan, c, <<>>)
    BY <1>1, <2>1, FreshIsGood
  <2> QED BY <2>2 DEF Good
<1>3. CASE ~(moved \/ file.version # amended)
  <2>1. c = file
    BY <1>3 DEF Loaded
  <2> QED BY <1>1, <2>1 DEF Good
<1> QED BY <1>2, <1>3

\* A checkpoint is stopped, started or left as it is, with the same work.
Restarts(c, d) ==
    /\ Carried(c, d)
    /\ \/ d.status = c.status /\ d.reason = c.reason
       \/ /\ c.status # "COMPLETED"
          /\ \/ d.status = "RUNNING"
             \/ d.status = "PAUSED" /\ d.reason = "USER_REQUEST"
             \/ d.status = "WAITING_HUMAN_REVIEW" /\ d.queue = <<>>

\* It is as good as it was.
LEMMA RestartedIsGood ==
    ASSUME NEW pl, NEW c, NEW d, Good(pl, c, <<>>), Restarts(c, d)
    PROVE  Good(pl, d, <<>>)
<1>1. Accepted(d) /\ Concluded(d)
  BY CarriedConclusion DEF Good, Restarts
<1> QED BY <1>1 DEF Good, Restarts, Carried

\* A process that is idle, or has just begun, is in order.
LEMMA NewRow ==
    ASSUME plan \in Plans, NEW pc \in {"idle", "starting", "working"}, NEW c, Good(plan, c, <<>>),
           NEW u, u = [pc |-> pc, cp |-> c, batch |-> <<>>]
    PROVE  u \in ProcRow /\ Good(plan, u.cp, u.batch)
<1>1. c \in Checkpoint /\ <<>> \in Seq(WorkItem)
  BY DEF Good
<1>2. u \in ProcRow /\ u.cp = c /\ u.batch = <<>>
  BY <1>1 DEF ProcRow
<1> QED BY <1>2

\* A process stops.
LEMMA BecomesIdle ==
    ASSUME plan \in Plans, AllGood(plan, proc), NEW p \in Procs, proc' = [proc EXCEPT ![p] = Idle]
    PROVE  AllGood(plan, proc')
<1>1. PICK c, u : c = Fresh(1, FALSE) /\ u = Idle
  OBVIOUS
<1>2. PICK f \in BOOLEAN : f = FALSE
  OBVIOUS
<1>3. c = Fresh(1, f) /\ 1 \in Nat
  BY <1>1, <1>2
<1>4. Good(plan, c, <<>>)
  BY ONLY <1>2, <1>3, plan \in Plans, FreshIsGood
<1>5. u = [pc |-> "idle", cp |-> c, batch |-> <<>>]
  BY <1>1 DEF Idle
<1>6. u \in ProcRow /\ Good(plan, u.cp, u.batch)
  BY ONLY <1>4, <1>5, plan \in Plans, NewRow
<1> QED BY <1>1, <1>6, RowChanged

\* The checkpoint of a first pass is made.
LEMMA StartPassOk ==
    ASSUME IInv, NEW p \in Procs, StartPass(p)
    PROVE  AllGood(plan, proc')
<1>0. PICK c : c = Fresh(amended, FALSE)
  OBVIOUS
<1>1. PICK f \in BOOLEAN : f = FALSE
  OBVIOUS
<1>2. plan \in Plans /\ amended \in Nat /\ AllGood(plan, proc)
  BY DEF IInv
<1>3. c = Fresh(amended, f)
  BY <1>0, <1>1
<1>4. Good(plan, c, <<>>)
  BY ONLY <1>1, <1>2, <1>3, FreshIsGood
<1>5. PICK u : u = [pc |-> "starting", cp |-> c, batch |-> <<>>]
  OBVIOUS
<1>6. u \in ProcRow /\ Good(plan, u.cp, u.batch)
  BY ONLY <1>2, <1>4, <1>5, NewRow
<1>7. proc' = [proc EXCEPT ![p] = u]
  BY <1>0, <1>5 DEF StartPass
<1> QED BY <1>2, <1>6, <1>7, RowChanged

\* A pass begins with what it loaded, and saves it.
LEMMA BeginOk ==
    ASSUME IInv, NEW p \in Procs, Begin(p)
    PROVE  AllGood(plan, proc') /\ Good(plan, file', <<>>)
<1>1. PICK c \in Loaded :
          /\ proc' = [proc EXCEPT ![p] = [pc |-> "working", cp |-> c, batch |-> <<>>]]
          /\ SaveCheckpoint(c)
  BY DEF Begin
<1>2. plan \in Plans /\ AllGood(plan, proc)
  BY DEF IInv
<1>3. Good(plan, c, <<>>)
  BY LoadedIsGood DEF Begin
<1>5. PICK u : u = [pc |-> "working", cp |-> c, batch |-> <<>>]
  OBVIOUS
<1>6. u \in ProcRow /\ Good(plan, u.cp, u.batch)
  BY ONLY <1>2, <1>3, <1>5, NewRow
<1>7. proc' = [proc EXCEPT ![p] = u]
  BY <1>1, <1>5
<1>8. AllGood(plan, proc')
  BY <1>2, <1>6, <1>7, RowChanged
<1> QED BY <1>1, <1>3, <1>8 DEF SaveCheckpoint

\* A pass ends and saves its checkpoint.
LEMMA FinishOk ==
    ASSUME IInv, NEW p \in Procs, Finish(p)
    PROVE  Good(plan, file', <<>>)
<1>1. PICK c : c = proc[p].cp
  OBVIOUS
<1>2. proc[p].batch = <<>>
  BY DEF Finish, InBatch
<1>3. Good(plan, c, <<>>)
  BY <1>1, <1>2 DEF IInv, AllGood
<1>4. c \in Checkpoint
  BY <1>3 DEF Good
<1>5. CASE c.status = "RUNNING"
  <2>1. file' = EnterHumanReview(c) /\ c.queue = <<>>
    BY <1>1, <1>5 DEF Finish, SaveCheckpoint
  <2>2. PICK d : d = EnterHumanReview(c)
    OBVIOUS
  <2>3. Carried(c, d) /\ d.status = "WAITING_HUMAN_REVIEW"
    BY <1>4, <2>2 DEF EnterHumanReview, Carried, Checkpoint
  <2>4. Restarts(c, d)
    BY <1>5, <2>1, <2>3 DEF Restarts, Carried
  <2>5. Good(plan, d, <<>>)
    BY <1>3, <2>4, RestartedIsGood
  <2> QED BY <2>1, <2>2, <2>5
<1>6. CASE c.status # "RUNNING"
  <2>1. file' = c
    BY <1>1, <1>6 DEF Finish, SaveCheckpoint
  <2> QED BY <1>3, <2>1
<1> QED BY <1>5, <1>6

-----------------------------------------------------------------------------
(* Users and other clients *)

\* A user pauses the run.
LEMMA PauseRunOk ==
    ASSUME IInv, PauseRun
    PROVE  Good(plan, file', <<>>)
<1>1. PICK c \in Loaded : file' = IF c.status = "COMPLETED" THEN c ELSE Pause(c, "USER_REQUEST")
  BY DEF PauseRun, SaveCheckpoint
<1>2. Good(plan, c, <<>>) /\ c \in Checkpoint
  BY LoadedIsGood DEF PauseRun
<1>3. CASE c.status = "COMPLETED"
  BY <1>1, <1>2, <1>3
<1>4. CASE c.status # "COMPLETED"
  <2>1. PICK d : d = Pause(c, "USER_REQUEST")
    OBVIOUS
  <2>2. Carried(c, d) /\ d.status = "PAUSED" /\ d.reason = "USER_REQUEST"
    BY ONLY <1>2, <2>1, PauseFields
  <2>3. Restarts(c, d)
    BY <1>4, <2>2 DEF Restarts
  <2>4. Good(plan, d, <<>>)
    BY <1>2, <2>3, RestartedIsGood
  <2> QED BY <1>1, <1>4, <2>1, <2>4
<1> QED BY <1>3, <1>4

\* A paused run goes on.
LEMMA Restarted ==
    ASSUME NEW pl, NEW c \in Checkpoint, Good(pl, c, <<>>), c.status = "PAUSED",
           NEW d, d = [c EXCEPT !.status = "RUNNING", !.reason = "NONE"]
    PROVE  Good(pl, d, <<>>)
<1>1. Carried(c, d) /\ d.status = "RUNNING"
  BY DEF Carried, Checkpoint
<1>2. Restarts(c, d)
  BY <1>1 DEF Restarts
<1> QED BY <1>2, RestartedIsGood

\* A user resumes the run, with a new budget or without.
LEMMA ResumeRunOk ==
    ASSUME IInv, ResumeRun
    PROVE  Good(plan, file', <<>>)
<1>1. PICK c \in Loaded, granted \in BOOLEAN, f \in BOOLEAN :
          LET e == IF granted /\ c.status # "COMPLETED" THEN [c EXCEPT !.spent = f] ELSE c IN
          file' = IF /\ e.status = "PAUSED"
                     /\ e.reason = "BUDGET_EXHAUSTED" => granted
                  THEN [e EXCEPT !.status = "RUNNING", !.reason = "NONE"]
                  ELSE e
  BY ZenonT(40) DEF ResumeRun, SaveCheckpoint
<1>2. Good(plan, c, <<>>) /\ c \in Checkpoint
  BY LoadedIsGood DEF ResumeRun
<1>3. PICK e : e = IF granted /\ c.status # "COMPLETED" THEN [c EXCEPT !.spent = f] ELSE c
  OBVIOUS
<1>4. Good(plan, e, <<>>) /\ e \in Checkpoint
  <2>1. CASE granted /\ c.status # "COMPLETED"
    <3>1. e = [c EXCEPT !.spent = f]
      BY <1>3, <2>1
    <3>2. Carried(c, e) /\ e.status = c.status /\ e.reason = c.reason
      BY <1>2, <3>1 DEF Carried, Checkpoint
    <3>3. Restarts(c, e)
      BY <3>2 DEF Restarts
    <3> QED BY <1>2, <3>2, <3>3, RestartedIsGood DEF Carried
  <2>2. CASE ~(granted /\ c.status # "COMPLETED")
    BY <1>2, <1>3, <2>2
  <2> QED BY <2>1, <2>2
<1>5. PICK go \in BOOLEAN : go = (e.status = "PAUSED" /\ (e.reason = "BUDGET_EXHAUSTED" => granted))
  OBVIOUS
<1>6. PICK d : d = [e EXCEPT !.status = "RUNNING", !.reason = "NONE"]
  OBVIOUS
<1>7. file' = IF go THEN d ELSE e
  BY <1>1, <1>3, <1>5, <1>6
<1>8. CASE go
  <2>1. Good(plan, d, <<>>)
    BY <1>4, <1>5, <1>6, <1>8, Restarted
  <2> QED BY <1>7, <1>8, <2>1
<1>9. CASE ~go
  BY <1>4, <1>7, <1>9
<1> QED BY <1>8, <1>9

\* A checkpoint at the review gate has no work left.
LEMMA AtTheGate ==
    ASSUME NEW pl, NEW c, Good(pl, c, <<>>), c.status = "WAITING_HUMAN_REVIEW"
    PROVE  /\ c \in Checkpoint /\ c.queue = <<>> /\ c.outcome = "NONE" /\ Evidence(c.routes)
           /\ c.comp <= pl.max_composition_revisions /\ c.comp \in Nat
           /\ c.routes \in [Routes -> RouteState]
           /\ \A r \in Routes : c.routes[r].round <= pl.max_route_revisions /\ ~Live(c.routes, r)
<1>1. /\ c \in Checkpoint /\ c.queue = <<>> /\ c.outcome = "NONE" /\ Evidence(c.routes)
      /\ c.comp <= pl.max_composition_revisions /\ Sound(pl, c.routes, c.queue, <<>>)
  BY DEF Good
<1>2. c.comp \in Nat /\ c.routes \in [Routes -> RouteState]
  BY <1>1, CheckpointParts
<1>3. Len(c.queue) = 0 /\ Len(<<>>) = 0
  BY <1>1
<1>4. \A r \in Routes : c.routes[r].round <= pl.max_route_revisions /\ ~Live(c.routes, r)
  BY <1>1, <1>3 DEF Sound
<1> QED BY <1>1, <1>2, <1>4

\* The run goes on after a review: d has the verdict v, what was judged and the queue q.
Verdict(c, d, v, q) ==
    /\ d \in Checkpoint /\ d.status = "RUNNING" /\ d.routes = c.routes /\ d.comp = c.comp
    /\ d.outcome = c.outcome /\ d.review = v /\ d.judged = Progress(c.routes, c.comp) /\ d.queue = q

\* It is in order when the queue is, and an accepted review is concluded.
LEMMA VerdictIsGood ==
    ASSUME NEW pl, NEW c, NEW d, NEW v, NEW q, Good(pl, c, <<>>), c.status = "WAITING_HUMAN_REVIEW",
           Verdict(c, d, v, q), Sound(pl, c.routes, q, <<>>),
           v = "ACCEPTED" => \E k \in 1..Len(q) : Stands(q[k]) = "FINAL_SYNTHESIS"
    PROVE  Good(pl, d, <<>>)
<1>1. c.outcome = "NONE" /\ Evidence(c.routes) /\ c.comp <= pl.max_composition_revisions
  BY DEF Good
<1>2. Accepted(d)
  BY DEF Accepted, Verdict
<1> QED BY <1>1, <1>2 DEF Good, Verdict, Concluded

\* d is c with the verdict v entered.
Entered(c, v, f, q, d) ==
    d = [c EXCEPT !.status = "RUNNING", !.reason = "NONE", !.review = v,
                  !.judged = Progress(c.routes, c.comp), !.closed = f, !.queue = q]

\* A checkpoint with a verdict.
LEMMA VerdictFields ==
    ASSUME NEW c \in Checkpoint, NEW v \in {"ACCEPTED", "CHANGES_REQUESTED", "REJECTED"},
           NEW q \in Seq(WorkItem), NEW d, NEW f \in BOOLEAN, Entered(c, v, f, q, d)
    PROVE  Verdict(c, d, v, q)
<1>1. c.comp \in Nat /\ c.routes \in [Routes -> RouteState]
  BY CheckpointParts
<1>2. PICK j : j = Progress(c.routes, c.comp)
  OBVIOUS
<1>3. j \in [rounds : [Routes -> Nat], comp : Nat]
  BY <1>1, <1>2, ProgressType
<1>4. d = [c EXCEPT !.status = "RUNNING", !.reason = "NONE", !.review = v,
                    !.judged = j, !.closed = f, !.queue = q]
  BY <1>2 DEF Entered
<1>5. /\ d \in Checkpoint /\ d.status = "RUNNING" /\ d.routes = c.routes /\ d.comp = c.comp
      /\ d.outcome = c.outcome /\ d.review = v /\ d.judged = j /\ d.queue = q
  BY ONLY <1>3, <1>4, c \in Checkpoint, v \in {"ACCEPTED", "CHANGES_REQUESTED", "REJECTED"},
          q \in Seq(WorkItem), f \in BOOLEAN DEF Checkpoint
<1> QED BY <1>2, <1>5 DEF Verdict

\* The revision of a route that a review reopens.
Revision(c, r) == Item("REVISE_ROUTE", r, c.routes[r].round + 1, FALSE)

\* Every route that is READY and can be revised is reopened.
LEMMA ReopenedIsSound ==
    ASSUME plan \in Plans, NEW c, Good(plan, c, <<>>), c.status = "WAITING_HUMAN_REVIEW",
           NEW rs, rs = {r \in Routes : c.routes[r].status = "READY" /\ Revisable(c, r)},
           NEW q, q = [k \in 1..Cardinality(rs) |-> Revision(c, RouteOrder(rs)[k])]
    PROVE  q \in Seq(WorkItem) /\ Sound(plan, c.routes, q, <<>>)
<1>1. PICK rt, s : rt = c.routes /\ s = RouteOrder(rs)
  OBVIOUS
<1>2. /\ rt \in [Routes -> RouteState]
      /\ \A r \in Routes : rt[r].round <= plan.max_route_revisions /\ ~Live(rt, r)
  BY <1>1, AtTheGate
<1>3. rs \subseteq Routes
  OBVIOUS
<1>4. Cardinality(rs) \in Nat /\ \A k \in 1..Cardinality(rs) : s[k] \in rs
  BY ONLY <1>1, <1>3, RouteOrderHasEachOnce
<1>5. PICK n \in Nat : n = Cardinality(rs)
  BY <1>4
<1>6. ASSUME NEW k \in 1..n
      PROVE  /\ q[k] \in WorkItem /\ q[k].kind = "REVISE_ROUTE" /\ q[k].route = s[k]
             /\ ItemOk(plan, rt, q[k])
  <2>1. PICK r \in rs : r = s[k]
    BY <1>4, <1>5
  <2>2. r \in Routes /\ rt[r].status = "READY" /\ rt[r].round < plan.max_route_revisions
    BY <1>1, <2>1 DEF Revisable
  <2>3. PICK m \in Nat : m = rt[r].round + 1 /\ m <= plan.max_route_revisions
    <3>1. rt[r].round \in Nat
      BY <1>2, <2>2 DEF RouteState
    <3> QED BY <2>2, <3>1, PlanFacts
  <2>4. PICK x : x = q[k]
    OBVIOUS
  <2>5. x = Item("REVISE_ROUTE", r, m, FALSE) /\ "REVISE_ROUTE" \in RouteWork
    BY <1>1, <1>5, <2>1, <2>3, <2>4 DEF Revision, RouteWork
  <2>6. IsWork(x, "REVISE_ROUTE", r, m)
    BY ONLY <2>2, <2>3, <2>5, RouteItemIsWork
  <2>7. /\ x \in WorkItem /\ x.kind = "REVISE_ROUTE" /\ x.route = r /\ x.round = m /\ x.parent = "NONE"
        /\ Stands(x) = "REVISE_ROUTE"
    BY <2>6 DEF IsWork, Stands
  <2>8. Reopens(rt, x)
    BY <2>2, <2>7 DEF Reopens
  <2>9. ItemOk(plan, rt, x)
    BY <2>2, <2>3, <2>7, <2>8 DEF ItemOk, RunWork
  <2> QED BY <2>1, <2>4, <2>7, <2>9
<1>7. q \in Seq(WorkItem) /\ Len(q) = n
  <2>1. q = [k \in 1..n |-> q[k]] /\ \A k \in 1..n : q[k] \in WorkItem
    BY <1>5, <1>6
  <2> QED BY ONLY <1>5, <2>1, FunctionIsSeq
<1>8. Sound(plan, rt, q, <<>>)
  <2>1. \A r \in Routes : rt[r].round <= plan.max_route_revisions /\ (Live(rt, r) => r \in rs)
    BY <1>2
  <2>3. "REVISE_ROUTE" \in RouteWork
    BY DEF RouteWork
  <2>4. \A k \in 1..Len(q) : ItemOk(plan, rt, q[k]) /\ q[k].kind = "REVISE_ROUTE" /\ q[k].route = s[k]
    BY <1>6, <1>7
  <2>5. Len(q) = Cardinality(rs) /\ s = RouteOrder(rs)
    BY <1>1, <1>5, <1>7
  <2> QED BY ONLY <1>2, <1>3, <1>7, <2>1, <2>3, <2>4, <2>5, OneWorkForEachRoute
<1> QED BY <1>1, <1>7, <1>8

\* One work of the run goes on after the gate.
LEMMA GateIsSound ==
    ASSUME NEW pl, NEW c, Good(pl, c, <<>>), c.status = "WAITING_HUMAN_REVIEW",
           NEW kind, kind \in RunWork, NEW n \in Nat,
           kind = "REVISE_COMPOSITION" => n <= pl.max_composition_revisions,
           NEW x, x = WorkOfTheRun(kind, n)
    PROVE  <<x>> \in Seq(WorkItem) /\ Sound(pl, c.routes, <<x>>, <<>>) /\ Stands(x) = kind
<1>1. PICK rt : rt = c.routes
  OBVIOUS
<1>2. /\ rt \in [Routes -> RouteState]
      /\ \A r \in Routes : rt[r].round <= pl.max_route_revisions /\ ~Live(rt, r)
  BY <1>1, AtTheGate
<1>3. x \in WorkItem /\ x.kind = kind /\ Stands(x) = kind /\ ItemOk(pl, rt, x)
  BY ONLY kind \in RunWork, n \in Nat, kind = "REVISE_COMPOSITION" => n <= pl.max_composition_revisions,
          x = WorkOfTheRun(kind, n), RunItem
<1>4. Stands(x) \in RunWork /\ x.kind # "TOOL_REQUEST"
  BY <1>3 DEF RunWork
<1>5. Sound(pl, rt, <<x>>, <<>>)
  BY ONLY <1>2, <1>3, <1>4, OneWorkOfTheRun
<1> QED BY <1>1, <1>3, <1>5

\* What a review of a waiting checkpoint leads to.
LEMMA ReviewedIsGood ==
    ASSUME plan \in Plans, NEW c, Good(plan, c, <<>>), c.status = "WAITING_HUMAN_REVIEW",
           NEW v \in {"ACCEPTED", "CHANGES_REQUESTED", "REJECTED"}, NEW d, d = Reviewed(c, v)
    PROVE  Good(plan, d, <<>>)
<1>1. c \in Checkpoint /\ c.comp \in Nat /\ c.closed \in BOOLEAN
  BY AtTheGate, CheckpointParts
<1>2. PICK rs : rs = {r \in Routes : c.routes[r].status = "READY" /\ Revisable(c, r)}
  OBVIOUS
<1>3. PICK e : e = [c EXCEPT !.status = "RUNNING", !.reason = "NONE", !.review = v,
                             !.judged = Progress(c.routes, c.comp)]
  OBVIOUS
<1>4. PICK f \in BOOLEAN : f = FALSE
  OBVIOUS
<1>5. CASE v = "CHANGES_REQUESTED" /\ rs # {}
  <2>1. PICK q : q = [k \in 1..Cardinality(rs) |-> Revision(c, RouteOrder(rs)[k])]
    OBVIOUS
  <2>2. q \in Seq(WorkItem) /\ Sound(plan, c.routes, q, <<>>)
    BY <1>2, <2>1, ReopenedIsSound
  <2>3. d = [e EXCEPT !.closed = FALSE, !.queue = q]
    BY <1>2, <1>3, <1>5, <2>1 DEF Reviewed, Revision
  <2>4. Entered(c, v, f, q, d)
    BY <1>3, <1>4, <2>3 DEF Entered
  <2>5. Verdict(c, d, v, q)
    BY <1>1, <1>4, <2>2, <2>4, VerdictFields
  <2> QED BY <1>5, <2>2, <2>5, VerdictIsGood
<1>6. CASE v = "CHANGES_REQUESTED" /\ rs = {} /\ c.comp < plan.max_composition_revisions
  <2>1. PICK n \in Nat : n = c.comp + 1 /\ n <= plan.max_composition_revisions
    BY <1>1, <1>6, PlanFacts
  <2>2. PICK x, q : x = WorkOfTheRun("REVISE_COMPOSITION", n) /\ q = <<x>>
    OBVIOUS
  <2>3. q \in Seq(WorkItem) /\ Sound(plan, c.routes, q, <<>>)
    <3>1. "REVISE_COMPOSITION" \in RunWork
      BY DEF RunWork
    <3> QED BY <2>1, <2>2, <3>1, GateIsSound
  <2>4. d = [e EXCEPT !.closed = FALSE, !.queue = q]
    BY <1>2, <1>3, <1>6, <2>1, <2>2 DEF Reviewed, WorkOfTheRun
  <2>5. Entered(c, v, f, q, d)
    BY <1>3, <1>4, <2>4 DEF Entered
  <2>6. Verdict(c, d, v, q)
    BY <1>1, <1>4, <2>3, <2>5, VerdictFields
  <2> QED BY <1>6, <2>3, <2>6, VerdictIsGood
<1>7. CASE ~(v = "CHANGES_REQUESTED" /\ (rs # {} \/ c.comp < plan.max_composition_revisions))
  <2>1. 0 \in Nat /\ "FINAL_SYNTHESIS" \in RunWork /\ "FINAL_SYNTHESIS" # "REVISE_COMPOSITION"
    BY DEF RunWork
  <2>2. PICK x, q : x = WorkOfTheRun("FINAL_SYNTHESIS", 0) /\ q = <<x>>
    OBVIOUS
  <2>3. q \in Seq(WorkItem) /\ Sound(plan, c.routes, q, <<>>) /\ Stands(x) = "FINAL_SYNTHESIS"
    BY <2>1, <2>2, GateIsSound
  <2>4. d = [e EXCEPT !.queue = q]
    BY <1>2, <1>3, <1>7, <2>2 DEF Reviewed, WorkOfTheRun
  <2>5. PICK g \in BOOLEAN : g = c.closed
    BY <1>1
  <2>6. Entered(c, v, g, q, d)
    <3>1. e = [c EXCEPT !.status = "RUNNING", !.reason = "NONE", !.review = v,
                        !.judged = Progress(c.routes, c.comp), !.closed = g]
      BY ONLY <1>1, <1>3, <2>5 DEF Checkpoint
    <3> QED BY <2>4, <3>1 DEF Entered
  <2>7. Verdict(c, d, v, q)
    BY <1>1, <2>3, <2>5, <2>6, VerdictFields
  <2>8. \E k \in 1..Len(q) : Stands(q[k]) = "FINAL_SYNTHESIS"
    <3>1. Len(q) = 1 /\ q[1] = x
      BY <2>2
    <3>2. 1 \in 1..Len(q) /\ Stands(q[1]) = "FINAL_SYNTHESIS"
      BY <2>3, <3>1
    <3> QED BY <3>2
  <2> QED BY <2>3, <2>7, <2>8, VerdictIsGood
<1> QED BY <1>5, <1>6, <1>7

\* A review of the run.
LEMMA ReviewRunOk ==
    ASSUME IInv, NEW v \in {"ACCEPTED", "CHANGES_REQUESTED", "REJECTED", "QUALITY"}, ReviewRun(v)
    PROVE  Good(plan, file', <<>>)
<1>1. PICK c \in Loaded :
        CASE v = "QUALITY" -> file' = c
          [] v # "QUALITY" /\ c.status = "WAITING_HUMAN_REVIEW" -> file' = Reviewed(c, v)
          [] v # "QUALITY" /\ c.status = "PAUSED" /\ c.reason = "CONTRACT_AMBIGUOUS" -> file' = c
          [] v # "QUALITY" /\ c.status = "PAUSED"
             /\ c.reason \notin {"CONTRACT_AMBIGUOUS", "BUDGET_EXHAUSTED"} ->
                 file' = [c EXCEPT !.status = "RUNNING", !.reason = "NONE"]
          [] OTHER -> file' = c
  BY DEF ReviewRun, SaveCheckpoint
<1>2. Good(plan, c, <<>>) /\ c \in Checkpoint /\ plan \in Plans
  BY LoadedIsGood DEF ReviewRun, IInv
<1>3. \/ file' = c
      \/ v # "QUALITY" /\ c.status = "WAITING_HUMAN_REVIEW" /\ file' = Reviewed(c, v)
      \/ c.status = "PAUSED" /\ file' = [c EXCEPT !.status = "RUNNING", !.reason = "NONE"]
  BY <1>1
<1>4. CASE file' = c
  BY <1>2, <1>4
<1>5. CASE v # "QUALITY" /\ c.status = "WAITING_HUMAN_REVIEW" /\ file' = Reviewed(c, v)
  BY <1>2, <1>5, ReviewedIsGood
<1>6. CASE c.status = "PAUSED" /\ file' = [c EXCEPT !.status = "RUNNING", !.reason = "NONE"]
  BY <1>2, <1>6, Restarted
<1> QED BY <1>3, <1>4, <1>5, <1>6

\* Only whether it is stale changes.
LEMMA StaleIsGood ==
    ASSUME NEW pl, NEW c, NEW b, NEW d, Good(pl, c, b), d = [c EXCEPT !.stale = TRUE]
    PROVE  Good(pl, d, b)
<1>1. c \in Checkpoint
  BY DEF Good
<1>2. Carried(c, d) /\ d.status = c.status /\ d.reason = c.reason
  BY <1>1 DEF Carried, Checkpoint
<1>3. Accepted(d) /\ Concluded(d)
  BY <1>2, CarriedConclusion DEF Good
<1> QED BY <1>2, <1>3 DEF Good, Carried

\* Another client changes the kernel.
LEMMA KernelChangeOk ==
    ASSUME IInv, NEW amend \in BOOLEAN, KernelChange(amend)
    PROVE  AllGood(plan, proc') /\ Good(plan, file', <<>>)
<1>1. Good(plan, file, <<>>) /\ AllGood(plan, proc) /\ file' = [file EXCEPT !.stale = TRUE]
  BY DEF IInv, KernelChange
<1>2. Good(plan, file', <<>>)
  BY <1>1, StaleIsGood
<1>3. ASSUME NEW p \in Procs
      PROVE  proc'[p] \in ProcRow /\ Good(plan, proc'[p].cp, proc'[p].batch)
  <2>1. PICK w \in ProcRow : w = proc[p] /\ Good(plan, w.cp, w.batch)
    BY <1>1 DEF AllGood
  <2>2. CASE w.pc = "idle"
    <3>1. proc'[p] = w
      BY <2>1, <2>2 DEF KernelChange
    <3> QED BY <2>1, <3>1
  <2>3. CASE w.pc # "idle"
    <3>1. PICK c, d, u : c = w.cp /\ d = [c EXCEPT !.stale = TRUE] /\ u = [w EXCEPT !.cp = d]
      OBVIOUS
    <3>2. Good(plan, d, w.batch)
      BY <2>1, <3>1, StaleIsGood
    <3>3. d \in Checkpoint /\ w \in ProcRow
      BY <3>2 DEF Good
    <3>4. u \in ProcRow /\ u.cp = d /\ u.batch = w.batch
      BY ONLY <3>1, <3>3 DEF ProcRow
    <3>5. proc'[p] = u
      BY <2>1, <2>3, <3>1 DEF KernelChange
    <3> QED BY <3>2, <3>4, <3>5
  <2> QED BY <2>2, <2>3
<1>4. proc' \in [Procs -> ProcRow]
  <2>1. proc' = [p \in Procs |-> proc'[p]]
    BY DEF KernelChange
  <2> QED BY <1>3, <2>1
<1>5. AllGood(plan, proc')
  BY <1>3, <1>4 DEF AllGood
<1> QED BY <1>2, <1>5

-----------------------------------------------------------------------------
(* The invariant *)

\* The plan, the counters and the flags keep their ranges.
Counters ==
    /\ plan \in Plans
    /\ prepared \in 0..3 /\ moved \in BOOLEAN /\ amended \in Nat
    /\ reviews \in 0..plan.max_reviews /\ mishaps \in 0..MaxMishaps

\* A mishap is counted below its bound.
LEMMA MishapCounted ==
    ASSUME mishaps \in 0..MaxMishaps, Mishap
    PROVE  mishaps' \in 0..MaxMishaps
BY ConstantsAssumption DEF Mishap

\* Every step of a process leaves the ranges as they are.
LEMMA PassCounters ==
    ASSUME Counters, NEW p \in Procs, PassStep(p) \/ Crash(p)
    PROVE  Counters'
<1>1. CASE EnsureKernelStarted(p)
  BY <1>1 DEF EnsureKernelStarted, Counters
<1>2. CASE StartPass(p)
  BY <1>2 DEF StartPass, Counters
<1>3. CASE SaveStart(p)
  BY <1>3 DEF SaveStart, SaveCheckpoint, Counters
<1>4. CASE Begin(p)
  BY <1>4 DEF Begin, SaveCheckpoint, Counters
<1>5. CASE Work(p)
  <2>1. /\ plan' = plan /\ prepared' = prepared /\ amended' = amended /\ reviews' = reviews
        /\ moved' = moved \/ moved' = TRUE
    BY <1>5 DEF Work, FalsifyInParallel, BudgetStop, IntegrateTools, CallFails, AnswerRefused,
                ToolAnswered, ToolsRequested, WorkDone, Answered
  <2>2. Mishap \/ mishaps' = mishaps
    BY <1>5 DEF Work, FalsifyInParallel, BudgetStop, IntegrateTools, CallFails, AnswerRefused,
                ToolAnswered, ToolsRequested, WorkDone, Charge
  <2>3. mishaps' \in 0..MaxMishaps
    BY <2>2, MishapCounted DEF Counters
  <2> QED BY <2>1, <2>3 DEF Counters
<1>6. CASE Finish(p)
  BY <1>6 DEF Finish, SaveCheckpoint, Counters
<1>7. CASE Crash(p)
  BY <1>7, MishapCounted DEF Crash, Counters
<1> QED BY <1>1, <1>2, <1>3, <1>4, <1>5, <1>6, <1>7 DEF PassStep

\* Users and other clients leave the ranges as they are.
LEMMA OtherCounters ==
    ASSUME Counters, \/ PauseRun \/ ResumeRun
                     \/ (\E v \in {"ACCEPTED", "CHANGES_REQUESTED", "REJECTED", "QUALITY"} : ReviewRun(v))
                     \/ (\E amend \in BOOLEAN : KernelChange(amend))
    PROVE  Counters'
<1>1. CASE PauseRun
  BY <1>1, MishapCounted DEF PauseRun, SaveCheckpoint, Counters
<1>2. CASE ResumeRun
  BY <1>2 DEF ResumeRun, SaveCheckpoint, Counters
<1>3. ASSUME NEW v, ReviewRun(v) PROVE Counters'
  <2>1. reviews' \in 0..plan.max_reviews
    <3>1. plan.max_reviews \in Nat /\ reviews \in 0..plan.max_reviews
      BY PlanFacts DEF Counters
    <3>2. reviews < plan.max_reviews /\ reviews' = reviews + 1
      BY <1>3 DEF ReviewRun
    <3> QED BY ONLY <3>1, <3>2
  <2>2. moved' \in BOOLEAN
    BY <1>3 DEF ReviewRun, SaveCheckpoint
  <2>3. plan' = plan /\ prepared' = prepared /\ amended' = amended /\ mishaps' = mishaps
    BY <1>3 DEF ReviewRun
  <2> QED BY <2>1, <2>2, <2>3 DEF Counters
<1>4. ASSUME NEW amend \in BOOLEAN, KernelChange(amend) PROVE Counters'
  BY <1>4, MishapCounted DEF KernelChange, Counters
<1> QED BY <1>1, <1>2, <1>3, <1>4

\* A process at work keeps every process in order.
LEMMA WorkOk ==
    ASSUME IInv, NEW p \in Procs, Work(p)
    PROVE  AllGood(plan, proc') /\ file' = file
<1>1. plan \in Plans /\ AllGood(plan, proc)
  BY DEF IInv
<1>2. AllGood(plan, proc')
  BY <1>1, FalsifyInParallelOk, BudgetStopOk, IntegrateToolsOk, CallFailsOk, AnswerRefusedOk,
     ToolAnsweredOk, ToolsRequestedOk, WorkDoneOk DEF Work
<1>3. file' = file
  BY DEF Work, FalsifyInParallel, BudgetStop, IntegrateTools, CallFails, AnswerRefused,
         ToolAnswered, ToolsRequested, WorkDone, Answered
<1> QED BY <1>2, <1>3

\* The checkpoints in memory and the saved one after a step of a process.
LEMMA PassCheckpoints ==
    ASSUME IInv, NEW p \in Procs, PassStep(p) \/ Crash(p)
    PROVE  AllGood(plan, proc') /\ (file' = file \/ Good(plan, file', <<>>))
<1>0. plan \in Plans /\ AllGood(plan, proc)
  BY DEF IInv
<1>1. CASE EnsureKernelStarted(p)
  BY <1>0, <1>1 DEF EnsureKernelStarted
<1>2. CASE StartPass(p)
  <2>1. file' = file
    BY <1>2 DEF StartPass
  <2> QED BY <1>2, <2>1, StartPassOk
<1>3. CASE SaveStart(p)
  <2>1. PICK c : c = proc[p].cp
    OBVIOUS
  <2>2. proc' = [proc EXCEPT ![p] = Idle] /\ file' = c /\ proc[p].pc = "starting"
    BY <1>3, <2>1 DEF SaveStart, SaveCheckpoint
  <2>3. AllGood(plan, proc')
    BY <1>0, <2>2, BecomesIdle
  <2>4. Good(plan, c, proc[p].batch)
    BY <1>0, <2>1 DEF AllGood
  <2>5. Good(plan, c, <<>>)
    <3>1. proc[p].batch = <<>>
      BY <1>0, <2>2 DEF AllGood, ProcRow
    <3> QED BY <2>4, <3>1
  <2> QED BY <2>2, <2>3, <2>5
<1>4. CASE Begin(p)
  BY <1>4, BeginOk
<1>5. CASE Work(p)
  BY <1>5, WorkOk
<1>6. CASE Finish(p)
  <2>1. proc' = [proc EXCEPT ![p] = Idle]
    BY <1>6 DEF Finish
  <2> QED BY <1>0, <1>6, <2>1, BecomesIdle, FinishOk
<1>7. CASE Crash(p)
  <2>1. proc' = [proc EXCEPT ![p] = Idle] /\ file' = file
    BY <1>7 DEF Crash
  <2> QED BY <1>0, <2>1, BecomesIdle
<1> QED BY <1>1, <1>2, <1>3, <1>4, <1>5, <1>6, <1>7 DEF PassStep

\* In the beginning nothing is saved and nobody works.
LEMMA InitIsGood ==
    ASSUME Init PROVE IInv
<1>1. plan \in Plans /\ proc = [p \in Procs |-> Idle] /\ ~Exists
  BY DEF Init, Exists
<1>2. Counters
  <2>1. plan.max_reviews \in Nat /\ MaxMishaps \in Nat
    BY <1>1, PlanFacts, ConstantsAssumption
  <2>2. prepared = 0 /\ moved = FALSE /\ amended = 1 /\ reviews = 0 /\ mishaps = 0
    BY DEF Init
  <2>3. reviews \in 0..plan.max_reviews /\ mishaps \in 0..MaxMishaps /\ prepared \in 0..3 /\ amended \in Nat
    BY <2>1, <2>2
  <2> QED BY <1>1, <2>2, <2>3 DEF Counters
<1>3. PICK c, u : c = Fresh(1, FALSE) /\ u = Idle
  OBVIOUS
<1>4. PICK f \in BOOLEAN : f = FALSE
  OBVIOUS
<1>5. c = Fresh(1, f) /\ 1 \in Nat
  BY <1>3, <1>4
<1>6. Good(plan, c, <<>>)
  BY ONLY <1>1, <1>4, <1>5, FreshIsGood
<1>7. u = [pc |-> "idle", cp |-> c, batch |-> <<>>]
  BY <1>3 DEF Idle
<1>8. u \in ProcRow /\ Good(plan, u.cp, u.batch)
  BY ONLY <1>1, <1>6, <1>7, NewRow
<1>9. AllGood(plan, proc)
  BY <1>1, <1>3, <1>8 DEF AllGood
<1> QED BY <1>1, <1>2, <1>9 DEF IInv, Counters

\* Every step keeps the checkpoints in order.
LEMMA StepIsGood ==
    ASSUME IInv, [Next]_vars PROVE IInv'
<1>1. Counters /\ AllGood(plan, proc)
  BY DEF IInv, Counters
<1>2. CASE UNCHANGED vars
  BY <1>2 DEF vars, IInv, Exists
<1>3. ASSUME NEW p \in Procs, PassStep(p) \/ Crash(p) PROVE IInv'
  <2>1. Counters'
    BY <1>1, <1>3, PassCounters
  <2>2. AllGood(plan, proc') /\ (file' = file \/ Good(plan, file', <<>>))
    BY <1>3, PassCheckpoints
  <2>3. plan' = plan
    BY <1>3 DEF PassStep, Crash, EnsureKernelStarted, StartPass, SaveStart, Begin, Finish, Work,
                FalsifyInParallel, BudgetStop, IntegrateTools, CallFails, AnswerRefused,
                ToolAnswered, ToolsRequested, WorkDone, Answered
  <2>4. Exists' => Good(plan, file', <<>>)
    BY <2>2 DEF IInv, Exists
  <2> QED BY <2>1, <2>2, <2>3, <2>4 DEF IInv, Counters
<1>4. ASSUME PauseRun PROVE IInv'
  <2>1. Counters'
    BY <1>1, <1>4, OtherCounters
  <2>2. Good(plan, file', <<>>) /\ plan' = plan /\ proc' = proc
    BY <1>4, PauseRunOk DEF PauseRun
  <2> QED BY <1>1, <2>1, <2>2 DEF IInv, Counters
<1>5. ASSUME ResumeRun PROVE IInv'
  <2>1. Counters'
    BY <1>1, <1>5, OtherCounters
  <2>2. Good(plan, file', <<>>) /\ plan' = plan /\ proc' = proc
    BY <1>5, ResumeRunOk DEF ResumeRun
  <2> QED BY <1>1, <2>1, <2>2 DEF IInv, Counters
<1>6. ASSUME NEW v \in {"ACCEPTED", "CHANGES_REQUESTED", "REJECTED", "QUALITY"}, ReviewRun(v) PROVE IInv'
  <2>1. Counters'
    BY <1>1, <1>6, OtherCounters
  <2>2. Good(plan, file', <<>>) /\ plan' = plan /\ proc' = proc
    BY <1>6, ReviewRunOk DEF ReviewRun
  <2> QED BY <1>1, <2>1, <2>2 DEF IInv, Counters
<1>7. ASSUME NEW amend \in BOOLEAN, KernelChange(amend) PROVE IInv'
  <2>1. Counters'
    BY <1>1, <1>7, OtherCounters
  <2>2. Good(plan, file', <<>>) /\ plan' = plan /\ AllGood(plan, proc')
    BY <1>7, KernelChangeOk DEF KernelChange
  <2> QED BY <2>1, <2>2 DEF IInv, Counters
<1> QED BY <1>2, <1>3, <1>4, <1>5, <1>6, <1>7 DEF Next

-----------------------------------------------------------------------------
(* What the invariant says *)

\* The work of a route or of the run that an item stands for.
LEMMA StandsForWork ==
    ASSUME NEW pl, NEW rt, NEW i, ItemOk(pl, rt, i)
    PROVE  /\ i.kind # "TOOL_REQUEST" => Stands(i) \in RouteWork \cup RunWork
           /\ Stands(i) \in RouteWork \cup RunWork => i.kind # "TOOL_REQUEST"
           /\ Stands(i) \in RouteWork => i.route \in Routes
           /\ Stands(i) \in RunWork => i.route = NoRoute
<1>1. /\ i.kind \in RouteWork \cup RunWork \cup {"TOOL_REQUEST", "INTEGRATE_TOOLS"}
      /\ i.parent \in RouteWork \cup RunWork \cup {"NONE"}
  BY DEF ItemOk, WorkItem
<1>2. i.kind = "INTEGRATE_TOOLS" => i.parent # "NONE"
  BY DEF ItemOk
<1>3. i.kind # "TOOL_REQUEST" => Stands(i) \in RouteWork \cup RunWork
  BY <1>1, <1>2 DEF Stands
<1>4. "TOOL_REQUEST" \notin RouteWork \cup RunWork
  BY DEF RouteWork, RunWork
<1>5. Stands(i) \in RouteWork \cup RunWork => i.kind # "TOOL_REQUEST"
  BY <1>4 DEF Stands
<1> QED BY <1>3, <1>5 DEF ItemOk

\* Two items of one route, or one of them of the run, are the same.
LEMMA OnlyOnePending ==
    ASSUME NEW pl, NEW rt, NEW q, Sound(pl, rt, q, <<>>), NEW j \in 1..Len(q), NEW k \in 1..Len(q),
           q[j].kind # "TOOL_REQUEST", q[k].kind # "TOOL_REQUEST",
           q[j].route = q[k].route \/ q[j].route = NoRoute \/ q[k].route = NoRoute
    PROVE  j = k
BY DEF Sound, Conflict

\* A route that has not come to an end has one item that continues it ...
LEMMA RouteHasOneItem ==
    ASSUME NEW pl, NEW rt, NEW q, Sound(pl, rt, q, <<>>), NEW r \in Routes, Live(rt, r)
    PROVE  /\ Cardinality(Pending(q, RouteWork, r)) = 1
           /\ Pending(q, RunWork, NoRoute) = {}
<1>1. q \in Seq(WorkItem) /\ Len(<<>>) = 0
  BY DEF Sound
<1>2. DOMAIN q = 1..Len(q)
  BY <1>1, LenProperties
<1>3. PICK k \in 1..Len(q) : Continues(q[k], r)
  BY <1>1 DEF Sound
<1>4. q[k].kind # "TOOL_REQUEST" /\ q[k].route = r /\ ItemOk(pl, rt, q[k]) /\ r # NoRoute
  BY <1>3, ConstantsAssumption DEF Continues, Sound
<1>5. Stands(q[k]) \in RouteWork
  BY <1>4, StandsForWork
<1>6. ASSUME NEW j \in 1..Len(q), Stands(q[j]) \in RouteWork \cup RunWork, q[j].route = r \/ q[j].route = NoRoute
      PROVE  j = k
  <2>1. ItemOk(pl, rt, q[j])
    BY DEF Sound
  <2>2. q[j].kind # "TOOL_REQUEST"
    BY <1>6, <2>1, StandsForWork
  <2> QED BY <1>4, <1>6, <2>2, OnlyOnePending
<1>7. Pending(q, RouteWork, r) = {k}
  BY <1>2, <1>4, <1>5, <1>6 DEF Pending
<1>8. Pending(q, RunWork, NoRoute) = {}
  <2>1. ASSUME NEW j \in Pending(q, RunWork, NoRoute) PROVE FALSE
    <3>1. j \in 1..Len(q) /\ Stands(q[j]) \in RunWork /\ q[j].route = NoRoute
      BY <1>2 DEF Pending
    <3>2. j = k
      BY <1>6, <3>1
    <3> QED BY <1>4, <3>1, <3>2
  <2> QED BY <2>1
<1> QED BY <1>7, <1>8, FS_Singleton

\* ... and the run never has two.
LEMMA RunHasOneItem ==
    ASSUME NEW pl, NEW rt, NEW q, Sound(pl, rt, q, <<>>)
    PROVE  Cardinality(Pending(q, RunWork, NoRoute)) <= 1
<1>1. q \in Seq(WorkItem)
  BY DEF Sound
<1>2. DOMAIN q = 1..Len(q)
  BY <1>1, LenProperties
<1>3. PICK S : S = Pending(q, RunWork, NoRoute)
  OBVIOUS
<1>4. ASSUME NEW j \in S, NEW k \in S PROVE j = k
  <2>1. /\ j \in 1..Len(q) /\ Stands(q[j]) \in RunWork /\ q[j].route = NoRoute
        /\ k \in 1..Len(q) /\ Stands(q[k]) \in RunWork /\ q[k].route = NoRoute
    BY <1>2, <1>3 DEF Pending
  <2>2. ItemOk(pl, rt, q[j]) /\ ItemOk(pl, rt, q[k])
    BY <2>1 DEF Sound
  <2>3. q[j].kind # "TOOL_REQUEST" /\ q[k].kind # "TOOL_REQUEST"
    BY <2>1, <2>2, StandsForWork
  <2> QED BY <2>1, <2>3, OnlyOnePending
<1>5. CASE S = {}
  BY <1>3, <1>5, FS_EmptySet
<1>6. CASE S # {}
  <2>1. PICK k \in S : S = {k}
    BY <1>4, <1>6
  <2>2. Cardinality(S) = 1
    BY <2>1, FS_Singleton
  <2> QED BY <1>3, <2>2
<1> QED BY <1>5, <1>6

\* What NoWorkIsLost says of one checkpoint.
KeepsWork(cp) ==
    LET live == {r \in Scouted(cp) : cp.routes[r].status \notin Terminal}
        run == Pending(cp.queue, RunWork, NoRoute)
    IN /\ \A r \in live : Cardinality(Pending(cp.queue, RouteWork, r)) = 1
       /\ Cardinality(run) <= 1
       /\ live # {} => run = {}
       /\ cp.status \in {"WAITING_HUMAN_REVIEW", "COMPLETED"} => cp.queue = <<>>
       /\ cp.status = "PAUSED" /\ cp.reason \in {"BUDGET_EXHAUSTED", "RUNTIME_UNAVAILABLE"}
              => cp.queue # <<>>

\* A checkpoint in order keeps its work.
LEMMA GoodKeepsWork ==
    ASSUME NEW pl, NEW cp, Good(pl, cp, <<>>)
    PROVE  KeepsWork(cp)
<1>1. PICK q, rt : q = cp.queue /\ rt = cp.routes
  OBVIOUS
<1>2. Sound(pl, rt, q, <<>>)
  BY <1>1 DEF Good
<1>3. PICK live : live = {r \in Scouted(cp) : cp.routes[r].status \notin Terminal}
  OBVIOUS
<1>4. \A r \in live : r \in Routes /\ Live(rt, r)
  BY <1>1, <1>3 DEF Scouted, Live
<1>5. \A r \in live : Cardinality(Pending(q, RouteWork, r)) = 1 /\ Pending(q, RunWork, NoRoute) = {}
  BY <1>2, <1>4, RouteHasOneItem
<1>6. Cardinality(Pending(q, RunWork, NoRoute)) <= 1
  BY <1>2, RunHasOneItem
<1>7. /\ cp.status \in {"WAITING_HUMAN_REVIEW", "COMPLETED"} => q = <<>>
      /\ cp.status = "PAUSED" /\ cp.reason \in {"BUDGET_EXHAUSTED", "RUNTIME_UNAVAILABLE"} => q # <<>>
  BY <1>1 DEF Good
<1> QED BY <1>1, <1>3, <1>5, <1>6, <1>7 DEF KeepsWork

\* Every checkpoint has its type and respects the limits of the plan.
LEMMA TypesFollow ==
    ASSUME IInv PROVE TypeOK
<1>1. ASSUME NEW cp, NEW b, Good(plan, cp, b)
      PROVE  /\ cp \in Checkpoint
             /\ \A r \in Routes : cp.routes[r].round <= plan.max_route_revisions
             /\ cp.comp <= plan.max_composition_revisions
  BY <1>1 DEF Good, Sound
<1>2. \A p \in Procs : Good(plan, proc[p].cp, proc[p].batch) /\ proc[p].batch \in Seq(WorkItem)
  BY DEF IInv, AllGood, ProcRow
<1>3. ASSUME NEW cp \in Checkpoints
      PROVE  /\ cp \in Checkpoint
             /\ \A r \in Routes : cp.routes[r].round <= plan.max_route_revisions
             /\ cp.comp <= plan.max_composition_revisions
  <2>1. CASE \E p \in Procs : cp = proc[p].cp
    BY <1>1, <1>2, <2>1
  <2>2. CASE Exists /\ cp = file
    BY <1>1, <2>2 DEF IInv
  <2> QED BY <2>1, <2>2 DEF Checkpoints
<1> QED BY <1>2, <1>3 DEF TypeOK, IInv

\* The invariant implies that no work is lost.
LEMMA WorkIsKept ==
    ASSUME IInv PROVE NoWorkIsLost
<1>1. TypeOK
  BY TypesFollow
<1>2. ASSUME NEW cp \in {proc[p].cp : p \in {x \in Procs : ~InBatch(x)}} \cup (IF Exists THEN {file} ELSE {})
      PROVE  KeepsWork(cp)
  <2>1. CASE \E p \in Procs : ~InBatch(p) /\ cp = proc[p].cp
    <3>1. PICK p \in Procs : ~InBatch(p) /\ cp = proc[p].cp
      BY <2>1
    <3>2. Good(plan, cp, <<>>)
      BY <3>1 DEF IInv, AllGood, InBatch
    <3> QED BY <3>2, GoodKeepsWork
  <2>2. CASE Exists /\ cp = file
    BY <2>2, GoodKeepsWork DEF IInv
  <2> QED BY <1>2, <2>1, <2>2
<1> QED BY <1>1, <1>2 DEF NoWorkIsLost, KeepsWork

\* The invariant implies that a candidate rests on reviewed work.
LEMMA CandidateIsReviewed ==
    ASSUME IInv PROVE CandidateRestsOnReviewedWork
<1>1. ASSUME NEW cp, NEW b, Good(plan, cp, b), cp.outcome \in {"PROVED_CANDIDATE", "DISPROVED_CANDIDATE"}
      PROVE  /\ cp.review = "ACCEPTED" /\ cp.closed
             /\ cp.judged = Progress(cp.routes, cp.comp)
             /\ \A r \in ReadyVerified(cp) : cp.routes[r].verified = cp.routes[r].round
             /\ ReadyVerified(cp) # {}
  <2>1. Concluded(cp) /\ Evidence(cp.routes)
    BY <1>1 DEF Good
  <2>2. \A r \in ReadyVerified(cp) : cp.routes[r].verified = cp.routes[r].round
    BY <2>1 DEF Evidence, ReadyVerified
  <2> QED BY <1>1, <2>1, <2>2 DEF Concluded
<1>2. ASSUME NEW cp \in Checkpoints PROVE \E b : Good(plan, cp, b)
  BY DEF Checkpoints, IInv, AllGood
<1> QED BY <1>1, <1>2 DEF CandidateRestsOnReviewedWork

\* The invariant holds in every behaviour: the queue of every checkpoint, in memory or
\* saved, continues what its routes say is unfinished.
THEOREM QueuesContinueTheRun == Spec => []IInv
<1>1. Init => IInv
  BY InitIsGood
<1>2. IInv /\ [Next]_vars => IInv'
  BY StepIsGood
<1> QED BY <1>1, <1>2, PTL DEF Spec

\* No work is lost, for any number of processes, routes and mishaps and every plan: after
\* failed calls, stopped batches, pauses, resumes, reviews and crashes every unfinished
\* route has exactly one item that continues it (orchestrator.py, the pass and its saves).
THEOREM WorkIsNeverLost == Spec => []NoWorkIsLost
<1>1. Init => IInv
  BY InitIsGood
<1>2. IInv /\ [Next]_vars => IInv'
  BY StepIsGood
<1>3. IInv => NoWorkIsLost
  BY WorkIsKept
<1> QED BY <1>1, <1>2, <1>3, PTL DEF Spec

\* A candidate outcome is drawn only from a closed composition whose last review accepted
\* exactly the revisions concluded, with machine evidence of the last revision of a route.
THEOREM CandidatesRestOnReviewedWork == Spec => []CandidateRestsOnReviewedWork
<1>1. Init => IInv
  BY InitIsGood
<1>2. IInv /\ [Next]_vars => IInv'
  BY StepIsGood
<1>3. IInv => CandidateRestsOnReviewedWork
  BY CandidateIsReviewed
<1> QED BY <1>1, <1>2, <1>3, PTL DEF Spec

=============================================================================
