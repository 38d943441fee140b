---------------------------- MODULE ResearchPass ----------------------------
(***************************************************************************)
(* The research orchestrator (orchestrator.py): a pass loads the           *)
(* checkpoint of a run, works off its queue of component calls, and saves  *)
(* the checkpoint at the end.  Users pause, resume and review in between;  *)
(* other clients of the kernel change the facts the work rests on; a       *)
(* process may die at any point of a pass.                                 *)
(*                                                                         *)
(* Budgets are abstracted to whether they are spent: tokens and time of a  *)
(* call are arbitrary.  Kernel revisions are abstracted to `moved`: the    *)
(* revision differs from the one the saved checkpoint is stamped with.     *)
(***************************************************************************)
EXTENDS Naturals, Sequences, FiniteSets, Functions

CONSTANTS Procs,          \* processes that run passes
          Routes,         \* routes
          Plans,          \* plans a run may have, see PlanType
          MaxMishaps,     \* bound: failed calls, spent budgets, pauses, crashes, and
                          \*        changes of the kernel by others, together
          NoRoute, NoFile

RouteWork == {"FALSIFY_ROUTE", "DEVELOP_ROUTE", "GAP_REVIEW", "REVISE_ROUTE",
              "FORMALIZE_ROUTE", "SEMANTIC_AUDIT"}
RunWork == {"CONTRACT_CLARIFY", "LITERATURE_AUDIT", "ROUTE_SCOUT",
            "COMPOSITION_CHECK", "REVISE_COMPOSITION", "FINAL_SYNTHESIS"}

\* The limits of a plan, the routes its scout may find, the kinds of work whose
\* component may ask for tools and those with forced tool requests.  max_reviews is a
\* bound of the model: the human reviews of the run.
PlanType ==
    [minimum_routes : Nat \ {0}, max_route_revisions : Nat,
     max_composition_revisions : Nat, max_tool_cycles : Nat,
     found : SUBSET Routes, tools : SUBSET (RouteWork \cup RunWork),
     forced : SUBSET (RouteWork \cup RunWork), max_reviews : Nat]

ASSUME ConstantsAssumption ==
    /\ Plans \subseteq PlanType
    /\ MaxMishaps \in Nat
    /\ IsFiniteSet(Routes)
    /\ NoRoute \notin Routes

VARIABLES plan,      \* plan of the run
          prepared,  \* kernel transitions made before the first pass
          moved,     \* the kernel's revision is not the saved one
          amended,   \* contract version of the kernel
          file,      \* checkpoint.json
          proc,      \* what each process has in memory
          reviews,   \* number of reviews so far
          mishaps    \* number of mishaps so far

vars == <<plan, prepared, moved, amended, file, proc, reviews, mishaps>>

-----------------------------------------------------------------------------
(* Data *)

Terminal == {"READY", "REFUTED", "FAILED"}
RouteStatus == Terminal \cup {"UNSCOUTED", "FALSIFYING", "DEVELOPING",
                              "REVIEWING", "REVISING", "FORMALIZING", "SEMANTIC_AUDIT"}

\* `verified` is history: the revision round the machine evidence is about.
RouteState == [status : RouteStatus, round : Nat, counterexample : BOOLEAN,
               machine : BOOLEAN, verified : Nat]

\* A work item; `claim` is the atomic claim carried in its context, `done` the
\* precomputed result of a parallel call, `parent` the work a tool answer returns to.
WorkItem == [kind : RouteWork \cup RunWork \cup {"TOOL_REQUEST", "INTEGRATE_TOOLS"},
             route : Routes \cup {NoRoute}, round : Nat, cycle : Nat,
             claim : BOOLEAN, parent : RouteWork \cup RunWork \cup {"NONE"},
             done : BOOLEAN]

Item(kind, route, round, claim) ==
    [kind |-> kind, route |-> route, round |-> round, cycle |-> 0, claim |-> claim,
     parent |-> "NONE", done |-> FALSE]

Progress(routes, comp) == [rounds |-> [r \in Routes |-> routes[r].round], comp |-> comp]

\* `judged` and `stale` are history: the progress the last review was about, and
\* whether others changed the kernel since this work was begun.
Checkpoint ==
    [status : {"RUNNING", "PAUSED", "WAITING_HUMAN_REVIEW", "COMPLETED"},
     reason : {"NONE", "USER_REQUEST", "CONTRACT_AMBIGUOUS", "BUDGET_EXHAUSTED",
               "RUNTIME_UNAVAILABLE", "HUMAN_REVIEW_REQUIRED"},
     queue : Seq(WorkItem), routes : [Routes -> RouteState], spent : BOOLEAN,
     exact : BOOLEAN, closed : BOOLEAN, comp : Nat,
     review : {"NONE", "ACCEPTED", "CHANGES_REQUESTED", "REJECTED"},
     outcome : {"NONE", "PROVED_CANDIDATE", "DISPROVED_CANDIDATE", "KNOWN_RESULT",
                "UNRESOLVED"},
     version : Nat, judged : [rounds : [Routes -> Nat], comp : Nat], stale : BOOLEAN]

NoRoutes == [r \in Routes |-> [status |-> "UNSCOUTED", round |-> 0, counterexample |-> FALSE,
                               machine |-> FALSE, verified |-> 0]]

\* The checkpoint of a plan that has just begun.
Fresh(version, spent) ==
    [status |-> "RUNNING", reason |-> "NONE",
     queue |-> <<Item("CONTRACT_CLARIFY", NoRoute, 0, FALSE)>>,
     routes |-> NoRoutes, spent |-> spent, exact |-> FALSE, closed |-> FALSE, comp |-> 0,
     review |-> "NONE", outcome |-> "NONE", version |-> version,
     judged |-> Progress(NoRoutes, 0), stale |-> FALSE]

Idle == [pc |-> "idle", cp |-> Fresh(1, FALSE), batch |-> <<>>]

-----------------------------------------------------------------------------
(* Operations on a checkpoint *)

Pause(cp, reason) == [cp EXCEPT !.status = "PAUSED", !.reason = reason]

EnterHumanReview(cp) ==
    [cp EXCEPT !.status = "WAITING_HUMAN_REVIEW", !.reason = "HUMAN_REVIEW_REQUIRED"]

Enqueue(cp, item) == [cp EXCEPT !.queue = Append(@, item)]
PutBack(cp, item) == [cp EXCEPT !.queue = <<item>> \o @]

UpdateRoute(cp, r, status) == [cp EXCEPT !.routes[r].status = status]

Scouted(cp) == {r \in Routes : cp.routes[r].status # "UNSCOUTED"}

\* Composition is scheduled once, when the last route has come to an end.
MaybeScheduleComposition(cp) ==
    IF /\ Scouted(cp) # {}
       /\ \A r \in Scouted(cp) : cp.routes[r].status \in Terminal
       /\ \A k \in DOMAIN cp.queue : cp.queue[k].kind # "COMPOSITION_CHECK"
    THEN Enqueue(cp, Item("COMPOSITION_CHECK", NoRoute, 0, FALSE))
    ELSE cp

ReadyVerified(cp) == {r \in Routes : cp.routes[r].status = "READY" /\ cp.routes[r].machine}

DeriveOutcome(cp) ==
    CASE cp.exact /\ cp.review = "ACCEPTED" -> "KNOWN_RESULT"
      [] ~(cp.exact /\ cp.review = "ACCEPTED")
         /\ (~cp.closed \/ cp.review # "ACCEPTED" \/ ReadyVerified(cp) = {}) -> "UNRESOLVED"
      [] OTHER -> IF \E r \in ReadyVerified(cp) : cp.routes[r].counterexample
                  THEN "DISPROVED_CANDIDATE" ELSE "PROVED_CANDIDATE"

-----------------------------------------------------------------------------
(* _handle_result: what a completed component call does, by kind of work.  *)
(* An answer `a` has `say`, the part of the payload the control depends    *)
(* on; `failed` and `over` occur when the tool cycles are used up.         *)

Says(kind) ==
    CASE kind = "CONTRACT_CLARIFY" -> {"clear", "ambiguous"}
      [] kind = "LITERATURE_AUDIT" -> {"exact", "new"}
      [] kind = "ROUTE_SCOUT" -> SUBSET plan.found
      [] kind = "FALSIFY_ROUTE" -> {"hit", "miss"}
      [] kind \in {"DEVELOP_ROUTE", "REVISE_ROUTE"} -> {"claim", "no claim"}
      [] kind = "GAP_REVIEW" -> {"PASS", "REVISE", "FATAL"}
      [] kind = "FORMALIZE_ROUTE" -> {"not replayed", "replayed", "trusted"}
      [] kind = "SEMANTIC_AUDIT" -> {"faithful", "unfaithful"}
      [] kind = "COMPOSITION_CHECK" -> {"closed", "open"}
      [] OTHER -> {"done"}

ContractClarified(cp, a) ==
    IF a.failed \/ a.say = "ambiguous"
    THEN Pause(cp, "CONTRACT_AMBIGUOUS")
    ELSE Enqueue(cp, Item("LITERATURE_AUDIT", NoRoute, 0, FALSE))

LiteratureAudited(cp, a) ==
    Enqueue([cp EXCEPT !.exact = a.say = "exact"], Item("ROUTE_SCOUT", NoRoute, 0, FALSE))

\* The routes of a set, each of them once, in a fixed order.
RouteOrder(rs) == CHOOSE s \in Bijection(1..Cardinality(rs), rs) : TRUE

RegisterKernelRoutes(cp, rs) ==
    [cp EXCEPT !.routes = [r \in Routes |-> IF r \in rs
                                            THEN [NoRoutes[r] EXCEPT !.status = "FALSIFYING"]
                                            ELSE NoRoutes[r]],
               !.queue = @ \o [k \in 1..Cardinality(rs) |->
                                   Item("FALSIFY_ROUTE", RouteOrder(rs)[k], 0, FALSE)]]

RoutesScouted(cp, i, a) ==
    CASE Cardinality(a.say) >= plan.minimum_routes -> RegisterKernelRoutes(cp, a.say)
      [] Cardinality(a.say) < plan.minimum_routes /\ i.round = 0 ->
             Enqueue(cp, Item("ROUTE_SCOUT", NoRoute, 1, FALSE))
      [] OTHER -> Enqueue(cp, Item("COMPOSITION_CHECK", NoRoute, 0, FALSE))

RouteFalsified(cp, i, a) ==
    IF a.say = "hit"
    THEN Enqueue([UpdateRoute(cp, i.route, "REVIEWING")
                     EXCEPT !.routes[i.route].counterexample = TRUE],
                 Item("GAP_REVIEW", i.route, 0, FALSE))
    ELSE Enqueue(UpdateRoute(cp, i.route, "DEVELOPING"),
                 Item("DEVELOP_ROUTE", i.route, 0, FALSE))

\* The draft could be registered in the kernel as an atomic claim with its premises.
CarriesClaim(a) == a.say = "claim"

RouteDeveloped(cp, i, a) ==
    Enqueue(UpdateRoute(cp, i.route, "REVIEWING"),
            Item("GAP_REVIEW", i.route, 0, CarriesClaim(a)))

\* Mutant: the repair is scheduled in the round that has just failed.
ReviseSameRound(cp, r) ==
    Enqueue(UpdateRoute(cp, r, "REVISING"),
            Item("REVISE_ROUTE", r, cp.routes[r].round, FALSE))

Revise(cp, r) ==
    Enqueue(UpdateRoute(cp, r, "REVISING"),
            Item("REVISE_ROUTE", r, cp.routes[r].round + 1, FALSE))

\* Mutant: one revision too many.
RevisableOnceMore(cp, r) == cp.routes[r].round <= plan.max_route_revisions

Revisable(cp, r) == cp.routes[r].round < plan.max_route_revisions

GapReviewed(cp, i, a) ==
    CASE a.failed \/ a.say = "FATAL" ->
             MaybeScheduleComposition(UpdateRoute(cp, i.route, "FAILED"))
      [] ~a.failed /\ a.say = "REVISE" /\ Revisable(cp, i.route) -> Revise(cp, i.route)
      [] OTHER -> Enqueue(UpdateRoute(cp, i.route, "FORMALIZING"),
                          Item("FORMALIZE_ROUTE", i.route, 0, i.claim))

RouteRevised(cp, i, a) ==
    Enqueue([UpdateRoute(cp, i.route, "REVIEWING") EXCEPT !.routes[i.route].round = i.round],
            Item("GAP_REVIEW", i.route, 0, CarriesClaim(a)))

\* Lean replays the candidate; a fact is verified when the replay passed, it
\* left trusted evidence and the work carries an atomic claim to attach it to.
FactVerified(i, a) == a.say = "trusted" /\ i.claim

\* Mutant: evidence of an earlier revision is kept when the new one has none.
FormalizedKeepsEvidence(cp, i, a) ==
    IF a.say = "not replayed" /\ Revisable(cp, i.route)
    THEN Revise(cp, i.route)
    ELSE LET c == UpdateRoute(cp, i.route, "SEMANTIC_AUDIT") IN
         Enqueue(IF FactVerified(i, a)
                 THEN [c EXCEPT !.routes[i.route].machine = TRUE,
                                !.routes[i.route].verified = cp.routes[i.route].round]
                 ELSE c,
                 Item("SEMANTIC_AUDIT", i.route, 0, FALSE))

RouteFormalized(cp, i, a) ==
    IF a.say = "not replayed" /\ Revisable(cp, i.route)
    THEN Revise(cp, i.route)
    ELSE Enqueue([UpdateRoute(cp, i.route, "SEMANTIC_AUDIT")
                     EXCEPT !.routes[i.route].machine = FactVerified(i, a),
                            !.routes[i.route].verified = cp.routes[i.route].round],
                 Item("SEMANTIC_AUDIT", i.route, 0, FALSE))

SemanticsAudited(cp, i, a) ==
    LET faithful == ~a.failed /\ a.say = "faithful" IN
    IF ~faithful /\ Revisable(cp, i.route)
    THEN Revise(cp, i.route)
    ELSE MaybeScheduleComposition(UpdateRoute(cp, i.route, IF faithful THEN "READY" ELSE "FAILED"))

CompositionChecked(cp, a) ==
    LET closed == ~a.failed /\ ~a.over /\ a.say = "closed"
        c == [cp EXCEPT !.closed = closed]
    IN IF ~closed /\ cp.comp < plan.max_composition_revisions
       THEN Enqueue(c, Item("REVISE_COMPOSITION", NoRoute, cp.comp + 1, FALSE))
       ELSE EnterHumanReview(c)

CompositionRevised(cp, i) ==
    Enqueue([cp EXCEPT !.comp = i.round], Item("COMPOSITION_CHECK", NoRoute, i.round, FALSE))

Synthesized(cp) ==
    [cp EXCEPT !.status = "COMPLETED", !.queue = <<>>, !.outcome = DeriveOutcome(cp)]

HandleResult(cp, i, a) ==
    CASE i.kind = "CONTRACT_CLARIFY" -> ContractClarified(cp, a)
      [] i.kind = "LITERATURE_AUDIT" -> LiteratureAudited(cp, a)
      [] i.kind = "ROUTE_SCOUT" -> RoutesScouted(cp, i, a)
      [] i.kind = "FALSIFY_ROUTE" -> RouteFalsified(cp, i, a)
      [] i.kind = "DEVELOP_ROUTE" -> RouteDeveloped(cp, i, a)
      [] i.kind = "GAP_REVIEW" -> GapReviewed(cp, i, a)
      [] i.kind = "REVISE_ROUTE" -> RouteRevised(cp, i, a)
      [] i.kind = "FORMALIZE_ROUTE" -> RouteFormalized(cp, i, a)
      [] i.kind = "SEMANTIC_AUDIT" -> SemanticsAudited(cp, i, a)
      [] i.kind = "COMPOSITION_CHECK" -> CompositionChecked(cp, a)
      [] i.kind = "REVISE_COMPOSITION" -> CompositionRevised(cp, i)
      [] i.kind = "FINAL_SYNTHESIS" -> Synthesized(cp)

-----------------------------------------------------------------------------
(* A pass.  proc[p].batch holds falsification work whose calls were made   *)
(* in parallel and whose results are still to be promoted, one by one.     *)

Mishap == mishaps < MaxMishaps /\ mishaps' = mishaps + 1

InBatch(p) == proc[p].batch # <<>>

FalsifyRun(q) == {n \in 1..Len(q) : \A k \in 1..n : q[k].kind = "FALSIFY_ROUTE"}

\* The item the process works on next, and the checkpoint it was taken from.
Current(p) == IF InBatch(p) THEN Head(proc[p].batch) ELSE Head(proc[p].cp.queue)
Taken(p) == IF InBatch(p) THEN proc[p].cp ELSE [proc[p].cp EXCEPT !.queue = Tail(@)]

Working(p) ==
    /\ proc[p].pc = "working"
    /\ \/ InBatch(p)
       \/ /\ proc[p].cp.status = "RUNNING"
          /\ proc[p].cp.queue # <<>>
          /\ ~proc[p].cp.spent

\* One item is executed by itself; two or more falsifications start a batch.
Single(p) == Working(p) /\ (InBatch(p) \/ Cardinality(FalsifyRun(proc[p].cp.queue)) < 2)

\* Mutant: a batch that stops forgets the routes it has not promoted yet.
PreserveNothing(cp, rest) == cp

\* What is left of a batch that stops goes behind the item that stopped it.
Preserve(cp, rest) ==
    LET q == cp.queue
        kept == [k \in DOMAIN rest |-> [rest[k] EXCEPT !.done = TRUE]]
    IN [cp EXCEPT !.queue = SubSeq(q, 1, IF q = <<>> THEN 0 ELSE 1) \o kept
                            \o SubSeq(q, 2, Len(q))]

Promote(p, cp) ==
    LET rest == IF InBatch(p) THEN Tail(proc[p].batch) ELSE <<>> IN
    proc' = [proc EXCEPT ![p] =
                IF cp.status # "RUNNING"
                THEN [@ EXCEPT !.cp = Preserve(cp, rest), !.batch = <<>>]
                ELSE [@ EXCEPT !.cp = cp, !.batch = rest]]

\* The calls of a batch run in parallel.  If one fails all go back to the queue, the
\* answered ones with their result; otherwise their results are promoted in order.
FalsifyInParallel(p) ==
    LET q == proc[p].cp.queue
        n == Cardinality(FalsifyRun(q))
        batch == SubSeq(q, 1, n)
        rest == SubSeq(q, n + 1, Len(q))
    IN /\ Working(p) /\ ~InBatch(p) /\ n >= 2
       /\ \/ /\ proc' = [proc EXCEPT ![p].batch = batch, ![p].cp.queue = rest]
             /\ UNCHANGED mishaps
          \/ \E failed \in SUBSET {k \in 1..n : ~q[k].done} :
                 /\ failed # {} /\ Mishap
                 /\ proc' = [proc EXCEPT ![p].cp = Pause([@ EXCEPT !.queue =
                                [k \in 1..n |-> [q[k] EXCEPT !.done = k \notin failed]] \o rest],
                                "RUNTIME_UNAVAILABLE")]
       /\ UNCHANGED <<plan, prepared, moved, amended, file, reviews>>

BudgetStop(p) ==
    /\ proc[p].pc = "working" /\ ~InBatch(p)
    /\ proc[p].cp.status = "RUNNING" /\ proc[p].cp.queue # <<>> /\ proc[p].cp.spent
    /\ proc' = [proc EXCEPT ![p].cp = Pause(@, "BUDGET_EXHAUSTED")]
    /\ UNCHANGED <<plan, prepared, moved, amended, file, reviews, mishaps>>

IntegrateTools(p) ==
    LET i == Current(p) IN
    /\ Single(p) /\ i.kind = "INTEGRATE_TOOLS"
    /\ Promote(p, PutBack(Taken(p), [i EXCEPT !.kind = i.parent, !.parent = "NONE"]))
    /\ UNCHANGED <<plan, prepared, moved, amended, file, reviews, mishaps>>

\* The call raised: nothing is charged, the same item is retried after a resume.
CallFails(p) ==
    /\ Single(p) /\ ~InBatch(p) /\ Current(p).kind # "INTEGRATE_TOOLS"
    /\ Promote(p, Pause(PutBack(Taken(p), Current(p)), "RUNTIME_UNAVAILABLE"))
    /\ Mishap
    /\ UNCHANGED <<plan, prepared, moved, amended, file, reviews>>

\* The result is charged and imported: the kernel's revision moves.
Answered(p) ==
    /\ Single(p) /\ Current(p).kind # "INTEGRATE_TOOLS"
    /\ moved' = TRUE
    /\ UNCHANGED <<plan, prepared, amended, file, reviews>>

\* It may use up the budget.
Charged(p, b) ==
    [Taken(p) EXCEPT !.spent = @ \/ b]
Charge(b) == IF b THEN Mishap ELSE UNCHANGED mishaps

\* The kernel's fuse tripped on the usage, a tool failed beyond repair, or the
\* component did not complete: the item goes back and the pass pauses.
AnswerRefused(p) ==
    /\ Answered(p)
    /\ Mishap
    /\ \E b \in BOOLEAN, reason \in {"BUDGET_EXHAUSTED", "RUNTIME_UNAVAILABLE"} :
           Promote(p, Pause(PutBack(Charged(p, b), Current(p)), reason))

ToolAnswered(p) ==
    /\ Answered(p) /\ Current(p).kind = "TOOL_REQUEST"
    /\ \E b \in BOOLEAN : Charge(b) /\ Promote(p, Charged(p, b))

ToolsRequested(p) ==
    LET i == Current(p) IN
    /\ Answered(p) /\ i.kind \in plan.tools /\ i.cycle < plan.max_tool_cycles
    /\ \E b \in BOOLEAN :
           Charge(b) /\ Promote(p, [Charged(p, b) EXCEPT !.queue =
               <<Item("TOOL_REQUEST", i.route, 0, FALSE),
                 [i EXCEPT !.kind = "INTEGRATE_TOOLS", !.parent = i.kind,
                           !.cycle = i.cycle + 1, !.done = FALSE]>> \o @])

\* Work ends; a result that still asks for tools when the cycles are used up is
\* taken as it is, complete or not.
Answers(i) ==
    LET late == i.kind \in plan.tools /\ i.cycle >= plan.max_tool_cycles IN
    {a \in [say : Says(i.kind), over : BOOLEAN, failed : BOOLEAN] :
        (a.failed => a.over) /\ (a.over => late)}

WorkDone(p) ==
    LET i == Current(p) IN
    /\ Answered(p) /\ i.kind \in RouteWork \cup RunWork
    /\ ~(i.kind \in plan.forced /\ i.cycle = 0 /\ plan.max_tool_cycles > 0)
    /\ \E b \in BOOLEAN, a \in Answers(i) :
           LET c == HandleResult(Charged(p, b), i, a) IN
           Charge(b) /\ Promote(p, IF c.spent /\ c.status = "RUNNING" THEN Pause(c, "BUDGET_EXHAUSTED") ELSE c)

-----------------------------------------------------------------------------
(* Loading and saving *)

Exists == file # NoFile

\* A checkpoint stamped with another revision, or of another contract, is given up.
Loaded == IF moved \/ file.version # amended
          THEN {Fresh(amended, b) : b \in BOOLEAN}
          ELSE {file}

\* Saving stamps the checkpoint with the revision the kernel has at that moment.
SaveCheckpoint(cp) == file' = cp /\ moved' = FALSE

\* start of a run without checkpoint: root claim, frozen contract, running kernel.
EnsureKernelStarted(p) ==
    /\ proc[p].pc = "idle" /\ ~Exists /\ prepared < 3
    /\ prepared' = prepared + 1
    /\ UNCHANGED <<plan, moved, amended, file, proc, reviews, mishaps>>

StartPass(p) ==
    /\ proc[p].pc = "idle" /\ ~Exists /\ prepared = 3
    /\ proc' = [proc EXCEPT ![p] = [pc |-> "starting", cp |-> Fresh(amended, FALSE), batch |-> <<>>]]
    /\ UNCHANGED <<plan, prepared, moved, amended, file, reviews, mishaps>>

SaveStart(p) ==
    /\ proc[p].pc = "starting"
    /\ SaveCheckpoint(proc[p].cp)
    /\ proc' = [proc EXCEPT ![p] = Idle]
    /\ UNCHANGED <<plan, prepared, amended, reviews, mishaps>>

\* continue_run: load (which saves a checkpoint it had to give up) ...
Begin(p) ==
    /\ proc[p].pc = "idle" /\ Exists
    /\ \E cp \in Loaded :
           /\ proc' = [proc EXCEPT ![p] = [pc |-> "working", cp |-> cp, batch |-> <<>>]]
           /\ SaveCheckpoint(cp)
    /\ UNCHANGED <<plan, prepared, amended, reviews, mishaps>>

\* ... and save when nothing is left to do; a pass that ran dry asks for a review.
Finish(p) ==
    /\ proc[p].pc = "working" /\ ~InBatch(p)
    /\ \/ proc[p].cp.status # "RUNNING"
       \/ proc[p].cp.queue = <<>>
    /\ SaveCheckpoint(IF proc[p].cp.status = "RUNNING" THEN EnterHumanReview(proc[p].cp)
                                                       ELSE proc[p].cp)
    /\ proc' = [proc EXCEPT ![p] = Idle]
    /\ UNCHANGED <<plan, prepared, amended, reviews, mishaps>>

\* The process dies, or a kernel command of the pass is rejected and raises.
Crash(p) ==
    /\ proc[p].pc # "idle" /\ Mishap
    /\ proc' = [proc EXCEPT ![p] = Idle]
    /\ UNCHANGED <<plan, prepared, moved, amended, file, reviews>>

-----------------------------------------------------------------------------
(* Users and other clients.  Pause, resume and review load, change and save *)
(* the checkpoint in one step; the pass that follows is a step of Begin.    *)

PauseRun ==
    /\ Exists /\ Mishap
    /\ \E cp \in Loaded :
           SaveCheckpoint(IF cp.status = "COMPLETED" THEN cp ELSE Pause(cp, "USER_REQUEST"))
    /\ UNCHANGED <<plan, prepared, amended, proc, reviews>>

\* A spent budget needs a new one, which may be spent already.
ResumeRun ==
    /\ Exists
    /\ \E cp \in Loaded, granted \in BOOLEAN, b \in BOOLEAN :
        LET c == IF granted /\ cp.status # "COMPLETED" THEN [cp EXCEPT !.spent = b] ELSE cp IN
        /\ ~(cp.status = "PAUSED" /\ cp.reason = "CONTRACT_AMBIGUOUS")
        /\ SaveCheckpoint(IF /\ c.status = "PAUSED"
                             /\ c.reason = "BUDGET_EXHAUSTED" => granted
                          THEN [c EXCEPT !.status = "RUNNING", !.reason = "NONE"]
                          ELSE c)
    /\ UNCHANGED <<plan, prepared, amended, proc, reviews, mishaps>>

\* What a review of a waiting checkpoint does: work that can be revised is revised.
Reviewed(cp, verdict) ==
    LET c == [cp EXCEPT !.status = "RUNNING", !.reason = "NONE", !.review = verdict,
                        !.judged = Progress(cp.routes, cp.comp)]
        rs == {r \in Routes : cp.routes[r].status = "READY" /\ Revisable(cp, r)}
    IN CASE verdict = "CHANGES_REQUESTED" /\ rs # {} ->
                [c EXCEPT !.closed = FALSE,
                          !.queue = [k \in 1..Cardinality(rs) |->
                                        Item("REVISE_ROUTE", RouteOrder(rs)[k],
                                             cp.routes[RouteOrder(rs)[k]].round + 1, FALSE)]]
         [] verdict = "CHANGES_REQUESTED" /\ rs = {} /\ cp.comp < plan.max_composition_revisions ->
                [c EXCEPT !.closed = FALSE,
                          !.queue = <<Item("REVISE_COMPOSITION", NoRoute, cp.comp + 1, FALSE)>>]
         [] OTHER -> [c EXCEPT !.queue = <<Item("FINAL_SYNTHESIS", NoRoute, 0, FALSE)>>]

\* The kernel records the review first.  A quality review changes nothing here; a paused
\* checkpoint is resumed and the review is not entered in it; one with an ambiguous
\* contract raises after the kernel's record.
ReviewRun(verdict) ==
    /\ Exists /\ reviews < plan.max_reviews
    /\ reviews' = reviews + 1
    /\ \E cp \in Loaded :
        CASE verdict = "QUALITY" -> SaveCheckpoint(cp)
          [] verdict # "QUALITY" /\ cp.status = "WAITING_HUMAN_REVIEW" ->
                 SaveCheckpoint(Reviewed(cp, verdict))
          [] verdict # "QUALITY" /\ cp.status = "PAUSED" /\ cp.reason = "CONTRACT_AMBIGUOUS" ->
                 file' = cp /\ moved' = TRUE
          [] verdict # "QUALITY" /\ cp.status = "PAUSED"
             /\ cp.reason \notin {"CONTRACT_AMBIGUOUS", "BUDGET_EXHAUSTED"} ->
                 SaveCheckpoint([cp EXCEPT !.status = "RUNNING", !.reason = "NONE"])
          [] OTHER -> SaveCheckpoint(cp)
    /\ UNCHANGED <<plan, prepared, amended, proc, mishaps>>

\* Another client revokes a fact, records a review, amends the contract ...
KernelChange(amend) ==
    /\ Exists /\ Mishap
    /\ moved' = TRUE
    /\ amended' = IF amend THEN amended + 1 ELSE amended
    /\ file' = [file EXCEPT !.stale = TRUE]
    /\ proc' = [p \in Procs |-> IF proc[p].pc = "idle" THEN proc[p]
                                ELSE [proc[p] EXCEPT !.cp.stale = TRUE]]
    /\ UNCHANGED <<plan, prepared, reviews>>

-----------------------------------------------------------------------------

Init ==
    /\ plan \in Plans
    /\ prepared = 0 /\ moved = FALSE /\ amended = 1
    /\ file = NoFile
    /\ proc = [p \in Procs |-> Idle]
    /\ reviews = 0 /\ mishaps = 0

Work(p) ==
    \/ FalsifyInParallel(p) \/ BudgetStop(p) \/ IntegrateTools(p) \/ CallFails(p)
    \/ AnswerRefused(p) \/ ToolAnswered(p) \/ ToolsRequested(p) \/ WorkDone(p)

PassStep(p) ==
    \/ EnsureKernelStarted(p) \/ StartPass(p) \/ SaveStart(p)
    \/ Begin(p) \/ Work(p) \/ Finish(p)

Next ==
    \/ \E p \in Procs : PassStep(p) \/ Crash(p)
    \/ PauseRun
    \/ ResumeRun
    \/ \E v \in {"ACCEPTED", "CHANGES_REQUESTED", "REJECTED", "QUALITY"} : ReviewRun(v)
    \/ \E amend \in BOOLEAN : KernelChange(amend)

Spec == Init /\ [][Next]_vars

FairSpec == Spec /\ \A p \in Procs : WF_vars(PassStep(p))

-----------------------------------------------------------------------------
(* Properties *)

Checkpoints == {proc[p].cp : p \in Procs} \cup (IF Exists THEN {file} ELSE {})

\* Type invariant; a route and the composition are never revised more often than the
\* plan allows, whoever asks for it.
TypeOK ==
    /\ plan \in Plans
    /\ prepared \in 0..3 /\ moved \in BOOLEAN /\ amended \in Nat
    /\ \A cp \in Checkpoints :
           /\ cp \in Checkpoint
           /\ \A r \in Routes : cp.routes[r].round <= plan.max_route_revisions
           /\ cp.comp <= plan.max_composition_revisions
    /\ \A p \in Procs : proc[p].batch \in Seq(WorkItem)
    /\ reviews \in 0..plan.max_reviews /\ mishaps \in 0..MaxMishaps

\* The kind of work an item stands for, tools and their integration included.
Stands(i) == IF i.kind = "INTEGRATE_TOOLS" THEN i.parent ELSE i.kind
Pending(q, kinds, r) == {k \in DOMAIN q : Stands(q[k]) \in kinds /\ q[k].route = r}

\* No work is lost: in every checkpoint, in memory or saved, after failed calls, stopped
\* batches, pauses, resumes and reviews, a route that has not come to an end has exactly
\* one item that continues it, a run without routes or with all routes at an end has one
\* item that continues the run, and a checkpoint at the review gate has nothing left.
NoWorkIsLost ==
    /\ TypeOK
    /\ \A cp \in {proc[p].cp : p \in {x \in Procs : ~InBatch(x)}} \cup (IF Exists THEN {file} ELSE {}) :
           LET live == {r \in Scouted(cp) : cp.routes[r].status \notin Terminal}
               run == Pending(cp.queue, RunWork, NoRoute)
           IN /\ \A r \in live : Cardinality(Pending(cp.queue, RouteWork, r)) = 1
              /\ Cardinality(run) <= 1
              /\ live # {} => run = {}
              /\ cp.status \in {"WAITING_HUMAN_REVIEW", "COMPLETED"} => cp.queue = <<>>
              /\ cp.status = "PAUSED" /\ cp.reason \in {"BUDGET_EXHAUSTED", "RUNTIME_UNAVAILABLE"}
                     => cp.queue # <<>>

\* A candidate outcome rests on work somebody reviewed: the last review accepted exactly
\* the route revisions and the composition that are concluded, the composition is closed,
\* and a READY route has machine evidence of its last revision, not of an earlier one.
CandidateRestsOnReviewedWork ==
    \A cp \in Checkpoints :
        cp.outcome \in {"PROVED_CANDIDATE", "DISPROVED_CANDIDATE"} =>
            /\ cp.review = "ACCEPTED" /\ cp.closed
            /\ cp.judged = Progress(cp.routes, cp.comp)
            /\ \A r \in ReadyVerified(cp) : cp.routes[r].verified = cp.routes[r].round
            /\ ReadyVerified(cp) # {}

\* The passes of a run come to a gate: a saved RUNNING checkpoint is followed by one
\* that is paused, waits for a review or is completed.
PassesReachAGate == (Exists /\ file.status = "RUNNING") ~> (Exists /\ file.status # "RUNNING")

\* As the comment in _load_checkpoint says of a checkpoint that is older than a change
\* of the kernel by others: its queue, its routes and its composition are not reused.
NoStaleReuse ==
    [][\A p \in Procs :
        proc[p].pc = "idle" /\ proc'[p].pc = "working" /\ proc'[p].cp.status = "RUNNING"
            => ~proc'[p].cp.stale]_vars

=============================================================================
