------------------------------ MODULE PaperTrail ----------------------------
(***************************************************************************)
(* From a finished proof to the paper on the home page: finalization and   *)
(* the publication projections (publication_handlers.py), rendering and    *)
(* compilation (publication.py), review tasks (reviews.py, review_routes)  *)
(* and the import of signed reviews (attestation_import.py).               *)
(*                                                                         *)
(* One run.  A candidate text names its render, its generation command and *)
(* its review task; a signed review is an immutable artifact that anybody  *)
(* may hand in.  Importing one reads the task first and writes it in a     *)
(* later transaction.                                                      *)
(***************************************************************************)
EXTENDS Naturals, Sequences, FiniteSets

CONSTANTS Texts,         \* candidate TeX artifacts
          PaperReviewers,\* identities with the role PAPER_REVIEWER
          SignedReviews, \* the signed review artifacts that exist
          Hurried,       \* texts whose review task may pass its expiry date
          AuthorLists,   \* the sets of subjects a review task may name as authors
          RootEvidence,  \* what the active ROOT claim may look like at finalization
          NoPaper

VARIABLES finalization,  \* outcome of the run and the evidence it was taken from
          renders,       \* rows of product_candidate_renders
          candidates,    \* rows of product_publication_candidates
          reviewTasks,   \* PAPER review task bound to a candidate
          overdue,       \* tasks whose expiry date has passed
          enabledReviewers,
          importing,     \* a SUBMIT_PAPER_REVIEW command under way, per reviewer
          paperReviews,  \* rows of product_publication_reviews
          compileRuns,   \* rows of product_compilation_attempts
          publications   \* rows of product_publication_compilations, oldest first

paperVars == <<finalization, renders, candidates, reviewTasks, overdue, enabledReviewers,
               importing, paperReviews, compileRuns, publications>>

Outcomes == {"PROVED", "DISPROVED", "UNRESOLVED"}
Verdicts == {"ACCEPT", "REJECT", "NEEDS_REVISION"}

ASSUME ReviewsAreSigned == SignedReviews \subseteq [text : Texts, signer : PaperReviewers,
                                                   verdict : Verdicts]

TaskRow == [assignee : PaperReviewers, authors : AuthorLists,
            status : {"OPEN", "CLAIMED", "SUBMITTED", "EXPIRED", "REASSIGNED"},
            signed : SignedReviews \cup {NoPaper}]
ReviewRow == [signed : SignedReviews, reviewer : PaperReviewers]
Evidence == [closed : BOOLEAN, refuted : BOOLEAN, machine : BOOLEAN, peer : BOOLEAN,
             open : BOOLEAN, witnesses : 0..2]

\* A missing row is no row.
ASSUME PaperInputs ==
    /\ RootEvidence \subseteq Evidence /\ NoPaper \notin TaskRow
    /\ NoPaper \notin [outcome : Outcomes, root : Evidence]

NotImporting == [pc |-> "idle", review |-> NoPaper, via |-> "none"]

-----------------------------------------------------------------------------
(* Finalization *)

\* `machine` and `peer` stand for the axis values that make a proof by checker or by peers.
RootSupports(root, outcome) ==
    /\ root.closed
    /\ IF outcome = "DISPROVED" THEN root.refuted
       ELSE ~root.refuted /\ (root.machine \/ root.peer)

FinalizationMutation(root, outcome) ==
    outcome = "UNRESOLVED" \/ (~root.open /\ RootSupports(root, outcome) /\ root.witnesses = 1)

\* The kernel closes the run with the outcome: it accepts the command once.
Finalize(root, outcome) == finalization = NoPaper /\ FinalizationMutation(root, outcome)

ApplyFinalization(root, outcome) ==
    /\ Finalize(root, outcome)
    /\ finalization' = [outcome |-> outcome, root |-> root]
    /\ UNCHANGED <<renders, candidates, reviewTasks, overdue, enabledReviewers, importing,
                   paperReviews, compileRuns, publications>>

AssertChain == finalization # NoPaper /\ finalization.outcome \in {"PROVED", "DISPROVED"}

-----------------------------------------------------------------------------
(* The candidate and its review task *)

RenderCandidate(t) ==
    /\ AssertChain /\ t \notin renders
    /\ renders' = renders \cup {t}
    /\ UNCHANGED <<finalization, candidates, reviewTasks, overdue, enabledReviewers, importing,
                   paperReviews, compileRuns, publications>>

\* The command takes any committed TeX artifact: it may not have been rendered here.
GenerateCandidateTex(t) == AssertChain /\ t \notin candidates

ApplyCandidate(t) ==
    /\ GenerateCandidateTex(t)
    /\ candidates' = candidates \cup {t}
    /\ UNCHANGED <<finalization, renders, reviewTasks, overdue, enabledReviewers, importing,
                   paperReviews, compileRuns, publications>>

Independent(r, authors) == r \in enabledReviewers /\ r \notin authors

RenderForCandidate(t) == t \in candidates \cap renders

\* A task is assigned to somebody who did not write the text.
CreateTask(t, r, authors) ==
    /\ reviewTasks[t] = NoPaper /\ authors # {} /\ Independent(r, authors)
    /\ reviewTasks' = [reviewTasks EXCEPT ![t] = [assignee |-> r, authors |-> authors,
                                                  status |-> "OPEN", signed |-> NoPaper]]

CreatePaperReviewTask(t, r, authors) ==
    /\ RenderForCandidate(t) /\ CreateTask(t, r, authors)
    /\ UNCHANGED <<finalization, renders, candidates, overdue, enabledReviewers, importing,
                   paperReviews, compileRuns, publications>>

Claimable(t) == reviewTasks[t].status \in {"OPEN", "REASSIGNED"}

\* The claim of a task that is overdue closes it; a claimed task is claimed again freely.
ClaimReviewTask(t, r) ==
    /\ reviewTasks[t] # NoPaper /\ reviewTasks[t].assignee = r
    /\ Independent(r, reviewTasks[t].authors) /\ Claimable(t)
    /\ reviewTasks' = [reviewTasks EXCEPT ![t].status = IF t \in overdue THEN "EXPIRED" ELSE "CLAIMED"]
    /\ UNCHANGED <<finalization, renders, candidates, overdue, enabledReviewers, importing,
                   paperReviews, compileRuns, publications>>

ReassignReviewTask(t, r) ==
    /\ reviewTasks[t] # NoPaper /\ reviewTasks[t].status # "SUBMITTED"
    /\ Independent(r, reviewTasks[t].authors)
    /\ reviewTasks' = [reviewTasks EXCEPT ![t].assignee = r, ![t].status = "REASSIGNED"]
    /\ overdue' = overdue \ {t}
    /\ UNCHANGED <<finalization, renders, candidates, enabledReviewers, importing,
                   paperReviews, compileRuns, publications>>

TaskOverdue(t) ==
    /\ t \in Hurried /\ reviewTasks[t] # NoPaper /\ t \notin overdue
    /\ overdue' = overdue \cup {t}
    /\ UNCHANGED <<finalization, renders, candidates, reviewTasks, enabledReviewers, importing,
                   paperReviews, compileRuns, publications>>

DisableReviewer(r) ==
    /\ enabledReviewers' = enabledReviewers \ {r}
    /\ r \in enabledReviewers
    /\ UNCHANGED <<finalization, renders, candidates, reviewTasks, overdue, importing,
                   paperReviews, compileRuns, publications>>

-----------------------------------------------------------------------------
(* SUBMIT_PAPER_REVIEW: verify the artifact, record it on the task, tell the kernel *)

VerifyTaskBinding(s) ==
    LET task == reviewTasks[s.text] IN
    /\ task # NoPaper /\ task.status \in {"CLAIMED", "SUBMITTED"}
    /\ s.signer = task.assignee /\ s.signer \notin task.authors

ImportReview(r, s, via) ==
    /\ importing[r].pc = "idle" /\ VerifyTaskBinding(s)
    /\ importing' = [importing EXCEPT ![r] = [pc |-> "record", review |-> s, via |-> via]]
    /\ UNCHANGED <<finalization, renders, candidates, reviewTasks, overdue, enabledReviewers,
                   paperReviews, compileRuns, publications>>

ReviewerSession(r) == r \in enabledReviewers

\* POST /v1/reviews/submit only records the artifact, and only for the assignee's session.
SubmitAtRoute(r, s) ==
    /\ reviewTasks[s.text] # NoPaper /\ reviewTasks[s.text].assignee = r /\ ReviewerSession(r)
    /\ ImportReview(r, s, "route")

AfterRecord(r) ==
    IF importing[r].via = "route" THEN NotImporting ELSE [importing[r] EXCEPT !.pc = "kernel"]

\* The task may have been reassigned, claimed again or closed since it was read.
RecordVerifiedArtifact(r) ==
    /\ importing[r].pc = "record"
    /\ LET s == importing[r].review  task == reviewTasks[s.text] IN
       \/ /\ task.status = "SUBMITTED" /\ task.signed = s
          /\ importing' = [importing EXCEPT ![r] = AfterRecord(r)] /\ UNCHANGED reviewTasks
       \/ /\ task.status = "CLAIMED" /\ s.text \notin overdue /\ task.assignee \in enabledReviewers
          /\ reviewTasks' = [reviewTasks EXCEPT ![s.text].status = "SUBMITTED", ![s.text].signed = s]
          /\ importing' = [importing EXCEPT ![r] = AfterRecord(r)]
       \/ /\ IF task.status = "SUBMITTED" THEN task.signed # s
             ELSE task.status # "CLAIMED" \/ s.text \in overdue
                  \/ task.assignee \notin enabledReviewers
          /\ importing' = [importing EXCEPT ![r] = NotImporting] /\ UNCHANGED reviewTasks
    /\ UNCHANGED <<finalization, renders, candidates, overdue, enabledReviewers,
                   paperReviews, compileRuns, publications>>

\* Mutant: the kernel takes the word of any session for the reviewer.
KernelTrustsSession(r, s) == s.verdict \in {"ACCEPT", "REJECT"}

\* The payload names the task's assignee as reviewer, and the kernel wants the session to be
\* that reviewer; a verdict that asks for a revision has no place in the kernel.
SubmitPaperReview(r, s) ==
    s.verdict \in {"ACCEPT", "REJECT"} /\ reviewTasks[s.text].assignee = r /\ s.text \in candidates

\* When the kernel refuses, the task stays SUBMITTED and the command raises.
ApplyReview(r) ==
    /\ importing[r].pc = "kernel"
    /\ LET s == importing[r].review IN
       paperReviews' = IF SubmitPaperReview(r, s)
                       THEN paperReviews \cup {[signed |-> s, reviewer |-> r]} ELSE paperReviews
    /\ importing' = [importing EXCEPT ![r] = NotImporting]
    /\ UNCHANGED <<finalization, renders, candidates, reviewTasks, overdue, enabledReviewers,
                   compileRuns, publications>>

ImportDies(r) ==
    /\ importing[r].pc # "idle" /\ importing' = [importing EXCEPT ![r] = NotImporting]
    /\ UNCHANGED <<finalization, renders, candidates, reviewTasks, overdue, enabledReviewers,
                   paperReviews, compileRuns, publications>>

-----------------------------------------------------------------------------
(* Compilation and the home page *)

AcceptedReview(review) ==
    /\ review \in paperReviews /\ review.signed.verdict = "ACCEPT"
    /\ reviewTasks[review.signed.text].status = "SUBMITTED"
    /\ reviewTasks[review.signed.text].signed = review.signed

\* A PDF is named by the text it was compiled from.
RecordAttempt(review, ok) == compileRuns' = compileRuns \cup {[review |-> review, ok |-> ok]}

CompileReviewed(review, ok) ==
    /\ AcceptedReview(review) /\ RecordAttempt(review, ok)
    /\ UNCHANGED <<finalization, renders, candidates, reviewTasks, overdue, enabledReviewers,
                   importing, paperReviews, publications>>

Pdfs == {c.review.signed.text : c \in {d \in compileRuns : d.ok}}

\* The command names a review and any committed PDF; a review is compiled once.
CompileReviewedPaper(review, pdf) ==
    review \in paperReviews /\ review.signed.verdict = "ACCEPT" /\ pdf \in Pdfs

ApplyCompilation(review, pdf) ==
    /\ CompileReviewedPaper(review, pdf)
    /\ \A i \in DOMAIN publications : publications[i].review # review
    /\ publications' = Append(publications, [review |-> review, pdf |-> pdf])
    /\ UNCHANGED <<finalization, renders, candidates, reviewTasks, overdue, enabledReviewers,
                   importing, paperReviews, compileRuns>>

\* Mutant: the home page shows the newest publication without asking for its attempt.
HomepageWithoutAttempt ==
    IF publications = <<>> THEN NoPaper ELSE publications[Len(publications)]

\* The publications whose PDF a successful attempt of the same review produced.
Presentable == {i \in DOMAIN publications :
    \E c \in compileRuns : /\ c.ok /\ c.review = publications[i].review
                           /\ c.review.signed.text = publications[i].pdf}

\* The newest of them.
Homepage == IF Presentable = {} THEN NoPaper
            ELSE publications[CHOOSE i \in Presentable : \A k \in Presentable : k <= i]

-----------------------------------------------------------------------------
PaperInit ==
    /\ finalization = NoPaper /\ renders = {} /\ candidates = {} /\ overdue = {}
    /\ reviewTasks = [t \in Texts |-> NoPaper] /\ enabledReviewers = PaperReviewers
    /\ importing = [r \in PaperReviewers |-> NotImporting]
    /\ paperReviews = {} /\ compileRuns = {} /\ publications = <<>>

PaperNext ==
    \/ \E root \in RootEvidence, o \in Outcomes : ApplyFinalization(root, o)
    \/ \E t \in Texts : \/ RenderCandidate(t) \/ ApplyCandidate(t) \/ TaskOverdue(t)
                        \/ \E r \in PaperReviewers :
                              \/ ClaimReviewTask(t, r) \/ ReassignReviewTask(t, r)
                              \/ \E a \in AuthorLists : CreatePaperReviewTask(t, r, a)
    \/ \E r \in PaperReviewers : \/ DisableReviewer(r) \/ RecordVerifiedArtifact(r)
                                 \/ ApplyReview(r) \/ ImportDies(r)
                                 \/ \E s \in SignedReviews : \/ ImportReview(r, s, "command")
                                                             \/ SubmitAtRoute(r, s)
    \/ \E review \in paperReviews : \/ \E ok \in BOOLEAN : CompileReviewed(review, ok)
                                    \/ \E pdf \in Texts : ApplyCompilation(review, pdf)

PaperSpec == PaperInit /\ [][PaperNext]_paperVars

-----------------------------------------------------------------------------
PaperTypeOK ==
    /\ finalization \in [outcome : Outcomes, root : Evidence] \cup {NoPaper}
    /\ renders \subseteq Texts /\ candidates \subseteq Texts /\ overdue \subseteq Texts
    /\ reviewTasks \in [Texts -> TaskRow \cup {NoPaper}]
    /\ paperReviews \subseteq ReviewRow

(***************************************************************************)
(* The paper on the home page belongs to a run that was finalized with a   *)
(* supported outcome and was compiled from the very text that a recorded,  *)
(* accepting review signs; neither who signed it nor who handed it in is   *)
(* an author: whatever reassignments and half-finished imports came first. *)
(* (Signer and submitter may differ: the task can change hands between the *)
(* verification and the record.)                                           *)
(***************************************************************************)
ShownPaperIsReviewed ==
    /\ PaperTypeOK
    /\ Homepage # NoPaper =>
          LET review == Homepage.review  task == reviewTasks[review.signed.text] IN
          /\ AssertChain /\ RootSupports(finalization.root, finalization.outcome)
          /\ Homepage.pdf = review.signed.text /\ Homepage.pdf \in renders \cap candidates
          /\ review.signed.verdict = "ACCEPT" /\ task.signed = review.signed
          /\ task.authors \cap {review.reviewer, review.signed.signer} = {}
=============================================================================
