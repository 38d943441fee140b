--------------------------- MODULE DomainCommands ---------------------------
(***************************************************************************)
(* The immediate product commands: the authority that checks role, scope   *)
(* and fence and judges the handler's decision (domain_commands.py), the   *)
(* handlers (domain_command_handlers.py) and the research catalogue they   *)
(* keep (listing.py).  A handler writes the kernel first and the product   *)
(* stores after it, each in a transaction of its own; the receipt was      *)
(* reserved before and is decided last (command_service.py).  The fence of *)
(* a research is the revision its summary row carries, not the kernel's.   *)
(***************************************************************************)
EXTENDS Naturals, Sequences, FiniteSets, SequencesExt, FiniteSetsExt, Functions

CONSTANTS CommandIds,     \* requests a client submits; a created research has its request's name
          CommandLoads,   \* which commands are submitted: sets of functions request -> type
          Standing,       \* researches that earlier commands created
          MaterialsOf,    \* request -> material artifacts named by a creation
          WrongDigest,    \* artifacts whose named digest is not the stored one
          RoutesOf,       \* request -> routes named by a guidance
          CallerRoles,    \* roles of the sessions that submit
          CatalogReaders, PageLimit,
          MaxKernelRevision,
          NoCommand

ASSUME OneStanding == Cardinality(Standing) <= 1

VARIABLES kindOf,         \* request -> command type
          cmdReceipt,     \* request -> stored receipt
          call,           \* request -> where its handler is
          research,       \* research -> its kernel, contract, material and summary rows
          catalogRevision,
          kernelEvents,   \* accepted kernel commands
          domainRows,     \* rows of the domain stores
          listing         \* reader -> the pages it has been given

commandVars == <<kindOf, cmdReceipt, call, research, catalogRevision, kernelEvents, domainRows, listing>>

-----------------------------------------------------------------------------
(* The frozen catalogue of commands *)

Creating == {"CREATE_RESEARCH"}
KernelRequired == {"CONFIRM_CONTRACT", "AMEND_CONTRACT", "PAUSE_RESEARCH", "CANCEL_RESEARCH", "SUBMIT_CLAIM",
    "IMPORT_VERIFICATION", "CONFIRM_REVOKE", "REGISTER_BRIDGE_SPEC", "SUBMIT_CLOSURE_WITNESS",
    "SUBMIT_PAPER_REVIEW", "FINALIZE_RESEARCH"}
DomainOnly == {"APPLY_ROUTE_PLAN", "SUBMIT_GUIDANCE", "WITHDRAW_GUIDANCE", "CREATE_REVIEW_TASK",
    "CLAIM_REVIEW_TASK", "SUBMIT_REVIEW", "CONFIRM_MATERIAL_EXTRACTION", "REVIEW_THEOREM_APPLICABILITY",
    "FREEZE_PROBLEM_POOL", "REGISTER_BRIDGE_OPPORTUNITY", "CANCEL_JOB"}
ImmediateCommands == Creating \cup KernelRequired \cup DomainOnly

GlobalScope == {"CREATE_RESEARCH", "FREEZE_PROBLEM_POOL"}

RolesFor(type) ==
    CASE type = "SUBMIT_CLAIM" -> {"WORKER"}
      [] type = "IMPORT_VERIFICATION" -> {"MACHINE_VERIFIER"}
      [] type \in {"CLAIM_REVIEW_TASK", "SUBMIT_REVIEW"} -> {"PEER_REVIEWER"}
      [] type = "SUBMIT_PAPER_REVIEW" -> {"PAPER_REVIEWER"}
      [] type = "REVIEW_THEOREM_APPLICABILITY" -> {"LITERATURE_REVIEWER"}
      [] type = "REGISTER_BRIDGE_OPPORTUNITY" -> {"MAIN", "WORKER"}
      [] type = "CANCEL_JOB" -> {"MAIN", "WORKER", "ADMIN"}
      [] OTHER -> {"MAIN"}

\* Handlers that compare the payload with an artifact before anything is written.
DocumentChecked == {"CONFIRM_CONTRACT", "REGISTER_BRIDGE_SPEC", "SUBMIT_CLOSURE_WITNESS", "CREATE_REVIEW_TASK"}

-----------------------------------------------------------------------------
(* State *)

SummaryRow == [state : {"CONTRACT_DRAFT", "CONTRACT_CONFIRMED"}, revision : Nat, recent : Nat]
DecisionRow == [accepted : BOOLEAN, before : Nat, after : Nat,
                code : {NoCommand, "CAPABILITY_DENIED", "REVISION_CONFLICT", "CONTRACT_VERSION_MISMATCH",
                        "MATERIAL_ARTIFACT_DIGEST_MISMATCH", "CONTRACT_BINDING_MISSING", "BINDING_MISMATCH",
                        "KERNEL_REJECTED", "GUIDANCE_ROUTE_REQUIRED", "PROBLEM_POOL_DENOMINATOR_MISMATCH"}]
ReceiptRow == [state : {"PENDING", "DECIDED"}, decision : DecisionRow \cup {NoCommand}]

\* A new research has a name of its own; a missing row is no row.
ASSUME CommandInputs ==
    /\ CommandLoads \subseteq [CommandIds -> ImmediateCommands] /\ MaxKernelRevision \in Nat
    /\ PageLimit \in Nat \ {0} /\ NoCommand \notin Nat
    /\ IsFiniteSet(Standing) /\ Standing \cap CommandIds = {}
    /\ \A c \in CommandIds : /\ MaterialsOf[c] \in Seq(Range(MaterialsOf[c]))
                             /\ RoutesOf[c] \in Seq(Range(RoutesOf[c]))
    /\ NoCommand \notin SummaryRow /\ NoCommand \notin ReceiptRow

NotCalled == [at |-> "none", run |-> NoCommand, expected |-> 0, version |-> 0, role |-> NoCommand,
              left |-> <<>>, decision |-> NoCommand]

Accepted(before, after) == [accepted |-> TRUE, code |-> NoCommand, before |-> before, after |-> after]
Rejected(code, revision) == [accepted |-> FALSE, code |-> code, before |-> revision, after |-> revision]

Researches == CommandIds \cup Standing
Absent == [kernel |-> "NONE", revision |-> 0, listed |-> FALSE, contract |-> "NONE", materials |-> {},
           summary |-> NoCommand]
Drafted == [kernel |-> "DRAFT", revision |-> 0, listed |-> TRUE, contract |-> "DRAFT", materials |-> {},
            summary |-> [state |-> "CONTRACT_DRAFT", revision |-> 0, recent |-> 0]]

NotReading == [fence |-> NoCommand, seen |-> <<>>, after |-> NoCommand]

CommandInit ==
    /\ kindOf \in CommandLoads
    /\ cmdReceipt = [c \in CommandIds |-> NoCommand]
    /\ call = [c \in CommandIds |-> NotCalled]
    /\ research = [r \in Researches |-> IF r \in Standing THEN Drafted ELSE Absent]
    /\ catalogRevision = 2 * Cardinality(Standing)
    /\ kernelEvents = {} /\ domainRows = {}
    /\ listing = [d \in CatalogReaders |-> NotReading]

GoTo(c, step) == call' = [call EXCEPT ![c].at = step]
DecideAs(c, decision) == call' = [call EXCEPT ![c].at = "decide", ![c].decision = decision]

\* An exception that is no rejection leaves the receipt as it is.
Raises(c, why) == call' = [call EXCEPT ![c].at = why]

-----------------------------------------------------------------------------
(* The authority *)

\* execute(): the receipt is reserved before the authority is asked.
Submit(c) ==
    /\ cmdReceipt[c] = NoCommand
    /\ cmdReceipt' = [cmdReceipt EXCEPT ![c] = [state |-> "PENDING", decision |-> NoCommand]]
    /\ \E role \in CallerRoles, run \in Researches, version \in {0, 1} :
         /\ IF kindOf[c] \in GlobalScope THEN run = c /\ version = 0 ELSE research[run].kernel # "NONE"
         /\ \E expected \in IF kindOf[c] \in GlobalScope THEN {catalogRevision} ELSE 0..research[run].revision :
              call' = [call EXCEPT ![c] = [NotCalled EXCEPT !.at = "authorize", !.run = run, !.role = role,
                                             !.expected = expected, !.version = version]]
    /\ UNCHANGED <<kindOf, research, catalogRevision, kernelEvents, domainRows, listing>>

\* The revision and contract version a command is held against.
FenceOf(c) ==
    IF kindOf[c] \in GlobalScope THEN [revision |-> catalogRevision, version |-> 0]
    ELSE [revision |-> research[call[c].run].summary.revision, version |-> 1]

Authorize(c) ==
    /\ call[c].at = "authorize"
    /\ IF call[c].role \notin RolesFor(kindOf[c])
       THEN DecideAs(c, Rejected("CAPABILITY_DENIED", call[c].expected))
       ELSE IF kindOf[c] \notin GlobalScope /\ research[call[c].run].summary = NoCommand
       THEN Raises(c, "raised")
       ELSE LET fence == FenceOf(c) IN
            CASE call[c].expected # fence.revision -> DecideAs(c, Rejected("REVISION_CONFLICT", fence.revision))
              [] call[c].version # fence.version -> DecideAs(c, Rejected("CONTRACT_VERSION_MISMATCH", fence.revision))
              [] OTHER -> GoTo(c, "handle")
    /\ UNCHANGED <<kindOf, cmdReceipt, research, catalogRevision, kernelEvents, domainRows, listing>>

\* What the authority accepts from a handler; a rejection the handler raised
\* is its own and is not looked at.
DecisionFits(c, decision) ==
    /\ decision.code \in {NoCommand, "KERNEL_REJECTED"} => decision.before = call[c].expected
    /\ decision.accepted /\ kindOf[c] \in DomainOnly => decision.after = call[c].expected

RecordDecision(c) ==
    /\ call[c].at = "decide"
    /\ IF DecisionFits(c, call[c].decision)
       THEN /\ cmdReceipt' = [cmdReceipt EXCEPT ![c] = [state |-> "DECIDED", decision |-> call[c].decision]]
            /\ GoTo(c, "done")
       ELSE Raises(c, "unanswered") /\ UNCHANGED cmdReceipt
    /\ UNCHANGED <<kindOf, research, catalogRevision, kernelEvents, domainRows, listing>>

\* The service dies under a call; nothing takes the call up again.
CallDies(c) ==
    /\ call[c].at \notin {"none", "done", "raised", "unanswered", "dead"}
    /\ GoTo(c, "dead")
    /\ UNCHANGED <<kindOf, cmdReceipt, research, catalogRevision, kernelEvents, domainRows, listing>>

-----------------------------------------------------------------------------
(* CREATE_RESEARCH *)

CreateInKernel(c) ==
    /\ kindOf[c] = "CREATE_RESEARCH" /\ call[c].at = "handle"
    /\ research' = [research EXCEPT ![c].kernel = "DRAFT"]
    /\ GoTo(c, "catalog")
    /\ UNCHANGED <<kindOf, cmdReceipt, catalogRevision, kernelEvents, domainRows, listing>>

RegisterInCatalog(c) ==
    /\ call[c].at = "catalog"
    /\ research' = [research EXCEPT ![c].listed = TRUE]
    /\ catalogRevision' = catalogRevision + 1
    /\ GoTo(c, "draft")
    /\ UNCHANGED <<kindOf, cmdReceipt, kernelEvents, domainRows, listing>>

DraftContract(c) ==
    /\ call[c].at = "draft"
    /\ research' = [research EXCEPT ![c].contract = "DRAFT"]
    /\ call' = [call EXCEPT ![c].at = "materials", ![c].left = MaterialsOf[c]]
    /\ UNCHANGED <<kindOf, cmdReceipt, catalogRevision, kernelEvents, domainRows, listing>>

\* A wrong digest is a rejection, after the kernel, the catalogue and the draft.
BindMaterial(c) ==
    /\ call[c].at = "materials" /\ call[c].left # <<>>
    /\ IF Head(call[c].left) \in WrongDigest
       THEN DecideAs(c, Rejected("MATERIAL_ARTIFACT_DIGEST_MISMATCH", call[c].expected)) /\ UNCHANGED research
       ELSE /\ research' = [research EXCEPT ![c].materials = @ \cup {Head(call[c].left)}]
            /\ call' = [call EXCEPT ![c].left = Tail(@)]
    /\ UNCHANGED <<kindOf, cmdReceipt, catalogRevision, kernelEvents, domainRows, listing>>

\* The read of the summary row and its first write are two transactions.
LookForSummary(c) ==
    /\ call[c].at = "materials" /\ call[c].left = <<>>
    /\ IF research[c].summary = NoCommand THEN GoTo(c, "summarize")
       ELSE DecideAs(c, Accepted(call[c].expected, call[c].expected))
    /\ UNCHANGED <<kindOf, cmdReceipt, research, catalogRevision, kernelEvents, domainRows, listing>>

\* catalog.project(): the row is replaced and the catalogue's revision moves.
Project(run, state, revision) ==
    /\ research' = [research EXCEPT ![run].summary = [state |-> state, revision |-> revision,
                                                       recent |-> catalogRevision + 1]]
    /\ catalogRevision' = catalogRevision + 1

SummarizeNew(c) ==
    /\ call[c].at = "summarize" /\ kindOf[c] = "CREATE_RESEARCH"
    /\ Project(c, "CONTRACT_DRAFT", 0)
    /\ DecideAs(c, Accepted(call[c].expected, call[c].expected))
    /\ UNCHANGED <<kindOf, cmdReceipt, kernelEvents, domainRows, listing>>

-----------------------------------------------------------------------------
(* Commands that cross into the kernel *)

\* The binding the payload names is compared with the stored one; the note
\* or reason is published as an artifact.
PrepareForKernel(c) ==
    /\ kindOf[c] \in KernelRequired /\ call[c].at = "handle"
    /\ IF kindOf[c] = "CONFIRM_CONTRACT" /\ research[call[c].run].contract = "NONE"
       THEN DecideAs(c, Rejected("CONTRACT_BINDING_MISSING", call[c].expected))
       ELSE \/ kindOf[c] \in DocumentChecked /\ DecideAs(c, Rejected("BINDING_MISMATCH", call[c].expected))
            \/ GoTo(c, "kernel")
    /\ UNCHANGED <<kindOf, cmdReceipt, research, catalogRevision, kernelEvents, domainRows, listing>>

\* A contract is confirmed once; other commands the kernel's guard may refuse.
KernelMayAccept(c) == kindOf[c] = "CONFIRM_CONTRACT" => research[call[c].run].kernel = "DRAFT"

KernelAccepts(c) ==
    /\ call[c].at = "kernel"
    /\ LET run == call[c].run
           after == research[run].revision + 1
       IN  /\ research[run].revision = call[c].expected /\ KernelMayAccept(c)
           /\ after <= MaxKernelRevision
           /\ research' = [research EXCEPT ![run].revision = after,
                 ![run].kernel = IF kindOf[c] = "CONFIRM_CONTRACT" THEN "CONFIRMED" ELSE @]
           /\ kernelEvents' = kernelEvents \cup {[command |-> c, run |-> run, revision |-> after]}
           /\ IF kindOf[c] = "CONFIRM_CONTRACT" THEN GoTo(c, "follow")
              ELSE DecideAs(c, Accepted(call[c].expected, after))
    /\ UNCHANGED <<kindOf, cmdReceipt, catalogRevision, domainRows, listing>>

\* The kernel's rejection carries the revision the kernel is at.
KernelRejects(c) ==
    /\ call[c].at = "kernel"
    /\ research[call[c].run].revision = call[c].expected
         => kindOf[c] # "CONFIRM_CONTRACT" \/ ~KernelMayAccept(c)
    /\ DecideAs(c, Rejected("KERNEL_REJECTED", research[call[c].run].revision))
    /\ UNCHANGED <<kindOf, cmdReceipt, research, catalogRevision, kernelEvents, domainRows, listing>>

\* Mutant: the product's contract is confirmed before the kernel is asked.
ConfirmBeforeKernel(c) ==
    /\ kindOf[c] = "CONFIRM_CONTRACT" /\ call[c].at \in {"kernel", "follow"}
    /\ research' = [research EXCEPT ![call[c].run].contract = "CONFIRMED"]
    /\ IF call[c].at = "follow" THEN GoTo(c, "summarize") ELSE UNCHANGED call
    /\ UNCHANGED <<kindOf, cmdReceipt, catalogRevision, kernelEvents, domainRows, listing>>

\* confirm_by_user() after the kernel's acceptance.
ConfirmProduct(c) ==
    /\ kindOf[c] = "CONFIRM_CONTRACT" /\ call[c].at = "follow"
    /\ research' = [research EXCEPT ![call[c].run].contract = "CONFIRMED"]
    /\ GoTo(c, "summarize")
    /\ UNCHANGED <<kindOf, cmdReceipt, catalogRevision, kernelEvents, domainRows, listing>>

SummarizeConfirmed(c) ==
    /\ kindOf[c] = "CONFIRM_CONTRACT" /\ call[c].at = "summarize"
    /\ LET after == call[c].expected + 1 IN
       /\ Project(call[c].run, "CONTRACT_CONFIRMED", after)
       /\ DecideAs(c, Accepted(call[c].expected, after))
    /\ UNCHANGED <<kindOf, cmdReceipt, kernelEvents, domainRows, listing>>

\* START_RESEARCH and RESUME_RESEARCH run as durable jobs; like every other
\* writer of the kernel they leave the summary row alone.
LifecycleMoves(run) ==
    /\ research[run].kernel = "CONFIRMED" /\ research[run].revision < MaxKernelRevision
    /\ research' = [research EXCEPT ![run].revision = @ + 1]
    /\ UNCHANGED <<kindOf, cmdReceipt, call, catalogRevision, kernelEvents, domainRows, listing>>

-----------------------------------------------------------------------------
(* Commands of the domain stores *)

\* One row for every route of a guidance, one row for any other command.
RowsOf(c) == IF kindOf[c] = "SUBMIT_GUIDANCE" THEN RoutesOf[c] ELSE <<c>>

PrepareForDomain(c) ==
    /\ kindOf[c] \in DomainOnly /\ call[c].at = "handle"
    /\ \/ kindOf[c] \in DocumentChecked /\ DecideAs(c, Rejected("BINDING_MISMATCH", call[c].expected))
       \/ RowsOf(c) = <<>> /\ DecideAs(c, Rejected("GUIDANCE_ROUTE_REQUIRED", call[c].expected))
       \/ RowsOf(c) # <<>> /\ call' = [call EXCEPT ![c].at = "rows", ![c].left = RowsOf(c)]
    /\ UNCHANGED <<kindOf, cmdReceipt, research, catalogRevision, kernelEvents, domainRows, listing>>

\* A store writes its row, or refuses with an exception of its own.
WriteRow(c) ==
    /\ call[c].at = "rows" /\ call[c].left # <<>>
    /\ \/ /\ domainRows' = domainRows \cup {<<c, Head(call[c].left)>>}
          /\ call' = [call EXCEPT ![c].left = Tail(@)]
       \/ Raises(c, "raised") /\ UNCHANGED domainRows
    /\ UNCHANGED <<kindOf, cmdReceipt, research, catalogRevision, kernelEvents, listing>>

\* The pool's denominator is compared after the pool has been frozen.
AnswerDomain(c) ==
    /\ call[c].at = "rows" /\ call[c].left = <<>>
    /\ \/ DecideAs(c, Accepted(call[c].expected, call[c].expected))
       \/ /\ kindOf[c] = "FREEZE_PROBLEM_POOL"
          /\ DecideAs(c, Rejected("PROBLEM_POOL_DENOMINATOR_MISMATCH", call[c].expected))
    /\ UNCHANGED <<kindOf, cmdReceipt, research, catalogRevision, kernelEvents, domainRows, listing>>

-----------------------------------------------------------------------------
(* Reading the catalogue *)

Listed == {r \in Researches : research[r].listed /\ research[r].summary # NoCommand}

\* Most recent activity first; no two summaries have one time, so that the
\* order by name among equals is not needed.
Precedes(r, s) == research[r].summary.recent > research[s].summary.recent

InOrder(rs) ==
    CHOOSE s \in Bijection(1..Cardinality(rs), rs) : \A i, j \in DOMAIN s : i < j => Precedes(s[i], s[j])

CatalogRows == InOrder(Listed)

\* Rows after the cursor's key, in the same order.
RowsAfter(key) == InOrder({r \in Listed : key = NoCommand \/ research[r].summary.recent < key})

Serve(d, rows) ==
    LET page == SubSeq(rows, 1, Min({PageLimit, Len(rows)}))
    IN  listing' = [listing EXCEPT ![d] = [fence |-> catalogRevision, seen |-> @.seen \o page,
              after |-> IF Len(rows) > PageLimit THEN research[Last(page)].summary.recent ELSE NoCommand]]

ListFirst(d) ==
    /\ listing[d] = NotReading /\ Serve(d, RowsAfter(NoCommand))
    /\ UNCHANGED <<kindOf, cmdReceipt, call, research, catalogRevision, kernelEvents, domainRows>>

\* Mutant: the revision inside the cursor is not compared.
CursorAlwaysHolds(d) == listing[d].after # NoCommand

\* A cursor is good for the catalogue revision it was issued at.
CursorHolds(d) == listing[d].after # NoCommand /\ listing[d].fence = catalogRevision

ListNext(d) ==
    /\ CursorHolds(d) /\ Serve(d, RowsAfter(listing[d].after))
    /\ UNCHANGED <<kindOf, cmdReceipt, call, research, catalogRevision, kernelEvents, domainRows>>

-----------------------------------------------------------------------------
CommandNext ==
    \/ \E c \in CommandIds :
         \/ Submit(c) \/ Authorize(c) \/ RecordDecision(c) \/ CallDies(c)
         \/ CreateInKernel(c) \/ RegisterInCatalog(c) \/ DraftContract(c) \/ BindMaterial(c)
         \/ LookForSummary(c) \/ SummarizeNew(c)
         \/ PrepareForKernel(c) \/ KernelAccepts(c) \/ KernelRejects(c)
         \/ ConfirmProduct(c) \/ SummarizeConfirmed(c)
         \/ PrepareForDomain(c) \/ WriteRow(c) \/ AnswerDomain(c)
    \/ \E r \in Researches : LifecycleMoves(r)
    \/ \E d \in CatalogReaders : ListFirst(d) \/ ListNext(d)

DomainSpec == CommandInit /\ [][CommandNext]_commandVars

-----------------------------------------------------------------------------
(* Properties *)

CommandTypeOK ==
    /\ kindOf \in [CommandIds -> ImmediateCommands]
    /\ \A c \in CommandIds : cmdReceipt[c] = NoCommand \/ cmdReceipt[c].state \in {"PENDING", "DECIDED"}
    /\ \A r \in Researches : research[r].revision \in 0..MaxKernelRevision
    /\ catalogRevision \in Nat /\ domainRows \subseteq CommandIds \X (CommandIds \cup UNION {Range(RoutesOf[c]) : c \in CommandIds})

EventsOf(c) == {e \in kernelEvents : e.command = c}
Decided(c) == cmdReceipt[c] # NoCommand /\ cmdReceipt[c].state = "DECIDED"

\* An accepted receipt names work that is all there: a created research has
\* its catalogue row, contract draft, materials and summary; a command of the
\* kernel has one kernel event, at the revision the receipt gives; a command of
\* a store has all its rows and no kernel event.  A rejected command of a run
\* has no kernel event.  The product never shows a contract confirmed that the
\* kernel has not frozen, and no summary is ahead of its contract.
\* (domain_command_handlers.py create_research, confirm_contract; _assert_decision)
ReceiptsTellWhatWasDone ==
    /\ CommandTypeOK
    /\ \A c \in CommandIds : Decided(c) =>
         LET d == cmdReceipt[c].decision IN
         IF ~d.accepted THEN EventsOf(c) = {} /\ d.before = d.after
         ELSE CASE kindOf[c] \in Creating ->
                     /\ research[c].kernel # "NONE" /\ research[c].listed /\ research[c].contract # "NONE"
                     /\ research[c].materials = Range(MaterialsOf[c]) /\ research[c].summary # NoCommand
                [] kindOf[c] \in KernelRequired ->
                     /\ EventsOf(c) = {[command |-> c, run |-> call[c].run, revision |-> d.after]}
                     /\ d.after = d.before + 1
                     /\ kindOf[c] = "CONFIRM_CONTRACT" => research[call[c].run].contract = "CONFIRMED"
                [] OTHER -> EventsOf(c) = {} /\ d.after = d.before
                            /\ Range(RowsOf(c)) = {row[2] : row \in {x \in domainRows : x[1] = c}}
    /\ \A r \in Researches :
         /\ research[r].contract = "CONFIRMED" => research[r].kernel = "CONFIRMED"
         /\ research[r].summary # NoCommand /\ research[r].summary.state = "CONTRACT_CONFIRMED"
              => research[r].contract = "CONFIRMED"

\* While the catalogue is as it was at the first page, the pages a reader has
\* been given are the head of the catalogue, in order and with nothing skipped
\* or repeated, and all of it once there is no further cursor.
\* (listing.py list, _decode)
PagesAreTheCatalogue ==
    \A d \in CatalogReaders : listing[d].fence # NoCommand /\ listing[d].fence = catalogRevision
      => /\ IsPrefix(listing[d].seen, CatalogRows)
         /\ listing[d].after = NoCommand => listing[d].seen = CatalogRows

\* docs/product/product-architecture.md, section on clients: a conflict is answered with
\* the current revision.  No call ends on the kernel's conflict with its receipt pending.
ConflictIsAnswered == \A c \in CommandIds : call[c].at # "unanswered"

\* docs/product/product-authority.md, error semantics: a rejection has no effect on the
\* business.  A rejected command has left no run and no row behind.
RejectionHasNoEffect ==
    \A c \in CommandIds : Decided(c) /\ ~cmdReceipt[c].decision.accepted
      => (c \in Standing \/ research[c].kernel = "NONE") /\ \A row \in domainRows : row[1] # c
=============================================================================
