----------------------------- MODULE Controller -----------------------------
(***************************************************************************)
(* The host-managed model/tool loop (controller.py) and the registry that  *)
(* runs its calls (component_runtime.py).  The loop's state is one file,   *)
(* replaced atomically; a process works on a copy under the workspace lock *)
(* and loses copy and lock when it dies.  One step per journal commit.     *)
(***************************************************************************)
EXTENDS Naturals, Sequences, SequencesExt, FiniteSets

CONSTANTS CallIds, Functions,
          Registered,    \* functions with a registration
          Malformed,     \* calls whose arguments do not match the registered schema
          Hosts,         \* processes on the workspace
          MaxTurns, MaxCalls, NoRun, NoHost

ASSUME RegistryIsPartial == Registered \subseteq Functions
ASSUME TurnBounds == MaxTurns \in Nat /\ MaxCalls \in Nat /\ NoHost \notin Hosts

VARIABLES journal,   \* controller-state.json
          holder,    \* host that holds the workspace lock
          copy,      \* its copy of the state
          step,      \* where it is in advance or execute_pending
          adapterRuns    \* history: how often an adapter ran for a call

controllerVars == <<journal, holder, copy, step, adapterRuns>>

Directive == [id : CallIds, fn : Functions]
Pending == [id : CallIds, fn : Functions, state : {"PENDING", "EXECUTING", "COMPLETED"}]
Statuses == {"RUNNING", "WAITING_TOOL", "RECEIPT_READY", "PAUSED", "COMPLETED", "FAILED"}

\* An adapter that fails or raises still yields a receipt, repairable or not.
ReceiptStatuses == {"COMPLETED", "RUNTIME_EXCEPTION", "REPAIRABLE"}
Receipt == [id : CallIds, status : ReceiptStatuses]

RunState == [status : Statuses, turn : 0 .. MaxTurns, pending : Seq(Pending),
             receipts : Seq(Receipt), transcript : Seq(Receipt),
             pausedFrom : Statuses \cup {"NONE"}, failure : BOOLEAN]

ASSUME NoRunIsNoState == NoRun \notin RunState

Fresh0 == [status |-> "RUNNING", turn |-> 0, pending |-> <<>>, receipts |-> <<>>,
           transcript |-> <<>>, pausedFrom |-> "NONE", failure |-> FALSE]

Ended(s) == s.status \in {"COMPLETED", "FAILED"}
Failed(s) == [s EXCEPT !.status = "FAILED", !.failure = TRUE]

\* The lock is taken without waiting, and the state is read under it.
Lock(h) == /\ holder = NoHost /\ journal # NoRun
           /\ holder' = h /\ copy' = journal
Release == holder' = NoHost /\ copy' = NoRun /\ step' = "idle"
CommitAndRelease(s) == journal' = s /\ Release
CommitAndGo(s, at) == journal' = s /\ copy' = s /\ step' = at /\ UNCHANGED holder

StartController ==
    /\ journal = NoRun /\ holder = NoHost /\ journal' = Fresh0
    /\ UNCHANGED <<holder, copy, step, adapterRuns>>

-----------------------------------------------------------------------------
(* advance: consume receipts, then ask the model *)

\* Every receipt answers one pending call and none was consumed before.
ReceiptsMatch(s) ==
    /\ Len(s.receipts) = Len(s.pending) /\ s.receipts # <<>>
    /\ \A k \in DOMAIN s.receipts : /\ s.receipts[k].id \in {s.pending[i].id : i \in DOMAIN s.pending}
                                    /\ \A t \in DOMAIN s.transcript : s.transcript[t] # s.receipts[k]

ConsumeReceipts(s) ==
    [s EXCEPT !.transcript = @ \o s.receipts, !.pending = <<>>, !.receipts = <<>>,
              !.status = "RUNNING"]

AdvanceBegin(h) ==
    /\ holder = NoHost /\ journal # NoRun /\ journal.status = "RUNNING"
    /\ Lock(h) /\ step' = "ask" /\ UNCHANGED <<journal, adapterRuns>>

AdvanceWithReceipts(h) ==
    /\ holder = NoHost /\ journal # NoRun /\ journal.status = "RECEIPT_READY"
    /\ ReceiptsMatch(journal)
    /\ holder' = h /\ journal' = ConsumeReceipts(journal) /\ copy' = ConsumeReceipts(journal)
    /\ step' = "ask" /\ UNCHANGED adapterRuns

TurnLimit ==
    /\ step = "ask" /\ copy.turn >= MaxTurns
    /\ CommitAndRelease(Failed(copy)) /\ UNCHANGED adapterRuns

Asked(s) == [s EXCEPT !.turn = @ + 1]

\* The adapter raised (the turn is not counted) or its answer is not a usable intent.
ModelFails(counted) ==
    /\ step = "ask" /\ copy.turn < MaxTurns
    /\ CommitAndRelease(Failed(IF counted THEN Asked(copy) ELSE copy)) /\ UNCHANGED adapterRuns

\* Call ids must be new to the transcript and to each other, functions registered.
ValidDirectives(s, ds) ==
    /\ \A i \in DOMAIN ds : /\ ds[i].fn \in Registered
                            /\ \A t \in DOMAIN s.transcript : s.transcript[t].id # ds[i].id
    /\ \A i, j \in DOMAIN ds : i # j => ds[i].id # ds[j].id

PendingOf(ds) == [i \in DOMAIN ds |-> [id |-> ds[i].id, fn |-> ds[i].fn, state |-> "PENDING"]]

ModelCalls(ds) ==
    /\ step = "ask" /\ copy.turn < MaxTurns /\ ds # <<>>
    /\ CommitAndRelease(IF ValidDirectives(copy, ds)
                        THEN [Asked(copy) EXCEPT !.pending = PendingOf(ds), !.status = "WAITING_TOOL"]
                        ELSE Failed(Asked(copy)))
    /\ UNCHANGED adapterRuns

ModelAnswers ==
    /\ step = "ask" /\ copy.turn < MaxTurns
    /\ CommitAndRelease([Asked(copy) EXCEPT !.status = "COMPLETED"]) /\ UNCHANGED adapterRuns

-----------------------------------------------------------------------------
(* execute_pending *)

ExecuteBegin(h) ==
    /\ holder = NoHost /\ journal # NoRun /\ journal.status = "WAITING_TOOL"
    /\ Lock(h) /\ step' = "next" /\ UNCHANGED <<journal, adapterRuns>>

Unfinished(s) == {i \in DOMAIN s.pending : s.pending[i].state # "COMPLETED"}
NextCall(s) == CHOOSE i \in Unfinished(s) : \A j \in Unfinished(s) : i <= j

\* Mutant: a call found in execution is claimed again.
ClaimAgain ==
    /\ step = "next" /\ Unfinished(copy) # {}
    /\ CommitAndGo([copy EXCEPT !.pending[NextCall(copy)].state = "EXECUTING"], "call")
    /\ UNCHANGED adapterRuns

\* The claim is durable before the adapter runs.
ClaimCall ==
    /\ step = "next" /\ Unfinished(copy) # {} /\ copy.pending[NextCall(copy)].state = "PENDING"
    /\ CommitAndGo([copy EXCEPT !.pending[NextCall(copy)].state = "EXECUTING"], "call")
    /\ UNCHANGED adapterRuns

\* A claim that another process left behind: nobody knows whether it ran.
OutcomeUncertain ==
    /\ step = "next" /\ Unfinished(copy) # {} /\ copy.pending[NextCall(copy)].state = "EXECUTING"
    /\ CommitAndRelease(Failed(copy)) /\ UNCHANGED adapterRuns

\* execute_function: refused before any adapter runs.
Accepts(call) == call.fn \in Registered /\ call.id \notin Malformed
RuntimeRejects ==
    /\ step = "call" /\ ~Accepts(copy.pending[NextCall(copy)])
    /\ CommitAndRelease(Failed(copy)) /\ UNCHANGED adapterRuns

AdapterReturns ==
    /\ step = "call" /\ Accepts(copy.pending[NextCall(copy)])
    /\ adapterRuns' = [adapterRuns EXCEPT ![copy.pending[NextCall(copy)].id] = @ + 1]
    /\ step' = "receipt" /\ UNCHANGED <<journal, holder, copy>>

PersistReceipt(status) ==
    /\ step = "receipt"
    /\ LET i == NextCall(copy) IN
       CommitAndGo([copy EXCEPT !.pending[i].state = "COMPLETED",
                                !.receipts = Append(@, [id |-> copy.pending[i].id, status |-> status])],
                   "next")
    /\ UNCHANGED adapterRuns

ReceiptsReady ==
    /\ step = "next" /\ Unfinished(copy) = {}
    /\ CommitAndRelease([copy EXCEPT !.status = "RECEIPT_READY"]) /\ UNCHANGED adapterRuns

-----------------------------------------------------------------------------
(* pause, resume and death *)

PauseController ==
    /\ holder = NoHost /\ journal # NoRun /\ ~Ended(journal)
    /\ journal' = [journal EXCEPT !.pausedFrom = journal.status, !.status = "PAUSED"]
    /\ UNCHANGED <<holder, copy, step, adapterRuns>>

\* A second pause stores PAUSED in paused_from: such a run is resumed into PAUSED, where
\* there is nothing left to restore and resume raises.
ResumeController ==
    /\ holder = NoHost /\ journal # NoRun /\ journal.status = "PAUSED"
    /\ journal.pausedFrom # "NONE"
    /\ journal' = [journal EXCEPT !.status = journal.pausedFrom, !.pausedFrom = "NONE"]
    /\ UNCHANGED <<holder, copy, step, adapterRuns>>

HostDies == holder # NoHost /\ Release /\ UNCHANGED <<journal, adapterRuns>>

-----------------------------------------------------------------------------
ControllerInit ==
    /\ journal = NoRun /\ holder = NoHost /\ copy = NoRun /\ step = "idle"
    /\ adapterRuns = [c \in CallIds |-> 0]

ControllerNext ==
    \/ StartController
    \/ \E h \in Hosts : AdvanceBegin(h) \/ AdvanceWithReceipts(h) \/ ExecuteBegin(h)
    \/ TurnLimit \/ ModelAnswers \/ \E counted \in BOOLEAN : ModelFails(counted)
    \/ \E ds \in BoundedSeq(Directive, MaxCalls) : ModelCalls(ds)
    \/ ClaimCall \/ OutcomeUncertain \/ RuntimeRejects \/ AdapterReturns \/ ReceiptsReady
    \/ \E status \in ReceiptStatuses : PersistReceipt(status)
    \/ PauseController \/ ResumeController \/ HostDies

ControllerSpec == ControllerInit /\ [][ControllerNext]_controllerVars

ControllerTypeOK ==
    /\ holder \in Hosts \cup {NoHost}
    /\ step \in {"idle", "ask", "next", "call", "receipt"}
    /\ journal \in RunState \cup {NoRun}

\* A call reaches an adapter at most once, wherever the host dies and whoever takes over; the
\* model is shown a result only of a call that ran, each once; and a loop is never left with
\* receipts that do not answer its calls, which nothing could advance.
CallsRunAtMostOnce ==
    /\ ControllerTypeOK
    /\ \A c \in CallIds : adapterRuns[c] <= 1
    /\ journal # NoRun =>
          /\ \A t \in DOMAIN journal.transcript : adapterRuns[journal.transcript[t].id] = 1
          /\ \A t, u \in DOMAIN journal.transcript :
                t # u => journal.transcript[t].id # journal.transcript[u].id
          /\ journal.status = "RECEIPT_READY" => ReceiptsMatch(journal)
          /\ journal.status = "RUNNING" => journal.pending = <<>> /\ journal.receipts = <<>>
=============================================================================
