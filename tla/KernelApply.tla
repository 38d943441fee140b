----------------------------- MODULE KernelApply -----------------------------
(***************************************************************************)
(* ResearchKernel.create, apply and import_artifact: processes that share  *)
(* one SQLite database and one content-addressed store.                    *)
(*                                                                         *)
(* Bytes are staged outside any transaction, the command is decided under  *)
(* the database's single write lock (BEGIN IMMEDIATE), and the file is     *)
(* renamed to its final path BEFORE the transaction commits.  The rename   *)
(* is not part of the transaction: a crash, or an exception that rolls the *)
(* transaction back, leaves the file.  So an operation is split where the  *)
(* file system and the database can be seen to differ.                     *)
(*                                                                         *)
(* Which commands TransitionGuard accepts is RunExecution's subject; here  *)
(* the guard may reject anything and accepts only the current revision.    *)
(***************************************************************************)
EXTENDS Integers, Sequences

CONSTANTS
    Clients,        \* processes
    Requests,       \* request ids of the run's commands
    HostRequests,   \* the ids host executions use (receipt ids)
    Contents,       \* request digest together with the bytes the request carries
    MaxRevision,    \* bound: revisions
    MaxCrashes      \* bound: crashes of a process

ASSUME ConstantsAssumption ==
    /\ HostRequests \subseteq Requests
    /\ "none" \notin Clients      \* the lock holder when nobody holds it
    /\ MaxRevision \in Nat /\ MaxCrashes \in Nat

VARIABLES
    run,        \* the runs row of the one create request: its digest, rows made
    revision,   \* runs.revision
    log,        \* commands
    events,     \* events: the command of each revision
    rows,       \* artifacts (all COMMITTED)
    links,      \* run_artifacts: bytes an accepted command brought in, by request
    files,      \* final paths in the store
    parts,      \* .stage/*.part files of each process
    lock,       \* the process inside BEGIN IMMEDIATE
    client,     \* the processes
    crashes

database == <<run, revision, log, events, rows, links>>
vars == <<database, files, parts, lock, client, crashes>>

None == "none"
NoRun == [digest |-> None, count |-> 0]
Undecided == [digest |-> None, accepted |-> FALSE, before |-> 0, after |-> 0]
Idle == [pc |-> "idle", req |-> None, digest |-> None, expected |-> 0, clean |-> TRUE, before |-> 0]

Init ==
    /\ run = NoRun
    /\ revision = 0
    /\ log = [r \in Requests |-> Undecided]
    /\ events = <<>>
    /\ rows = {}
    /\ links = [r \in Requests |-> {}]
    /\ files = {}
    /\ parts = [c \in Clients |-> {}]
    /\ lock = None
    /\ client = [c \in Clients |-> Idle]
    /\ crashes = 0

\* Leaving the operation, normally or by an exception; a held lock is released.
Done(c) ==
    /\ client' = [client EXCEPT ![c] = Idle]
    /\ lock' = IF lock = c THEN None ELSE lock

\* Mutant: the staged file is left behind.
KeepPart(c) == parts' = parts

\* ContentAddressedStore.discard.
Discard(c) == parts' = [parts EXCEPT ![c] = @ \ {client[c].digest}]

\* ContentAddressedStore.commit: rename the part, or drop it if the final file exists.
MoveToFinal(c) ==
    /\ files' = files \cup {client[c].digest}
    /\ Discard(c)

-----------------------------------------------------------------------------
(* create                                                                   *)

\* The first find_create_request, outside any transaction: a repeated request ends
\* here, a new one stages its contract.
CreateStage(c, d) ==
    /\ client[c].pc = "idle"
    /\ run = NoRun
    /\ parts' = [parts EXCEPT ![c] = @ \cup {d}]
    /\ client' = [client EXCEPT ![c] = [Idle EXCEPT !.pc = "create staged", !.digest = d]]
    /\ UNCHANGED <<database, files, lock, crashes>>

CreateCommitFile(c) ==
    /\ client[c].pc = "create staged"
    /\ MoveToFinal(c)
    /\ client' = [client EXCEPT ![c].pc = "create moved"]
    /\ UNCHANGED <<database, lock, crashes>>

\* Mutant: only the first look-up is made.
NoRunAtAll == TRUE

\* create_run_atomic looks the request up again.
NoRunYet == run = NoRun

\* create_run_atomic; a run that exists by now is returned, or is a conflict.
CreateRun(c) ==
    /\ client[c].pc = "create moved"
    /\ lock = None
    /\ IF NoRunYet
         THEN /\ run' = [digest |-> client[c].digest, count |-> run.count + 1]
              /\ rows' = rows \cup {client[c].digest}
         ELSE UNCHANGED <<run, rows>>
    /\ Done(c)
    /\ UNCHANGED <<revision, log, events, links, files, parts, crashes>>

-----------------------------------------------------------------------------
(* apply                                                                    *)

\* Mutant: the artifact row is inserted by a transaction of its own before the rename.
RowBeforeFile(c, r, d, e, clean) ==
    /\ client[c].pc = "idle"
    /\ run # NoRun
    /\ parts' = IF clean THEN [parts EXCEPT ![c] = @ \cup {d}] ELSE parts
    /\ rows' = IF clean THEN rows \cup {d} ELSE rows
    /\ client' = [client EXCEPT ![c] = [pc |-> "staged", req |-> r, digest |-> d, expected |-> e,
                                        clean |-> clean, before |-> 0]]
    /\ UNCHANGED <<run, revision, log, events, links, files, lock, crashes>>

\* Ingest inspection and staging.  An input the ingest policy refuses (clean = FALSE)
\* is not staged; the command is then rejected inside the transaction.
ApplyStage(c, r, d, e, clean) ==
    /\ client[c].pc = "idle"
    /\ run # NoRun
    /\ parts' = IF clean THEN [parts EXCEPT ![c] = @ \cup {d}] ELSE parts
    /\ client' = [client EXCEPT ![c] = [pc |-> "staged", req |-> r, digest |-> d, expected |-> e,
                                        clean |-> clean, before |-> 0]]
    /\ UNCHANGED <<database, files, lock, crashes>>

\* Mutant: a rejected request id may be tried again.
KnownAccepted(r) == log[r].accepted

\* find_command: the request id has a decision.
Known(r) == log[r] # Undecided

\* The stored receipt is returned, or StorageConflict for another digest.
ApplyReplay(c) ==
    /\ client[c].pc = "staged"
    /\ lock = None
    /\ Known(client[c].req)
    /\ Discard(c)
    /\ Done(c)
    /\ UNCHANGED <<database, files, crashes>>

\* A refused input, a stale expected_revision, or anything the guard misses.
ApplyReject(c) ==
    /\ client[c].pc = "staged"
    /\ lock = None
    /\ ~Known(client[c].req)
    /\ log' = [log EXCEPT ![client[c].req] =
                 [digest |-> client[c].digest, accepted |-> FALSE,
                  before |-> revision, after |-> revision]]
    /\ Discard(c)
    /\ Done(c)
    /\ UNCHANGED <<run, revision, events, rows, links, files, crashes>>

\* Mutant: a deferred transaction, which takes the lock only when it writes.
LockDeferred(c) == lock' = lock

TakeLock(c) == lock = None /\ lock' = c

\* Mutant: the caller's expected_revision is not compared.
AnyRevision(c) == client[c].clean

\* TransitionGuard.decide can only accept a clean input at the expected revision.
Acceptable(c) == client[c].clean /\ client[c].expected = revision

\* The transaction begins, the guard accepts, the staged bytes become final.
ApplyAccept(c) ==
    /\ client[c].pc = "staged"
    /\ TakeLock(c)
    /\ ~Known(client[c].req)
    /\ Acceptable(c)
    /\ revision < MaxRevision
    /\ MoveToFinal(c)
    /\ client' = [client EXCEPT ![c].pc = "moved", ![c].before = revision]
    /\ UNCHANGED <<database, crashes>>

\* record_command, append_event, projection and advance_revision, then COMMIT.
ApplyCommit(c) ==
    /\ client[c].pc = "moved"
    /\ LET r == client[c].req
           next == client[c].before + 1 IN
         /\ rows' = rows \cup {client[c].digest}
         /\ links' = [links EXCEPT ![r] = {client[c].digest}]
         /\ log' = [log EXCEPT ![r] = [digest |-> client[c].digest, accepted |-> TRUE,
                                       before |-> client[c].before, after |-> next]]
         /\ events' = Append(events, r)
         /\ revision' = next
    /\ Done(c)
    /\ UNCHANGED <<run, files, parts, crashes>>

\* An exception inside the transaction (StorageConflict, ProjectionError): rollback.
\* Nothing undoes the rename.
ApplyAbort(c) ==
    /\ client[c].pc = "moved"
    /\ Done(c)
    /\ UNCHANGED <<database, files, parts, crashes>>

\* Mutant: the revision is advanced by the writer and again by the compare-and-set.
HostRecordTwice(r, d) ==
    /\ run # NoRun
    /\ lock = None
    /\ ~Known(r)
    /\ revision < MaxRevision
    /\ log' = [log EXCEPT ![r] = [digest |-> d, accepted |-> TRUE, before |-> revision,
                                  after |-> revision + 1]]
    /\ events' = Append(events, r)
    /\ revision' = revision + 2
    /\ UNCHANGED <<run, rows, links, files, parts, lock, client, crashes>>

\* record_host_execution_atomic and its kin log their own command at whatever revision
\* the run has.
HostRecord(r, d) ==
    /\ run # NoRun
    /\ lock = None
    /\ ~Known(r)
    /\ revision < MaxRevision
    /\ log' = [log EXCEPT ![r] = [digest |-> d, accepted |-> TRUE, before |-> revision,
                                  after |-> revision + 1]]
    /\ events' = Append(events, r)
    /\ revision' = revision + 1
    /\ UNCHANGED <<run, rows, links, files, parts, lock, client, crashes>>

-----------------------------------------------------------------------------
(* import_artifact                                                          *)

ImportStage(c, d) ==
    /\ client[c].pc = "idle"
    /\ run # NoRun
    /\ parts' = [parts EXCEPT ![c] = @ \cup {d}]
    /\ client' = [client EXCEPT ![c] = [Idle EXCEPT !.pc = "import staged", !.digest = d]]
    /\ UNCHANGED <<database, files, lock, crashes>>

ImportCommitFile(c) ==
    /\ client[c].pc = "import staged"
    /\ MoveToFinal(c)
    /\ client' = [client EXCEPT ![c].pc = "import moved"]
    /\ UNCHANGED <<database, lock, crashes>>

\* The row is linked, or linking raises (the logical name is taken) and nothing is
\* recorded; the revision does not move.
ImportLink(c, ok) ==
    /\ client[c].pc = "import moved"
    /\ lock = None
    /\ rows' = IF ok THEN rows \cup {client[c].digest} ELSE rows
    /\ Done(c)
    /\ UNCHANGED <<run, revision, log, events, links, files, parts, crashes>>

\* The process dies, or an exception that no handler cleans up after leaves the
\* operation: the transaction rolls back, the files stay where they are.
Crash(c) ==
    /\ client[c].pc # "idle"
    /\ crashes < MaxCrashes
    /\ crashes' = crashes + 1
    /\ Done(c)
    /\ UNCHANGED <<database, files, parts>>

-----------------------------------------------------------------------------
\* The steps that end an operation once it has begun.
ClientStep(c) ==
    \/ CreateCommitFile(c) \/ CreateRun(c)
    \/ ApplyReplay(c) \/ ApplyReject(c) \/ ApplyAccept(c) \/ ApplyCommit(c) \/ ApplyAbort(c)
    \/ ImportCommitFile(c)
    \/ \E ok \in BOOLEAN : ImportLink(c, ok)

Next ==
    \/ \E c \in Clients : ClientStep(c) \/ Crash(c)
    \/ \E c \in Clients, d \in Contents : CreateStage(c, d) \/ ImportStage(c, d)
    \/ \E c \in Clients, r \in Requests \ HostRequests, d \in Contents,
          e \in 0 .. MaxRevision, clean \in BOOLEAN : ApplyStage(c, r, d, e, clean)
    \/ \E r \in HostRequests, d \in Contents : HostRecord(r, d)

Spec == Init /\ [][Next]_vars

-----------------------------------------------------------------------------
(* Properties                                                               *)

\* Rows, files and processes stay within their types.
TypeOK ==
    /\ run \in [digest : Contents \cup {None}, count : Nat]
    /\ revision \in 0 .. MaxRevision
    /\ log \in [Requests -> [digest : Contents \cup {None}, accepted : BOOLEAN,
                             before : 0 .. MaxRevision, after : 0 .. MaxRevision]]
    /\ events \in Seq(Requests)
    /\ rows \subseteq Contents
    /\ links \in [Requests -> SUBSET Contents]
    /\ files \subseteq Contents
    /\ parts \in [Clients -> SUBSET Contents]
    /\ lock \in Clients \cup {None}
    /\ client \in [Clients ->
          [pc : {"idle", "create staged", "create moved", "staged", "moved", "import staged",
                 "import moved"},
           req : Requests \cup {None}, digest : Contents \cup {None},
           expected : 0 .. MaxRevision, clean : BOOLEAN, before : 0 .. MaxRevision]]
    /\ crashes \in 0 .. MaxCrashes

\* The database never names bytes the store does not have: whatever crashes or rolls
\* back between the rename and the commit, every artifact row has its final file, and
\* every link of a command has its artifact row.
RowsHaveFiles ==
    /\ TypeOK
    /\ rows \subseteq files
    /\ \A r \in Requests : links[r] \subseteq rows
    /\ run # NoRun => run.digest \in rows

\* The event log is the revision history: one event per revision, in order, each of an
\* accepted command that moved the run from the revision before it.
LogIsHistory ==
    /\ Len(events) = revision
    /\ \A i \in 1 .. Len(events) :
          LET e == log[events[i]] IN e.accepted /\ e.before = i - 1 /\ e.after = i
    /\ \A r \in Requests : log[r].accepted => events[log[r].after] = r
    /\ \A r \in Requests : log[r] # Undecided /\ ~log[r].accepted =>
          log[r].before = log[r].after /\ log[r].after <= revision

\* However many processes repeat a create request, it makes one run.
OneRunPerRequest == run.count <= 1

\* While a command is between its decision and its commit, the run is still at the
\* revision its caller expected and no other decision exists for its request id: what
\* the guard saw is what is committed.
DecidedOnCurrentState ==
    \A c \in Clients : client[c].pc = "moved" =>
        /\ client[c].expected = revision
        /\ log[client[c].req] = Undecided
        /\ client[c].digest \in files

\* Clients see a log that implements CommandLog: one immutable decision per request id,
\* one revision per accepted command.
Log == INSTANCE CommandLog WITH entries <- log, counter <- revision
ImplementsCommandLog == Log!Spec

\* A staged file outlives its operation only after a crash: replays, rejections and
\* commits clean up behind themselves.
PartsAreOwned ==
    crashes = 0 =>
        \A c \in Clients : parts[c] # {} =>
            client[c].pc \in {"create staged", "staged", "import staged"}
            /\ parts[c] = {client[c].digest}

\* An operation that touches files and rows is one step to everybody else, wherever it
\* stops: rows have their files, the log is the history, a repeated creation makes one
\* run, what was decided is what is committed, and only a crash leaves a staged file
\* (kernel.py apply, cas.py).
CommandsAreAtomic ==
    /\ RowsHaveFiles /\ LogIsHistory /\ OneRunPerRequest
    /\ DecidedOnCurrentState /\ PartsAreOwned
=============================================================================
