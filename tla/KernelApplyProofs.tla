------------------------- MODULE KernelApplyProofs -------------------------
(* Proofs about KernelApply, for every set of processes, requests and byte    *)
(* strings and every bound.                                                   *)
EXTENDS KernelApply, TLAPS

\* What a process remembers of the operation it is in.
Remembers(c) ==
    /\ client[c].pc # "idle" => client[c].digest \in Contents
    /\ client[c].pc \in {"staged", "moved"} => client[c].req \in Requests
    /\ client[c].pc \in {"create moved", "import moved"} => client[c].digest \in files

\* A process between its decision and its commit is alone: it holds the lock, the run
\* is where it was decided, and nobody has decided the request.
Deciding(c) ==
    client[c].pc = "moved" =>
        /\ lock = c
        /\ client[c].before = revision /\ client[c].expected = revision
        /\ revision < MaxRevision
        /\ log[client[c].req] = Undecided
        /\ client[c].digest \in files

\* An accepted command made a revision that exists.
AcceptedInHistory == \A r \in Requests : log[r].accepted => log[r].after \in 1 .. revision

StoreInv ==
    /\ rows \subseteq files
    /\ \A r \in Requests : links[r] \subseteq rows
    /\ run # NoRun => run.digest \in rows /\ run.count = 1

IInv ==
    /\ TypeOK
    /\ StoreInv
    /\ LogIsHistory /\ AcceptedInHistory
    /\ \A c \in Clients : Remembers(c) /\ Deciding(c)
    /\ PartsAreOwned

-----------------------------------------------------------------------------
\* The parts of the invariant that speak of the database alone.
LEMMA LogUnchanged ==
    ASSUME IInv, UNCHANGED <<log, events, revision>>
    PROVE  LogIsHistory' /\ AcceptedInHistory'
  BY DEF IInv, LogIsHistory, AcceptedInHistory

\* Nobody else decides while one process holds the lock.
LEMMA OneDecides ==
    ASSUME IInv, NEW c \in Clients, NEW d \in Clients, client[c].pc = "moved",
           client[d].pc = "moved"
    PROVE  c = d
  BY DEF IInv, Deciding

\* While the lock is free nobody is between decision and commit.
LEMMA FreeLock ==
    ASSUME IInv, NEW c \in Clients, lock = None
    PROVE  client[c].pc # "moved"
  BY ConstantsAssumption DEF IInv, Deciding, None

\* Stages bytes or moves them: the database, the lock and the other processes stay.
StageEffect(c, q, ps, fs) ==
    /\ client' = [client EXCEPT ![c] = q]
    /\ parts' = [parts EXCEPT ![c] = ps]
    /\ files' = fs
    /\ UNCHANGED <<database, crashes>>

ClientState ==
    [pc : {"idle", "create staged", "create moved", "staged", "moved", "import staged",
           "import moved"},
     req : Requests \cup {None}, digest : Contents \cup {None},
     expected : 0 .. MaxRevision, clean : BOOLEAN, before : 0 .. MaxRevision]

\* A step of one process that touches files, parts and its own memory only.
LEMMA ProcessMoves ==
    ASSUME IInv, NEW c \in Clients, NEW q \in ClientState, NEW ps \in SUBSET Contents,
           NEW fs \in SUBSET Contents, files \subseteq fs,
           StageEffect(c, q, ps, fs),
           lock' = lock \/ lock' = IF lock = c THEN None ELSE lock,
           q.pc # "moved",
           q.pc # "idle" => q.digest \in Contents,
           q.pc = "staged" => q.req \in Requests,
           q.pc \in {"create moved", "import moved"} => q.digest \in fs,
           crashes = 0 /\ ps # {} => q.pc \in {"create staged", "staged", "import staged"}
                                     /\ ps = {q.digest}
    PROVE  IInv'
<1>1. client'[c] = q /\ \A d \in Clients \ {c} : client'[d] = client[d]
  BY DEF IInv, TypeOK, StageEffect
<1>2. TypeOK'
  BY DEF IInv, TypeOK, StageEffect, database, ClientState
<1>3. StoreInv'
  BY DEF IInv, StoreInv, StageEffect, database
<1>4. LogIsHistory' /\ AcceptedInHistory'
  BY LogUnchanged DEF StageEffect, database
<1>5. ASSUME NEW d \in Clients PROVE Remembers(d)' /\ Deciding(d)'
  <2>1. CASE d = c
    <3>1. client'[d] = q /\ files' = fs
      BY <1>1, <2>1 DEF StageEffect
    <3> QED BY <3>1 DEF Remembers, Deciding
  <2>2. CASE d # c
    <3>1. client'[d] = client[d]
      BY <1>1, <2>2
    <3>2. Remembers(d) /\ Deciding(d)
      BY DEF IInv
    <3> QED BY <3>1, <3>2, <2>2, ConstantsAssumption
            DEF Remembers, Deciding, StageEffect, database, None
  <2> QED BY <2>1, <2>2
<1>6. PartsAreOwned'
  <2> SUFFICES ASSUME crashes' = 0, NEW d \in Clients, parts'[d] # {}
               PROVE  /\ client'[d].pc \in {"create staged", "staged", "import staged"}
                      /\ parts'[d] = {client'[d].digest}
    BY DEF PartsAreOwned
  <2>1. crashes = 0
    BY DEF StageEffect
  <2>2. CASE d = c
    <3>1. parts'[d] = ps
      BY <2>2 DEF IInv, TypeOK, StageEffect
    <3> QED BY <1>1, <2>1, <2>2, <3>1
  <2>3. CASE d # c
    <3>1. parts'[d] = parts[d] /\ client'[d] = client[d]
      BY <1>1, <2>3 DEF IInv, TypeOK, StageEffect
    <3> QED BY <2>1, <3>1 DEF IInv, PartsAreOwned
  <2> QED BY <2>2, <2>3
<1> QED BY <1>2, <1>3, <1>4, <1>5, <1>6 DEF IInv

-----------------------------------------------------------------------------
\* The memory of a process outside any operation, and of one that has staged bytes.
LEMMA Records ==
    /\ Idle \in ClientState /\ Idle.pc = "idle"
    /\ \A p \in {"create staged", "import staged"}, d \in Contents :
         LET q == [Idle EXCEPT !.pc = p, !.digest = d] IN
           q \in ClientState /\ q.pc = p /\ q.digest = d
<1>1. 0 \in 0 .. MaxRevision
  BY ConstantsAssumption
<1>2. Idle \in ClientState /\ Idle.pc = "idle"
  BY <1>1 DEF Idle, ClientState
<1> QED BY <1>2 DEF ClientState

\* The memory of a process is well typed.
LEMMA ClientTyped == ASSUME IInv, NEW c \in Clients PROVE client[c] \in ClientState
  BY DEF IInv, TypeOK, ClientState

\* An idle process owns no part until a crash.
LEMMA IdleOwnsNothing ==
    ASSUME IInv, NEW c \in Clients, client[c].pc \notin {"create staged", "staged", "import staged"},
           crashes = 0
    PROVE  parts[c] = {}
  BY DEF IInv, PartsAreOwned

\* create and import_artifact stage their bytes.
LEMMA StageStep ==
    ASSUME IInv, NEW c \in Clients, NEW d \in Contents, CreateStage(c, d) \/ ImportStage(c, d)
    PROVE  IInv'
<1>1. PICK p \in {"create staged", "import staged"} :
         /\ client' = [client EXCEPT ![c] = [Idle EXCEPT !.pc = p, !.digest = d]]
         /\ client[c].pc = "idle"
         /\ parts' = [parts EXCEPT ![c] = @ \cup {d}]
         /\ UNCHANGED <<database, files, lock, crashes>>
  BY DEF CreateStage, ImportStage
<1> DEFINE q == [Idle EXCEPT !.pc = p, !.digest = d]
<1>2. q \in ClientState /\ q.pc = p /\ q.digest = d
  BY Records
<1>3. parts[c] \cup {d} \in SUBSET Contents /\ files \in SUBSET Contents
  BY DEF IInv, TypeOK
<1>4. StageEffect(c, q, parts[c] \cup {d}, files)
  BY <1>1 DEF StageEffect
<1>5. crashes = 0 => parts[c] \cup {d} = {d}
  BY <1>1, IdleOwnsNothing
<1> HIDE DEF q
<1> QED BY <1>1, <1>2, <1>3, <1>4, <1>5, ProcessMoves

\* The bytes of a process are renamed to their final path.
LEMMA CommitFileStep ==
    ASSUME IInv, NEW c \in Clients, CreateCommitFile(c) \/ ImportCommitFile(c)
    PROVE  IInv'
<1>1. PICK p \in {"create moved", "import moved"} :
         /\ client' = [client EXCEPT ![c].pc = p]
         /\ client[c].pc \in {"create staged", "import staged"}
         /\ files' = files \cup {client[c].digest}
         /\ parts' = [parts EXCEPT ![c] = @ \ {client[c].digest}]
         /\ UNCHANGED <<database, lock, crashes>>
  BY DEF CreateCommitFile, ImportCommitFile, MoveToFinal, Discard
<1> DEFINE q == [client[c] EXCEPT !.pc = p]
           ps == parts[c] \ {client[c].digest}
           fs == files \cup {client[c].digest}
<1>2. client[c] \in ClientState /\ client[c].digest \in Contents
  BY <1>1, ClientTyped DEF IInv, Remembers
<1>3. q \in ClientState /\ q.pc = p /\ q.digest = client[c].digest
  BY <1>2 DEF ClientState
<1>4. /\ ps \in SUBSET Contents /\ fs \in SUBSET Contents /\ files \subseteq fs
      /\ client[c].digest \in fs
  BY <1>2 DEF IInv, TypeOK
<1>5. StageEffect(c, q, ps, fs)
  BY <1>1 DEF StageEffect
<1>6. crashes = 0 => ps = {}
  BY DEF IInv, PartsAreOwned
<1> HIDE DEF q, ps, fs
<1> QED BY <1>1, <1>2, <1>3, <1>4, <1>5, <1>6, ProcessMoves

\* Ingest inspection: refused bytes are not staged.
LEMMA ApplyStageStep ==
    ASSUME IInv, NEW c \in Clients, NEW r \in Requests, NEW d \in Contents,
           NEW e \in 0 .. MaxRevision, NEW clean \in BOOLEAN, ApplyStage(c, r, d, e, clean)
    PROVE  IInv'
<1> DEFINE q == [pc |-> "staged", req |-> r, digest |-> d, expected |-> e,
                 clean |-> clean, before |-> 0]
           ps == IF clean THEN parts[c] \cup {d} ELSE parts[c]
<1>1. q \in ClientState /\ q.pc = "staged" /\ q.digest = d /\ q.req = r
  BY ConstantsAssumption DEF ClientState
<1>2. ps \in SUBSET Contents /\ files \in SUBSET Contents
  BY DEF IInv, TypeOK
<1>3. parts' = [parts EXCEPT ![c] = ps]
  BY DEF ApplyStage, IInv, TypeOK
<1>4. StageEffect(c, q, ps, files) /\ lock' = lock
  BY <1>3 DEF StageEffect, ApplyStage
<1>5. crashes = 0 => ps = {} \/ ps = {d}
  BY IdleOwnsNothing DEF ApplyStage
<1> HIDE DEF q, ps
<1> QED BY <1>1, <1>2, <1>4, <1>5, ProcessMoves

\* A process leaves an operation that did not change the database; its part goes, or a
\* crash leaves it.
LEMMA LeaveStep ==
    ASSUME IInv, NEW c \in Clients, ApplyReplay(c) \/ ApplyAbort(c)
    PROVE  IInv'
<1>1. PICK ps \in {parts[c], parts[c] \ {client[c].digest}} :
         StageEffect(c, Idle, ps, files) /\ (crashes = 0 => ps = {})
  <2>1. CASE ApplyReplay(c)
    <3>1. crashes = 0 => parts[c] \ {client[c].digest} = {}
      BY DEF IInv, PartsAreOwned
    <3> QED BY <2>1, <3>1 DEF ApplyReplay, Discard, Done, StageEffect
  <2>2. CASE ApplyAbort(c)
    <3>1. parts' = [parts EXCEPT ![c] = parts[c]]
      BY <2>2 DEF ApplyAbort, IInv, TypeOK
    <3>2. crashes = 0 => parts[c] = {}
      BY <2>2, IdleOwnsNothing DEF ApplyAbort
    <3> QED BY <2>2, <3>1, <3>2 DEF ApplyAbort, Done, StageEffect
  <2> QED BY <2>1, <2>2
<1>2. lock' = IF lock = c THEN None ELSE lock
  BY DEF ApplyReplay, ApplyAbort, Done
<1>3. ps \in SUBSET Contents /\ files \in SUBSET Contents
  BY DEF IInv, TypeOK
<1> QED BY <1>1, <1>2, <1>3, Records, ProcessMoves

\* A crash leaves parts and files where they are.
LEMMA CrashStep ==
    ASSUME IInv, NEW c \in Clients, Crash(c)
    PROVE  IInv'
<1>1. client' = [client EXCEPT ![c] = Idle] /\ lock' = IF lock = c THEN None ELSE lock
  BY DEF Crash, Done
<1>2. UNCHANGED <<run, revision, log, events, rows, links, files, parts>>
  BY DEF Crash, database
<1>3. crashes' = crashes + 1 /\ crashes < MaxCrashes
  BY DEF Crash
<1>4. crashes \in 0 .. MaxCrashes
  BY DEF IInv, TypeOK
<1>5. crashes' \in 0 .. MaxCrashes /\ crashes' # 0
  BY <1>3, <1>4, ConstantsAssumption
<1>6. client'[c] = Idle /\ \A d \in Clients \ {c} : client'[d] = client[d]
  BY <1>1 DEF IInv, TypeOK
<1>7. TypeOK'
  <2>1. client' \in [Clients -> ClientState] /\ lock' \in Clients \cup {None}
    BY <1>1, Records DEF IInv, TypeOK, ClientState
  <2> QED BY <1>2, <1>5, <2>1 DEF IInv, TypeOK, ClientState
<1>8. StoreInv' /\ LogIsHistory' /\ AcceptedInHistory'
  BY <1>2, LogUnchanged DEF IInv, StoreInv
<1>9. ASSUME NEW d \in Clients PROVE Remembers(d)' /\ Deciding(d)'
  <2>1. CASE d = c
    BY <1>6, <2>1, Records DEF Remembers, Deciding
  <2>2. CASE d # c
    <3>1. client'[d] = client[d] /\ Remembers(d) /\ Deciding(d)
      BY <1>6, <2>2 DEF IInv
    <3>2. lock = d => lock' = d
      BY <1>1, <2>2
    <3> QED BY <1>2, <3>1, <3>2 DEF Remembers, Deciding
  <2> QED BY <2>1, <2>2
<1>10. PartsAreOwned'
  BY <1>5 DEF PartsAreOwned
<1> QED BY <1>7, <1>8, <1>9, <1>10 DEF IInv

-----------------------------------------------------------------------------
(* Steps that write to the database                                         *)

\* A process that writes rows from outside the lock and leaves: create_run_atomic and
\* the link of an imported artifact.
LEMMA RowsWritten ==
    ASSUME IInv, NEW c \in Clients, client[c].pc \in {"create moved", "import moved"},
           Done(c), UNCHANGED <<revision, log, events, links, files, parts, crashes>>,
           rows \subseteq rows', rows' \subseteq rows \cup {client[c].digest},
           run' \in [digest : Contents \cup {None}, count : Nat],
           run' # NoRun => run'.digest \in rows' /\ run'.count = 1
    PROVE  IInv'
<1>1. client' = [client EXCEPT ![c] = Idle] /\ lock' = IF lock = c THEN None ELSE lock
  BY DEF Done
<1>2. client[c].digest \in files /\ client[c].digest \in Contents
  BY DEF IInv, Remembers
<1>3. client'[c] = Idle /\ \A d \in Clients \ {c} : client'[d] = client[d]
  BY <1>1 DEF IInv, TypeOK
<1>4. TypeOK'
  <2>1. client' \in [Clients -> ClientState] /\ lock' \in Clients \cup {None}
    BY <1>1, Records DEF IInv, TypeOK, ClientState
  <2>2. rows' \subseteq Contents
    BY <1>2 DEF IInv, TypeOK
  <2> QED BY <2>1, <2>2 DEF IInv, TypeOK, ClientState
<1>5. StoreInv'
  BY <1>2 DEF IInv, StoreInv
<1>6. LogIsHistory' /\ AcceptedInHistory'
  BY LogUnchanged
<1>7. ASSUME NEW d \in Clients PROVE Remembers(d)' /\ Deciding(d)'
  <2>1. CASE d = c
    BY <1>3, <2>1, Records DEF Remembers, Deciding
  <2>2. CASE d # c
    <3>1. client'[d] = client[d] /\ Remembers(d) /\ Deciding(d)
      BY <1>3, <2>2 DEF IInv
    <3>2. lock = d => lock' = d
      BY <1>1, <2>2
    <3> QED BY <3>1, <3>2 DEF Remembers, Deciding
  <2> QED BY <2>1, <2>2
<1>8. PartsAreOwned'
  <2> SUFFICES ASSUME crashes = 0, NEW d \in Clients, parts[d] # {}
               PROVE  /\ client'[d].pc \in {"create staged", "staged", "import staged"}
                      /\ parts[d] = {client'[d].digest}
    BY DEF PartsAreOwned
  <2>1. d # c
    BY IdleOwnsNothing
  <2> QED BY <1>3, <2>1 DEF IInv, PartsAreOwned
<1> QED BY <1>4, <1>5, <1>6, <1>7, <1>8 DEF IInv

\* create_run_atomic: a second creation finds the run.
LEMMA CreateRunStep ==
    ASSUME IInv, NEW c \in Clients, CreateRun(c)
    PROVE  IInv'
<1>1. /\ client[c].pc = "create moved" /\ Done(c)
      /\ UNCHANGED <<revision, log, events, links, files, parts, crashes>>
  BY DEF CreateRun
<1>2. CASE run = NoRun
  <2>1. run' = [digest |-> client[c].digest, count |-> run.count + 1]
        /\ rows' = rows \cup {client[c].digest}
    BY <1>2 DEF CreateRun, NoRunYet
  <2>2. run.count + 1 = 1
    BY <1>2 DEF NoRun
  <2>3. client[c].digest \in Contents
    BY <1>1 DEF IInv, Remembers
  <2>4. /\ run' \in [digest : Contents \cup {None}, count : Nat]
        /\ run'.digest \in rows' /\ run'.count = 1
    BY <2>1, <2>2, <2>3
  <2> QED BY <1>1, <2>1, <2>4, RowsWritten
<1>3. CASE run # NoRun
  <2>1. run' = run /\ rows' = rows
    BY <1>3 DEF CreateRun, NoRunYet
  <2> QED BY <1>1, <2>1, RowsWritten DEF IInv, TypeOK, StoreInv
<1> QED BY <1>2, <1>3

\* import_artifact links its row or rolls back.
LEMMA ImportLinkStep ==
    ASSUME IInv, NEW c \in Clients, NEW ok \in BOOLEAN, ImportLink(c, ok)
    PROVE  IInv'
<1>1. /\ client[c].pc = "import moved" /\ Done(c) /\ run' = run
      /\ UNCHANGED <<revision, log, events, links, files, parts, crashes>>
      /\ rows' = rows \cup {client[c].digest} \/ rows' = rows
  BY DEF ImportLink
<1> QED BY <1>1, RowsWritten DEF IInv, TypeOK, StoreInv

\* A command of the log: the digest, the verdict and the revisions around it.
LogEntry == [digest : Contents \cup {None}, accepted : BOOLEAN,
             before : 0 .. MaxRevision, after : 0 .. MaxRevision]

\* A rejection is logged at the current revision and is not part of the history.
LEMMA RejectedInLog ==
    ASSUME IInv, NEW r \in Requests, log[r] = Undecided, NEW d \in Contents,
           log' = [log EXCEPT ![r] = [digest |-> d, accepted |-> FALSE,
                                      before |-> revision, after |-> revision]],
           UNCHANGED <<revision, events>>
    PROVE  LogIsHistory' /\ AcceptedInHistory' /\ log' \in [Requests -> LogEntry]
<1> DEFINE e == [digest |-> d, accepted |-> FALSE, before |-> revision, after |-> revision]
<1>1. revision \in 0 .. MaxRevision /\ log \in [Requests -> LogEntry] /\ events \in Seq(Requests)
  BY DEF IInv, TypeOK, LogEntry
<1>2. e \in LogEntry /\ ~e.accepted /\ e.before = e.after /\ e.after = revision
  BY <1>1 DEF LogEntry
<1>3. ~log[r].accepted
  BY DEF Undecided
<1>4. log' = [log EXCEPT ![r] = e]
  OBVIOUS
<1> HIDE DEF e
<1>5. log'[r] = e /\ \A q \in Requests \ {r} : log'[q] = log[q]
  BY <1>1, <1>4
<1>6. \A i \in 1 .. Len(events) : events[i] \in Requests /\ events[i] # r
  <2> TAKE i \in 1 .. Len(events)
  <2>1. events[i] \in Requests
    BY <1>1
  <2>2. log[events[i]].accepted
    BY DEF IInv, LogIsHistory
  <2> QED BY <1>3, <2>1, <2>2
<1>7. \A i \in 1 .. Len(events') :
         LET f == log'[events'[i]] IN f.accepted /\ f.before = i - 1 /\ f.after = i
  BY <1>5, <1>6 DEF IInv, LogIsHistory
<1>8. \A q \in Requests : log'[q].accepted => events'[log'[q].after] = q
  BY <1>2, <1>5 DEF IInv, LogIsHistory
<1>9. \A q \in Requests : log'[q] # Undecided /\ ~log'[q].accepted =>
         log'[q].before = log'[q].after /\ log'[q].after <= revision'
  BY <1>1, <1>2, <1>5 DEF IInv, LogIsHistory
<1>10. LogIsHistory'
  BY <1>7, <1>8, <1>9 DEF IInv, LogIsHistory
<1>11. AcceptedInHistory'
  BY <1>2, <1>5 DEF IInv, AcceptedInHistory
<1>12. log' \in [Requests -> LogEntry]
  BY <1>1, <1>2, <1>4
<1> QED BY <1>10, <1>11, <1>12

\* An acceptance is the next event of the history.
LEMMA AcceptedInLog ==
    ASSUME IInv, NEW r \in Requests, log[r] = Undecided, NEW d \in Contents,
           revision < MaxRevision,
           log' = [log EXCEPT ![r] = [digest |-> d, accepted |-> TRUE,
                                      before |-> revision, after |-> revision + 1]],
           events' = Append(events, r), revision' = revision + 1
    PROVE  /\ LogIsHistory' /\ AcceptedInHistory'
           /\ log' \in [Requests -> LogEntry]
           /\ events' \in Seq(Requests)
           /\ revision' \in 0 .. MaxRevision
<1> DEFINE e == [digest |-> d, accepted |-> TRUE, before |-> revision, after |-> revision + 1]
<1>0. /\ revision \in 0 .. MaxRevision
      /\ log \in [Requests -> LogEntry] /\ events \in Seq(Requests)
  BY DEF IInv, TypeOK, LogEntry
<1>1. /\ revision \in 0 .. MaxRevision /\ revision \in Nat
      /\ log \in [Requests -> LogEntry] /\ events \in Seq(Requests)
  BY <1>0, ConstantsAssumption
<1>2. revision + 1 \in 0 .. MaxRevision
  BY <1>1, ConstantsAssumption
<1>3. e \in LogEntry /\ e.accepted /\ e.before = revision /\ e.after = revision + 1
  BY <1>1, <1>2 DEF LogEntry
<1>4. ~log[r].accepted
  BY DEF Undecided
<1>5. log' = [log EXCEPT ![r] = e]
  OBVIOUS
<1> HIDE DEF e
<1>6. log'[r] = e /\ \A q \in Requests \ {r} : log'[q] = log[q]
  BY <1>1, <1>5
<1>7. \A i \in 1 .. Len(events) : events[i] \in Requests /\ events[i] # r
  <2> TAKE i \in 1 .. Len(events)
  <2>1. events[i] \in Requests
    BY <1>1
  <2>2. log[events[i]].accepted
    BY DEF IInv, LogIsHistory
  <2> QED BY <1>4, <2>1, <2>2
<1>8. Len(events) = revision
  BY DEF IInv, LogIsHistory
<1>9. /\ events' \in Seq(Requests) /\ Len(events') = revision + 1
      /\ \A i \in 1 .. revision : events'[i] = events[i]
      /\ events'[revision + 1] = r
  BY <1>1, <1>8
<1>10. ASSUME NEW i \in 1 .. Len(events')
       PROVE  /\ log'[events'[i]].accepted
              /\ log'[events'[i]].before = i - 1
              /\ log'[events'[i]].after = i
  <2>1. CASE i = revision + 1
    <3>1. log'[events'[i]] = e
      BY <1>6, <1>9, <2>1
    <3> QED BY <1>1, <1>3, <2>1, <3>1
  <2>2. CASE i # revision + 1
    <3>1. i \in 1 .. Len(events)
      BY <1>1, <1>8, <1>9, <1>10, <2>2
    <3>2. events'[i] = events[i] /\ events[i] \in Requests \ {r}
      BY <1>7, <1>8, <1>9, <3>1
    <3>3. log'[events'[i]] = log[events[i]]
      BY <1>6, <3>2
    <3> QED BY <3>1, <3>3 DEF IInv, LogIsHistory
  <2> QED BY <2>1, <2>2
<1>11. ASSUME NEW q \in Requests, log'[q].accepted
       PROVE  events'[log'[q].after] = q /\ log'[q].after \in 1 .. revision'
  <2>1. CASE q = r
    BY <1>1, <1>3, <1>6, <1>9, <2>1
  <2>2. CASE q # r
    <3>1. log'[q] = log[q] /\ log[q].accepted
      BY <1>6, <1>11, <2>2
    <3>2. log[q].after \in 1 .. revision /\ events[log[q].after] = q
      BY <3>1 DEF IInv, LogIsHistory, AcceptedInHistory
    <3> QED BY <1>1, <1>9, <3>1, <3>2
  <2> QED BY <2>1, <2>2
<1>12. ASSUME NEW q \in Requests, log'[q] # Undecided, ~log'[q].accepted
       PROVE  log'[q].before = log'[q].after /\ log'[q].after <= revision'
  <2>1. q # r
    BY <1>3, <1>6, <1>12
  <2>2. log'[q] = log[q] /\ log[q] \in LogEntry
    BY <1>1, <1>6, <2>1
  <2>3. log[q].before = log[q].after /\ log[q].after <= revision
    BY <1>12, <2>2 DEF IInv, LogIsHistory
  <2>4. log[q].after \in Nat
    BY <2>2, ConstantsAssumption DEF LogEntry
  <2> QED BY <1>1, <2>2, <2>3, <2>4
<1>13. LogIsHistory'
  BY <1>9, <1>10, <1>11, <1>12 DEF LogIsHistory
<1>14. AcceptedInHistory'
  BY <1>11 DEF AcceptedInHistory
<1>15. log' \in [Requests -> LogEntry]
  BY <1>1, <1>3, <1>5
<1> QED BY <1>2, <1>9, <1>13, <1>14, <1>15

\* A rejection is logged and its bytes are dropped.
LEMMA ApplyRejectStep ==
    ASSUME IInv, NEW c \in Clients, ApplyReject(c)
    PROVE  IInv'
<1>1. client' = [client EXCEPT ![c] = Idle] /\ lock' = IF lock = c THEN None ELSE lock
  BY DEF ApplyReject, Done
<1>2. /\ client[c].pc = "staged" /\ lock = None /\ log[client[c].req] = Undecided
      /\ UNCHANGED <<run, revision, events, rows, links, files, crashes>>
  BY DEF ApplyReject, Known
<1>3. parts' = [parts EXCEPT ![c] = @ \ {client[c].digest}]
  BY DEF ApplyReject, Discard
<1>4. client[c].req \in Requests /\ client[c].digest \in Contents
  BY <1>2 DEF IInv, Remembers
<1>5. LogIsHistory' /\ AcceptedInHistory' /\ log' \in [Requests -> LogEntry]
  BY <1>2, <1>4, RejectedInLog DEF ApplyReject
<1>6. client'[c] = Idle /\ \A d \in Clients \ {c} : client'[d] = client[d]
  BY <1>1 DEF IInv, TypeOK
<1>7. TypeOK'
  <2>1. client' \in [Clients -> ClientState] /\ lock' \in Clients \cup {None}
    BY <1>1, Records DEF IInv, TypeOK, ClientState
  <2>2. parts' \in [Clients -> SUBSET Contents]
    BY <1>3 DEF IInv, TypeOK
  <2> QED BY <1>2, <1>5, <2>1, <2>2 DEF IInv, TypeOK, ClientState, LogEntry
<1>8. StoreInv'
  BY <1>2 DEF IInv, StoreInv
<1>9. ASSUME NEW d \in Clients PROVE Remembers(d)' /\ Deciding(d)'
  <2>1. CASE d = c
    BY <1>6, <2>1, Records DEF Remembers, Deciding
  <2>2. CASE d # c
    <3>1. client'[d] = client[d] /\ Remembers(d) /\ client[d].pc # "moved"
      BY <1>2, <1>6, <2>2, FreeLock DEF IInv
    <3> QED BY <1>2, <3>1 DEF Remembers, Deciding
  <2> QED BY <2>1, <2>2
<1>10. PartsAreOwned'
  <2> SUFFICES ASSUME crashes = 0, NEW d \in Clients, parts'[d] # {}
               PROVE  /\ client'[d].pc \in {"create staged", "staged", "import staged"}
                      /\ parts'[d] = {client'[d].digest}
    BY <1>2 DEF PartsAreOwned
  <2>1. parts[c] \ {client[c].digest} = {}
    BY DEF IInv, PartsAreOwned
  <2>2. d # c
    BY <1>3, <2>1 DEF IInv, TypeOK
  <2>3. parts'[d] = parts[d] /\ client'[d] = client[d]
    BY <1>3, <1>6, <2>2 DEF IInv, TypeOK
  <2> QED BY <2>3 DEF IInv, PartsAreOwned
<1> QED BY <1>5, <1>7, <1>8, <1>9, <1>10 DEF IInv

\* The decision: the process takes the free lock at the revision it expects.
LEMMA ApplyAcceptStep ==
    ASSUME IInv, NEW c \in Clients, ApplyAccept(c)
    PROVE  IInv'
<1>1. /\ client[c].pc = "staged" /\ lock = None /\ lock' = c
      /\ log[client[c].req] = Undecided /\ client[c].expected = revision
      /\ revision < MaxRevision
  BY DEF ApplyAccept, TakeLock, Known, Acceptable
<1>2. client' = [client EXCEPT ![c].pc = "moved", ![c].before = revision]
  BY DEF ApplyAccept
<1>3. UNCHANGED <<run, revision, log, events, rows, links, crashes>>
  BY DEF ApplyAccept, database
<1>4. /\ files' = files \cup {client[c].digest}
      /\ parts' = [parts EXCEPT ![c] = @ \ {client[c].digest}]
  BY DEF ApplyAccept, MoveToFinal, Discard
<1>5. client[c].req \in Requests /\ client[c].digest \in Contents
  BY <1>1 DEF IInv, Remembers
<1>6. client[c] \in ClientState /\ revision \in 0 .. MaxRevision
  BY ClientTyped DEF IInv, TypeOK
<1> DEFINE q == [client[c] EXCEPT !.pc = "moved", !.before = revision]
<1>7. /\ q \in ClientState /\ q.pc = "moved" /\ q.before = revision
      /\ q.expected = client[c].expected /\ q.req = client[c].req /\ q.digest = client[c].digest
  BY <1>6 DEF ClientState
<1>8. client' = [client EXCEPT ![c] = q]
  BY <1>2, <1>6 DEF ClientState
<1> HIDE DEF q
<1>9. client'[c] = q /\ \A d \in Clients \ {c} : client'[d] = client[d]
  BY <1>8 DEF IInv, TypeOK
<1>10. TypeOK'
  <2>1. client' \in [Clients -> ClientState]
    BY <1>7, <1>8 DEF IInv, TypeOK, ClientState
  <2>2. files' \subseteq Contents /\ parts' \in [Clients -> SUBSET Contents]
    BY <1>4, <1>5 DEF IInv, TypeOK
  <2>3. lock' \in Clients \cup {None}
    BY <1>1
  <2> QED BY <1>3, <2>1, <2>2, <2>3 DEF IInv, TypeOK, ClientState
<1>11. StoreInv' /\ LogIsHistory' /\ AcceptedInHistory'
  BY <1>3, <1>4, LogUnchanged DEF IInv, StoreInv
<1>12. ASSUME NEW d \in Clients PROVE Remembers(d)' /\ Deciding(d)'
  <2>1. CASE d = c
    <3>1. client'[d] = q
      BY <1>9, <2>1
    <3>2. Remembers(d)'
      BY <1>5, <1>7, <3>1 DEF Remembers
    <3>3. Deciding(d)'
      BY <1>1, <1>3, <1>4, <1>7, <2>1, <3>1 DEF Deciding
    <3> QED BY <3>2, <3>3
  <2>2. CASE d # c
    <3>1. client'[d] = client[d] /\ Remembers(d) /\ client[d].pc # "moved"
      BY <1>1, <1>9, <2>2, FreeLock DEF IInv
    <3> QED BY <1>4, <3>1 DEF Remembers, Deciding
  <2> QED BY <2>1, <2>2
<1>13. PartsAreOwned'
  <2> SUFFICES ASSUME crashes = 0, NEW d \in Clients, parts'[d] # {}
               PROVE  /\ client'[d].pc \in {"create staged", "staged", "import staged"}
                      /\ parts'[d] = {client'[d].digest}
    BY <1>3 DEF PartsAreOwned
  <2>1. parts[c] \ {client[c].digest} = {}
    BY DEF IInv, PartsAreOwned
  <2>2. d # c
    BY <1>4, <2>1 DEF IInv, TypeOK
  <2>3. parts'[d] = parts[d] /\ client'[d] = client[d]
    BY <1>4, <1>9, <2>2 DEF IInv, TypeOK
  <2> QED BY <2>3 DEF IInv, PartsAreOwned
<1> QED BY <1>10, <1>11, <1>12, <1>13 DEF IInv

\* The commit of a decided command.
LEMMA ApplyCommitStep ==
    ASSUME IInv, NEW c \in Clients, ApplyCommit(c)
    PROVE  IInv'
<1>1. client' = [client EXCEPT ![c] = Idle] /\ lock' = IF lock = c THEN None ELSE lock
  BY DEF ApplyCommit, Done
<1>2. /\ client[c].pc = "moved" /\ client[c].before = revision /\ revision < MaxRevision
      /\ log[client[c].req] = Undecided /\ client[c].digest \in files
  BY DEF ApplyCommit, IInv, Deciding
<1>3. client[c].req \in Requests /\ client[c].digest \in Contents
  BY <1>2 DEF IInv, Remembers
<1>4. /\ rows' = rows \cup {client[c].digest}
      /\ links' = [links EXCEPT ![client[c].req] = {client[c].digest}]
      /\ UNCHANGED <<run, files, parts, crashes>>
  BY DEF ApplyCommit
<1>5. /\ LogIsHistory' /\ AcceptedInHistory' /\ log' \in [Requests -> LogEntry]
      /\ events' \in Seq(Requests) /\ revision' \in 0 .. MaxRevision
  BY <1>2, <1>3, AcceptedInLog DEF ApplyCommit
<1>6. client'[c] = Idle /\ \A d \in Clients \ {c} : client'[d] = client[d]
  BY <1>1 DEF IInv, TypeOK
<1>7. TypeOK'
  <2>1. client' \in [Clients -> ClientState] /\ lock' \in Clients \cup {None}
    BY <1>1, Records DEF IInv, TypeOK, ClientState
  <2>2. rows' \subseteq Contents /\ links' \in [Requests -> SUBSET Contents]
    BY <1>3, <1>4 DEF IInv, TypeOK
  <2> QED BY <1>4, <1>5, <2>1, <2>2 DEF IInv, TypeOK, ClientState, LogEntry
<1>8. StoreInv'
  BY <1>2, <1>3, <1>4 DEF IInv, StoreInv, TypeOK
<1>9. ASSUME NEW d \in Clients PROVE Remembers(d)' /\ Deciding(d)'
  <2>1. CASE d = c
    BY <1>6, <2>1, Records DEF Remembers, Deciding
  <2>2. CASE d # c
    <3>1. client'[d] = client[d] /\ Remembers(d) /\ client[d].pc # "moved"
      BY <1>2, <1>6, <2>2, OneDecides DEF IInv
    <3> QED BY <1>4, <3>1 DEF Remembers, Deciding
  <2> QED BY <2>1, <2>2
<1>10. PartsAreOwned'
  <2> SUFFICES ASSUME crashes = 0, NEW d \in Clients, parts[d] # {}
               PROVE  /\ client'[d].pc \in {"create staged", "staged", "import staged"}
                      /\ parts[d] = {client'[d].digest}
    BY <1>4 DEF PartsAreOwned
  <2>1. d # c
    BY <1>2, IdleOwnsNothing
  <2> QED BY <1>6, <2>1 DEF IInv, PartsAreOwned
<1> QED BY <1>5, <1>7, <1>8, <1>9, <1>10 DEF IInv

\* A host execution logs its command outside any process's decision.
LEMMA HostRecordStep ==
    ASSUME IInv, NEW r \in Requests, NEW d \in Contents, HostRecord(r, d)
    PROVE  IInv'
<1>1. /\ lock = None /\ log[r] = Undecided /\ revision < MaxRevision
      /\ UNCHANGED <<run, rows, links, files, parts, lock, client, crashes>>
  BY DEF HostRecord, Known
<1>2. /\ LogIsHistory' /\ AcceptedInHistory' /\ log' \in [Requests -> LogEntry]
      /\ events' \in Seq(Requests) /\ revision' \in 0 .. MaxRevision
  BY <1>1, AcceptedInLog DEF HostRecord
<1>3. TypeOK' /\ StoreInv' /\ PartsAreOwned'
  BY <1>1, <1>2 DEF IInv, TypeOK, LogEntry, StoreInv, PartsAreOwned
<1>4. ASSUME NEW c \in Clients PROVE Remembers(c)' /\ Deciding(c)'
  BY <1>1, FreeLock DEF IInv, Remembers, Deciding
<1> QED BY <1>2, <1>3, <1>4 DEF IInv

-----------------------------------------------------------------------------
\* An empty database is consistent.
LEMMA InitHolds == Init => IInv
<1> SUFFICES ASSUME Init PROVE IInv
  OBVIOUS
<1>1. 0 \in 0 .. MaxRevision /\ 0 \in 0 .. MaxCrashes
  BY ConstantsAssumption
<1>2. Undecided \in LogEntry /\ ~Undecided.accepted
  BY <1>1 DEF Undecided, LogEntry
<1>3. NoRun \in [digest : Contents \cup {None}, count : Nat]
  BY DEF NoRun
<1>4. TypeOK
  <2>1. client \in [Clients -> ClientState] /\ log \in [Requests -> LogEntry]
    BY <1>2, Records DEF Init
  <2>2. /\ run \in [digest : Contents \cup {None}, count : Nat] /\ events \in Seq(Requests)
        /\ revision \in 0 .. MaxRevision /\ crashes \in 0 .. MaxCrashes
    BY <1>1, <1>3 DEF Init
  <2>3. /\ rows \subseteq Contents /\ files \subseteq Contents
        /\ links \in [Requests -> SUBSET Contents] /\ parts \in [Clients -> SUBSET Contents]
        /\ lock \in Clients \cup {None}
    BY DEF Init
  <2> QED BY <2>1, <2>2, <2>3 DEF TypeOK, LogEntry, ClientState
<1>5. LogIsHistory /\ AcceptedInHistory
  BY <1>2 DEF Init, LogIsHistory, AcceptedInHistory
<1>6. StoreInv /\ PartsAreOwned
  BY DEF Init, StoreInv, PartsAreOwned
<1>7. \A c \in Clients : Remembers(c) /\ Deciding(c)
  BY Records DEF Init, Remembers, Deciding
<1> QED BY <1>4, <1>5, <1>6, <1>7 DEF IInv

\* Every step keeps the invariant.
LEMMA NextKeeps == IInv /\ [Next]_vars => IInv'
<1> SUFFICES ASSUME IInv, [Next]_vars PROVE IInv'
  OBVIOUS
<1>1. ASSUME NEW c \in Clients, ClientStep(c) \/ Crash(c) PROVE IInv'
  BY <1>1, CommitFileStep, CreateRunStep, LeaveStep, ApplyRejectStep, ApplyAcceptStep,
     ApplyCommitStep, ImportLinkStep, CrashStep DEF ClientStep
<1>2. ASSUME NEW c \in Clients, NEW d \in Contents, CreateStage(c, d) \/ ImportStage(c, d)
      PROVE  IInv'
  BY <1>2, StageStep
<1>3. ASSUME NEW c \in Clients, NEW r \in Requests \ HostRequests, NEW d \in Contents,
             NEW e \in 0 .. MaxRevision, NEW clean \in BOOLEAN, ApplyStage(c, r, d, e, clean)
      PROVE  IInv'
  BY <1>3, ApplyStageStep
<1>4. ASSUME NEW r \in HostRequests, NEW d \in Contents, HostRecord(r, d) PROVE IInv'
  BY <1>4, HostRecordStep, ConstantsAssumption
<1>5. CASE UNCHANGED vars
  BY <1>5 DEF vars, database, IInv, TypeOK, StoreInv, LogIsHistory, AcceptedInHistory,
              Remembers, Deciding, PartsAreOwned
<1> QED BY <1>1, <1>2, <1>3, <1>4, <1>5 DEF Next

\* The inductive invariant holds in every reachable state.
LEMMA Invariant == Spec => []IInv
  BY InitHolds, NextKeeps, PTL DEF Spec

\* The rows of the kernel are well typed, whatever its processes do.
THEOREM TypeCorrect == Spec => []TypeOK
<1>1. IInv => TypeOK
  BY DEF IInv
<1> QED BY <1>1, Invariant, PTL

\* Wherever create, apply and import_artifact stop, in any number of processes: rows have
\* files, the log is the history, a repeated creation makes one run, what the guard saw
\* is what is committed, and only a crash leaves a staged file.
THEOREM CommandsAlwaysAtomic == Spec => []CommandsAreAtomic
<1>1. IInv => CommandsAreAtomic
  <2> SUFFICES ASSUME IInv PROVE CommandsAreAtomic
    OBVIOUS
  <2>1. RowsHaveFiles
    BY DEF IInv, StoreInv, RowsHaveFiles
  <2>2. OneRunPerRequest
    BY DEF IInv, StoreInv, NoRun, OneRunPerRequest
  <2>3. DecidedOnCurrentState
    BY DEF IInv, Deciding, DecidedOnCurrentState
  <2> QED BY <2>1, <2>2, <2>3 DEF IInv, CommandsAreAtomic
<1> QED BY <1>1, Invariant, PTL

-----------------------------------------------------------------------------
\* The kernel's log implements CommandLog: every step decides one request, as an
\* acceptance with a revision or as a rejection, or leaves log and revision alone.
THEOREM LogImplementsCommandLog == Spec => ImplementsCommandLog
<1>1. Init => Log!Init
  BY DEF Init, Log!Init
<1>2. IInv /\ [Next]_vars => [Log!Next]_(Log!logVars)
  <2> SUFFICES ASSUME IInv, [Next]_vars
               PROVE  \/ UNCHANGED <<log, revision>>
                      \/ \E r \in Requests, d \in Contents : Log!Accept(r, d) \/ Log!Reject(r, d)
    BY DEF Log!Next, Log!logVars
  <2>1. ASSUME NEW c \in Clients, ApplyReject(c)
        PROVE  \E r \in Requests, d \in Contents : Log!Accept(r, d) \/ Log!Reject(r, d)
    <3>1. client[c].req \in Requests /\ client[c].digest \in Contents
      BY <2>1 DEF ApplyReject, IInv, Remembers
    <3>2. Log!Reject(client[c].req, client[c].digest)
      BY <2>1 DEF ApplyReject, Known, Log!Reject
    <3> QED BY <3>1, <3>2
  <2>2. ASSUME NEW c \in Clients, ApplyCommit(c)
        PROVE  \E r \in Requests, d \in Contents : Log!Accept(r, d) \/ Log!Reject(r, d)
    <3>1. /\ client[c].req \in Requests /\ client[c].digest \in Contents
          /\ client[c].before = revision /\ log[client[c].req] = Undecided
      BY <2>2 DEF ApplyCommit, IInv, Remembers, Deciding
    <3>2. Log!Accept(client[c].req, client[c].digest)
      BY <2>2, <3>1 DEF ApplyCommit, Log!Accept
    <3> QED BY <3>1, <3>2
  <2>3. ASSUME NEW r \in HostRequests, NEW d \in Contents, HostRecord(r, d)
        PROVE  \E q \in Requests, e \in Contents : Log!Accept(q, e) \/ Log!Reject(q, e)
    <3>1. Log!Accept(r, d)
      BY <2>3 DEF HostRecord, Known, Log!Accept
    <3> QED BY <3>1, ConstantsAssumption
  <2>4. ASSUME NEW c \in Clients, ClientStep(c) \/ Crash(c), ~ApplyReject(c), ~ApplyCommit(c)
        PROVE  UNCHANGED <<log, revision>>
    BY <2>4 DEF ClientStep, Crash, CreateCommitFile, CreateRun, ApplyReplay, ApplyAccept,
                ApplyAbort, ImportCommitFile, ImportLink, database
  <2>5. ASSUME NEW c \in Clients, NEW d \in Contents, CreateStage(c, d) \/ ImportStage(c, d)
        PROVE  UNCHANGED <<log, revision>>
    BY <2>5 DEF CreateStage, ImportStage, database
  <2>6. ASSUME NEW c \in Clients, NEW r \in Requests, NEW d \in Contents, NEW e, NEW clean,
               ApplyStage(c, r, d, e, clean)
        PROVE  UNCHANGED <<log, revision>>
    BY <2>6 DEF ApplyStage, database
  <2>7. CASE UNCHANGED vars
    BY <2>7 DEF vars, database
  <2> QED BY <2>1, <2>2, <2>3, <2>4, <2>5, <2>6, <2>7 DEF Next
<1> QED BY <1>1, <1>2, Invariant, PTL DEF Spec, ImplementsCommandLog, Log!Spec
=============================================================================
