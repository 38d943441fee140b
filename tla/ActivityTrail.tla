---------------------------- MODULE ActivityTrail ----------------------------
(***************************************************************************)
(* What a run shows of its work while it goes on: work items, worker runs  *)
(* and host attempts (work_activity.py), the activity ledger and the       *)
(* subscriptions that follow it (activity_store.py, activity_stream.py,    *)
(* activity_routes.py), and the public logs of managed processes           *)
(* (log_tail.py).  A subscriber loses its connection at any frame and      *)
(* subscribes again from the last frame it received.                       *)
(***************************************************************************)
EXTENDS Naturals, FiniteSets, Sequences

CONSTANTS Workers, Attempts,    \* identities given to worker runs and host attempts
          Runs, Watched,        \* research runs; the one the subscribers follow
          Subscribers,
          MaxEvents,            \* bound: activity rows that are written
          PageSize,             \* frames a subscription reads at a time
          MaxSubscriptions,     \* subscriptions the router serves at a time
          LogBytes, MaxLog,     \* bytes of a log; bound on its length
          Sealers,
          NoTrail

VARIABLES workItem,                 \* whether the item has its row in product_work_items
          workers, hostAttempts,    \* rows of product_worker_runs, product_worker_attempts
          completedAt,              \* history: worker runs when the item was first completed
          ledger,                   \* scopes of product_activity_events by cursor
          retained,                 \* first_available_cursor
          streams,                  \* open subscriptions
          slots,                    \* free places of the semaphore
          received,                 \* history: cursors each subscriber got, in order
          publicLog,                \* a row of product_public_logs
          chunks,                   \* rows of product_public_log_chunks, by offset
          sealers,                  \* seal calls under way
          logArtifact               \* registered artifacts

workVars == <<workItem, workers, hostAttempts, completedAt>>
streamVars == <<ledger, retained, streams, slots, received>>
logVars == <<publicLog, chunks, sealers, logArtifact>>
trailVars == <<workVars, streamVars, logVars>>

-----------------------------------------------------------------------------
(* Worker runs and attempts of one work item *)

WorkerTerminal == {"COMPLETED", "FAILED", "CANCELLED"}
AttemptTerminal == {"SUCCEEDED", "FAILED", "CANCELLED", "OUTCOME_UNKNOWN"}

WorkerTransitions ==
    [QUEUED |-> {"RUNNING", "FAILED", "CANCELLED"},
     RUNNING |-> {"WAITING_TOOL", "WAITING_REVIEW", "PAUSED", "CANCEL_REQUESTED"}
                 \cup WorkerTerminal,
     WAITING_TOOL |-> {"RUNNING", "FAILED", "CANCEL_REQUESTED", "CANCELLED"},
     WAITING_REVIEW |-> {"RUNNING", "FAILED", "CANCEL_REQUESTED", "CANCELLED"},
     PAUSED |-> {"RUNNING", "CANCEL_REQUESTED", "CANCELLED"},
     CANCEL_REQUESTED |-> {"CANCELLED", "FAILED"}]

\* The rows of the three stores, and what is kept of a call on them.
WorkerRow == [state : DOMAIN WorkerTransitions \cup WorkerTerminal, ordinal : Nat]
AttemptRow == [worker : Workers, ordinal : Nat, state : AttemptTerminal \cup {"RUNNING"}]
StreamRow == [cursor : Nat, page : Seq(Nat)]
LogRow == [state : {"OPEN", "SEALING", "SEALED"}, bytes : Nat, artifact : Seq(LogBytes) \cup {NoTrail}]
ChunkRow == [offset : Nat, data : Seq(LogBytes)]
SealerRow == [pc : {"spool", "register", "bind"}, bytes : Nat, text : Seq(LogBytes)]

\* A missing row is no row.
ASSUME TrailInputs ==
    /\ IsFiniteSet(Workers) /\ IsFiniteSet(Attempts) /\ IsFiniteSet(Subscribers)
    /\ {MaxEvents, MaxSubscriptions, MaxLog} \subseteq Nat /\ PageSize \in Nat \ {0}
    /\ NoTrail \notin WorkerRow /\ NoTrail \notin AttemptRow /\ NoTrail \notin StreamRow
    /\ NoTrail \notin LogRow /\ NoTrail \notin SealerRow

Assigned == {w \in Workers : workers[w] # NoTrail}
ByOrdinal(n) == CHOOSE w \in Assigned : workers[w].ordinal = n

\* The state a work item shows: completed if any of its runs is, else the state of the
\* latest run that is not over, else that of the latest run.
AggregateState ==
    LET open == {w \in Assigned : workers[w].state \notin WorkerTerminal}
        latest(S) == CHOOSE w \in S : \A v \in S : workers[v].ordinal <= workers[w].ordinal
    IN CASE Assigned = {} -> "QUEUED"
         [] \E w \in Assigned : workers[w].state = "COMPLETED" -> "COMPLETED"
         [] OTHER -> workers[latest(IF open # {} THEN open ELSE Assigned)].state

\* Creating an item again under its logical key returns it.
CreateWorkItem ==
    /\ ~workItem
    /\ workItem' = TRUE
    /\ UNCHANGED <<workers, hostAttempts, completedAt, streamVars, logVars>>

\* Mutant: only the latest run is looked at before another worker is assigned.
ReassignableByLatest ==
    Assigned # {} => workers[ByOrdinal(Cardinality(Assigned))].state # "COMPLETED"

Reassignable == \A w \in Assigned : workers[w].state # "COMPLETED"

AssignWorker(w) ==
    /\ workItem /\ workers[w] = NoTrail /\ Reassignable
    /\ workers' = [workers EXCEPT ![w] = [state |-> "QUEUED",
                                          ordinal |-> Cardinality(Assigned) + 1]]
    /\ UNCHANGED <<workItem, hostAttempts, completedAt, streamVars, logVars>>

SetWorkerState(w, state) ==
    /\ w \in Assigned /\ workers[w].state \in DOMAIN WorkerTransitions
    /\ state \in WorkerTransitions[workers[w].state]
    /\ workers' = [workers EXCEPT ![w].state = state]
    /\ completedAt' = IF state = "COMPLETED" /\ completedAt = 0 THEN Cardinality(Assigned)
                      ELSE completedAt
    /\ UNCHANGED <<workItem, hostAttempts, streamVars, logVars>>

BeginAttempt(a, w) ==
    /\ hostAttempts[a] = NoTrail
    /\ w \in Assigned /\ workers[w].state \in {"RUNNING", "WAITING_TOOL"}
    /\ LET ordinal == Cardinality({b \in Attempts : hostAttempts[b] # NoTrail
                                                    /\ hostAttempts[b].worker = w}) + 1
       IN hostAttempts' = [hostAttempts EXCEPT ![a] =
              [worker |-> w, ordinal |-> ordinal, state |-> "RUNNING"]]
    /\ UNCHANGED <<workItem, workers, completedAt, streamVars, logVars>>

\* An attempt takes its outcome whatever became of its worker run.
FinishAttempt(a, state) ==
    /\ hostAttempts[a] # NoTrail /\ hostAttempts[a].state = "RUNNING"
    /\ hostAttempts' = [hostAttempts EXCEPT ![a].state = state]
    /\ UNCHANGED <<workItem, workers, completedAt, streamVars, logVars>>

WorkNext ==
    \/ CreateWorkItem
    \/ \E w \in Workers : AssignWorker(w)
    \/ \E w \in Workers : \E s \in UNION {WorkerTransitions[x] : x \in DOMAIN WorkerTransitions} :
          SetWorkerState(w, s)
    \/ \E a \in Attempts, w \in Workers : BeginAttempt(a, w)
    \/ \E a \in Attempts, s \in AttemptTerminal : FinishAttempt(a, s)

-----------------------------------------------------------------------------
(* The activity ledger and its subscribers *)

\* Every writer appends inside its own immediate transaction, so rows become visible in
\* the order of their cursors.
AppendActivity(run) ==
    /\ Len(ledger) < MaxEvents
    /\ ledger' = Append(ledger, run)
    /\ UNCHANGED <<retained, streams, slots, received, workVars, logVars>>

\* Maintenance moves the retention watermark; rows before it are no longer promised.
Retain ==
    /\ retained < Len(ledger)
    /\ retained' = retained + 1
    /\ UNCHANGED <<ledger, streams, slots, received, workVars, logVars>>

Available(cursor) == cursor >= retained - 1

LastReceived(s) == IF received[s] = <<>> THEN 0 ELSE received[s][Len(received[s])]

FreePlace == slots > 0

\* A browser sends the cursor it has as Last-Event-ID; one that is too old is told so,
\* and the place is given back.
Subscribe(s) ==
    /\ streams[s] = NoTrail
    /\ FreePlace
    /\ Available(LastReceived(s))
    /\ slots' = slots - 1
    /\ streams' = [streams EXCEPT ![s] = [cursor |-> LastReceived(s), page |-> <<>>]]
    /\ UNCHANGED <<ledger, retained, received, workVars, logVars>>

\* The cursors of the run's rows after a and up to b.
RunRows(a, b) == {i \in (a + 1)..b : ledger[i] = Watched}
Increasing(s) == \A j, k \in 1..Len(s) : j < k => s[j] < s[k]
ValuesOf(s) == {s[k] : k \in 1..Len(s)}

\* Rows after the cursor in their order, as many as a page takes: a row that is not on the
\* page is after the last one of a full page.
IsPage(p, c, end) ==
    /\ Increasing(p) /\ ValuesOf(p) \subseteq RunRows(c, end)
    /\ \A i \in RunRows(c, end) : i \in ValuesOf(p) \/ (Len(p) = PageSize /\ p[PageSize] < i)
PageAfter(c) ==
    CHOOSE p \in UNION {[1..n -> (c + 1)..Len(ledger)] : n \in 0..PageSize} : IsPage(p, c, Len(ledger))

\* Mutant: the cursor always moves to the end of the ledger that the snapshot saw.
ScannedToTheEnd(c) == Len(ledger)

\* How far the ledger has been looked through: a full page stops at its last row.
ScannedThrough(c) ==
    LET page == PageAfter(c) IN
    IF Len(page) = PageSize THEN page[PageSize] ELSE Len(ledger)

\* One snapshot reads the end of the ledger and the rows in a transaction.
DrainBacklog(s) ==
    /\ streams[s] # NoTrail /\ streams[s].page = <<>>
    /\ Available(streams[s].cursor)
    /\ LET c == streams[s].cursor IN
       streams' = [streams EXCEPT ![s] =
           [cursor |-> IF ScannedThrough(c) > c THEN ScannedThrough(c) ELSE c,
            page |-> PageAfter(c)]]
    /\ UNCHANGED <<ledger, retained, slots, received, workVars, logVars>>

\* A frame reaches the browser.
SendFrame(s) ==
    /\ streams[s] # NoTrail /\ streams[s].page # <<>>
    /\ received' = [received EXCEPT ![s] = Append(@, Head(streams[s].page))]
    /\ streams' = [streams EXCEPT ![s].page = Tail(@)]
    /\ UNCHANGED <<ledger, retained, slots, workVars, logVars>>

\* The connection ends: the browser leaves, or the cursor of the stream has expired and
\* the next read raises.  Frames of the page that were not sent are gone.
Unsubscribe(s) ==
    /\ streams[s] # NoTrail
    /\ streams' = [streams EXCEPT ![s] = NoTrail]
    /\ slots' = slots + 1
    /\ UNCHANGED <<ledger, retained, received, workVars, logVars>>

StreamNext ==
    \/ \E r \in Runs : AppendActivity(r)
    \/ Retain
    \/ \E s \in Subscribers : Subscribe(s) \/ DrainBacklog(s) \/ SendFrame(s) \/ Unsubscribe(s)

-----------------------------------------------------------------------------
(* A public log *)

CreateLog ==
    /\ publicLog = NoTrail
    /\ publicLog' = [state |-> "OPEN", bytes |-> 0, artifact |-> NoTrail]
    /\ UNCHANGED <<chunks, sealers, logArtifact, workVars, streamVars>>

\* Mutant: a chunk at a stored offset replaces it and the count is taken from it.
AppendLogOverwrites(offset, data) ==
    /\ publicLog # NoTrail /\ publicLog.state \in {"OPEN", "SEALING"}
    /\ offset = publicLog.bytes \/ \E c \in chunks : c.offset = offset
    /\ offset + Len(data) <= MaxLog
    /\ chunks' = {c \in chunks : c.offset # offset} \cup {[offset |-> offset, data |-> data]}
    /\ publicLog' = [publicLog EXCEPT !.bytes = offset + Len(data)]
    /\ UNCHANGED <<sealers, logArtifact, workVars, streamVars>>

\* A chunk that is sent again is accepted if it is the one stored at its offset.
AppendLog(offset, data) ==
    /\ publicLog # NoTrail /\ publicLog.state = "OPEN"
    /\ offset = publicLog.bytes
    /\ offset + Len(data) <= MaxLog
    /\ chunks' = chunks \cup {[offset |-> offset, data |-> data]}
    /\ publicLog' = [publicLog EXCEPT !.bytes = offset + Len(data)]
    /\ UNCHANGED <<sealers, logArtifact, workVars, streamVars>>

\* Byte n of the log, counted from zero.
ByteAt(n) ==
    LET c == CHOOSE c \in chunks : c.offset <= n /\ n < c.offset + Len(c.data)
    IN c.data[n - c.offset + 1]

LogText == [i \in 1..publicLog.bytes |-> ByteAt(i - 1)]

\* tail: the slice between two cursors, put together from the chunks it touches.
TailOf(cursor, end) == [i \in 1..(end - cursor) |-> ByteAt(cursor + i - 1)]

SealerAt(z, pc) == sealers[z] # NoTrail /\ sealers[z].pc = pc

BeginSeal(z) ==
    /\ publicLog # NoTrail /\ publicLog.state \in {"OPEN", "SEALING"}
    /\ sealers[z] = NoTrail
    /\ publicLog' = [publicLog EXCEPT !.state = "SEALING"]
    /\ sealers' = [sealers EXCEPT ![z] = [pc |-> "spool", bytes |-> publicLog.bytes,
                                          text |-> <<>>]]
    /\ UNCHANGED <<chunks, logArtifact, workVars, streamVars>>

\* The chunks in order must cover the registered count.
Materialize(z) ==
    /\ SealerAt(z, "spool")
    /\ sealers[z].bytes = publicLog.bytes
    /\ sealers' = [sealers EXCEPT ![z] = [@ EXCEPT !.pc = "register", !.text = LogText]]
    /\ UNCHANGED <<publicLog, chunks, logArtifact, workVars, streamVars>>

\* The artifact of the digest is the registered one, or the one committed and registered.
RegisterLog(z) ==
    /\ SealerAt(z, "register")
    /\ logArtifact' = logArtifact \cup {sealers[z].text}
    /\ sealers' = [sealers EXCEPT ![z].pc = "bind"]
    /\ UNCHANGED <<publicLog, chunks, workVars, streamVars>>

BindSealed(z) ==
    /\ SealerAt(z, "bind")
    /\ \/ publicLog.state = "SEALING" /\ publicLog.bytes = sealers[z].bytes
          /\ publicLog' = [publicLog EXCEPT !.state = "SEALED", !.artifact = sealers[z].text]
       \/ publicLog.state = "SEALED" /\ UNCHANGED publicLog
    /\ sealers' = [sealers EXCEPT ![z] = NoTrail]
    /\ UNCHANGED <<chunks, logArtifact, workVars, streamVars>>

\* The process that seals dies; the next call takes the log up in SEALING.
SealerDies(z) ==
    /\ sealers[z] # NoTrail
    /\ sealers' = [sealers EXCEPT ![z] = NoTrail]
    /\ UNCHANGED <<publicLog, chunks, logArtifact, workVars, streamVars>>

LogNext ==
    \/ CreateLog
    \/ \E o \in 0..MaxLog, data \in UNION {[1..n -> LogBytes] : n \in {1, 2}} :
          AppendLog(o, data)
    \/ \E z \in Sealers : BeginSeal(z) \/ Materialize(z) \/ RegisterLog(z) \/ BindSealed(z)
                          \/ SealerDies(z)

-----------------------------------------------------------------------------
TrailInit ==
    /\ workItem = FALSE
    /\ workers = [w \in Workers |-> NoTrail] /\ hostAttempts = [a \in Attempts |-> NoTrail]
    /\ completedAt = 0
    /\ ledger = <<>> /\ retained = 1 /\ slots = MaxSubscriptions
    /\ streams = [s \in Subscribers |-> NoTrail]
    /\ received = [s \in Subscribers |-> <<>>]
    /\ publicLog = NoTrail /\ chunks = {} /\ sealers = [z \in Sealers |-> NoTrail]
    /\ logArtifact = {}

TrailNext == WorkNext \/ StreamNext \/ LogNext
TrailSpec == TrailInit /\ [][TrailNext]_trailVars

\* The three stores hold rows of their types.
WorkTypeOK ==
    /\ workItem \in BOOLEAN /\ completedAt \in Nat
    /\ workers \in [Workers -> WorkerRow \cup {NoTrail}]
    /\ hostAttempts \in [Attempts -> AttemptRow \cup {NoTrail}]
StreamTypeOK ==
    /\ ledger \in Seq(Runs) /\ retained \in 1..(MaxEvents + 1)
    /\ streams \in [Subscribers -> StreamRow \cup {NoTrail}]
    /\ slots \in 0..MaxSubscriptions /\ received \in [Subscribers -> Seq(Nat)]
LogTypeOK ==
    /\ publicLog \in LogRow \cup {NoTrail} /\ chunks \subseteq ChunkRow
    /\ sealers \in [Sealers -> SealerRow \cup {NoTrail}] /\ logArtifact \subseteq Seq(LogBytes)

\* A work item that has been completed is not worked on again: no worker run is assigned
\* after the first completion, the item shows COMPLETED for good although other runs of
\* it may still be going on, and run ordinals count the assignments.
CompletedWorkStays ==
    /\ WorkTypeOK
    /\ completedAt # 0 => /\ Cardinality(Assigned) = completedAt
                          /\ AggregateState = "COMPLETED"
    /\ {workers[w].ordinal : w \in Assigned} = 1..Cardinality(Assigned)

\* A subscriber sees the rows of its run that are in the ledger, in order, without gaps
\* and without repetitions, over any number of connections; and the places of the router
\* are all accounted for.
SubscriberMissesNothing ==
    /\ StreamTypeOK
    /\ slots = MaxSubscriptions - Cardinality({s \in Subscribers : streams[s] # NoTrail})
    /\ \A s \in Subscribers :
          LET sent == received[s] \o (IF streams[s] = NoTrail THEN <<>> ELSE streams[s].page)
              scanned == IF streams[s] = NoTrail THEN LastReceived(s) ELSE streams[s].cursor
          IN Increasing(sent) /\ ValuesOf(sent) = RunRows(0, scanned)

\* Bytes of a log that a reader has seen never change: the chunks cover the log exactly,
\* once sealing has begun what is bound as the log's artifact is its whole text, and any
\* slice a reader asks for is a slice of that text.
SealedLogIsTheLog ==
    /\ LogTypeOK
    /\ publicLog # NoTrail =>
        /\ \A n \in 0..(publicLog.bytes - 1) :
              Cardinality({c \in chunks : c.offset <= n /\ n < c.offset + Len(c.data)}) = 1
        /\ publicLog.state = "SEALED" =>
              /\ publicLog.artifact = LogText /\ publicLog.artifact \in logArtifact
              /\ \A i \in 0..publicLog.bytes : \A j \in i..publicLog.bytes :
                    TailOf(i, j) = SubSeq(publicLog.artifact, i + 1, j)

\* Whoever follows the activity or the log of a run gets all of it and nothing else
\* (activity_stream.py subscribe, log_tail.py append and seal).
ReadersMissNothing == SubscriberMissesNothing /\ SealedLogIsTheLog
=============================================================================
