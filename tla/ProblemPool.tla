---------------------------- MODULE ProblemPool -----------------------------
(***************************************************************************)
(* One pool of open problems (problem_pool.py) and the batches of runs     *)
(* created from it (arxiv_batch.py).                                       *)
(*                                                                         *)
(* A list of source snapshots is ingested one transaction per snapshot,    *)
(* humans audit the candidates, a human freezes the pool, candidates are   *)
(* scored, and a batch creates one research run per chosen candidate.  The *)
(* state of the pool is read before the transaction that relies on it, and *)
(* the process may die between any two transactions.                       *)
(***************************************************************************)
EXTENDS Naturals, Sequences, FiniteSets, Functions

CONSTANTS Snapshots,     \* source snapshots
          EntriesOf,     \* snapshot -> the entries parsed from it, or NoPool if it failed
          SnapshotLists, \* the lists of snapshots one ingestion may be asked for
          Statements,    \* normalised problem statements
          Batches,       \* batch identities
          PoolArtifacts, \* semantic audits and contract templates
          NoPool

PoolEntries == UNION {Range(EntriesOf[n]) : n \in {m \in Snapshots : EntriesOf[m] # NoPool}}

VARIABLES poolState,     \* COLLECTING, HUMAN_AUDIT or FROZEN
          snapshotRows,  \* rows of product_problem_pool_snapshots
          sourceRows,    \* source record -> its denominator status
          problemRows,   \* statement -> the candidate that carries it
          ingest,        \* the ingestion under way
          audits,        \* statements an auditor has read as pending
          bindings,      \* the pool's audit artifact and its contract template
          batchRows,     \* rows of product_problem_batch_commands
          batchRuns,     \* rows of product_problem_batch_runs
          dispatching,   \* selection a dispatch has checked, per batch
          executors,     \* the execution of each batch
          createdBy      \* create request -> the run the command service made for it

poolVars == <<poolState, snapshotRows, sourceRows, problemRows, ingest, audits, bindings, batchRows,
              batchRuns, dispatching, executors, createdBy>>

IdleIngest == [pc |-> "idle", list |-> <<>>, pos |-> 0]
IdleExecutor == [pc |-> "idle", todo |-> {}, at |-> NoPool, run |-> NoPool]

SnapshotRow == [ordinal : Nat, status : {"INGESTED", "FAILED"}]
ProblemRow == [source : Snapshots \X (PoolEntries \cup {NoPool}), audit : {"HUMAN_AUDIT_PENDING", "HUMAN_INCLUDED", "HUMAN_EXCLUDED"},
               recommended : {"UNSCORED", "RECOMMENDED", "NOT_RECOMMENDED"}, run : Nat \cup {NoPool}]
Selection == [chosen : SUBSET Statements, template : PoolArtifacts]
BatchRow == [state : {"DISPATCHED", "RUNNING", "COMPLETED"}, chosen : SUBSET Statements, template : PoolArtifacts]

\* An ingestion names at least one snapshot; a missing row is no row.
ASSUME PoolInputs ==
    /\ \A e \in PoolEntries : e.version \in Nat /\ e.statement \in Statements \cup {NoPool}
    /\ \A n \in Snapshots : EntriesOf[n] # NoPool => EntriesOf[n] \in Seq(PoolEntries)
    /\ SnapshotLists \subseteq Seq(Snapshots) \ {<<>>}
    /\ NoPool \notin Nat \cup SnapshotRow \cup ProblemRow \cup PoolArtifacts
    /\ NoPool \notin Selection /\ NoPool \notin BatchRow

-----------------------------------------------------------------------------
(* Ingestion *)

BeginIngest(list) ==
    /\ ingest.pc = "idle"
    /\ ingest' = [pc |-> "read", list |-> list, pos |-> 1]
    /\ UNCHANGED <<poolState, snapshotRows, sourceRows, problemRows, audits, bindings, batchRows, batchRuns,
                   dispatching, executors, createdBy>>

\* The newest version of a paper among the snapshots of this ingestion.
LatestVersion(list, paper) ==
    LET seen == UNION {Range(EntriesOf[n]) : n \in {m \in Range(list) : EntriesOf[m] # NoPool}}
    IN CHOOSE v \in {e.version : e \in seen} :
          /\ \E e \in seen : e.paper = paper /\ e.version = v
          /\ \A e \in seen : e.paper = paper => e.version <= v

Classify(list, e) ==
    IF e.version < LatestVersion(list, e.paper) THEN "SUPERSEDED_VERSION"
    ELSE IF e.statement = NoPool THEN "NO_EXPLICIT_OPEN_MARKER" ELSE "INCLUDED"

\* A snapshot without entries, or one that failed, still has one row.
RowsToRecord(list, n) ==
    IF EntriesOf[n] = NoPool THEN <<[entry |-> NoPool, status |-> "FAILED"]>>
    ELSE IF EntriesOf[n] = <<>> THEN <<[entry |-> NoPool, status |-> "NO_HIT"]>>
    ELSE [i \in DOMAIN EntriesOf[n] |->
             [entry |-> EntriesOf[n][i], status |-> Classify(list, EntriesOf[n][i])]]

WithRow(rows, id, value) == [x \in DOMAIN rows \cup {id} |-> IF x = id THEN value ELSE rows[x]]

\* Mutant: a row that is there already is overwritten with what this ingestion makes of it.
InsertSourceAnew(acc, n, row) ==
    LET id == <<n, row.entry>> IN
    IF id \notin DOMAIN acc.sources THEN [acc EXCEPT !.sources = WithRow(@, id, row.status)]
    ELSE [acc EXCEPT !.sources = [@ EXCEPT ![id] = row.status]]

InsertSource(acc, n, row) ==
    LET id == <<n, row.entry>> IN
    IF id \notin DOMAIN acc.sources THEN [acc EXCEPT !.sources = WithRow(@, id, row.status)]
    ELSE [acc EXCEPT !.ok = @ /\ (acc.sources[id] = row.status
                                  \/ (acc.sources[id] = "DUPLICATE_STATEMENT" /\ row.status = "INCLUDED"))]

\* A candidate already made from this source row stands; a statement seen before turns the
\* source row into an excluded duplicate.
InsertCandidate(acc, n, row) ==
    LET id == <<n, row.entry>>  s == row.entry.statement IN
    IF row.status # "INCLUDED" \/ (acc.problems[s] # NoPool /\ acc.problems[s].source = id) THEN acc
    ELSE IF acc.problems[s] # NoPool
         THEN [acc EXCEPT !.sources = [@ EXCEPT ![id] = "DUPLICATE_STATEMENT"]]
         ELSE [acc EXCEPT !.problems = [@ EXCEPT ![s] =
                  [source |-> id, audit |-> "HUMAN_AUDIT_PENDING",
                   recommended |-> "UNSCORED", run |-> NoPool]]]

\* One row after the other, in one transaction.
Recorded(list, n) ==
    LET rows == RowsToRecord(list, n)
        done[k \in 0..Len(rows)] ==
          IF k = 0 THEN [ok |-> TRUE, sources |-> sourceRows, problems |-> problemRows]
          ELSE InsertCandidate(InsertSource(done[k - 1], n, rows[k]), n, rows[k])
    IN  done[Len(rows)]

SnapshotFits(n, row) ==
    /\ snapshotRows[n] = NoPool \/ snapshotRows[n] = row
    /\ \A m \in Snapshots \ {n} : snapshotRows[m] # NoPool => snapshotRows[m].ordinal # row.ordinal

\* The state of the pool is read outside the transaction that writes the snapshot.
RecordSnapshotRead ==
    /\ ingest.pc = "read"
    /\ ingest' = IF poolState = "COLLECTING" THEN [ingest EXCEPT !.pc = "write"] ELSE IdleIngest
    /\ UNCHANGED <<poolState, snapshotRows, sourceRows, problemRows, audits, bindings, batchRows, batchRuns,
                   dispatching, executors, createdBy>>

RecordSnapshot ==
    /\ ingest.pc = "write"
    /\ LET n == ingest.list[ingest.pos]
           row == [ordinal |-> ingest.pos,
                   status |-> IF EntriesOf[n] = NoPool THEN "FAILED" ELSE "INGESTED"]
           done == Recorded(ingest.list, n)
       IN \/ /\ SnapshotFits(n, row) /\ done.ok
             /\ snapshotRows' = [snapshotRows EXCEPT ![n] = row]
             /\ sourceRows' = done.sources /\ problemRows' = done.problems
             /\ ingest' = IF ingest.pos = Len(ingest.list) THEN IdleIngest
                          ELSE [ingest EXCEPT !.pc = "read", !.pos = @ + 1]
          \/ /\ ~(SnapshotFits(n, row) /\ done.ok)
             /\ ingest' = IdleIngest
             /\ UNCHANGED <<snapshotRows, sourceRows, problemRows>>
    /\ UNCHANGED <<poolState, audits, bindings, batchRows, batchRuns, dispatching, executors, createdBy>>

IngestDies ==
    /\ ingest.pc # "idle" /\ ingest' = IdleIngest
    /\ UNCHANGED <<poolState, snapshotRows, sourceRows, problemRows, audits, bindings, batchRows, batchRuns,
                   dispatching, executors, createdBy>>

-----------------------------------------------------------------------------
(* Audit, freeze, score *)

AuditRead(s) ==
    /\ s \notin audits /\ problemRows[s] # NoPool
    /\ poolState # "FROZEN" /\ problemRows[s].audit = "HUMAN_AUDIT_PENDING"
    /\ audits' = audits \cup {s}
    /\ UNCHANGED <<poolState, snapshotRows, sourceRows, problemRows, ingest, bindings, batchRows, batchRuns,
                   dispatching, executors, createdBy>>

AuditCandidate(s, decision) ==
    /\ s \in audits
    /\ audits' = audits \ {s}
    /\ IF problemRows[s].audit = "HUMAN_AUDIT_PENDING"
       THEN /\ problemRows' = [problemRows EXCEPT ![s].audit = decision]
            /\ poolState' = IF poolState = "COLLECTING" THEN "HUMAN_AUDIT" ELSE poolState
       ELSE UNCHANGED <<problemRows, poolState>>
    /\ UNCHANGED <<snapshotRows, sourceRows, ingest, bindings, batchRows, batchRuns, dispatching, executors,
                   createdBy>>

Problems == {s \in Statements : problemRows[s] # NoPool}

\* The first artifact of a kind is bound for good.
BindArtifact(kind, a) ==
    /\ bindings[kind] \in {NoPool, a}
    /\ bindings' = [bindings EXCEPT ![kind] = a]

FreezePool(audit) ==
    /\ poolState \in {"COLLECTING", "HUMAN_AUDIT"}
    /\ \A s \in Problems : problemRows[s].audit # "HUMAN_AUDIT_PENDING"
    /\ \E s \in Problems : problemRows[s].audit = "HUMAN_INCLUDED"
    /\ \E n \in Snapshots : snapshotRows[n] # NoPool
    /\ BindArtifact("SEMANTIC_AUDIT", audit)
    /\ poolState' = "FROZEN"
    /\ UNCHANGED <<snapshotRows, sourceRows, problemRows, ingest, audits, batchRows, batchRuns,
                   dispatching, executors, createdBy>>

\* Frozen and included never change again, so reading them first makes no difference.
ScoreCandidate(s, verdict) ==
    /\ s \in Problems /\ poolState = "FROZEN" /\ problemRows[s].audit = "HUMAN_INCLUDED"
    /\ problemRows[s].recommended = "UNSCORED"
    /\ problemRows' = [problemRows EXCEPT ![s].recommended = verdict]
    /\ UNCHANGED <<poolState, snapshotRows, sourceRows, ingest, audits, bindings, batchRows, batchRuns,
                   dispatching, executors, createdBy>>

-----------------------------------------------------------------------------
(* Batches *)

Eligible(b, s) ==
    /\ s \in Problems /\ problemRows[s].audit = "HUMAN_INCLUDED"
    /\ problemRows[s].recommended = "RECOMMENDED"
    /\ problemRows[s].run = NoPool \/ batchRows[b] # NoPool

\* The selection is checked before the command is sent and the batch is recorded.
DispatchCheck(b, chosen, template) ==
    /\ dispatching[b] = NoPool /\ poolState = "FROZEN" /\ chosen # {}
    /\ \A s \in chosen : Eligible(b, s)
    /\ BindArtifact("CONTRACT_TEMPLATE", template)
    /\ dispatching' = [dispatching EXCEPT ![b] = [chosen |-> chosen, template |-> template]]
    /\ UNCHANGED <<poolState, snapshotRows, sourceRows, problemRows, ingest, audits, batchRows,
                   batchRuns, executors, createdBy>>

DispatchBatch(b) ==
    /\ dispatching[b] # NoPool
    /\ batchRows' = IF batchRows[b] = NoPool
                    THEN [batchRows EXCEPT ![b] = [state |-> "DISPATCHED", chosen |-> dispatching[b].chosen,
                                                      template |-> dispatching[b].template]]
                    ELSE batchRows
    /\ dispatching' = [dispatching EXCEPT ![b] = NoPool]
    /\ UNCHANGED <<poolState, bindings, snapshotRows, sourceRows, problemRows, ingest, audits, batchRuns,
                   executors, createdBy>>

ExecuteBatch(b, template) ==
    /\ executors[b].pc = "idle" /\ batchRows[b] # NoPool /\ batchRows[b].template = template
    /\ executors' = [executors EXCEPT ![b] = [IdleExecutor EXCEPT !.pc = "loop", !.todo = batchRows[b].chosen]]
    /\ batchRows' = IF batchRows[b].state = "DISPATCHED"
                    THEN [batchRows EXCEPT ![b].state = "RUNNING"] ELSE batchRows
    /\ UNCHANGED <<poolState, bindings, snapshotRows, sourceRows, problemRows, ingest, audits, batchRuns,
                   dispatching, createdBy>>

\* The request id is derived from the batch and the candidate.
CreateRequest(b, s) == <<b, s, 0>>

\* CREATE_RESEARCH through the command service: the receipt of a repeated request is returned.
CreateResearchFor(b, s) ==
    /\ executors[b].pc = "loop" /\ s \in executors[b].todo
    /\ createdBy' = IF CreateRequest(b, s) \in DOMAIN createdBy THEN createdBy
                    ELSE WithRow(createdBy, CreateRequest(b, s), Cardinality(DOMAIN createdBy) + 1)
    /\ executors' = [executors EXCEPT ![b] = [@ EXCEPT !.pc = "record", !.at = s,
                                              !.run = createdBy'[CreateRequest(b, s)]]]
    /\ UNCHANGED <<poolState, snapshotRows, sourceRows, problemRows, ingest, audits, bindings, batchRows,
                   batchRuns, dispatching>>

RecordBatchRun(b) ==
    /\ executors[b].pc = "record"
    /\ LET s == executors[b].at  run == executors[b].run IN
       \/ /\ batchRuns[<<b, s>>] = NoPool
          /\ batchRuns' = [batchRuns EXCEPT ![<<b, s>>] = run]
          /\ problemRows' = IF problemRows[s].run = NoPool
                            THEN [problemRows EXCEPT ![s].run = run] ELSE problemRows
          /\ executors' = [executors EXCEPT ![b].pc = "loop", ![b].todo = @ \ {s}]
       \/ /\ batchRuns[<<b, s>>] = run
          /\ executors' = [executors EXCEPT ![b].pc = "loop", ![b].todo = @ \ {s}]
          /\ UNCHANGED <<batchRuns, problemRows>>
    /\ UNCHANGED <<poolState, snapshotRows, sourceRows, ingest, audits, bindings, batchRows, dispatching,
                   createdBy>>

CompleteBatch(b) ==
    /\ executors[b].pc = "loop" /\ executors[b].todo = {}
    /\ batchRows' = [batchRows EXCEPT ![b].state = "COMPLETED"]
    /\ executors' = [executors EXCEPT ![b] = IdleExecutor]
    /\ UNCHANGED <<poolState, bindings, snapshotRows, sourceRows, problemRows, ingest, audits, batchRuns,
                   dispatching, createdBy>>

ExecutorDies(b) ==
    /\ executors[b].pc # "idle" /\ executors' = [executors EXCEPT ![b] = IdleExecutor]
    /\ UNCHANGED <<poolState, snapshotRows, sourceRows, problemRows, ingest, audits, bindings, batchRows,
                   batchRuns, dispatching, createdBy>>

-----------------------------------------------------------------------------
PoolInit ==
    /\ bindings = [k \in {"SEMANTIC_AUDIT", "CONTRACT_TEMPLATE"} |-> NoPool]
    /\ poolState = "COLLECTING" /\ ingest = IdleIngest /\ audits = {}
    /\ snapshotRows = [n \in Snapshots |-> NoPool] /\ sourceRows = << >>
    /\ problemRows = [s \in Statements |-> NoPool]
    /\ batchRows = [b \in Batches |-> NoPool] /\ dispatching = [b \in Batches |-> NoPool]
    /\ batchRuns = [k \in Batches \X Statements |-> NoPool]
    /\ executors = [b \in Batches |-> IdleExecutor] /\ createdBy = << >>

PoolNext ==
    \/ \E list \in SnapshotLists : BeginIngest(list)
    \/ RecordSnapshotRead \/ RecordSnapshot \/ IngestDies
    \/ \E a \in PoolArtifacts : FreezePool(a) \/ \E b \in Batches : ExecuteBatch(b, a)
    \/ \E s \in Statements : \/ AuditRead(s)
                             \/ \E d \in {"HUMAN_INCLUDED", "HUMAN_EXCLUDED"} : AuditCandidate(s, d)
                             \/ \E v \in {"RECOMMENDED", "NOT_RECOMMENDED"} : ScoreCandidate(s, v)
    \/ \E b \in Batches : \/ \E chosen \in SUBSET Statements, a \in PoolArtifacts : DispatchCheck(b, chosen, a)
                          \/ DispatchBatch(b) \/ RecordBatchRun(b)
                          \/ CompleteBatch(b) \/ ExecutorDies(b)
                          \/ \E s \in Statements : CreateResearchFor(b, s)

PoolSpec == PoolInit /\ [][PoolNext]_poolVars

-----------------------------------------------------------------------------
PoolTypeOK ==
    /\ poolState \in {"COLLECTING", "HUMAN_AUDIT", "FROZEN"}
    /\ snapshotRows \in [Snapshots -> SnapshotRow \cup {NoPool}]
    /\ problemRows \in [Statements -> ProblemRow \cup {NoPool}]
    /\ DOMAIN sourceRows \subseteq Snapshots \X (PoolEntries \cup {NoPool})
    /\ audits \subseteq Statements
    /\ batchRuns \in [Batches \X Statements -> Nat \cup {NoPool}]

(***************************************************************************)
(* The denominator stays complete over interrupted and repeated            *)
(* ingestions: a recorded snapshot has a row for every entry, the included *)
(* rows are exactly the sources of the candidates, and no two candidates   *)
(* share a source.  And a batch, however often its execution is broken off *)
(* and repeated, makes one run for each candidate, each of which a human   *)
(* included and the score recommends.                                      *)
(***************************************************************************)
PoolIsAccountedFor ==
    /\ PoolTypeOK
    /\ \A n \in Snapshots : snapshotRows[n] # NoPool =>
          IF EntriesOf[n] \in {NoPool, <<>>} THEN <<n, NoPool>> \in DOMAIN sourceRows
          ELSE \A e \in Range(EntriesOf[n]) : <<n, e>> \in DOMAIN sourceRows
    /\ {id \in DOMAIN sourceRows : sourceRows[id] = "INCLUDED"}
          = {problemRows[s].source : s \in Problems}
    /\ Cardinality({problemRows[s].source : s \in Problems}) = Cardinality(Problems)
    /\ \A b \in Batches, s \in Statements :
          /\ Cardinality({q \in DOMAIN createdBy : q[1] = b /\ q[2] = s}) <= 1
          /\ batchRuns[<<b, s>>] # NoPool => /\ batchRuns[<<b, s>>] = createdBy[CreateRequest(b, s)]
                                         /\ problemRows[s].audit = "HUMAN_INCLUDED"
                                         /\ problemRows[s].recommended = "RECOMMENDED"
                                         /\ \E c \in Batches : problemRows[s].run = batchRuns[<<c, s>>]
          /\ batchRows[b] # NoPool =>
                /\ batchRows[b].template = bindings["CONTRACT_TEMPLATE"]
                /\ batchRows[b].state = "COMPLETED" /\ s \in batchRows[b].chosen => batchRuns[<<b, s>>] # NoPool
=============================================================================
