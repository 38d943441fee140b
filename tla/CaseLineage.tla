---------------------------- MODULE CaseLineage ----------------------------
(***************************************************************************)
(* Historical research cases: registered sources, the two isolated modes   *)
(* of one case and their results (research_lineage.py), and the migration  *)
(* of the other case's notes into pending claims (case_import.py).  The    *)
(* migration writes materials, claims and the lineage in transactions of   *)
(* their own; a result is recorded in a transaction that does not repeat   *)
(* the read of the status.                                                 *)
(***************************************************************************)
EXTENDS Naturals, Sequences, FiniteSets

CONSTANTS SourceIds,
          Manifests,    \* manifest -> its mode, run, data root, inputs and candidates
          Lineages, CaseCallers,
          Stamps,       \* values of `now' that callers pass
          NoCase

VARIABLES sources,      \* id -> registered project and content class
          lineages,     \* id -> mode, manifest and status
          outcomes,     \* id -> outcome row of a clean-room case
          verdicts,     \* id -> verdict of every certificate
          candidates,   \* id -> candidate rows of a migrated case
          ingested,     \* material of a source -> the stamp of its row
          claimOf,      \* historical input -> life cycle of its claim
          caller        \* what a calling process has read and done

caseVars == <<sources, lineages, outcomes, verdicts, candidates, ingested, claimOf, caller>>

CleanClasses == {"PROBLEM_STATEMENT", "CONTRACT"}
HistoricalClasses == {"HISTORICAL_MATERIAL", "HISTORICAL_PROOF"}
SourceRows == [project : {"ZHAO_C61"}, class : CleanClasses \cup {"HISTORICAL_PROOF", "CERTIFICATE"}]
              \cup [project : {"N2_AJT5"}, class : HistoricalClasses]

Idle == [at |-> "idle", lineage |-> NoCase, manifest |-> NoCase, outcome |-> NoCase,
         stamp |-> NoCase, done |-> 0]

HistoricalInputs == UNION {Manifests[m].claims : m \in DOMAIN Manifests}

CaseModes == {"CLEAN_ROOM_REDISCOVERY", "IMPORTED_CERTIFICATE_VERIFICATION", "HISTORICAL_CANDIDATE_MIGRATION"}
CaseOutcomes == {"NO_REDISCOVERY", "REDISCOVERED_CANDIDATE_ONLY"}
LineageRow == [mode : CaseModes, manifest : DOMAIN Manifests,
               status : {"RUNNING", "COMPLETED_NO_REDISCOVERY", "REDISCOVERED_CANDIDATE_ONLY",
                         "CERTIFICATES_PENDING", "CERTIFICATES_CHECKED", "HISTORY_MIGRATED_CANDIDATE_ONLY"}]

ASSUME CaseInputs ==
    /\ \A m \in DOMAIN Manifests : Manifests[m].mode \in CaseModes /\ Manifests[m].inputs \subseteq SourceIds
    /\ NoCase \notin SourceRows /\ NoCase \notin LineageRow /\ NoCase \notin Stamps /\ NoCase \notin CaseOutcomes

CaseInit ==
    /\ sources = [s \in SourceIds |-> NoCase]
    /\ lineages = [l \in Lineages |-> NoCase]
    /\ outcomes = [l \in Lineages |-> NoCase] /\ verdicts = [l \in Lineages |-> NoCase]
    /\ candidates = [l \in Lineages |-> {}]
    /\ ingested = [s \in SourceIds |-> NoCase]
    /\ claimOf = [h \in HistoricalInputs |-> "NONE"]
    /\ caller = [c \in CaseCallers |-> Idle]

\* A row under the same id is kept; another binding is a conflict.
RegisterSource(s, row) ==
    /\ sources[s] = NoCase /\ sources' = [sources EXCEPT ![s] = row]
    /\ UNCHANGED <<lineages, outcomes, verdicts, candidates, ingested, claimOf, caller>>

-----------------------------------------------------------------------------
(* The two modes *)

ClassesFor(mode) == IF mode = "CLEAN_ROOM_REDISCOVERY" THEN CleanClasses ELSE {"CERTIFICATE"}

SourcesFit(m) ==
    /\ Manifests[m].inputs # {}
    /\ \A s \in Manifests[m].inputs :
         sources[s] # NoCase /\ sources[s].project = "ZHAO_C61"
                             /\ sources[s].class \in ClassesFor(Manifests[m].mode)

\* Unique columns of the lineage table.
RunAndRootAreFree(m) ==
    \A l \in Lineages : lineages[l] # NoCase
      => /\ Manifests[lineages[l].manifest].run # Manifests[m].run
         /\ Manifests[lineages[l].manifest].root # Manifests[m].root

\* Mutant: the content classes of the inputs are not looked at.
StartAnyClass(l, m) ==
    /\ Manifests[m].mode # "HISTORICAL_CANDIDATE_MIGRATION" /\ Manifests[m].inputs # {}
    /\ \A s \in Manifests[m].inputs : sources[s] # NoCase
    /\ lineages[l] = NoCase /\ RunAndRootAreFree(m)
    /\ lineages' = [lineages EXCEPT ![l] = [mode |-> Manifests[m].mode, manifest |-> m,
         status |-> IF Manifests[m].mode = "CLEAN_ROOM_REDISCOVERY" THEN "RUNNING" ELSE "CERTIFICATES_PENDING"]]
    /\ UNCHANGED <<sources, outcomes, verdicts, candidates, ingested, claimOf, caller>>

StartZhao(l, m) ==
    /\ Manifests[m].mode # "HISTORICAL_CANDIDATE_MIGRATION" /\ SourcesFit(m)
    /\ lineages[l] = NoCase /\ RunAndRootAreFree(m)
    /\ lineages' = [lineages EXCEPT ![l] = [mode |-> Manifests[m].mode, manifest |-> m,
         status |-> IF Manifests[m].mode = "CLEAN_ROOM_REDISCOVERY" THEN "RUNNING" ELSE "CERTIFICATES_PENDING"]]
    /\ UNCHANGED <<sources, outcomes, verdicts, candidates, ingested, claimOf, caller>>

\* The status is read first ...
BeginOutcome(c, l, outcome, hasResult) ==
    /\ caller[c] = Idle /\ lineages[l] # NoCase
    /\ lineages[l].mode = "CLEAN_ROOM_REDISCOVERY" /\ lineages[l].status = "RUNNING"
    /\ outcome = "REDISCOVERED_CANDIDATE_ONLY" => hasResult
    /\ caller' = [caller EXCEPT ![c] = [Idle EXCEPT !.at = "outcome", !.lineage = l, !.outcome = outcome]]
    /\ UNCHANGED <<sources, lineages, outcomes, verdicts, candidates, ingested, claimOf>>

StatusOf(outcome) ==
    IF outcome = "NO_REDISCOVERY" THEN "COMPLETED_NO_REDISCOVERY" ELSE "REDISCOVERED_CANDIDATE_ONLY"

\* Mutant: a second outcome replaces the first.
ReplaceOutcome(c) ==
    LET l == caller[c].lineage
    IN  /\ caller[c].at = "outcome" /\ caller' = [caller EXCEPT ![c] = Idle]
        /\ outcomes' = [outcomes EXCEPT ![l] = caller[c].outcome]
        /\ lineages' = IF lineages[l].status = "RUNNING"
                       THEN [lineages EXCEPT ![l].status = StatusOf(caller[c].outcome)] ELSE lineages
        /\ UNCHANGED <<sources, verdicts, candidates, ingested, claimOf>>

\* ... and the row's primary key settles who was first: the second caller changes nothing.
RecordOutcome(c) ==
    LET l == caller[c].lineage
    IN  /\ caller[c].at = "outcome" /\ caller' = [caller EXCEPT ![c] = Idle]
        /\ IF outcomes[l] = NoCase
           THEN /\ outcomes' = [outcomes EXCEPT ![l] = caller[c].outcome]
                /\ lineages' = IF lineages[l].status = "RUNNING"
                               THEN [lineages EXCEPT ![l].status = StatusOf(caller[c].outcome)] ELSE lineages
           ELSE UNCHANGED <<outcomes, lineages>>
        /\ UNCHANGED <<sources, verdicts, candidates, ingested, claimOf>>

\* One receipt per certificate, in order; the rows are keyed by lineage and certificate.
RecordCertificates(l, verdict) ==
    /\ lineages[l] # NoCase /\ lineages[l].status = "CERTIFICATES_PENDING"
    /\ DOMAIN verdict = Manifests[lineages[l].manifest].inputs
    /\ verdicts[l] = NoCase /\ verdicts' = [verdicts EXCEPT ![l] = verdict]
    /\ lineages' = [lineages EXCEPT ![l].status = "CERTIFICATES_CHECKED"]
    /\ UNCHANGED <<sources, outcomes, candidates, ingested, claimOf, caller>>

-----------------------------------------------------------------------------
(* The migration of historical notes *)

\* Contract, sources, candidates and manifest are checked before anything is written.
BeginMigration(c, l, m, stamp) ==
    /\ caller[c] = Idle /\ Manifests[m].mode = "HISTORICAL_CANDIDATE_MIGRATION"
    /\ Manifests[m].inputs # {} /\ Manifests[m].claims # {}
    /\ \A s \in Manifests[m].inputs : /\ sources[s] # NoCase /\ sources[s].project = "N2_AJT5"
                                      /\ sources[s].class \in HistoricalClasses
    /\ caller' = [caller EXCEPT ![c] = [Idle EXCEPT !.at = "materials", !.lineage = l,
                                                    !.manifest = m, !.stamp = stamp]]
    /\ UNCHANGED <<sources, lineages, outcomes, verdicts, candidates, ingested, claimOf>>

\* The material's row must equal the call, its creation time included.
IngestMaterial(c, s) ==
    /\ caller[c].at = "materials" /\ s \in Manifests[caller[c].manifest].inputs
    /\ ingested[s] = NoCase /\ ingested' = [ingested EXCEPT ![s] = caller[c].stamp]
    /\ UNCHANGED <<sources, lineages, outcomes, verdicts, candidates, claimOf, caller>>

MaterialsDone(c) ==
    /\ caller[c].at = "materials"
    /\ \A s \in Manifests[caller[c].manifest].inputs : ingested[s] = caller[c].stamp
    /\ caller' = [caller EXCEPT ![c].at = "claims"]
    /\ UNCHANGED <<sources, lineages, outcomes, verdicts, candidates, ingested, claimOf>>

\* A claim of the same attempt is returned; it must still be pending.
SubmitCandidate(c, h) ==
    /\ caller[c].at = "claims" /\ h \in Manifests[caller[c].manifest].claims
    /\ claimOf[h] = "NONE" /\ claimOf' = [claimOf EXCEPT ![h] = "PENDING_VERIFICATION"]
    /\ UNCHANGED <<sources, lineages, outcomes, verdicts, candidates, ingested, caller>>

CandidatesDone(c) ==
    /\ caller[c].at = "claims"
    /\ \A h \in Manifests[caller[c].manifest].claims : claimOf[h] = "PENDING_VERIFICATION"
    /\ caller' = [caller EXCEPT ![c].at = "lineage"]
    /\ UNCHANGED <<sources, lineages, outcomes, verdicts, candidates, ingested, claimOf>>

\* An existing row of the same identity is returned as it is.
RecordMigration(c) ==
    LET l == caller[c].lineage
        m == caller[c].manifest
    IN  /\ caller[c].at = "lineage" /\ caller' = [caller EXCEPT ![c] = Idle]
        /\ IF lineages[l] = NoCase /\ RunAndRootAreFree(m)
           THEN /\ lineages' = [lineages EXCEPT ![l] = [mode |-> "HISTORICAL_CANDIDATE_MIGRATION",
                                  manifest |-> m, status |-> "HISTORY_MIGRATED_CANDIDATE_ONLY"]]
                /\ candidates' = [candidates EXCEPT ![l] = Manifests[m].claims]
           ELSE UNCHANGED <<lineages, candidates>>
        /\ UNCHANGED <<sources, outcomes, verdicts, ingested, claimOf>>

\* The kernel decides a pending claim whenever it likes.
DecideCandidate(h, verdict) ==
    /\ claimOf[h] = "PENDING_VERIFICATION" /\ claimOf' = [claimOf EXCEPT ![h] = verdict]
    /\ UNCHANGED <<sources, lineages, outcomes, verdicts, candidates, ingested, caller>>

\* A refusal or the death of the process; what was committed stays.
CallerStops(c) ==
    /\ caller[c] # Idle /\ caller' = [caller EXCEPT ![c] = Idle]
    /\ UNCHANGED <<sources, lineages, outcomes, verdicts, candidates, ingested, claimOf>>

CaseNext ==
    \/ \E s \in SourceIds, row \in SourceRows : RegisterSource(s, row)
    \/ \E l \in Lineages, m \in DOMAIN Manifests :
         \/ StartZhao(l, m)
         \/ \E c \in CaseCallers, stamp \in Stamps : BeginMigration(c, l, m, stamp)
    \/ \E c \in CaseCallers, l \in Lineages, o \in CaseOutcomes, r \in BOOLEAN : BeginOutcome(c, l, o, r)
    \/ \E l \in Lineages, I \in SUBSET SourceIds : \E v \in [I -> {"ACCEPTED", "REJECTED"}] :
         RecordCertificates(l, v)
    \/ \E c \in CaseCallers : \/ RecordOutcome(c) \/ MaterialsDone(c) \/ CandidatesDone(c)
                              \/ RecordMigration(c) \/ CallerStops(c)
                              \/ \E s \in SourceIds : IngestMaterial(c, s)
                              \/ \E h \in HistoricalInputs : SubmitCandidate(c, h)
    \/ \E h \in HistoricalInputs, v \in {"VERIFIED", "REJECTED"} : DecideCandidate(h, v)

CaseSpec == CaseInit /\ [][CaseNext]_caseVars

-----------------------------------------------------------------------------

CaseTypeOK ==
    /\ sources \in [SourceIds -> SourceRows \cup {NoCase}]
    /\ \A l \in Lineages : lineages[l] = NoCase \/ lineages[l].manifest \in DOMAIN Manifests
    /\ ingested \in [SourceIds -> Stamps \cup {NoCase}]
    /\ claimOf \in [HistoricalInputs -> {"NONE", "PENDING_VERIFICATION", "VERIFIED", "REJECTED"}]
    /\ \A c \in CaseCallers : caller[c].at \in {"idle", "outcome", "materials", "claims", "lineage"}

\* A clean-room case never rests on a historical source or a certificate (start_zhao), and no run
\* serves two cases.  Whoever records first, the status of a case says what its rows say: the
\* outcome of a clean-room case, one verdict per imported certificate, and for a migrated case a
\* material for every source and a claim for every candidate it lists (migrate_n2_ajt5).
CasesRestOnTheirSources ==
    /\ CaseTypeOK
    /\ \A l \in Lineages : lineages[l] # NoCase =>
         LET m == Manifests[lineages[l].manifest]
             status == lineages[l].status
         IN  /\ lineages[l].mode = "CLEAN_ROOM_REDISCOVERY"
                  => \A s \in m.inputs : sources[s].class \in CleanClasses
             /\ \A k \in Lineages \ {l} : lineages[k] # NoCase => Manifests[lineages[k].manifest].run # m.run
             /\ outcomes[l] # NoCase => status = StatusOf(outcomes[l])
             /\ status = "CERTIFICATES_CHECKED" => DOMAIN verdicts[l] = m.inputs
             /\ status = "HISTORY_MIGRATED_CANDIDATE_ONLY"
                  => /\ candidates[l] = m.claims /\ \A h \in m.claims : claimOf[h] # "NONE"
                     /\ \A s \in m.inputs : ingested[s] # NoCase
=============================================================================
