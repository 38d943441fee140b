----------------------------- MODULE Materials ------------------------------
(***************************************************************************)
(* Uploaded material and what was read from it (materials.py), and the     *)
(* recorded answers of literature connectors (source_snapshots.py).  An    *)
(* extraction is written in two transactions, its row and then its         *)
(* anchors; a snapshot binds the attempt of a tool run that was current    *)
(* before the connector was asked.                                         *)
(*                                                                         *)
(* A text stands for its layout, its formulas and its digest.  The request *)
(* time is part of an extraction row: Workers tells requests apart.        *)
(***************************************************************************)
EXTENDS Naturals, FiniteSets

CONSTANTS Sources,        \* ingested material
          MaterialTexts,
          ReadAs,         \* source -> the text the parser makes of it, NoMaterial if it fails
          Unavailable,    \* sources whose profile is not available
          ExtractionIds, MaterialWorkers, SnapshotIds,
          MaxToolAttempt, NoMaterial

ASSUME ParserReads == ReadAs \in [Sources -> MaterialTexts \cup {NoMaterial}]

ASSUME ToolRunHasAttempt == MaxToolAttempt \in Nat \ {0}

\* Rows of material_extractions and of source_snapshots.
ExtractionRow ==
    [source : Sources, mode : {"MACHINE", "HUMAN_REVISION"},
     from : ExtractionIds \cup {NoMaterial}, by : MaterialWorkers, attempt : 0 .. MaxToolAttempt,
     status : {"SUCCEEDED", "FAILED", "PROFILE_UNAVAILABLE"}, text : MaterialTexts \cup {NoMaterial}]
AnswerRow ==
    [mode : {"LIVE_QUERY", "REPLAYED_SNAPSHOT"}, parent : SnapshotIds \cup {NoMaterial},
     raw : MaterialTexts, attempt : 1 .. MaxToolAttempt, by : MaterialWorkers]

ASSUME NoMaterialIsNoRow == NoMaterial \notin ExtractionRow /\ NoMaterial \notin AnswerRow

VARIABLES material, extraction, anchors, reader, toolAttempt, answers, asker

materialVars == <<material, extraction, anchors, reader, toolAttempt, answers, asker>>

IdleReader == [pc |-> "idle", id |-> NoMaterial, row |-> NoMaterial]
IdleAsker == [pc |-> "idle", id |-> NoMaterial, row |-> NoMaterial]

Extracted(e) == extraction[e] # NoMaterial
Readable(e) == Extracted(e) /\ extraction[e].status = "SUCCEEDED"

Ingest(s) ==
    /\ s \notin material /\ material' = material \cup {s}
    /\ UNCHANGED <<extraction, anchors, reader, toolAttempt, answers, asker>>

\* What a machine extraction will store.
MachineRow(w, s) ==
    [source |-> s, mode |-> "MACHINE", from |-> NoMaterial, by |-> w, attempt |-> toolAttempt,
     status |-> IF s \in Unavailable THEN "PROFILE_UNAVAILABLE"
                ELSE IF ReadAs[s] = NoMaterial THEN "FAILED" ELSE "SUCCEEDED",
     text |-> IF s \in Unavailable THEN NoMaterial ELSE ReadAs[s]]

\* A repeated extract of a stored row returns it as it is.
BeginExtract(w, e, s) ==
    /\ reader[w].pc = "idle" /\ ~Extracted(e) /\ s \in material
    /\ reader' = [reader EXCEPT ![w] = [pc |-> "insert", id |-> e, row |-> MachineRow(w, s)]]
    /\ UNCHANGED <<material, extraction, anchors, toolAttempt, answers, asker>>

BeginRevise(w, e, old, text) ==
    /\ reader[w].pc = "idle" /\ ~Extracted(e) /\ Readable(old) /\ text # extraction[old].text
    /\ reader' = [reader EXCEPT ![w] = [pc |-> "insert", id |-> e,
           row |-> [source |-> extraction[old].source, mode |-> "HUMAN_REVISION", from |-> old,
                    by |-> w, attempt |-> 0, status |-> "SUCCEEDED", text |-> text]]]
    /\ UNCHANGED <<material, extraction, anchors, toolAttempt, answers, asker>>

\* Mutant: a row that is there is taken for one's own.
InsertUnchecked(w) ==
    /\ reader[w].pc = "insert"
    /\ LET e == reader[w].id IN
       extraction' = IF Extracted(e) THEN extraction
                     ELSE [extraction EXCEPT ![e] = reader[w].row]
    /\ reader' = [reader EXCEPT ![w] =
           IF reader[w].row.status = "SUCCEEDED" THEN [@ EXCEPT !.pc = "anchors"] ELSE IdleReader]
    /\ UNCHANGED <<material, anchors, toolAttempt, answers, asker>>

\* A row of another request is a conflict, found inside the transaction.
InsertExtraction(w) ==
    /\ reader[w].pc = "insert" /\ ~Extracted(reader[w].id)
    /\ extraction' = [extraction EXCEPT ![reader[w].id] = reader[w].row]
    /\ reader' = [reader EXCEPT ![w] =
           IF reader[w].row.status = "SUCCEEDED" THEN [@ EXCEPT !.pc = "anchors"] ELSE IdleReader]
    /\ UNCHANGED <<material, anchors, toolAttempt, answers, asker>>

InsertAnchors(w) ==
    /\ reader[w].pc = "anchors"
    /\ anchors' = anchors \cup {<<reader[w].id, reader[w].row.text>>}
    /\ reader' = [reader EXCEPT ![w] = IdleReader]
    /\ UNCHANGED <<material, extraction, toolAttempt, answers, asker>>

\* A conflict, or the death of the process: the row may be left without its anchors.
ReaderStops(w) ==
    /\ reader[w].pc # "idle" /\ reader' = [reader EXCEPT ![w] = IdleReader]
    /\ UNCHANGED <<material, extraction, anchors, toolAttempt, answers, asker>>

-----------------------------------------------------------------------------
(* Snapshots of connector answers *)

Rerun == /\ toolAttempt < MaxToolAttempt /\ toolAttempt' = toolAttempt + 1
         /\ UNCHANGED <<material, extraction, anchors, reader, answers, asker>>

\* _require_attempt comes before the network call.
CaptureLive(w, n) ==
    /\ asker[w].pc = "idle"
    /\ \E raw \in MaterialTexts :
        asker' = [asker EXCEPT ![w] = [pc |-> "insert", id |-> n,
                     row |-> [mode |-> "LIVE_QUERY", parent |-> NoMaterial, raw |-> raw,
                              attempt |-> toolAttempt, by |-> w]]]
    /\ UNCHANGED <<material, extraction, anchors, reader, toolAttempt, answers>>

\* Replay reads the stored bytes and asks nobody.
Replay(w, old, n) ==
    /\ asker[w].pc = "idle" /\ answers[old] # NoMaterial
    /\ asker' = [asker EXCEPT ![w] = [pc |-> "insert", id |-> n,
                     row |-> [mode |-> "REPLAYED_SNAPSHOT", parent |-> old,
                              raw |-> answers[old].raw, attempt |-> toolAttempt, by |-> w]]]
    /\ UNCHANGED <<material, extraction, anchors, reader, toolAttempt, answers>>

InsertSnapshot(w) ==
    /\ asker[w].pc = "insert"
    /\ answers' = IF answers[asker[w].id] = NoMaterial
                  THEN [answers EXCEPT ![asker[w].id] = asker[w].row] ELSE answers
    /\ asker' = [asker EXCEPT ![w] = IdleAsker]
    /\ UNCHANGED <<material, extraction, anchors, reader, toolAttempt>>

-----------------------------------------------------------------------------
MaterialInit ==
    /\ material = {} /\ anchors = {} /\ toolAttempt = 1
    /\ extraction = [e \in ExtractionIds |-> NoMaterial]
    /\ answers = [n \in SnapshotIds |-> NoMaterial]
    /\ reader = [w \in MaterialWorkers |-> IdleReader]
    /\ asker = [w \in MaterialWorkers |-> IdleAsker]

\* Reading and asking share no table but the tool run's.
MaterialNext ==
    \/ \E s \in Sources : Ingest(s)
    \/ \E w \in MaterialWorkers :
          \/ \E e \in ExtractionIds :
                \/ \E s \in Sources : BeginExtract(w, e, s)
                \/ \E old \in ExtractionIds, t \in MaterialTexts : BeginRevise(w, e, old, t)
          \/ InsertExtraction(w) \/ InsertAnchors(w) \/ ReaderStops(w)
    \/ Rerun

SnapshotNext ==
    \/ \E w \in MaterialWorkers :
          \/ \E n \in SnapshotIds : CaptureLive(w, n) \/ \E old \in SnapshotIds : Replay(w, old, n)
          \/ InsertSnapshot(w)
    \/ Rerun

MaterialSpec == MaterialInit /\ [][MaterialNext \/ SnapshotNext]_materialVars

MaterialTypeOK ==
    /\ material \subseteq Sources /\ anchors \subseteq ExtractionIds \X MaterialTexts
    /\ \A e \in ExtractionIds : Extracted(e) =>
          extraction[e].status \in {"SUCCEEDED", "FAILED", "PROFILE_UNAVAILABLE"}
    /\ toolAttempt \in 1..MaxToolAttempt
    /\ \A w \in MaterialWorkers : reader[w].pc \in {"idle", "insert", "anchors"}
                                  /\ asker[w].pc \in {"idle", "insert"}

\* An anchor quotes the text of the extraction it belongs to and an extraction is anchored in
\* one text, also when two requests race for its id; a revision differs from what it corrects
\* and is of the same source; a replayed answer is the recorded one, byte for byte.
AnchorsQuoteTheirText ==
    /\ MaterialTypeOK
    /\ \A a \in anchors : Readable(a[1]) /\ extraction[a[1]].text = a[2]
    /\ \A e \in ExtractionIds : Extracted(e) /\ extraction[e].mode = "HUMAN_REVISION" =>
          LET old == extraction[e].from IN
          Readable(old) /\ old # e /\ extraction[old].source = extraction[e].source
          /\ extraction[old].text # extraction[e].text
    /\ \A n \in SnapshotIds : answers[n] # NoMaterial /\ answers[n].mode = "REPLAYED_SNAPSHOT" =>
          answers[answers[n].parent] # NoMaterial
          /\ answers[answers[n].parent].raw = answers[n].raw
=============================================================================
