------------------------------ MODULE Uploads -------------------------------
(***************************************************************************)
(* Browser uploads in chunks (artifact_upload.py): the upload row, the     *)
(* spool file beside it, and the content store a finished upload is        *)
(* committed to.  A write transaction excludes every other one, so a       *)
(* request is one step, but files are not part of the transaction: a       *)
(* process may die between a file and its row, and a commit is five steps. *)
(*                                                                         *)
(* Content is a sequence of bytes and stands for its own digest.           *)
(***************************************************************************)
EXTENDS Naturals, Sequences, SequencesExt, FiniteSets

CONSTANTS UploadIds,    \* uploads, each begun by a request of its own
          Committers,   \* threads that serve COMMIT_UPLOAD
          Bytes, MediaTypes,
          MaxBytes,     \* _max_upload_bytes
          NoUpload, NoSpool

ASSUME UploadAssumption == MaxBytes \in Nat /\ NoSpool \notin Seq(Bytes)

VARIABLES uploads,     \* rows of product_uploads
          spool,       \* spool files
          blobs,       \* contents in the content store
          artifacts,   \* rows of artifacts: [content, media]
          committer,   \* commits under way
          acked        \* history: the bytes the client was told are durable

uploadVars == <<uploads, spool, blobs, artifacts, committer, acked>>

Contents == BoundedSeq(Bytes, MaxBytes)
Chunks == Contents \ {<<>>}

UploadRow == [state : {"OPEN", "COMMITTING", "COMMITTED", "ABORTED"},
              media : MediaTypes, declared : Contents, received : 0..MaxBytes,
              artifact : SUBSET [content : Contents, media : MediaTypes]]

ASSUME NoUploadIsNoRow == NoUpload \notin UploadRow

NoCommit == [pc |-> "idle", id |-> NoUpload]

UploadKnown(u) == uploads[u] # NoUpload
UploadOf(u) == uploads[u]

-----------------------------------------------------------------------------
(* begin, append and abort *)

BeginUpload(u, media, declared) ==
    /\ ~UploadKnown(u) /\ spool[u] = NoSpool
    /\ uploads' = [uploads EXCEPT ![u] = [state |-> "OPEN", media |-> media, received |-> 0,
                                          declared |-> declared, artifact |-> {}]]
    /\ spool' = [spool EXCEPT ![u] = <<>>]
    /\ UNCHANGED <<blobs, artifacts, committer, acked>>

\* Bytes beyond the durable offset are the tail of a request that died.
TruncateUncommittedTail(u) == SubSeq(spool[u], 1, UploadOf(u).received)

\* A repeated begin of the same declaration only cleans the spool file.
RepeatBegin(u) ==
    /\ UploadKnown(u) /\ UploadOf(u).state \in {"OPEN", "COMMITTING"} /\ spool[u] # NoSpool
    /\ spool' = [spool EXCEPT ![u] = TruncateUncommittedTail(u)]
    /\ UNCHANGED <<uploads, blobs, artifacts, committer, acked>>

\* Mutant: the chunk goes to the end of the file, whatever a dead request left there.
AppendAtEnd(u, data, dies) ==
    /\ UploadKnown(u) /\ UploadOf(u).state = "OPEN" /\ spool[u] # NoSpool
    /\ UploadOf(u).received + Len(data) <= Len(UploadOf(u).declared)
    /\ spool' = [spool EXCEPT ![u] = @ \o data]
    /\ IF dies THEN UNCHANGED <<uploads, acked>>
       ELSE /\ uploads' = [uploads EXCEPT ![u].received = @ + Len(data)]
            /\ acked' = [acked EXCEPT ![u] = @ \o data]
    /\ UNCHANGED <<blobs, artifacts, committer>>

\* The file is written and synced before the row moves; `dies` is a death in between.
\* A chunk that is already durable is acknowledged again without a change.
AppendChunk(u, data, dies) ==
    /\ UploadKnown(u) /\ UploadOf(u).state = "OPEN" /\ spool[u] # NoSpool
    /\ Len(spool[u]) >= UploadOf(u).received
    /\ UploadOf(u).received + Len(data) <= Len(UploadOf(u).declared)
    /\ spool' = [spool EXCEPT ![u] = TruncateUncommittedTail(u) \o data]
    /\ IF dies THEN UNCHANGED <<uploads, acked>>
       ELSE /\ uploads' = [uploads EXCEPT ![u].received = @ + Len(data)]
            /\ acked' = [acked EXCEPT ![u] = @ \o data]
    /\ UNCHANGED <<blobs, artifacts, committer>>

AbortUpload(u) ==
    /\ UploadKnown(u) /\ UploadOf(u).state # "COMMITTED"
    /\ uploads' = [uploads EXCEPT ![u].state = "ABORTED"]
    /\ spool' = [spool EXCEPT ![u] = NoSpool]
    /\ UNCHANGED <<blobs, artifacts, committer, acked>>

-----------------------------------------------------------------------------
(* commit, by a thread c *)

CommitAt(c, pc) == committer[c].pc = pc
CommitGoto(c, pc) == committer' = [committer EXCEPT ![c].pc = pc]
UploadBy(c) == committer[c].id

FindBySha256(content) == {a \in artifacts : a.content = content}

ValidRef(a, u) == a.content = UploadOf(u).declared /\ a.media = UploadOf(u).media

PrepareCommit(c, u) ==
    /\ CommitAt(c, "idle") /\ UploadKnown(u) /\ UploadOf(u).state \in {"OPEN", "COMMITTING"}
    /\ UploadOf(u).received = Len(UploadOf(u).declared)
    /\ spool[u] # NoSpool /\ Len(spool[u]) >= UploadOf(u).received
    /\ spool' = [spool EXCEPT ![u] = TruncateUncommittedTail(u)]
    /\ uploads' = [uploads EXCEPT ![u].state = "COMMITTING"]
    /\ committer' = [committer EXCEPT ![c] = [pc |-> "prepared", id |-> u]]
    /\ UNCHANGED <<blobs, artifacts, acked>>

\* Content that is registered already is bound at once, unless its media type differs.
LookUpArtifact(c) ==
    LET found == FindBySha256(UploadOf(UploadBy(c)).declared) IN
    /\ CommitAt(c, "prepared")
    /\ CommitGoto(c, CASE found = {} -> "new"
                 [] found # {} /\ (\A a \in found : ValidRef(a, UploadBy(c))) -> "registered"
                 [] OTHER -> "idle")
    /\ UNCHANGED <<uploads, spool, blobs, artifacts, acked>>

\* The store copies the spool file and compares size and digest with the declaration.
SpoolMatches(u) == spool[u] = UploadOf(u).declared

CommitToStore(c) ==
    LET u == UploadBy(c) IN
    /\ CommitAt(c, "new")
    /\ IF SpoolMatches(u)
       THEN blobs' = blobs \cup {spool[u]} /\ CommitGoto(c, "stored")
       ELSE CommitGoto(c, "idle") /\ UNCHANGED blobs
    /\ UNCHANGED <<uploads, spool, artifacts, acked>>

\* INSERT OR IGNORE by digest; a row of another media type is a conflict.
RegisterArtifact(c) ==
    LET u == UploadBy(c)
        found == FindBySha256(UploadOf(u).declared)
    IN /\ CommitAt(c, "stored")
       /\ artifacts' = IF found = {}
                       THEN artifacts \cup {[content |-> UploadOf(u).declared, media |-> UploadOf(u).media]}
                       ELSE artifacts
       /\ CommitGoto(c, IF \A a \in found : ValidRef(a, u) THEN "registered" ELSE "idle")
       /\ UNCHANGED <<uploads, spool, blobs, acked>>

BindCommitted(c) ==
    LET u == UploadBy(c) IN
    /\ CommitAt(c, "registered")
    /\ IF UploadOf(u).state = "COMMITTING"
       THEN /\ uploads' = [uploads EXCEPT ![u].state = "COMMITTED",
                                          ![u].artifact = FindBySha256(UploadOf(u).declared)]
            /\ CommitGoto(c, "bound")
       ELSE CommitGoto(c, "idle") /\ UNCHANGED uploads
    /\ UNCHANGED <<spool, blobs, artifacts, acked>>

RemoveSpool(c) ==
    /\ CommitAt(c, "bound")
    /\ spool' = [spool EXCEPT ![UploadBy(c)] = NoSpool]
    /\ CommitGoto(c, "idle")
    /\ UNCHANGED <<uploads, blobs, artifacts, acked>>

CommitterDies(c) ==
    /\ ~CommitAt(c, "idle")
    /\ CommitGoto(c, "idle")
    /\ UNCHANGED <<uploads, spool, blobs, artifacts, acked>>

-----------------------------------------------------------------------------

UploadInit ==
    /\ uploads = [u \in UploadIds |-> NoUpload]
    /\ spool = [u \in UploadIds |-> NoSpool]
    /\ blobs = {} /\ artifacts = {}
    /\ committer = [c \in Committers |-> NoCommit]
    /\ acked = [u \in UploadIds |-> <<>>]

UploadNext ==
    \/ \E u \in UploadIds :
        \/ \E media \in MediaTypes, declared \in Contents : BeginUpload(u, media, declared)
        \/ RepeatBegin(u)
        \/ \E data \in Chunks, dies \in BOOLEAN : AppendChunk(u, data, dies)
        \/ AbortUpload(u)
        \/ \E c \in Committers : PrepareCommit(c, u)
    \/ \E c \in Committers :
        \/ LookUpArtifact(c) \/ CommitToStore(c) \/ RegisterArtifact(c)
        \/ BindCommitted(c) \/ RemoveSpool(c) \/ CommitterDies(c)

UploadSpec == UploadInit /\ [][UploadNext]_uploadVars

-----------------------------------------------------------------------------
(* Properties *)

UploadTypeOK ==
    /\ uploads \in [UploadIds -> UploadRow \cup {NoUpload}]
    /\ \A u \in UploadIds : spool[u] # NoSpool => spool[u] \in Seq(Bytes)
    /\ blobs \subseteq Contents
    /\ artifacts \subseteq [content : Contents, media : MediaTypes]
    /\ \A c \in Committers : committer[c].pc \in {"idle", "prepared", "new", "stored",
                                                  "registered", "bound"}

\* What the client was told is durable is durable, and no more: until an upload is bound
\* or aborted its spool file begins with exactly the acknowledged bytes, whatever requests
\* died over it.  What it was told is committed is committed: an upload that is COMMITTED
\* names an artifact with the declared content and type whose bytes are in the store, and
\* no content has two artifacts.
UploadsAreDurable ==
    /\ UploadTypeOK
    /\ \A u \in UploadIds : UploadKnown(u) =>
        /\ UploadOf(u).state \in {"OPEN", "COMMITTING"} =>
               /\ UploadOf(u).received = Len(acked[u])
               /\ spool[u] # NoSpool /\ IsPrefix(acked[u], spool[u])
        /\ UploadOf(u).state = "COMMITTED" =>
               /\ Cardinality(UploadOf(u).artifact) = 1
               /\ \A a \in UploadOf(u).artifact : ValidRef(a, u) /\ a \in artifacts
    /\ \A a, b \in artifacts : a.content = b.content => a = b
    /\ \A a \in artifacts : a.content \in blobs

=============================================================================
