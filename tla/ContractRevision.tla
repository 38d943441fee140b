-------------------------- MODULE ContractRevision --------------------------
(***************************************************************************)
(* The product's versioned contract of a run (contracts.py), the material  *)
(* anchors its fields rest on and its local revision                       *)
(* (contract_materials.py), with the AMEND_CONTRACT handler.  A revision   *)
(* withdraws what depends on the fields it changes through the ledger of   *)
(* AuthorityLedger before the new version becomes current.                 *)
(*                                                                         *)
(* A field's text is not kept: a revision is the set of fields it changes. *)
(***************************************************************************)
EXTENDS AuthorityLedger

CONSTANTS Fields, RefIds, RevPreviews, MaxVersions

VARIABLES versions,    \* version -> state
          ambiguous,   \* fields with an open ambiguity
          refs,        \* material references
          adding,      \* reference -> the version an add_reference under way read, or 0
          fieldDeps,   \* (version, field, object)
          revisions,   \* preview -> row
          amender,     \* preview -> the AMEND_CONTRACT handler that applies it
          earned       \* history: fields that had an accepted anchor when a version was confirmed

contractVars == <<versions, ambiguous, refs, adding, fieldDeps, revisions, amender, earned>>
contractAll == <<authorityVars, contractVars>>

Versions == 1..MaxVersions
Reference == [version : Versions, field : Fields, origin : RefIds,
              state : {"PROPOSED", "USER_ACCEPTED"}]
RevisionRow == [base : Versions, changed : SUBSET Fields, rev : Revisions,
                state : {"ACTIVE", "STALE", "APPLYING", "APPLIED"},
                affected : SUBSET Objects, kept : SUBSET Objects, duplicates : BOOLEAN]
ASSUME RevisionRows == MaxVersions \in Nat \ {0} /\ NoPreview \notin RevisionRow

IdleAmender == [pc |-> "idle", rev |-> 0]

RefsOf(v) == {r \in refs : r.version = v}
AnchoredFields(v) == {r.field : r \in {x \in RefsOf(v) : x.state = "USER_ACCEPTED"}}
CurrentState == versions[contractVersion]
HasContract == contractVersion > 0

-----------------------------------------------------------------------------
(* Drafting and confirming *)

CreateDraft(open) ==
    /\ ~HasContract
    /\ contractVersion' = 1
    /\ versions' = [versions EXCEPT ![1] = IF open # {} THEN "AMBIGUOUS" ELSE "DRAFT"]
    /\ ambiguous' = open
    /\ UNCHANGED <<refs, adding, fieldDeps, revisions, amender, earned>>
    /\ UNCHANGED <<kernelRev, revoked, recomputes, binding, consumes, ledger, mark,
                   materialized, revPreview, announced, recoveries, revoker>>

ResolveAmbiguity(f) ==
    /\ f \in ambiguous /\ ambiguous' = ambiguous \ {f}
    /\ versions' = IF ambiguous' = {} /\ versions[1] = "AMBIGUOUS"
                   THEN [versions EXCEPT ![1] = "DRAFT"] ELSE versions
    /\ UNCHANGED <<refs, adding, fieldDeps, revisions, amender, earned>>
    /\ UNCHANGED authorityVars

\* The current version is read before the write transaction of add_reference begins.
AddReferenceRead(x) ==
    /\ HasContract /\ adding[x] = 0 /\ CurrentState \in {"DRAFT", "AMBIGUOUS"}
    /\ \A r \in refs : r.origin # x
    /\ adding' = [adding EXCEPT ![x] = contractVersion]
    /\ UNCHANGED <<versions, ambiguous, refs, fieldDeps, revisions, amender, earned>>
    /\ UNCHANGED authorityVars

AddReference(x, f) ==
    /\ adding[x] # 0
    /\ refs' = refs \cup {[version |-> adding[x], field |-> f, origin |-> x,
                           state |-> "PROPOSED"]}
    /\ adding' = [adding EXCEPT ![x] = 0]
    /\ UNCHANGED <<versions, ambiguous, fieldDeps, revisions, amender, earned>>
    /\ UNCHANGED authorityVars

\* Accepted on whatever version it belongs to.
AcceptReference(r) ==
    /\ r \in refs /\ r.state = "PROPOSED"
    /\ refs' = (refs \ {r}) \cup {[r EXCEPT !.state = "USER_ACCEPTED"]}
    /\ UNCHANGED <<versions, ambiguous, adding, fieldDeps, revisions, amender, earned>>
    /\ UNCHANGED authorityVars

\* The fields that the applied revision which made this version had changed.
RevisedFields(v) ==
    UNION {revisions[p].changed : p \in {q \in RevPreviews :
               revisions[q] # NoPreview /\ revisions[q].state = "APPLIED"
               /\ revisions[q].base + 1 = v}}

\* Mutant: confirmation looks at the references there are, not at the fields that need one.
ConfirmWithoutAnchors ==
    /\ HasContract /\ CurrentState = "DRAFT" /\ ambiguous = {}
    /\ \A r \in RefsOf(contractVersion) : r.state = "USER_ACCEPTED"
    /\ versions' = [versions EXCEPT ![contractVersion] = "CONFIRMED"]
    /\ earned' = [earned EXCEPT ![contractVersion] = AnchoredFields(contractVersion)]
    /\ UNCHANGED <<ambiguous, refs, adding, fieldDeps, revisions, amender>>
    /\ UNCHANGED authorityVars

ConfirmContract ==
    /\ HasContract /\ CurrentState = "DRAFT" /\ ambiguous = {}
    /\ \A r \in RefsOf(contractVersion) : r.state = "USER_ACCEPTED"
    /\ RevisedFields(contractVersion) \subseteq AnchoredFields(contractVersion)
    /\ versions' = [versions EXCEPT ![contractVersion] = "CONFIRMED"]
    /\ earned' = [earned EXCEPT ![contractVersion] = AnchoredFields(contractVersion)]
    /\ UNCHANGED <<ambiguous, refs, adding, fieldDeps, revisions, amender>>
    /\ UNCHANGED authorityVars

RegisterFieldDependency(f, o) ==
    /\ HasContract /\ CurrentState = "CONFIRMED"
    /\ binding[o].state = "VALID" /\ binding[o].version = contractVersion
    /\ <<contractVersion, f, o>> \notin fieldDeps
    /\ fieldDeps' = fieldDeps \cup {<<contractVersion, f, o>>}
    /\ UNCHANGED <<versions, ambiguous, refs, adding, revisions, amender, earned>>
    /\ UNCHANGED authorityVars

-----------------------------------------------------------------------------
(* Revision *)

DependentsOn(v, fs) == {o \in Objects : \E f \in fs : <<v, f, o>> \in fieldDeps}

\* An object that depends on two changed fields is listed once per field, and the ledger
\* refuses an intent with duplicates.
ListedTwice(v, fs) ==
    \E o \in Objects, f, g \in fs : f # g /\ <<v, f, o>> \in fieldDeps /\ <<v, g, o>> \in fieldDeps

PreviewRevision(p, changed) ==
    /\ HasContract /\ CurrentState = "CONFIRMED" /\ revisions[p] = NoPreview
    /\ changed # {} /\ DependentsOn(contractVersion, changed) # {}
    /\ revisions' = [revisions EXCEPT ![p] =
           [base |-> contractVersion, changed |-> changed, state |-> "ACTIVE", rev |-> 0,
            affected |-> DependentsOn(contractVersion, changed),
            kept |-> DependentsOn(contractVersion, Fields) \ DependentsOn(contractVersion, changed),
            duplicates |-> ListedTwice(contractVersion, changed)]]
    /\ UNCHANGED <<versions, ambiguous, refs, adding, fieldDeps, amender, earned>>
    /\ UNCHANGED authorityVars

\* The handler has the kernel amend the contract before the preview is looked at.
KernelAmends(p) ==
    /\ amender[p].pc = "idle" /\ revisions[p] # NoPreview /\ kernelRev < MaxRevision
    /\ kernelRev' = kernelRev + 1
    /\ amender' = [amender EXCEPT ![p] = [pc |-> "apply", rev |-> kernelRev + 1]]
    /\ UNCHANGED <<versions, ambiguous, refs, adding, fieldDeps, revisions, earned>>
    /\ UNCHANGED <<revoked, recomputes, contractVersion, binding, consumes, ledger, mark,
                   materialized, revPreview, announced, recoveries, revoker>>

Fresh(p) == /\ revisions[p].state = "ACTIVE" /\ contractVersion = revisions[p].base
            /\ CurrentState = "CONFIRMED"

RevisionIsStale(p) ==
    /\ amender[p].pc = "apply" /\ ~Fresh(p)
    /\ revisions' = IF revisions[p].state = "ACTIVE"
                    THEN [revisions EXCEPT ![p].state = "STALE"] ELSE revisions
    /\ amender' = [amender EXCEPT ![p] = IdleAmender]
    /\ UNCHANGED <<versions, ambiguous, refs, adding, fieldDeps, earned>>
    /\ UNCHANGED authorityVars

\* The key of the version row lets one revision of a base version through.
PrepareRevision(p) ==
    /\ amender[p].pc = "apply" /\ Fresh(p) /\ revisions[p].base < MaxVersions
    /\ versions[revisions[p].base + 1] = "NONE"
    /\ versions' = [versions EXCEPT ![revisions[p].base + 1] = "PENDING_INVALIDATION"]
    /\ revisions' = [revisions EXCEPT ![p].state = "APPLYING", ![p].rev = amender[p].rev]
    /\ amender' = [amender EXCEPT ![p].pc = "consume"]
    /\ UNCHANGED <<ambiguous, refs, adding, fieldDeps, earned>>
    /\ UNCHANGED authorityVars

\* An exception, or a process that dies; resume_pending takes up what was prepared.
AmenderStops(p) ==
    /\ amender[p].pc # "idle" /\ amender' = [amender EXCEPT ![p] = IdleAmender]
    /\ UNCHANGED <<versions, ambiguous, refs, adding, fieldDeps, revisions, earned>>
    /\ UNCHANGED authorityVars

ResumePending(p) ==
    /\ amender[p].pc = "idle" /\ revisions[p] # NoPreview /\ revisions[p].state = "APPLYING"
    /\ amender' = [amender EXCEPT ![p] = [pc |-> "consume", rev |-> revisions[p].rev]]
    /\ UNCHANGED <<versions, ambiguous, refs, adding, fieldDeps, revisions, earned>>
    /\ UNCHANGED authorityVars

RevisionOf(p) == [rev |-> revisions[p].rev, affected |-> revisions[p].affected,
                  kept |-> revisions[p].kept]

RecordRevision(p) ==
    /\ amender[p].pc = "consume" /\ ~revisions[p].duplicates
    /\ \/ RecordedAlready(RevisionOf(p)) /\ UNCHANGED <<ledger, mark>>
       \/ /\ ~RecordedAlready(RevisionOf(p)) /\ Recordable(RevisionOf(p))
          /\ ledger' = LedgerWith(RevisionOf(p)) /\ mark' = MarkWith(RevisionOf(p))
    /\ amender' = [amender EXCEPT ![p].pc = "verify"]
    /\ UNCHANGED <<versions, ambiguous, refs, adding, fieldDeps, revisions, earned>>
    /\ UNCHANGED <<kernelRev, revoked, recomputes, contractVersion, binding, consumes,
                   materialized, revPreview, announced, recoveries, revoker>>

\* After the catch-up that follows the record, the bindings must show the revision and
\* nothing else of the version may have fallen.
VerifyRevision(p) ==
    /\ amender[p].pc = "verify" /\ mark.procSeq = Len(ledger)
    /\ \A o \in revisions[p].affected : binding[o].state = "INVALIDATED"
    /\ \A o \in revisions[p].kept : binding[o].state = "VALID"
    /\ amender' = [amender EXCEPT ![p].pc = "finalize"]
    /\ UNCHANGED <<versions, ambiguous, refs, adding, fieldDeps, revisions, earned>>
    /\ UNCHANGED authorityVars

\* References of fields the revision left alone move to the new version as they are.
CarriedOver(p) ==
    {[r EXCEPT !.version = revisions[p].base + 1] :
        r \in {x \in RefsOf(revisions[p].base) : x.field \notin revisions[p].changed}}

FinalizeRevision(p) ==
    /\ amender[p].pc = "finalize"
    /\ LET base == revisions[p].base IN
        /\ versions' = [versions EXCEPT ![base] = "SUPERSEDED", ![base + 1] = "DRAFT"]
        /\ contractVersion' = base + 1
    /\ refs' = refs \cup CarriedOver(p)
    /\ revisions' = [revisions EXCEPT ![p].state = "APPLIED"]
    /\ amender' = [amender EXCEPT ![p] = IdleAmender]
    /\ UNCHANGED <<ambiguous, adding, fieldDeps, earned>>
    /\ UNCHANGED <<kernelRev, revoked, recomputes, binding, consumes, ledger, mark,
                   materialized, revPreview, announced, recoveries, revoker>>

-----------------------------------------------------------------------------
ContractInit ==
    /\ AuthorityInit
    /\ versions = [v \in Versions |-> "NONE"] /\ ambiguous = {} /\ refs = {} /\ fieldDeps = {}
    /\ adding = [x \in RefIds |-> 0] /\ revisions = [p \in RevPreviews |-> NoPreview]
    /\ amender = [p \in RevPreviews |-> IdleAmender] /\ earned = [v \in Versions |-> {}]

ContractNext ==
    \/ /\ CatchUp \/ \E o \in Objects : RegisterBinding(o, kernelRev)
       /\ UNCHANGED contractVars
    \/ \E open \in SUBSET Fields : CreateDraft(open)
    \/ \E f \in Fields : ResolveAmbiguity(f)
    \/ \E x \in RefIds : AddReferenceRead(x) \/ \E f \in Fields : AddReference(x, f)
    \/ \E r \in refs : AcceptReference(r)
    \/ ConfirmContract
    \/ \E f \in Fields, o \in Objects : RegisterFieldDependency(f, o)
    \/ \E p \in RevPreviews :
          \/ \E changed \in SUBSET Fields : PreviewRevision(p, changed)
          \/ KernelAmends(p) \/ RevisionIsStale(p) \/ PrepareRevision(p) \/ AmenderStops(p)
          \/ ResumePending(p) \/ RecordRevision(p) \/ VerifyRevision(p) \/ FinalizeRevision(p)

\* A run's contract beside the withdrawals of its facts.
ContractSpec == ContractInit /\ [][ContractNext \/ (AuthorityNext /\ UNCHANGED contractVars)]_contractAll

ContractTypeOK ==
    /\ AuthorityTypeOK /\ contractVersion \in 0..MaxVersions
    /\ \A v \in Versions : versions[v] \in {"NONE", "AMBIGUOUS", "DRAFT", "CONFIRMED",
                                            "PENDING_INVALIDATION", "SUPERSEDED"}
    /\ refs \subseteq Reference /\ ambiguous \subseteq Fields
    /\ fieldDeps \subseteq Versions \X Fields \X Objects
    /\ \A p \in RevPreviews : amender[p].pc \in {"idle", "apply", "consume", "verify", "finalize"}

\* A revised contract is in force only after everything that the preview said would fall has
\* fallen and everything it said would stand still stood; every field it changed was
\* confirmed on an anchor of its own, and there is exactly one version in force, whatever
\* previews raced and wherever the handler died.
RevisionsAreEarned ==
    /\ ContractTypeOK
    /\ \A v \in Versions : versions[v] = "SUPERSEDED" <=> v < contractVersion
    /\ \A v \in Versions : v > contractVersion + 1 => versions[v] = "NONE"
    /\ \A p \in RevPreviews : revisions[p] # NoPreview /\ revisions[p].state = "APPLIED" =>
          /\ revisions[p].base < contractVersion
          /\ RevisionOf(p) \in Entries
          /\ \A o \in revisions[p].affected : binding[o].state = "INVALIDATED"
          /\ LET v == revisions[p].base + 1 IN
             versions[v] \in {"CONFIRMED", "SUPERSEDED"} => revisions[p].changed \subseteq earned[v]
    /\ \A p, q \in RevPreviews : p # q /\ revisions[p] # NoPreview /\ revisions[q] # NoPreview
          /\ revisions[p].base = revisions[q].base =>
          ~({revisions[p].state, revisions[q].state} \subseteq {"APPLYING", "APPLIED"})
=============================================================================
