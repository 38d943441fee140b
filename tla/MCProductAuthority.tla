------------------------- MODULE MCProductAuthority -------------------------
(* What a research may rest on, one part at a time: `focus' names the part  *)
(* that moves, the others stay at their first state.  Two parts of one      *)
(* component are worked on separately where they share no row.              *)
EXTENDS ContractRevision, Uploads, Materials, Controller, ClaimWorkflow, Ablation, TLC

CONSTANTS f1, f2, s1, s2, s3, t1, k1, k2, v1, v2, x1, e1, e2

\* The second fact rests on the first.
FallsWith == f1 :> {f1, f2} @@ f2 :> {f2}

\* A source that parses, one that does not and one without a parser.
Parsed == s1 :> t1 @@ s2 :> NoMaterial @@ s3 :> t1

\* The second candidate of the draft names the first.
Labels == k1 :> {} @@ k2 :> {k1}

VARIABLE focus
vars == <<contractAll, uploadVars, materialVars, controllerVars, claimVars, ablationVars, focus>>

Init ==
    /\ focus \in {"authority", "contract", "references", "uploads", "extraction", "snapshots",
                  "controller", "worker claims", "draft claims", "evidence", "ablation"}
    /\ ContractInit /\ UploadInit /\ MaterialInit /\ ControllerInit /\ ClaimInit /\ AblationInit
    /\ focus # "authority" => recomputes = "now"

MoveAuthority ==
    /\ focus = "authority"
    /\ \/ AuthorityNext /\ UNCHANGED contractVars
       \/ CreateDraft({})
    /\ UNCHANGED <<uploadVars, materialVars, controllerVars, claimVars, ablationVars, focus>>
\* Two revisions side by side, then one beside references that are added.
MoveContract ==
    /\ \/ focus = "contract" /\ ContractNext /\ UNCHANGED adding
       \/ focus = "references" /\ ContractNext /\ revisions'[v2] = NoPreview
    /\ UNCHANGED <<uploadVars, materialVars, controllerVars, claimVars, ablationVars, focus>>
MoveUploads == focus = "uploads" /\ UploadNext
    /\ UNCHANGED <<contractAll, materialVars, controllerVars, claimVars, ablationVars, focus>>
MoveExtraction == focus = "extraction" /\ MaterialNext
    /\ UNCHANGED <<contractAll, uploadVars, controllerVars, claimVars, ablationVars, focus>>
MoveSnapshots == focus = "snapshots" /\ SnapshotNext
    /\ UNCHANGED <<contractAll, uploadVars, controllerVars, claimVars, ablationVars, focus>>
MoveController == focus = "controller" /\ ControllerNext
    /\ UNCHANGED <<contractAll, uploadVars, materialVars, claimVars, ablationVars, focus>>
MoveWorkerClaims == focus = "worker claims" /\ WorkerNext
    /\ UNCHANGED <<contractAll, uploadVars, materialVars, controllerVars, ablationVars, focus>>
\* Both candidates with one recorder of evidence, then one of them with two.
MoveDraftClaims ==
    /\ \/ focus = "draft claims" /\ DraftNext /\ recorders'[e2] = NoClaim
       \/ focus = "evidence" /\ DraftNext /\ plans'[k2] = NoClaim
    /\ UNCHANGED <<contractAll, uploadVars, materialVars, controllerVars, ablationVars, focus>>
MoveAblation == focus = "ablation" /\ AblationNext
    /\ UNCHANGED <<contractAll, uploadVars, materialVars, controllerVars, claimVars, focus>>

Next == \/ MoveAuthority \/ MoveContract \/ MoveUploads \/ MoveExtraction \/ MoveSnapshots
        \/ MoveController \/ MoveWorkerClaims \/ MoveDraftClaims \/ MoveAblation

Spec == Init /\ [][Next]_vars
=============================================================================
