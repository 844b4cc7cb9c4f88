------------------------- MODULE PackagingProperties -------------------------
(***************************************************************************)
(* What packaging promises of the archive and of the directory beside it,  *)
(* and what the design document claims.                                    *)
(***************************************************************************)
EXTENDS Packaging

\* The archive was written to its end.
Archived == Exists("submission.zip") /\ dir["submission.zip"] # Torn

Archive == dir["submission.zip"]

Entries == [sha256 : Texts, patch_id : Texts]

\* The directory holds known files only, the code files hold texts, and a run
\* has entries exactly while it is active (package.py:347-455).
TypeOK ==
  /\ DOMAIN dir \subseteq Paths
  /\ Sources \subseteq DOMAIN dir
  /\ \A p \in Sources : dir[p] \in Texts
  /\ memory \in [Sources -> Texts]
  /\ task \in Tasks
  /\ step \in 0 .. Len(WriteOrder)
  /\ gate \in {"none", "pending", "passed"}
  /\ (gate = "none") <=> (step = 0)
  /\ DOMAIN entries \subseteq Sources
  /\ \A p \in DOMAIN entries : entries[p] \in Entries

\* The archive agrees with the manifest.json inside it: the manifest lists every
\* other member, with the bytes that were archived (package.py:306-322, 437-443).
\* The files are written one by one, over several runs some of which died.
ArchiveMatchesItsManifest ==
  Archived =>
    /\ DOMAIN Archive["manifest.json"] = DOMAIN Archive \ {"manifest.json"}
    /\ \A p \in DOMAIN Archive["manifest.json"] : Archive["manifest.json"][p] = Archive[p]

\* Every source file in the archive has an entry of the archived code manifest,
\* with its hash, and the archived gate passed for the archived predictions,
\* whichever runs wrote them (package.py:399-443).
ArchiveIsCovered ==
  Archived =>
    /\ \A p \in Sources :
         /\ p \in DOMAIN Archive["code_manifest.json"]
         /\ Archive["code_manifest.json"][p].sha256 = Archive[p]
    /\ Archive["finalize_gate.json"].overall_ok
    /\ Archive[Archive["finalize_gate.json"].task] = "good"

\* Once an archive is complete, no later run replaces it, nor the gate, the
\* reports and the manifest it was made with: the provisional methodology of the
\* next run no longer has the hash the manifest lists (package.py:385-389, 781-784).
ArchiveIsFrozen ==
  [][Archived =>
       /\ Archived'
       /\ Archive' = Archive
       /\ \A p \in {"finalize_gate.json", "validation_report.json", "manifest.json"} :
            Exists(p) => Exists(p)' /\ dir'[p] = dir[p]]_vars

Contract ==
  INSTANCE ReleaseContract WITH released <- IF Archived THEN {Archive} ELSE {}

\* Packagings in any number, killed anywhere, amount to one release that appears
\* complete and stays: what is done in eleven writes looks like one step to
\* whoever takes a complete submission.zip (package.py:379-455).
ImplementsRelease == Contract!Spec

-----------------------------------------------------------------------------
\* dev_docs/2026-05-21-cozy-pde-v3-design.md:927: every final shared code file
\* can be traced; so every code file in the archive has an entry in its code
\* manifest.
EveryCodeFileIsTraced ==
  Archived =>
    DOMAIN Archive \cap CodePaths \subseteq DOMAIN Archive["code_manifest.json"]

\* The same document, line 928: the code manifest proves that LLM calls made the
\* code; so the patch an entry names is the one that made the archived text.
ManifestNamesTheAuthor ==
  Archived =>
    \A p \in DOMAIN Archive["code_manifest.json"] :
      Archive["code_manifest.json"][p].patch_id = Archive[p]

\* The same document, line 479: status shows the best artefact there is; so the
\* archive it reports as ready to submit is a whole one (status.py:29-34, 80-83).
ReadyArchiveIsWhole ==
  (ReadyToSubmit /\ ~Active) => Archived

=============================================================================
