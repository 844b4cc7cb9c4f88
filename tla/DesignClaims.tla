----------------------------- MODULE DesignClaims -----------------------------
(***************************************************************************)
(* What dev_docs/2026-05-21-cozy-pde-v3-design.md and the tests say of the *)
(* version history, where the code does something else.                    *)
(***************************************************************************)
EXTENDS MCFormalSession, IncrementalGate

\* Design, 10.5: a change of the shared code has a parent version. Only the
\* first version of a workspace has none.
EveryVersionHasParent ==
  \A i \in DOMAIN code_snapshots : i > 1 => code_snapshots[i].parent # NoVersion

\* Design, 10.5: every change of submission/code is recorded. A session that
\* reports success leaves a directory whose content is on record.
SuccessLeavesRecordedCode ==
  result = "ok" =>
    /\ code_snapshots # <<>>
    /\ Last(code_snapshots).version.content = code

\* Design, 12: when the shared code is changed, the compatibility checks of
\* the tasks supported so far run first. A version whose content differs from
\* the previous one, which supported another task, has a patch that passed.
ChangesAreCheckedFirst ==
  \A i \in DOMAIN code_snapshots : i > 1 =>
    LET before == code_snapshots[i - 1]
        after  == code_snapshots[i]
    IN after.version.content = before.version.content
       \/ before.tasks \subseteq {after.version.api}
       \/ \E k \in DOMAIN code_patch_records :
            /\ code_patch_records[k].new = after.version
            /\ before.tasks \ {after.version.api}
                 \subseteq code_patch_records[k].validation.validated_against_tasks

Present == {f \in Files : code[f] # Absent}

StoredFailures(tasks) ==
  IncrementalFailures(code_snapshots, code_patch_records, Present, tasks)

\* Design, 12.1: task 2 reads v1 and makes v2 of it. A history that is one
\* chain of accepted patches keeps the API contract of the earlier task.
AcceptedChainKeepsContract ==
  EveryVersionHasParent =>
    "breaks earlier API contract" \notin StoredFailures(Tasks)

\* The tests seed the rows of accepted patches with the compatibility of every
\* supported task: a session that succeeds has left rows the gate confirms.
SuccessConfirmsCompatibility ==
  result = "ok" =>
    "missing supported-task compatibility" \notin StoredFailures({task})

\* The gate passes no history the loop can write while there is code to submit:
\* a baseline leaves its files without a patch, and a patch carries its verdict
\* under a key the gate does not read. So package_submission, called from the
\* loop, always fails before it rewrites code_manifest.json, which is why
\* RunTool leaves the manifest alone.
NothingPassesTheGate ==
  Present # {} => \A t \in Tasks : StoredFailures({t}) # {}

=============================================================================
