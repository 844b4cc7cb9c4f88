---------------------------- MODULE IncrementalGate ----------------------------
(***************************************************************************)
(* cozy_pde_v3/validation/submission.py, _validate_incremental_patch_records: *)
(* the part of the final gate that reads the version history back from the *)
(* memory store. It is a function of the two tables, the paths now under   *)
(* submission/code and the tasks being submitted; it returns its failures. *)
(***************************************************************************)
EXTENDS CodeEvolution

GateFailures ==
  {"code snapshots missing", "task coverage", "missing parent_version",
   "breaks earlier API contract", "missing patch record",
   "missing supported-task compatibility", "missing changed_file coverage"}

\* previous_hash_by_task keeps the first hash of each task.
BreaksContract(snapshots) ==
  \E i, j \in DOMAIN snapshots :
    /\ i < j
    /\ snapshots[i].tasks \cap snapshots[j].tasks # {}
    /\ snapshots[i].version.api # snapshots[j].version.api

\* patch_by_new_version: of several rows for one version the last one counts.
PatchOf(patches, version) ==
  LET rows == {k \in DOMAIN patches : patches[k].new = version}
  IN IF rows = {} THEN {}
     ELSE {patches[CHOOSE k \in rows : \A l \in rows : l <= k]}

\* Faulty: the key the loop does write.
ConfirmsTasksAsStored(patch, tasks) ==
  \A t \in tasks :
    /\ t \in DOMAIN patch.validation.compatibility
    /\ patch.validation.compatibility[t]

\* The validator looks for a key "task_compatibility" with a verdict for every
\* submitted task.
ConfirmsTasks(patch, tasks) ==
  /\ "task_compatibility" \in DOMAIN patch.validation
  /\ \A t \in tasks :
       /\ t \in DOMAIN patch.validation.task_compatibility
       /\ patch.validation.task_compatibility[t]

FailureHolds(failure, snapshots, patches, paths, tasks) ==
  LET later == 2..Len(snapshots)
      used  == UNION {PatchOf(patches, snapshots[i].version) : i \in later}
  IN IF snapshots = <<>> THEN failure = "code snapshots missing" ELSE
     CASE failure = "code snapshots missing" -> FALSE
       [] failure = "task coverage" -> ~(tasks \subseteq Last(snapshots).tasks)
       [] failure = "missing parent_version" ->
            \E i \in later : snapshots[i].parent = NoVersion
       [] failure = "breaks earlier API contract" -> BreaksContract(snapshots)
       [] failure = "missing patch record" ->
            \E i \in later : PatchOf(patches, snapshots[i].version) = {}
       [] failure = "missing supported-task compatibility" ->
            \E p \in used : ~ConfirmsTasks(p, tasks)
       [] failure = "missing changed_file coverage" ->
            ~(paths \subseteq {p.file : p \in used})

IncrementalFailures(snapshots, patches, paths, tasks) ==
  {f \in GateFailures : FailureHolds(f, snapshots, patches, paths, tasks)}

=============================================================================
