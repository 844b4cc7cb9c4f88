------------------------------- MODULE CodeUnion -------------------------------
(***************************************************************************)
(* The lineage of the shared code that packaging puts into its reports and *)
(* status reads: the rows of the two tables of the memory store, joined by *)
(* version (cozy_pde_v3/package.py and validation/provenance.py).          *)
(***************************************************************************)
EXTENDS CodeEvolution

SnapshotRecord(s) ==
  [version |-> s.version, parent |-> s.parent, validated_tasks |-> s.tasks,
   changed_files |-> {}, llm_call_ids |-> {}]

\* snapshots_by_version: of several rows for one version the last one counts.
SupportedBy(snapshots, version) ==
  LET i == SelectLastInSeq(snapshots, LAMBDA s : s.version = version)
  IN IF i = 0 THEN {} ELSE snapshots[i].tasks

\* The code first looks for tasks under a key, validated_tasks, that the loop
\* does not write.
PatchRecord(p, snapshots) ==
  [version |-> p.new, parent |-> p.base,
   validated_tasks |-> SupportedBy(snapshots, p.new),
   changed_files |-> {p.file}, llm_call_ids |-> {p.call_id}]

\* build_shared_code_union_for_workspace: the snapshots, then the patches.
UnionRecords(snapshots, patches) ==
  [i \in DOMAIN snapshots |-> SnapshotRecord(snapshots[i])]
    \o [k \in DOMAIN patches |-> PatchRecord(patches[k], snapshots)]

\* Faulty: the first record that names a parent counts.
FirstParent(records, version) ==
  LET i == SelectInSeq(records, LAMBDA r : r.version = version /\ r.parent # NoVersion)
  IN IF i = 0 THEN NoVersion ELSE records[i].parent

\* A record that names a parent replaces the parent named before.
UnionParent(records, version) ==
  LET i == SelectLastInSeq(records, LAMBDA r : r.version = version /\ r.parent # NoVersion)
  IN IF i = 0 THEN NoVersion ELSE records[i].parent

\* build_shared_code_union
SharedCodeUnion(records) ==
  [v \in {r.version : r \in ToSet(records)} |->
     LET rows == {r \in ToSet(records) : r.version = v}
     IN [parent          |-> UnionParent(records, v),
         validated_tasks |-> UNION {r.validated_tasks : r \in rows},
         changed_files   |-> UNION {r.changed_files : r \in rows},
         llm_call_ids    |-> UNION {r.llm_call_ids : r \in rows}]]

=============================================================================
