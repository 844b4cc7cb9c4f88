----------------------- MODULE FormalSessionProperties -----------------------
(***************************************************************************)
(* What the formal loop promises about the records it leaves behind.       *)
(***************************************************************************)
EXTENDS FormalSession, CodeUnion

Pcs == {"idle", "loop", "reply", "execute", "gate", "snapshot", "manifest", "record"}

Rows == [phase : Phases, outcome : Outcomes]

\* Every variable has the type the code gives it.
TypeOK ==
  /\ code \in Dirs
  /\ code_snapshots \in Seq(Snapshots)
  /\ code_patch_records \in Seq(PatchRecords)
  /\ code_manifest \in [Files -> ManifestEntries \cup {NoEntry}]
  /\ llm_log \subseteq Nat \X Nat
  /\ decision_records \in Seq(Rows)
  /\ pc \in Pcs
  /\ task \in Tasks
  /\ provider_ready \in BOOLEAN
  /\ has_client \in BOOLEAN
  /\ current_phase \in Phases \cup {"capability_check"}
  /\ preflight_complete \in BOOLEAN
  /\ shared_code_version \in Versions \cup {NoVersion}
  /\ supported_tasks \subseteq Tasks
  /\ latest_error_type \in Errors
  /\ iteration \in Nat
  /\ llm_steps \in Nat
  /\ pending_items \in {"none", "notice", "output"}
  /\ manifest_by_path \in [Files -> ManifestEntries \cup {NoEntry}]
  /\ call \in Calls \cup {NoCall}
  /\ backup \in Texts \cup {Absent}
  /\ outcome \in Outcomes
  /\ sessions \in Nat
  /\ result \in Results
  /\ tracked \in BOOLEAN

-----------------------------------------------------------------------------
(* The version history in the memory store.                                *)

Running == pc # "idle"

\* A running session that has a version always works from the newest snapshot,
\* and plans with the tasks that snapshot supports: no session continues an
\* older version, whatever was killed or patched before it.
WorksFromNewest ==
  Running /\ shared_code_version # NoVersion =>
    /\ code_snapshots # <<>>
    /\ shared_code_version = Last(code_snapshots).version
    /\ supported_tasks = Last(code_snapshots).tasks

PatchFor(base, new) ==
  {i \in DOMAIN code_patch_records :
     code_patch_records[i].base = base /\ code_patch_records[i].new = new}

\* A snapshot that names a parent follows exactly that parent in the table and
\* has its patch record, even when the process was killed between the inserts.
LineageIsLogged ==
  \A i \in DOMAIN code_snapshots :
    code_snapshots[i].parent # NoVersion =>
      /\ i > 1
      /\ code_snapshots[i].parent = code_snapshots[i - 1].version
      /\ PatchFor(code_snapshots[i].parent, code_snapshots[i].version) # {}

\* No later version drops a task that an earlier one supports, across sessions
\* for other tasks and across directories that changed behind the store's back.
SupportNeverShrinks ==
  \A i, j \in DOMAIN code_snapshots :
    i < j => code_snapshots[i].tasks \subseteq code_snapshots[j].tasks

\* A patch made while its base supported other tasks was checked against every
\* one of them: the gate saw the tasks of the base version, not a stale list.
PatchCheckedAgainstBase ==
  \A i \in DOMAIN code_snapshots :
    LET snapshot == code_snapshots[i]
    IN snapshot.parent # NoVersion =>
         \E p \in PatchFor(snapshot.parent, snapshot.version) :
           code_patch_records[p].validation.validated_against_tasks =
             code_snapshots[i - 1].tasks \ {snapshot.version.api}

\* Every entry of code_manifest.json is backed by the store: its version is a
\* recorded snapshot in which the file has the hash the entry states, and the
\* model call it credits is in the log.
ManifestIsBacked ==
  \A f \in Files :
    LET entry == code_manifest[f]
    IN entry # NoEntry =>
         /\ \E i \in DOMAIN code_snapshots : code_snapshots[i].version = entry.version
         /\ entry.version.content[f] = entry.sha
         /\ entry.call_id \in llm_log

\* Between tool calls the directory holds exactly the content of the session's
\* version, unless a process that a tool started has changed it: rejected and
\* failed edits leave nothing behind, accepted ones are in the version.
DirectoryMatchesVersion ==
  /\ pc \in {"loop", "reply", "execute", "record"}
  /\ shared_code_version # NoVersion
  /\ tracked
  => code = shared_code_version.content

\* The lineage that packaging reports: a version that names a parent names one
\* of the versions, and files and logged calls that made it; the newest version
\* has every task any version has, and the parent it was made from, although it
\* may have been made before from another one, and rows lack their snapshots.
UnionTellsLineage ==
  LET union == SharedCodeUnion(UnionRecords(code_snapshots, code_patch_records))
  IN /\ \A v \in DOMAIN union :
          /\ union[v].llm_call_ids \subseteq llm_log
          /\ union[v].parent # NoVersion =>
               /\ union[v].parent \in DOMAIN union
               /\ union[v].changed_files # {} /\ union[v].llm_call_ids # {}
     /\ code_snapshots # <<>> =>
          LET newest == Last(code_snapshots)
          IN /\ \A v \in DOMAIN union :
                  union[v].validated_tasks \subseteq union[newest.version].validated_tasks
             /\ newest.parent # NoVersion => union[newest.version].parent = newest.parent

\* A version without a parent, other than the first, has another content than
\* the version before it: the chain breaks only where the directory was changed
\* behind the loop's back, never by a restart, whatever was killed
\* (agent_loop.py:546, 647).
ChainBreaksAtForeignCode ==
  \A i \in DOMAIN code_snapshots :
    i > 1 /\ code_snapshots[i].parent = NoVersion =>
      code_snapshots[i].version.content # code_snapshots[i - 1].version.content

\* A patch is credited to a call that is in the log, and no call to two patches,
\* across sessions and kills (agent_loop.py:820).
EachPatchHasItsCall ==
  /\ \A i \in DOMAIN code_patch_records : code_patch_records[i].call_id \in llm_log
  /\ \A i, j \in DOMAIN code_patch_records :
       code_patch_records[i].call_id = code_patch_records[j].call_id => i = j

\* The manifest is rewritten from the copy a session read when it started, and
\* still no file loses its entry, unless a kill tears the whole manifest
\* (agent_loop.py:374).
EntriesOnlyReplaced ==
  [][\A f \in Files : code_manifest[f] # NoEntry /\ code_manifest'[f] = NoEntry =>
       code_manifest' = NoManifest /\ result' = "killed"]_vars

\* A session that reports success leaves the newest version on disk, unless a
\* command it ran has changed the code (agent_loop.py:878).
SuccessLeavesItsVersion ==
  result = "ok" /\ tracked =>
    /\ code_snapshots # <<>>
    /\ Last(code_snapshots).version.content = code

\* The store read as the abstract history of SharedCodeHistory.
History ==
  INSTANCE SharedCodeHistory WITH
    history <- code_snapshots,
    patches <- {[base    |-> p.base,
                 new     |-> p.new,
                 against |-> p.validation.validated_against_tasks] :
                  p \in ToSet(code_patch_records)}

\* Sessions, crashes and restarts included, write the store only in the ways
\* the abstract history allows.
ImplementsHistory == History!Spec

-----------------------------------------------------------------------------
(* The decision log and the error latch.                                   *)

\* The decision log shows that an error is worked on until a patch is accepted
\* or the session ends: after a failed turn the router goes to failure
\* recovery, it leaves recovery only after a turn that did not fail, and no
\* session is finalized out of recovery.
RecoveryComesFirst ==
  \A i \in DOMAIN decision_records :
    /\ i > 1 /\ decision_records[i - 1].outcome \in FailureOutcomes =>
         decision_records[i].phase = "failure_recovery"
    /\ i > 1 /\ decision_records[i - 1].phase = "failure_recovery"
             /\ decision_records[i].phase # "failure_recovery" =>
         decision_records[i - 1].outcome = "tool_calls_executed"
    /\ decision_records[i].outcome = "finalized" =>
         decision_records[i].phase # "failure_recovery"

\* The budget is what ends a session that does nothing else: the range of the
\* loop never runs out before it, and no session logs more turns than its budget
\* (agent_loop.py:578, 693).
BudgetEndsFirst ==
  /\ pc = "loop" => iteration < LoopBound
  /\ \A id \in llm_log : id[2] \in 1..MaxSteps

\* What is left of a session at most: the iterations of its loop, and the steps
\* of the one it is in.
StepsOfTurn ==
  [loop |-> 0, record |-> 1, manifest |-> 2, snapshot |-> 3, gate |-> 4,
   execute |-> 5, reply |-> 6]

StepsLeft == 7 * (LoopBound - iteration) + StepsOfTurn[pc]

\* Every step of a session that goes on, its turns, edits and retries, leaves it
\* fewer steps: nothing a model answers keeps a session going for more than
\* seven steps an iteration.
SessionIsFinite ==
  /\ [](Running => StepsLeft \in 0..(7 * LoopBound))
  /\ [][Running /\ Running' => StepsLeft' < StepsLeft]_vars

\* A session ends, unless it sits in a subprocess, which nothing bounds. The
\* range of the loop is never what stops it before the budget does.
SessionEnds ==
  (pc # "idle") ~>
    (pc = "idle" \/ (pc = "execute" /\ call.tool \in RunTools))

=============================================================================
