----------------------------- MODULE FormalSession -----------------------------
(***************************************************************************)
(* cozy_pde_v3/agent_loop.py, run_formal_task_session: the formal agent    *)
(* loop that works on one task at a time over one shared code directory.   *)
(*                                                                         *)
(* Sessions run one after another on the same workspace. What a session    *)
(* leaves behind is the code directory, the SQLite memory store, the code  *)
(* manifest and the LLM log; everything else is volatile and is lost when  *)
(* the session returns, raises, or the process is killed. A step of the    *)
(* model ends at each durable write, so that a kill can fall between any   *)
(* two of them.                                                            *)
(***************************************************************************)
EXTENDS CodeEvolution, Router

CONSTANTS
  MaxSteps,     \* the max_steps argument: LLM turns of one session
  MaxSessions,  \* bound: sessions started on the workspace
  Claims,       \* bound: the sets of checks a tool call may claim to have run
  ToolNames,    \* bound: the tools the model calls besides the two that edit
  NoEntry,      \* a path the code manifest does not list
  NoCall        \* no function call is being executed

\* Tools that read, tools that run code of the workspace, and everything else
\* that reaches the dispatcher's last line.
ReadTools == {"read_file", "inspect_hdf5"}
RunTools == {"run_python", "run_shell", "validate_submission", "package_submission"}
EditTools == {"write_file", "patch_file"}

\* Faulty: one iteration besides the LLM turns.
LoopBoundTooSmall == MaxSteps + 1

\* range(max_steps + 4): preflight, baseline guard and the turn that finds the
\* budget spent take an iteration each besides the LLM turns.
LoopBound == MaxSteps + 4

ASSUME SessionAssumption ==
  /\ MaxSteps \in Nat
  /\ MaxSessions \in Nat
  /\ Claims \subseteq SUBSET Checks
  /\ ToolNames \subseteq ReadTools \cup RunTools \cup {"unknown"}

VARIABLES
  \* durable
  code,             \* submission/code
  code_snapshots,   \* rows of the table, in id order
  code_patch_records,
  code_manifest,    \* submission/code_manifest.json
  llm_log,          \* ids of the turns in llm_logs/all_llm_calls.jsonl
  decision_records, \* the rows the current or last session added
  \* one session
  pc,
  task, provider_ready, has_client,
  current_phase, preflight_complete, shared_code_version, supported_tasks,
  latest_error_type,
  iteration, llm_steps,
  pending_items,    \* what the next request carries besides the prompt
  manifest_by_path,
  call, backup,     \* the function call being executed, the file it replaces
  outcome,          \* outcome of the decision row about to be written
  \* bookkeeping of the model
  sessions,         \* sessions started so far
  result,           \* how the last session ended
  tracked           \* no process started by a tool changed the code directory
                    \* since the session last knew its content

durable == <<code, code_snapshots, code_patch_records, code_manifest, llm_log>>
config  == <<task, provider_ready, has_client, sessions>>
budget  == <<iteration, llm_steps>>
version == <<shared_code_version, supported_tasks>>
tool    == <<call, backup>>

\* What a branch of the loop leaves alone, and what a reply or a tool call does.
branchFrame == <<decision_records, config, manifest_by_path, tool, tracked>>
turnFrame   == <<decision_records, config, current_phase, preflight_complete,
                 budget, result>>

vars == <<durable, decision_records, pc, config, current_phase,
          preflight_complete, version, latest_error_type, budget,
          pending_items, manifest_by_path, tool, outcome, result, tracked>>

CallId == <<sessions, llm_steps>>

EditCalls ==
  [tool : EditTools, file : Files, text : Texts, claimed : Claims]

Calls == EditCalls \cup [tool : ToolNames]

ManifestEntries ==
  [sha : Texts, version : Versions, call_id : Nat \X Nat]

ASSUME EntryAssumption == NoEntry \notin ManifestEntries

NoManifest == [f \in Files |-> NoEntry]

PatchRecords ==
  [base : Versions, new : Versions, file : Files, validation : Verdicts,
   call_id : Nat \X Nat]

\* Outcomes after which the session returns.
FinalOutcomes == {"blocked", "blocked_no_client", "finalized", "finalize_blocked"}

\* Outcomes of a turn that latches an error if none is latched.
FailureOutcomes ==
  {"multi_tool_rejected", "compatibility_rejected", "tool_failed", "empty_response"}

Outcomes ==
  FinalOutcomes \cup FailureOutcomes \cup {"none", "completed", "tool_calls_executed"}

Errors ==
  {NoError, "multi_tool_turn_disallowed", "compatibility_guard_failed",
   "tool_execution_failed", "empty_response"}

Results ==
  {"none", "running", "ok", "not_ok", "max_steps", "raised", "killed"}

-----------------------------------------------------------------------------
Init ==
  /\ code \in ReadableDirs
  /\ code_snapshots = <<>>
  /\ code_patch_records = <<>>
  /\ code_manifest = NoManifest
  /\ llm_log = {}
  /\ decision_records = <<>>
  /\ pc = "idle"
  /\ task \in Tasks
  /\ provider_ready = FALSE
  /\ has_client = FALSE
  /\ current_phase = "capability_check"
  /\ preflight_complete = FALSE
  /\ shared_code_version = NoVersion
  /\ supported_tasks = {}
  /\ latest_error_type = NoError
  /\ iteration = 0
  /\ llm_steps = 0
  /\ pending_items = "none"
  /\ manifest_by_path = NoManifest
  /\ call = NoCall
  /\ backup = Absent
  /\ outcome = "none"
  /\ sessions = 0
  /\ result = "none"
  /\ tracked = TRUE

\* The newest snapshot counts as the current version only if the directory
\* still has its content ...
ResumedVersion ==
  IF code_snapshots # <<>> /\ Last(code_snapshots).version.content = code
  THEN Last(code_snapshots).version
  ELSE NoVersion

\* Faulty: an edited directory starts from no supported task.
TasksOfResumedVersion ==
  IF ResumedVersion = NoVersion THEN {} ELSE Last(code_snapshots).tasks

\* ... but its tasks are taken over either way.
ResumedTasks ==
  IF code_snapshots = <<>> THEN {} ELSE Last(code_snapshots).tasks

\* The code before the loop. (A comma-separated or unknown task is refused
\* before anything is touched.)
StartSession(t, ready, client) ==
  /\ pc = "idle"
  /\ sessions < MaxSessions
  /\ code_snapshots = <<>> \/ Readable(code)
  /\ sessions' = sessions + 1
  /\ task' = t
  /\ provider_ready' = ready
  /\ has_client' = client
  /\ current_phase' = "capability_check"
  /\ preflight_complete' = FALSE
  /\ latest_error_type' = NoError
  /\ shared_code_version' = ResumedVersion
  /\ supported_tasks' = ResumedTasks
  /\ iteration' = 0
  /\ llm_steps' = 0
  /\ pending_items' = "none"
  /\ manifest_by_path' = code_manifest
  /\ call' = NoCall
  /\ backup' = Absent
  /\ outcome' = "none"
  /\ decision_records' = <<>>
  /\ tracked' = TRUE
  /\ result' = "running"
  /\ pc' = "loop"
  /\ UNCHANGED durable

\* The same code when it raises: the provider report is missing, or there is a
\* snapshot to compare with and the directory holds an undecodable file.
StartRaises ==
  /\ pc = "idle"
  /\ sessions < MaxSessions
  /\ sessions' = sessions + 1
  /\ result' = "raised"
  /\ UNCHANGED <<durable, decision_records, pc, task, provider_ready, has_client,
                 current_phase, preflight_complete, version, latest_error_type,
                 budget, pending_items, manifest_by_path, tool, outcome, tracked>>

-----------------------------------------------------------------------------
(* One iteration of the loop: the router, then the branch of its phase.    *)

NextPhase ==
  Choose(provider_ready, ~preflight_complete, shared_code_version # NoVersion,
         latest_error_type, current_phase)

\* Every branch starts by counting the iteration and entering the phase.
Iterate(phase) ==
  /\ pc = "loop"
  /\ iteration < LoopBound
  /\ NextPhase = phase
  /\ iteration' = iteration + 1
  /\ current_phase' = phase

\* Leave the branch with the outcome its decision row will carry.
Decide(o) ==
  /\ outcome' = o
  /\ pc' = "record"

RefuseNotReady ==
  /\ Iterate("capability_readiness")
  /\ Decide("blocked")
  /\ UNCHANGED <<durable, branchFrame, preflight_complete, version, latest_error_type,
                 llm_steps, pending_items, result>>

Preflight ==
  /\ Iterate("preflight")
  /\ preflight_complete' = TRUE
  /\ Decide("completed")
  /\ UNCHANGED <<durable, branchFrame, version, latest_error_type, llm_steps,
                 pending_items, result>>

\* Faulty: only the task of this session.
ThisTaskOnly == {task}

\* The tasks a new snapshot supports.
TasksWithThis == supported_tasks \cup {task}

\* Faulty: the session keeps the version it had.
TakeSnapshotBehind ==
  /\ code_snapshots' =
       Append(code_snapshots,
              CodeSnapshot(code, task, shared_code_version, TasksWithThis))
  /\ UNCHANGED shared_code_version
  /\ supported_tasks' = TasksWithThis

\* The directory becomes the session's version, child of the one it had.
TakeSnapshot ==
  LET snapshot == CodeSnapshot(code, task, shared_code_version, TasksWithThis)
  IN /\ code_snapshots' = Append(code_snapshots, snapshot)
     /\ shared_code_version' = snapshot.version
     /\ supported_tasks' = TasksWithThis

\* In this phase there is no version yet, so the snapshot has no parent.
BaselineGuard ==
  /\ Iterate("baseline_guard")
  /\ Readable(code)
  /\ TakeSnapshot
  /\ Decide("completed")
  /\ UNCHANGED <<code, code_patch_records, code_manifest, llm_log, branchFrame,
                 preflight_complete, latest_error_type, llm_steps, pending_items,
                 result>>

LLMPhases == {"failure_recovery", "implementation"} \cup RequestedPhases

RefuseNoClient ==
  /\ \E phase \in LLMPhases : Iterate(phase)
  /\ ~has_client
  /\ Decide("blocked_no_client")
  /\ UNCHANGED <<durable, branchFrame, preflight_complete, version, latest_error_type,
                 llm_steps, pending_items, result>>

\* The budget is spent: the loop breaks and the session returns without a
\* decision row.
MaxStepsExceeded ==
  /\ \E phase \in LLMPhases : Iterate(phase)
  /\ has_client
  /\ llm_steps' = llm_steps + 1
  /\ llm_steps' > MaxSteps
  /\ result' = "max_steps"
  /\ pc' = "idle"
  /\ UNCHANGED <<durable, branchFrame, preflight_complete, version, latest_error_type,
                 pending_items, outcome>>

\* responses_client.create is called with the prompt and the pending items,
\* which are dropped before the call.
CallModel ==
  /\ \E phase \in LLMPhases : Iterate(phase)
  /\ has_client
  /\ llm_steps' = llm_steps + 1
  /\ llm_steps' <= MaxSteps
  /\ pending_items' = "none"
  /\ pc' = "reply"
  /\ UNCHANGED <<durable, branchFrame, preflight_complete, version, latest_error_type,
                 outcome, result>>

-----------------------------------------------------------------------------
(* The model's reply. It is logged first, then sorted by what it contains; *)
(* text that comes with a function call is not looked at.                  *)

LogReply ==
  /\ pc = "reply"
  /\ llm_log' = llm_log \cup {CallId}
  /\ UNCHANGED <<code, code_snapshots, code_patch_records, code_manifest>>

ReplyWithSeveralCalls ==
  /\ LogReply
  /\ latest_error_type' = "multi_tool_turn_disallowed"
  /\ pending_items' = "notice"
  /\ Decide("multi_tool_rejected")
  /\ UNCHANGED <<turnFrame, version, manifest_by_path, tool, tracked>>

ReplyWithCall(c) ==
  /\ LogReply
  /\ call' = c
  /\ pc' = "execute"
  /\ UNCHANGED <<turnFrame, version, latest_error_type, pending_items, manifest_by_path,
                 backup, outcome, tracked>>

\* Faulty: a latched error does not count.
FinalizeGateOnText(blank) == shared_code_version # NoVersion /\ ~blank

\* _finalize_gate_status and should_allow_finalize.
FinalizeGate(blank) ==
  /\ shared_code_version # NoVersion
  /\ ~blank
  /\ latest_error_type = NoError

ReplyWithText(blank) ==
  /\ LogReply
  /\ Decide(IF FinalizeGate(blank) THEN "finalized" ELSE "finalize_blocked")
  /\ UNCHANGED <<turnFrame, version, latest_error_type, pending_items, manifest_by_path,
                 tool, tracked>>

ReplyEmpty ==
  /\ LogReply
  /\ latest_error_type' = "empty_response"
  /\ Decide("empty_response")
  /\ UNCHANGED <<turnFrame, version, pending_items, manifest_by_path, tool, tracked>>

-----------------------------------------------------------------------------
(* Execution of one function call. The tools offered to the model were     *)
(* AllowedTools(current_phase); the call is executed whatever its name.    *)

\* The end of every call: an error is latched unless one already is, and the
\* result is queued for the next request.
ToolDone(ok) ==
  LET latches == ~ok /\ latest_error_type = NoError
  IN /\ latest_error_type' =
          IF latches THEN "tool_execution_failed" ELSE latest_error_type
     /\ Decide(IF latches THEN "tool_failed" ELSE "tool_calls_executed")
     /\ pending_items' = "output"
     /\ call' = NoCall
     /\ backup' = Absent

ReadTool ==
  /\ pc = "execute"
  /\ call.tool \in ReadTools
  /\ ToolDone(TRUE)
  /\ UNCHANGED <<durable, turnFrame, version, manifest_by_path, tracked>>

UnknownTool ==
  /\ pc = "execute"
  /\ call.tool = "unknown"
  /\ ToolDone(FALSE)
  /\ UNCHANGED <<durable, turnFrame, version, manifest_by_path, tracked>>

\* A shell command, Python code, or the submission's own train.py and infer.py
\* run by the validator: any of them may leave any file in the directory.
RunTool(dir, ok) ==
  /\ pc = "execute"
  /\ call.tool \in RunTools
  /\ code' = dir
  /\ tracked' = (tracked /\ dir = code)
  /\ ToolDone(ok)
  /\ UNCHANGED <<code_snapshots, code_patch_records, code_manifest, llm_log, turnFrame,
                 version, manifest_by_path>>

\* Faulty: the backup takes whatever bytes the file has.
EditFileOfBytes ==
  /\ pc = "execute"
  /\ call.tool \in EditTools
  /\ call.tool = "patch_file" => code[call.file] # Absent
  /\ backup' = code[call.file]
  /\ code' = [code EXCEPT ![call.file] = call.text]
  /\ pc' = "gate"
  /\ UNCHANGED <<code_snapshots, code_patch_records, code_manifest, llm_log, turnFrame,
                 version, latest_error_type, pending_items, manifest_by_path,
                 call, outcome, tracked>>

\* The file is read as text before it is overwritten (_backup_file).
EditFile ==
  /\ pc = "execute"
  /\ call.tool \in EditTools
  /\ code[call.file] # Binary
  /\ call.tool = "patch_file" => code[call.file] # Absent
  /\ backup' = code[call.file]
  /\ code' = [code EXCEPT ![call.file] = call.text]
  /\ pc' = "gate"
  /\ UNCHANGED <<code_snapshots, code_patch_records, code_manifest, llm_log, turnFrame,
                 version, latest_error_type, pending_items, manifest_by_path,
                 call, outcome, tracked>>

\* patch_file whose old_text does not occur in the file.
PatchNotFound ==
  /\ pc = "execute"
  /\ call.tool = "patch_file"
  /\ code[call.file] \in Texts
  /\ ToolDone(FALSE)
  /\ UNCHANGED <<durable, turnFrame, version, manifest_by_path, tracked>>

Gate == PatchGate(supported_tasks, task, call.claimed)

\* Faulty: a file the edit created stays.
RestoreExisting(dir, file, text) ==
  IF text = Absent THEN dir ELSE [dir EXCEPT ![file] = text]

\* _restore_file puts the old text back, or removes the file that was created.
RestoreFile(dir, file, text) == [dir EXCEPT ![file] = text]

RejectPatch ==
  /\ pc = "gate"
  /\ ~Gate.accepted
  /\ code' = RestoreFile(code, call.file, backup)
  /\ latest_error_type' = "compatibility_guard_failed"
  /\ Decide("compatibility_rejected")
  /\ pending_items' = "output"
  /\ call' = NoCall
  /\ backup' = Absent
  /\ UNCHANGED <<code_snapshots, code_patch_records, code_manifest, llm_log, turnFrame,
                 version, manifest_by_path, tracked>>

\* An accepted patch, whether or not it made a new version, clears the error.
PatchDone ==
  /\ latest_error_type' = NoError
  /\ Decide("tool_calls_executed")
  /\ pending_items' = "output"
  /\ call' = NoCall
  /\ backup' = Absent

\* The directory hashes to the version the session already has.
AcceptSameVersion ==
  /\ pc = "gate"
  /\ Gate.accepted
  /\ Readable(code)
  /\ CodeVersion(code, task) = shared_code_version
  /\ tracked' = TRUE
  /\ PatchDone
  /\ UNCHANGED <<durable, turnFrame, version, manifest_by_path>>

NewPatch ==
  [base       |-> shared_code_version,
   new        |-> CodeVersion(code, task),
   file       |-> call.file,
   validation |-> Gate,
   call_id    |-> CallId]

\* Faulty: nothing to record unless another task has to be protected.
PatchRowsIfProtected ==
  IF supported_tasks \subseteq {task}
  THEN code_patch_records ELSE Append(code_patch_records, NewPatch)

PatchRows == Append(code_patch_records, NewPatch)

\* The patch record is written first ...
RecordPatch ==
  /\ pc = "gate"
  /\ Gate.accepted
  /\ Readable(code)
  /\ CodeVersion(code, task) # shared_code_version
  /\ code_patch_records' = PatchRows
  /\ pc' = "snapshot"
  /\ UNCHANGED <<code, code_snapshots, code_manifest, llm_log, turnFrame, version,
                 latest_error_type, pending_items, manifest_by_path, tool,
                 outcome, tracked>>

\* ... then the snapshot, and the session moves to the new version ...
RecordSnapshot ==
  /\ pc = "snapshot"
  /\ TakeSnapshot
  /\ tracked' = TRUE
  /\ pc' = "manifest"
  /\ UNCHANGED <<code, code_patch_records, code_manifest, llm_log, turnFrame,
                 latest_error_type, pending_items, manifest_by_path, tool, outcome>>

\* Faulty: the hash was taken before the file was edited.
EntryBeforeEdit ==
  [sha |-> backup, version |-> shared_code_version, call_id |-> CallId]

ManifestEntry ==
  [sha |-> code[call.file], version |-> shared_code_version, call_id |-> CallId]

\* ... and last the manifest, rewritten from the session's copy of it.
WriteManifest ==
  /\ pc = "manifest"
  /\ manifest_by_path' = [manifest_by_path EXCEPT ![call.file] = ManifestEntry]
  /\ code_manifest' = manifest_by_path'
  /\ PatchDone
  /\ UNCHANGED <<code, code_snapshots, code_patch_records, llm_log, turnFrame, version,
                 tracked>>

-----------------------------------------------------------------------------
\* memory.record_decision, then "continue" or the return of the branch.
RecordDecision ==
  /\ pc = "record"
  /\ decision_records' =
       Append(decision_records, [phase |-> current_phase, outcome |-> outcome])
  /\ pc' = IF outcome \in FinalOutcomes THEN "idle" ELSE "loop"
  /\ result' = CASE outcome = "finalized"    -> "ok"
                 [] outcome \in FinalOutcomes \ {"finalized"} -> "not_ok"
                 [] OTHER                    -> result
  /\ UNCHANGED <<durable, config, current_phase, preflight_complete, version,
                 latest_error_type, budget, pending_items, manifest_by_path,
                 tool, outcome, tracked>>

\* Points at which an exception leaves run_formal_task_session: the request
\* failed; the call has bad arguments or names a file that is missing or does
\* not decode; the directory cannot be read for a snapshot.
CanRaise ==
  \/ pc \in {"reply", "execute"}
  \/ pc \in {"loop", "gate"} /\ ~Readable(code)

EndAbruptly(how) ==
  /\ result' = how
  /\ pc' = "idle"
  /\ call' = NoCall
  /\ UNCHANGED <<code_snapshots, code_patch_records, llm_log, decision_records,
                 config, current_phase, preflight_complete, version,
                 latest_error_type, budget, pending_items, manifest_by_path,
                 backup, outcome, tracked>>

Raise ==
  /\ CanRaise
  /\ pc = "loop" => iteration < LoopBound /\ NextPhase = "baseline_guard"
  /\ pc = "gate" => Gate.accepted
  /\ EndAbruptly("raised")
  /\ UNCHANGED <<code, code_manifest>>

\* The process is killed between two writes.
Kill ==
  /\ pc # "idle"
  /\ EndAbruptly("killed")
  /\ UNCHANGED <<code, code_manifest>>

\* The process is killed while write_text is replacing a file: some prefix of
\* the new text is on disk.
KillDuringEdit(torn) ==
  /\ pc = "execute"
  /\ call.tool \in EditTools
  /\ code[call.file] # Binary
  /\ call.tool = "patch_file" => code[call.file] # Absent
  /\ code' = [code EXCEPT ![call.file] = torn]
  /\ EndAbruptly("killed")
  /\ UNCHANGED code_manifest

\* A truncated manifest does not parse and is read back as an empty one.
KillDuringManifest ==
  /\ pc = "manifest"
  /\ code_manifest' = NoManifest
  /\ EndAbruptly("killed")
  /\ UNCHANGED code

-----------------------------------------------------------------------------
\* Steps the session takes by itself once the model has answered, and the
\* answers; RunTool waits for a subprocess that has no timeout.
Progress ==
  \/ RefuseNotReady \/ Preflight \/ BaselineGuard \/ RefuseNoClient
  \/ MaxStepsExceeded \/ CallModel
  \/ ReplyWithSeveralCalls \/ ReplyEmpty
  \/ \E c \in Calls : ReplyWithCall(c)
  \/ \E blank \in BOOLEAN : ReplyWithText(blank)
  \/ ReadTool \/ UnknownTool \/ EditFile \/ PatchNotFound
  \/ RejectPatch \/ AcceptSameVersion
  \/ RecordPatch \/ RecordSnapshot \/ WriteManifest \/ RecordDecision
  \/ Raise

Next ==
  \/ \E t \in Tasks, ready, client \in BOOLEAN : StartSession(t, ready, client)
  \/ StartRaises
  \/ Progress
  \/ \E dir \in Dirs, ok \in BOOLEAN : RunTool(dir, ok)
  \/ Kill
  \/ \E torn \in Texts : KillDuringEdit(torn)
  \/ KillDuringManifest

Spec == Init /\ [][Next]_vars

\* A session that is not killed keeps running, and the endpoint answers or the
\* client raises. Nothing is assumed of a subprocess.
FairSpec == Spec /\ WF_vars(Progress)

=============================================================================
