------------------------- MODULE SessionRecordsProofs -------------------------
(***************************************************************************)
(* More about the formal loop: the code manifest is backed by the store    *)
(* and the log, the directory has the content of the session's version,    *)
(* and the decisions show that errors are worked on first.                 *)
(***************************************************************************)
EXTENDS FormalSessionProofs

-----------------------------------------------------------------------------
(* The manifest.                                                           *)

\* The row, the hash and the logged call behind the entry of a file.
Backed(f, entry) ==
  /\ \E i \in DOMAIN code_snapshots : code_snapshots[i].version = entry.version
  /\ entry.version.content[f] = entry.sha
  /\ entry.call_id \in llm_log

\* Of the manifest on disk and the session's copy of it, which replaces it.
Listed(f, entry) == code_manifest[f] = entry \/ manifest_by_path[f] = entry

ListedIsBacked ==
  \A f \in Files, entry \in ManifestEntries \ {NoEntry} :
    Listed(f, entry) => Backed(f, entry)

\* While a call is executed, the log has it.
CallIsLogged == pc \in {"execute", "gate", "snapshot", "manifest"} => CallId \in llm_log

\* A manifest is written for the version the session has just taken.
VersionIsTaken == pc = "manifest" => shared_code_version.content = code

ManifestInv == ListedIsBacked /\ CallIsLogged /\ VersionIsTaken

\* Rows and log entries stay.
LEMMA RecordsStay ==
  ASSUME TypeInv, HistoryInv, [Next]_vars
  PROVE  /\ llm_log \subseteq llm_log'
         /\ \A i \in DOMAIN code_snapshots :
              i \in DOMAIN code_snapshots' /\ code_snapshots'[i] = code_snapshots[i]
<1>1. llm_log \subseteq llm_log'
  BY DEF Next, Progress, durable, LogReply, EndAbruptly, StartSession, StartRaises,
         RefuseNotReady, Preflight, BaselineGuard, RefuseNoClient, MaxStepsExceeded,
         CallModel, ReplyWithSeveralCalls, ReplyEmpty, ReplyWithCall, ReplyWithText,
         ReadTool, UnknownTool, EditFile, PatchNotFound, RejectPatch, AcceptSameVersion,
         RecordPatch, RecordSnapshot, WriteManifest, RecordDecision, Raise, RunTool,
         Kill, KillDuringEdit, KillDuringManifest, vars
<1>2. ASSUME Running, TakeSnapshot
      PROVE  \A i \in DOMAIN code_snapshots :
               i \in DOMAIN code_snapshots' /\ code_snapshots'[i] = code_snapshots[i]
  BY <1>2, SnapshotAppends
<1>3. BaselineGuard \/ RecordSnapshot => Running /\ TakeSnapshot
  BY DEF BaselineGuard, RecordSnapshot, Iterate, Running
<1> QED
  BY <1>1, <1>2, <1>3, StoreSteps DEF RecordPatch, StoreUnchanged

\* What is backed stays backed.
LEMMA StaysBacked ==
  ASSUME TypeInv, HistoryInv, [Next]_vars, NEW f, NEW entry, Backed(f, entry)
  PROVE  Backed(f, entry)'
  BY RecordsStay DEF Backed

\* An entry appears only as the one that WriteManifest makes.
LEMMA ListedBefore ==
  ASSUME TypeInv, [Next]_vars, NEW f \in Files, NEW entry \in ManifestEntries \ {NoEntry},
         Listed(f, entry)', ~Listed(f, entry)
  PROVE  WriteManifest /\ f = call.file /\ entry = ManifestEntry
<1> USE DEF Listed, durable, branchFrame, turnFrame
<1>1. ASSUME UNCHANGED <<code_manifest, manifest_by_path>> PROVE FALSE
  BY <1>1
<1>2. ASSUME NEW t \in Tasks, NEW ready \in BOOLEAN, NEW client \in BOOLEAN,
             StartSession(t, ready, client)
      PROVE  FALSE
  BY <1>2 DEF StartSession
<1>3. ASSUME \/ StartRaises \/ RefuseNotReady \/ Preflight \/ RefuseNoClient \/ BaselineGuard
             \/ MaxStepsExceeded \/ CallModel \/ RecordDecision
      PROVE  FALSE
  BY <1>3, <1>1 DEF StartRaises, RefuseNotReady, Preflight, RefuseNoClient, BaselineGuard,
                    MaxStepsExceeded, CallModel, RecordDecision
<1>4. ASSUME \/ ReplyWithSeveralCalls \/ ReplyEmpty
             \/ \E c \in Calls : ReplyWithCall(c)
             \/ \E blank \in BOOLEAN : ReplyWithText(blank)
      PROVE  FALSE
  BY <1>4, <1>1 DEF ReplyWithSeveralCalls, ReplyEmpty, ReplyWithCall, ReplyWithText, LogReply
<1>5. ASSUME \/ ReadTool \/ UnknownTool \/ EditFile \/ PatchNotFound
             \/ \E dir \in Dirs, ok \in BOOLEAN : RunTool(dir, ok)
             \/ RejectPatch \/ AcceptSameVersion \/ RecordPatch \/ RecordSnapshot
      PROVE  FALSE
  BY <1>5, <1>1 DEF ReadTool, UnknownTool, EditFile, PatchNotFound, RunTool, RejectPatch,
                    AcceptSameVersion, RecordPatch, RecordSnapshot
<1>6. ASSUME Raise \/ Kill \/ \E torn \in Texts : KillDuringEdit(torn)
      PROVE  FALSE
  BY <1>6, <1>1 DEF Raise, Kill, KillDuringEdit, EndAbruptly
<1>7. ASSUME KillDuringManifest PROVE FALSE
  BY <1>7 DEF KillDuringManifest, EndAbruptly, NoManifest
<1>8. ASSUME UNCHANGED vars PROVE FALSE
  BY <1>8, <1>1 DEF vars
<1>9. WriteManifest
  BY <1>2, <1>3, <1>4, <1>5, <1>6, <1>7, <1>8 DEF Next, Progress
<1>10. /\ code_manifest' = manifest_by_path'
       /\ manifest_by_path' = [manifest_by_path EXCEPT ![call.file] = ManifestEntry]
       /\ manifest_by_path \in [Files -> ManifestEntries \cup {NoEntry}]
  BY <1>9 DEF WriteManifest, TypeInv, TypeOK
<1> QED
  BY <1>9, <1>10

\* While a call is executed it keeps its name, and that is in the log; a
\* manifest is written right after the snapshot.
LEMMA CallStep ==
  ASSUME TypeInv, HistoryInv, CallIsLogged, VersionIsTaken, [Next]_vars
  PROVE  CallIsLogged' /\ VersionIsTaken'
<1> USE DEF CallIsLogged, VersionIsTaken, CallId, durable, config, budget, version, tool,
            branchFrame, turnFrame
<1>1. CASE \/ StartRaises \/ MaxStepsExceeded \/ CallModel \/ RecordDecision
           \/ \E t \in Tasks, ready, client \in BOOLEAN : StartSession(t, ready, client)
  BY <1>1 DEF StartRaises, MaxStepsExceeded, CallModel, RecordDecision, StartSession
<1>2. CASE RefuseNotReady \/ Preflight \/ RefuseNoClient \/ BaselineGuard
  BY <1>2 DEF RefuseNotReady, Preflight, RefuseNoClient, BaselineGuard, Decide
<1>3. CASE \/ ReplyWithSeveralCalls \/ ReplyEmpty
           \/ \E blank \in BOOLEAN : ReplyWithText(blank)
  BY <1>3 DEF ReplyWithSeveralCalls, ReplyEmpty, ReplyWithText, Decide
<1>4. CASE \E c \in Calls : ReplyWithCall(c)
  BY <1>4 DEF ReplyWithCall, LogReply
<1>5. CASE \/ ReadTool \/ UnknownTool \/ PatchNotFound \/ RejectPatch \/ AcceptSameVersion
           \/ WriteManifest \/ \E dir \in Dirs, ok \in BOOLEAN : RunTool(dir, ok)
  BY <1>5 DEF ReadTool, UnknownTool, PatchNotFound, RejectPatch, AcceptSameVersion,
              WriteManifest, RunTool, ToolDone, PatchDone, Decide
<1>6. CASE EditFile \/ RecordPatch
  BY <1>6 DEF EditFile, RecordPatch
<1>7. CASE RecordSnapshot
  BY <1>7 DEF RecordSnapshot, TakeSnapshot, CodeSnapshot, CodeVersion
<1>8. CASE \/ Raise \/ Kill \/ KillDuringManifest \/ \E torn \in Texts : KillDuringEdit(torn)
  BY <1>8 DEF Raise, Kill, KillDuringManifest, KillDuringEdit, EndAbruptly
<1>9. CASE UNCHANGED vars
  BY <1>9 DEF vars
<1> QED
  BY <1>1, <1>2, <1>3, <1>4, <1>5, <1>6, <1>7, <1>8, <1>9 DEF Next, Progress

LEMMA ManifestStep ==
  ASSUME TypeInv, HistoryInv, ManifestInv, [Next]_vars
  PROVE  ManifestInv'
<1>1. ASSUME NEW f \in Files, NEW entry \in ManifestEntries \ {NoEntry}, Listed(f, entry)'
      PROVE  Backed(f, entry)'
  <2>1. CASE Listed(f, entry)
    BY <2>1, StaysBacked DEF ManifestInv, ListedIsBacked
  <2>2. CASE ~Listed(f, entry)
    <3>1. WriteManifest /\ f = call.file /\ entry = ManifestEntry
      BY <1>1, <2>2, ListedBefore
    <3>2. /\ pc = "manifest" /\ code_snapshots # <<>>
          /\ shared_code_version = Last(code_snapshots).version
      BY <3>1 DEF WriteManifest, TypeInv, VersionExists, HistoryInv, WorksFromNewest, Running
    <3>3. \E i \in DOMAIN code_snapshots : code_snapshots[i].version = shared_code_version
      <4>1. Len(code_snapshots) \in DOMAIN code_snapshots
        BY <3>2 DEF TypeInv, TypeOK
      <4> QED
        BY <3>2, <4>1 DEF Last
    <3>4. Backed(f, entry)
      BY <3>1, <3>2, <3>3 DEF Backed, ManifestEntry, ManifestInv, CallIsLogged, VersionIsTaken
    <3> QED
      BY <3>4, StaysBacked
  <2> QED
    BY <2>1, <2>2
<1>2. ListedIsBacked'
  BY <1>1 DEF ListedIsBacked
<1> QED
  BY <1>2, CallStep DEF ManifestInv

\* What the manifest says of a file is backed by a row of the store and a line of
\* the log, wherever a process died (agent_loop.py:374, 852).
THEOREM ManifestBacked == Spec => []ManifestIsBacked
<1>1. Init => ManifestInv
  BY DEF Init, ManifestInv, ListedIsBacked, Listed, NoManifest, CallIsLogged, VersionIsTaken
<1>2. TypeInv /\ ManifestInv => ManifestIsBacked
  BY DEF TypeInv, TypeOK, ManifestInv, ListedIsBacked, Listed, Backed, ManifestIsBacked
<1>3. Spec => [](TypeInv /\ HistoryInv)
  BY TypeInvInit, TypeInvStep, HistoryInvInit, HistoryInvStep, PTL DEF Spec
<1> QED
  BY <1>1, <1>2, <1>3, ManifestStep, PTL DEF Spec

-----------------------------------------------------------------------------
(* The directory.                                                          *)

\* In an edit the content of the version comes back with the text that was
\* replaced; after the snapshot the directory is the version.
DirectoryInv ==
  /\ DirectoryMatchesVersion
  /\ pc = "gate" /\ tracked =>
       [code EXCEPT ![call.file] = backup] = shared_code_version.content
  /\ pc = "manifest" => code = shared_code_version.content

\* Putting back the text that an edit replaced undoes it.
LEMMA EditUndone ==
  ASSUME NEW dir \in Dirs, NEW f \in Files, NEW text
  PROVE  [[dir EXCEPT ![f] = text] EXCEPT ![f] = dir[f]] = dir
  BY DEF Dirs

LEMMA DirectoryStep ==
  ASSUME TypeInv, HistoryInv, DirectoryInv, [Next]_vars
  PROVE  DirectoryInv'
<1> USE DEF DirectoryInv, DirectoryMatchesVersion, durable, config, budget, version, tool,
            branchFrame, turnFrame
<1>1. ASSUME NEW t \in Tasks, NEW ready \in BOOLEAN, NEW client \in BOOLEAN,
             StartSession(t, ready, client)
      PROVE  DirectoryInv'
  BY <1>1 DEF StartSession, ResumedVersion
<1>2. CASE StartRaises \/ MaxStepsExceeded \/ CallModel \/ RecordDecision
  BY <1>2 DEF StartRaises, MaxStepsExceeded, CallModel, RecordDecision, Iterate
<1>3. CASE RefuseNotReady \/ Preflight \/ RefuseNoClient
  BY <1>3 DEF RefuseNotReady, Preflight, RefuseNoClient, Decide, Iterate
<1>4. CASE BaselineGuard
  BY <1>4 DEF BaselineGuard, Decide, TakeSnapshot, CodeSnapshot, CodeVersion
<1>5. CASE \/ ReplyWithSeveralCalls \/ ReplyEmpty
           \/ \E blank \in BOOLEAN : ReplyWithText(blank)
           \/ \E c \in Calls : ReplyWithCall(c)
  BY <1>5 DEF ReplyWithSeveralCalls, ReplyEmpty, ReplyWithText, ReplyWithCall, LogReply, Decide
<1>6. CASE ReadTool \/ UnknownTool \/ PatchNotFound
  BY <1>6 DEF ReadTool, UnknownTool, PatchNotFound, ToolDone, Decide
<1>7. ASSUME NEW dir \in Dirs, NEW ok \in BOOLEAN, RunTool(dir, ok)
      PROVE  DirectoryInv'
  <2>1. tracked' => tracked /\ code' = code
    BY <1>7 DEF RunTool
  <2>2. /\ pc = "execute" /\ pc' = "record"
        /\ UNCHANGED shared_code_version
    BY <1>7 DEF RunTool, ToolDone, Decide
  <2> QED
    BY <2>1, <2>2
<1>8. CASE EditFile
  <2>1. /\ code \in Dirs /\ call.file \in Files
        /\ pc = "execute" /\ shared_code_version # NoVersion
    BY <1>8, EditIsEditCall DEF EditFile, TypeInv, TypeOK, CallInFlight, VersionExists, EditCalls
  <2>2. [code' EXCEPT ![call'.file] = backup'] = code
    BY <1>8, <2>1, EditUndone DEF EditFile
  <2> QED
    BY <1>8, <2>1, <2>2 DEF EditFile
<1>9. CASE RejectPatch
  BY <1>9 DEF RejectPatch, RestoreFile, Decide
<1>10. CASE AcceptSameVersion
  BY <1>10 DEF AcceptSameVersion, PatchDone, Decide, CodeVersion
<1>11. CASE RecordPatch
  BY <1>11 DEF RecordPatch
<1>12. CASE RecordSnapshot
  BY <1>12 DEF RecordSnapshot, TakeSnapshot, CodeSnapshot, CodeVersion
<1>13. CASE WriteManifest
  BY <1>13 DEF WriteManifest, PatchDone, Decide
<1>14. CASE \/ Raise \/ Kill \/ KillDuringManifest \/ \E torn \in Texts : KillDuringEdit(torn)
  BY <1>14 DEF Raise, Kill, KillDuringManifest, KillDuringEdit, EndAbruptly
<1>15. CASE UNCHANGED vars
  BY <1>15 DEF vars
<1> QED
  BY <1>1, <1>2, <1>3, <1>4, <1>5, <1>6, <1>7, <1>8, <1>9, <1>10, <1>11, <1>12, <1>13, <1>14, <1>15
  DEF Next, Progress

\* Between tool calls the directory is the session's version, unless a process
\* that a tool started has changed it (agent_loop.py:797).
THEOREM DirectoryMatches == Spec => []DirectoryMatchesVersion
<1>1. Init => DirectoryInv
  BY DEF Init, DirectoryInv, DirectoryMatchesVersion
<1>2. DirectoryInv => DirectoryMatchesVersion
  BY DEF DirectoryInv
<1>3. Spec => [](TypeInv /\ HistoryInv)
  BY TypeInvInit, TypeInvStep, HistoryInvInit, HistoryInvStep, PTL DEF Spec
<1> QED
  BY <1>1, <1>2, <1>3, DirectoryStep, PTL DEF Spec

-----------------------------------------------------------------------------
(* The decisions.                                                          *)

Latest == decision_records[Len(decision_records)]

\* The router's way to failure_recovery is open.
MayRecover == provider_ready /\ preflight_complete /\ shared_code_version # NoVersion

\* Before the router: a failure is latched, and recovery ends in another failure
\* or in a call that was executed.
BeforeRouter ==
  pc = "loop" /\ decision_records # <<>> =>
    /\ Latest.outcome \in FailureOutcomes => MayRecover /\ latest_error_type # NoError
    /\ Latest.phase = "failure_recovery" =>
         Latest.outcome \in FailureOutcomes \cup {"tool_calls_executed"}

\* In the branch the router chose.
InBranch ==
  pc \notin {"idle", "loop"} /\ decision_records # <<>> =>
    /\ Latest.outcome \in FailureOutcomes => current_phase = "failure_recovery"
    /\ Latest.phase = "failure_recovery" /\ current_phase # "failure_recovery" =>
         Latest.outcome = "tool_calls_executed"

InTurn ==
  /\ pc \in {"reply", "execute", "gate", "snapshot", "manifest"} => MayRecover
  /\ pc = "reply" /\ current_phase = "failure_recovery" => latest_error_type # NoError

\* What a branch is about to put on record.
Recording ==
  pc = "record" =>
    /\ outcome \in FailureOutcomes => MayRecover /\ latest_error_type # NoError
    /\ current_phase = "failure_recovery" =>
         outcome \in FailureOutcomes \cup {"tool_calls_executed", "blocked_no_client",
                                         "finalize_blocked"}

DecisionInv == RecoveryComesFirst /\ BeforeRouter /\ InBranch /\ InTurn /\ Recording

\* The router sends a latched error to recovery, and only that.
LEMMA RouteOf ==
  ASSUME TypeInv
  PROVE  /\ MayRecover /\ latest_error_type # NoError => NextPhase = "failure_recovery"
         /\ NextPhase = "failure_recovery" => MayRecover /\ latest_error_type # NoError
         /\ NextPhase \in LLMPhases => MayRecover
  BY DEF TypeInv, TypeOK, MayRecover, NextPhase, Choose, LLMPhases, RequestedPhases

\* A branch is entered in the phase the router chose.
LEMMA Entered ==
  ASSUME TypeInv, DecisionInv, NEW phase, Iterate(phase), pc' # "idle", pc' # "loop",
         UNCHANGED decision_records
  PROVE  /\ InBranch'
         /\ phase = NextPhase /\ current_phase' = phase
         /\ phase = "failure_recovery" => MayRecover /\ latest_error_type # NoError
  BY RouteOf DEF DecisionInv, BeforeRouter, InBranch, Latest, Iterate

\* Rows stay as they are while no decision is recorded.
LEMMA RowsKept ==
  ASSUME RecoveryComesFirst, UNCHANGED decision_records
  PROVE  RecoveryComesFirst'
  BY DEF RecoveryComesFirst

\* Within a branch.
LEMMA BranchKept ==
  ASSUME InBranch, UNCHANGED <<decision_records, current_phase>>, pc \notin {"idle", "loop"}
  PROVE  InBranch'
  BY DEF InBranch, Latest

\* A branch ends in a decision that fits what came before.
LEMMA Decided ==
  ASSUME TypeInv, DecisionInv, RecordDecision
  PROVE  RecoveryComesFirst' /\ BeforeRouter'
<1> DEFINE n == Len(decision_records)
           row == [phase |-> current_phase, outcome |-> outcome]
<1>1. /\ decision_records \in Seq(Rows) /\ n \in Nat
      /\ decision_records' = Append(decision_records, row)
  BY DEF TypeInv, TypeOK, RecordDecision
<1>2. /\ DOMAIN decision_records = 1..n /\ DOMAIN decision_records' = 1..(n + 1)
      /\ Len(decision_records') = n + 1
      /\ \A i \in 1..n : decision_records'[i] = decision_records[i]
      /\ decision_records'[n + 1] = row
  BY <1>1
<1>3. pc = "record" /\ (pc' = "loop" => outcome \notin FinalOutcomes)
  BY DEF RecordDecision
<1>4. BeforeRouter'
  BY <1>2, <1>3 DEF DecisionInv, Recording, BeforeRouter, Latest, MayRecover, RecordDecision,
                    config, version, FinalOutcomes
<1>5. ASSUME NEW i \in 1..(n + 1)
      PROVE  /\ i > 1 /\ decision_records'[i - 1].outcome \in FailureOutcomes =>
                  decision_records'[i].phase = "failure_recovery"
             /\ i > 1 /\ decision_records'[i - 1].phase = "failure_recovery"
                      /\ decision_records'[i].phase # "failure_recovery" =>
                  decision_records'[i - 1].outcome = "tool_calls_executed"
             /\ decision_records'[i].outcome = "finalized" =>
                  decision_records'[i].phase # "failure_recovery"
  <2>1. CASE i \in 1..n
    <3>1. i > 1 => i - 1 \in 1..n
      BY <1>1, <2>1
    <3>2. decision_records'[i] = decision_records[i]
      BY <1>2, <2>1
    <3>3. i > 1 => decision_records'[i - 1] = decision_records[i - 1]
      BY <1>2, <3>1
    <3>4. i \in DOMAIN decision_records
      BY <1>2, <2>1
    <3> QED
      BY <3>2, <3>3, <3>4 DEF DecisionInv, RecoveryComesFirst
  <2>2. CASE i = n + 1
    <3>1. i > 1 => i - 1 = n /\ n \in 1..n
      BY <1>1, <2>2
    <3>2. i > 1 => decision_records # <<>>
      BY <1>1, <3>1
    <3>3. i > 1 => decision_records'[i - 1] = Latest
      BY <1>2, <3>1 DEF Latest
    <3>4. i > 1 => decision_records # <<>> /\ decision_records'[i - 1] = Latest
      BY <3>2, <3>3
    <3>5. decision_records'[i].phase = current_phase /\ decision_records'[i].outcome = outcome
      BY <1>2, <2>2
    <3> QED
      BY <1>3, <3>4, <3>5 DEF DecisionInv, InBranch, Recording, FailureOutcomes
  <2> QED
    BY <1>1, <2>1, <2>2
<1>6. RecoveryComesFirst'
  BY <1>2, <1>5 DEF RecoveryComesFirst
<1> QED
  BY <1>4, <1>6

LEMMA DecisionStep ==
  ASSUME TypeInv, DecisionInv, [Next]_vars
  PROVE  DecisionInv'
<1> USE DEF durable, config, budget, version, tool, branchFrame, turnFrame
<1>1. CASE \E t \in Tasks, ready, client \in BOOLEAN : StartSession(t, ready, client)
  BY <1>1 DEF StartSession, DecisionInv, RecoveryComesFirst, BeforeRouter, InBranch, InTurn,
              Recording
<1>2. CASE \/ StartRaises \/ MaxStepsExceeded
           \/ Raise \/ Kill \/ KillDuringManifest \/ \E torn \in Texts : KillDuringEdit(torn)
  <2>1. pc' = "idle" /\ UNCHANGED decision_records
    BY <1>2 DEF StartRaises, MaxStepsExceeded, Raise, Kill, KillDuringManifest, KillDuringEdit,
                EndAbruptly
  <2> QED
    BY <2>1, RowsKept DEF DecisionInv, BeforeRouter, InBranch, InTurn, Recording
<1>3. CASE RefuseNotReady \/ Preflight \/ BaselineGuard
  <2>1. PICK phase \in {"capability_readiness", "preflight", "baseline_guard"} : Iterate(phase)
    BY <1>3 DEF RefuseNotReady, Preflight, BaselineGuard
  <2>2. /\ pc' = "record" /\ outcome' \in {"blocked", "completed"}
        /\ UNCHANGED decision_records
    BY <1>3 DEF RefuseNotReady, Preflight, BaselineGuard, Decide
  <2>3. InBranch' /\ current_phase' # "failure_recovery"
    BY <2>1, <2>2, Entered
  <2> QED
    BY <2>2, <2>3, RowsKept DEF DecisionInv, BeforeRouter, InTurn, Recording, FailureOutcomes
<1>4. CASE RefuseNoClient \/ CallModel
  <2>1. PICK phase \in LLMPhases : Iterate(phase)
    BY <1>4 DEF RefuseNoClient, CallModel
  <2>2. /\ \/ pc' = "record" /\ outcome' = "blocked_no_client"
           \/ pc' = "reply"
        /\ UNCHANGED <<decision_records, latest_error_type>>
        /\ MayRecover' = MayRecover
    BY <1>4 DEF RefuseNoClient, CallModel, Decide, MayRecover
  <2>3. /\ InBranch' /\ MayRecover
        /\ current_phase' = "failure_recovery" => latest_error_type # NoError
    BY <2>1, <2>2, Entered, RouteOf
  <2> QED
    BY <2>2, <2>3, RowsKept DEF DecisionInv, BeforeRouter, InTurn, Recording, FailureOutcomes
<1>5. CASE \/ ReplyWithSeveralCalls \/ ReplyEmpty
           \/ \E blank \in BOOLEAN : ReplyWithText(blank)
           \/ \E c \in Calls : ReplyWithCall(c)
  <2>1. /\ pc = "reply" /\ UNCHANGED <<decision_records, current_phase>>
        /\ MayRecover /\ MayRecover'
    BY <1>5 DEF ReplyWithSeveralCalls, ReplyEmpty, ReplyWithText, ReplyWithCall, LogReply,
                MayRecover, DecisionInv, InTurn
  <2>2. /\ pc' \in {"record", "execute"}
        /\ pc' = "record" =>
             \/ outcome' = "finalized" /\ latest_error_type = NoError
             \/ outcome' = "finalize_blocked"
             \/ outcome' \in FailureOutcomes /\ latest_error_type' # NoError
    BY <1>5 DEF ReplyWithSeveralCalls, ReplyEmpty, ReplyWithText, ReplyWithCall, Decide,
                FinalizeGate, FailureOutcomes, NoError
  <2> QED
    BY <2>1, <2>2, RowsKept, BranchKept
    DEF DecisionInv, BeforeRouter, InTurn, Recording, FailureOutcomes
<1>6. CASE \/ ReadTool \/ UnknownTool \/ PatchNotFound \/ RejectPatch \/ AcceptSameVersion
           \/ WriteManifest \/ \E dir \in Dirs, ok \in BOOLEAN : RunTool(dir, ok)
  <2>1. /\ pc \in {"execute", "gate", "manifest"} /\ pc' = "record"
        /\ UNCHANGED <<decision_records, current_phase>>
        /\ MayRecover /\ MayRecover'
    BY <1>6 DEF ReadTool, UnknownTool, PatchNotFound, RejectPatch, AcceptSameVersion,
                WriteManifest, RunTool, ToolDone, PatchDone, Decide, MayRecover, DecisionInv, InTurn
  <2>2. \/ outcome' = "tool_calls_executed"
        \/ outcome' \in FailureOutcomes /\ latest_error_type' # NoError
    BY <1>6 DEF ReadTool, UnknownTool, PatchNotFound, RejectPatch, AcceptSameVersion,
                WriteManifest, RunTool, ToolDone, PatchDone, Decide, FailureOutcomes, NoError
  <2> QED
    BY <2>1, <2>2, RowsKept, BranchKept
    DEF DecisionInv, BeforeRouter, InTurn, Recording, FailureOutcomes
<1>7. CASE EditFile \/ RecordPatch \/ RecordSnapshot
  <2>1. /\ pc \in {"execute", "gate", "snapshot"} /\ pc' \in {"gate", "snapshot", "manifest"}
        /\ UNCHANGED <<decision_records, current_phase>>
        /\ MayRecover
    BY <1>7 DEF EditFile, RecordPatch, RecordSnapshot, DecisionInv, InTurn
  <2>2. MayRecover'
    BY <1>7, <2>1, SnapshotType
    DEF EditFile, RecordPatch, RecordSnapshot, TakeSnapshot, MayRecover, TypeInv, DirectoryWasRead
  <2> QED
    BY <2>1, <2>2, RowsKept, BranchKept DEF DecisionInv, BeforeRouter, InTurn, Recording
<1>8. CASE RecordDecision
  <2>1. pc' \in {"idle", "loop"}
    BY <1>8 DEF RecordDecision
  <2> QED
    BY <1>8, <2>1, Decided DEF DecisionInv, InBranch, InTurn, Recording
<1>9. CASE UNCHANGED vars
  BY <1>9 DEF vars, DecisionInv, RecoveryComesFirst, BeforeRouter, InBranch, InTurn, Recording,
              MayRecover, Latest
<1> QED
  BY <1>1, <1>2, <1>3, <1>4, <1>5, <1>6, <1>7, <1>8, <1>9 DEF Next, Progress

\* After a failed turn a session recovers first, and is never finalized out of
\* recovery (deterministic_router.py, agent_loop.py:857).
THEOREM RecoveryFirst == Spec => []RecoveryComesFirst
<1>1. Init => DecisionInv
  BY DEF Init, DecisionInv, RecoveryComesFirst, BeforeRouter, InBranch, InTurn, Recording
<1>2. DecisionInv => RecoveryComesFirst
  BY DEF DecisionInv
<1>3. Spec => []TypeInv
  BY TypeInvInit, TypeInvStep, PTL DEF Spec
<1> QED
  BY <1>1, <1>2, <1>3, DecisionStep, PTL DEF Spec

-----------------------------------------------------------------------------
(* The budget.                                                             *)

One(b) == IF b THEN 1 ELSE 0

\* Of the iterations, preflight takes one, the baseline takes one, and every other
\* is a turn, or a refusal that ends the session; each but the one that runs has
\* its decision row.
IterationsAreTurns ==
  Running =>
    /\ iteration <= llm_steps + One(preflight_complete) + One(shared_code_version # NoVersion)
                    + One(pc = "record" /\ outcome \in FinalOutcomes)
    /\ llm_steps <= MaxSteps
    /\ pc \in {"reply", "execute", "gate", "snapshot", "manifest"} => llm_steps > 0
    /\ iteration = Len(decision_records) + One(pc # "loop")
    /\ sessions > 0

LEMMA IterationsStep ==
  ASSUME TypeInv, IterationsAreTurns, [Next]_vars
  PROVE  IterationsAreTurns'
<1> USE DEF IterationsAreTurns, One, Running, TypeInv, TypeOK, durable, config, budget, version,
            tool, branchFrame, turnFrame
<1>1. ASSUME NEW t \in Tasks, NEW ready \in BOOLEAN, NEW client \in BOOLEAN,
             StartSession(t, ready, client)
      PROVE  IterationsAreTurns'
  BY <1>1, SessionAssumption DEF StartSession
<1>2. CASE \/ StartRaises \/ MaxStepsExceeded
           \/ Raise \/ Kill \/ KillDuringManifest \/ \E torn \in Texts : KillDuringEdit(torn)
  <2>1. pc' = "idle"
    BY <1>2 DEF StartRaises, MaxStepsExceeded, Raise, Kill, KillDuringManifest, KillDuringEdit,
                EndAbruptly
  <2> QED
    BY <2>1
<1>3. CASE RefuseNotReady \/ RefuseNoClient
  <2>1. /\ pc = "loop" /\ pc' = "record" /\ outcome' \in FinalOutcomes
        /\ iteration' = iteration + 1
        /\ UNCHANGED <<llm_steps, preflight_complete, shared_code_version, decision_records,
                       sessions>>
    BY <1>3 DEF RefuseNotReady, RefuseNoClient, Iterate, Decide, FinalOutcomes
  <2> QED
    BY <2>1
<1>4. CASE Preflight
  <2>1. ~preflight_complete
    BY <1>4 DEF Preflight, Iterate, NextPhase, Choose, RequestedPhases
  <2> QED
    BY <1>4, <2>1 DEF Preflight, Iterate, Decide, FinalOutcomes
<1>5. CASE BaselineGuard
  <2>1. shared_code_version = NoVersion
    BY <1>5 DEF BaselineGuard, Iterate, NextPhase, Choose, RequestedPhases
  <2>2. shared_code_version' # NoVersion
    BY <1>5, SnapshotType DEF BaselineGuard, TakeSnapshot
  <2> QED
    BY <1>5, <2>1, <2>2 DEF BaselineGuard, Iterate, Decide, FinalOutcomes
<1>6. CASE CallModel
  BY <1>6, SessionAssumption DEF CallModel, Iterate
<1>7. CASE \/ ReplyWithSeveralCalls \/ ReplyEmpty
           \/ \E blank \in BOOLEAN : ReplyWithText(blank)
           \/ \E c \in Calls : ReplyWithCall(c)
  BY <1>7 DEF ReplyWithSeveralCalls, ReplyEmpty, ReplyWithText, ReplyWithCall, LogReply, Decide
<1>8. CASE \/ ReadTool \/ UnknownTool \/ PatchNotFound \/ RejectPatch \/ AcceptSameVersion
           \/ WriteManifest \/ \E dir \in Dirs, ok \in BOOLEAN : RunTool(dir, ok)
  BY <1>8 DEF ReadTool, UnknownTool, PatchNotFound, RejectPatch, AcceptSameVersion,
              WriteManifest, RunTool, ToolDone, PatchDone, Decide
<1>9. CASE EditFile \/ RecordPatch
  BY <1>9 DEF EditFile, RecordPatch
<1>10. CASE RecordSnapshot
  <2>1. shared_code_version' # NoVersion
    BY <1>10, SnapshotType DEF RecordSnapshot, TakeSnapshot, DirectoryWasRead
  <2> QED
    BY <1>10, <2>1 DEF RecordSnapshot
<1>11. CASE RecordDecision
  <2>1. Len(decision_records') = Len(decision_records) + 1
    BY <1>11 DEF RecordDecision
  <2> QED
    BY <1>11, <2>1 DEF RecordDecision
<1>12. CASE UNCHANGED vars
  BY <1>12 DEF vars
<1> QED
  BY <1>1, <1>2, <1>3, <1>4, <1>5, <1>6, <1>7, <1>8, <1>9, <1>10, <1>11, <1>12 DEF Next, Progress

\* The turns in the log are of the sessions there were, and of the turns each
\* could make; the turn that is asked for is not among them yet.
LogIsOfTurns ==
  \A id \in llm_log :
    /\ id[1] \in 1..sessions /\ id[2] \in 1..MaxSteps
    /\ Running /\ id[1] = sessions => id[2] <= llm_steps /\ (pc = "reply" => id[2] < llm_steps)

LEMMA LogStep ==
  ASSUME TypeInv, IterationsAreTurns, LogIsOfTurns, [Next]_vars
  PROVE  LogIsOfTurns'
<1> USE DEF LogIsOfTurns, Running, durable, config, budget, version, tool, branchFrame, turnFrame
<1>0. /\ sessions \in Nat /\ llm_steps \in Nat /\ MaxSteps \in Nat /\ llm_log \subseteq Nat \X Nat
  BY SessionAssumption DEF TypeInv, TypeOK
<1>1. ASSUME NEW t \in Tasks, NEW ready \in BOOLEAN, NEW client \in BOOLEAN,
             StartSession(t, ready, client)
      PROVE  LogIsOfTurns'
  BY <1>0, <1>1 DEF StartSession
<1>2. CASE \/ StartRaises \/ MaxStepsExceeded
           \/ Raise \/ Kill \/ KillDuringManifest \/ \E torn \in Texts : KillDuringEdit(torn)
  <2>1. pc' = "idle" /\ UNCHANGED llm_log /\ sessions' \in {sessions, sessions + 1}
    BY <1>2 DEF StartRaises, MaxStepsExceeded, Raise, Kill, KillDuringManifest, KillDuringEdit,
                EndAbruptly
  <2> QED
    BY <1>0, <2>1
<1>3. CASE RefuseNotReady \/ RefuseNoClient \/ Preflight \/ BaselineGuard
  BY <1>0, <1>3 DEF RefuseNotReady, RefuseNoClient, Preflight, BaselineGuard, Iterate, Decide
<1>4. CASE CallModel
  BY <1>0, <1>4 DEF CallModel, Iterate
<1>5. CASE \/ ReplyWithSeveralCalls \/ ReplyEmpty
           \/ \E blank \in BOOLEAN : ReplyWithText(blank)
           \/ \E c \in Calls : ReplyWithCall(c)
  <2>1. /\ pc = "reply" /\ pc' \in {"record", "execute"}
        /\ llm_log' = llm_log \cup {CallId} /\ UNCHANGED <<sessions, llm_steps>>
    BY <1>5 DEF ReplyWithSeveralCalls, ReplyEmpty, ReplyWithText, ReplyWithCall, LogReply, Decide
  <2>2. llm_steps \in 1..MaxSteps
    BY <1>0, <2>1 DEF IterationsAreTurns
  <2>3. sessions > 0
    BY <2>1 DEF IterationsAreTurns
  <2> QED
    BY <1>0, <2>1, <2>2, <2>3 DEF CallId
<1>6. CASE \/ ReadTool \/ UnknownTool \/ PatchNotFound \/ RejectPatch \/ AcceptSameVersion
           \/ WriteManifest \/ EditFile \/ RecordPatch \/ RecordSnapshot
           \/ \E dir \in Dirs, ok \in BOOLEAN : RunTool(dir, ok)
  <2>1. pc # "reply" /\ pc' # "reply" /\ Running /\ UNCHANGED <<llm_log, sessions, llm_steps>>
    BY <1>6 DEF ReadTool, UnknownTool, PatchNotFound, RejectPatch, AcceptSameVersion,
                WriteManifest, EditFile, RecordPatch, RecordSnapshot, RunTool, ToolDone, PatchDone,
                Decide
  <2> QED
    BY <2>1
<1>7. CASE RecordDecision
  BY <1>7 DEF RecordDecision
<1>8. CASE UNCHANGED vars
  BY <1>8 DEF vars
<1> QED
  BY <1>1, <1>2, <1>3, <1>4, <1>5, <1>6, <1>7, <1>8 DEF Next, Progress

LEMMA BudgetAlways == Spec => [](TypeInv /\ IterationsAreTurns /\ LogIsOfTurns)
<1>1. Init => IterationsAreTurns /\ LogIsOfTurns
  BY DEF Init, IterationsAreTurns, LogIsOfTurns, Running
<1> QED
  BY <1>1, IterationsStep, LogStep, TypeInvInit, TypeInvStep, PTL DEF Spec

\* The loop of a session never runs out of its range, and a session logs at most
\* MaxSteps turns (agent_loop.py:578, 693).
THEOREM BudgetFirst == Spec => []BudgetEndsFirst
<1>1. TypeInv /\ IterationsAreTurns /\ LogIsOfTurns => BudgetEndsFirst
  BY SessionAssumption
  DEF TypeInv, TypeOK, IterationsAreTurns, LogIsOfTurns, BudgetEndsFirst, Running, One, LoopBound
<1> QED
  BY <1>1, BudgetAlways, PTL

LEMMA StepsInRange ==
  ASSUME TypeInv, IterationsAreTurns
  PROVE  Running => StepsLeft \in 0..(7 * LoopBound)
<1> SUFFICES ASSUME Running PROVE StepsLeft \in 0..(7 * LoopBound)
  OBVIOUS
<1>1. /\ iteration \in Nat /\ LoopBound \in Nat /\ iteration <= LoopBound
      /\ pc # "loop" => iteration > 0
  BY SessionAssumption DEF TypeInv, TypeOK, IterationsAreTurns, Running, One, LoopBound
<1>2. StepsOfTurn[pc] \in 0..6 /\ (pc = "loop" => StepsOfTurn[pc] = 0)
  BY DEF StepsOfTurn, TypeInv, TypeOK, Pcs, Running
<1> QED
  BY <1>1, <1>2 DEF StepsLeft

\* A step goes to the next place of the turn, or into the next iteration.
LEMMA StepsGoDown ==
  ASSUME TypeInv, Next, Running, Running'
  PROVE  StepsLeft' < StepsLeft
<1> USE DEF Running, durable, config, budget, version, tool, branchFrame, turnFrame
<1>1. \/ /\ pc = "loop" /\ pc' \in {"record", "reply"}
         /\ iteration' = iteration + 1
      \/ /\ iteration' = iteration
         /\ StepsOfTurn[pc'] < StepsOfTurn[pc]
  <2>1. CASE RefuseNotReady \/ RefuseNoClient \/ Preflight \/ BaselineGuard \/ CallModel
    BY <2>1 DEF RefuseNotReady, RefuseNoClient, Preflight, BaselineGuard, CallModel, Iterate, Decide
  <2>2. CASE \/ ReplyWithSeveralCalls \/ ReplyEmpty
             \/ \E blank \in BOOLEAN : ReplyWithText(blank)
             \/ \E c \in Calls : ReplyWithCall(c)
    BY <2>2 DEF ReplyWithSeveralCalls, ReplyEmpty, ReplyWithText, ReplyWithCall, LogReply, Decide,
                StepsOfTurn
  <2>3. CASE \/ ReadTool \/ UnknownTool \/ PatchNotFound \/ RejectPatch \/ AcceptSameVersion
             \/ WriteManifest \/ EditFile \/ RecordPatch \/ RecordSnapshot \/ RecordDecision
             \/ \E dir \in Dirs, ok \in BOOLEAN : RunTool(dir, ok)
    BY <2>3 DEF ReadTool, UnknownTool, PatchNotFound, RejectPatch, AcceptSameVersion,
                WriteManifest, EditFile, RecordPatch, RecordSnapshot, RecordDecision, RunTool,
                ToolDone, PatchDone, Decide, StepsOfTurn
  <2>4. CASE \/ \E t \in Tasks, ready, client \in BOOLEAN : StartSession(t, ready, client)
             \/ StartRaises \/ MaxStepsExceeded
             \/ Raise \/ Kill \/ KillDuringManifest \/ \E torn \in Texts : KillDuringEdit(torn)
    BY <2>4 DEF StartSession, StartRaises, MaxStepsExceeded, Raise, Kill, KillDuringManifest,
                KillDuringEdit, EndAbruptly
  <2> QED
    BY <2>1, <2>2, <2>3, <2>4 DEF Next, Progress
<1>2. /\ iteration \in Nat /\ LoopBound \in Nat
      /\ StepsOfTurn[pc] \in 0..6 /\ StepsOfTurn[pc'] \in 0..6 /\ StepsOfTurn["loop"] = 0
  <2>1. /\ iteration \in Nat /\ LoopBound \in Nat
        /\ pc \in Pcs \ {"idle"} /\ pc' \in Pcs \ {"idle"}
    BY TypeInvStep, SessionAssumption DEF TypeInv, TypeOK, LoopBound
  <2> QED
    BY <2>1 DEF StepsOfTurn, Pcs
<1>3. LoopBound' = LoopBound
  BY DEF LoopBound
<1> QED
  BY <1>1, <1>2, <1>3 DEF StepsLeft

\* Whatever the model answers, a session takes boundedly many steps, each of them
\* nearer to its end; what SessionEnds adds is that one of them is always taken
\* (agent_loop.py:578).
THEOREM FiniteSession == Spec => SessionIsFinite
<1>1. TypeInv /\ [Next]_vars => [Running /\ Running' => StepsLeft' < StepsLeft]_vars
  BY StepsGoDown
<1> QED
  BY <1>1, StepsInRange, BudgetAlways, PTL DEF Spec, SessionIsFinite

-----------------------------------------------------------------------------
(* More of what the records tell.                                          *)

\* The call of this turn has made no patch yet.
PatchCalls ==
  /\ EachPatchHasItsCall
  /\ pc \in {"reply", "execute", "gate"} =>
       \A i \in DOMAIN code_patch_records : code_patch_records[i].call_id # CallId

LEMMA PatchCallsStep ==
  ASSUME TypeInv, HistoryInv, CallIsLogged, LogIsOfTurns, PatchCalls, [Next]_vars
  PROVE  PatchCalls'
<1> USE DEF PatchCalls, EachPatchHasItsCall, CallId, durable, config, budget, version, tool,
            branchFrame, turnFrame
<1>0. llm_log \subseteq llm_log'
  BY RecordsStay
<1>1. CASE RecordPatch
  <2> DEFINE n == Len(code_patch_records)
  <2>1. /\ code_patch_records \in Seq(PatchRecords) /\ n \in Nat
        /\ code_patch_records' = Append(code_patch_records, NewPatch)
        /\ NewPatch.call_id = CallId
    BY <1>1 DEF RecordPatch, PatchRows, NewPatch, TypeInv, TypeOK
  <2>2. /\ DOMAIN code_patch_records = 1..n /\ DOMAIN code_patch_records' = 1..(n + 1)
        /\ \A i \in 1..n : code_patch_records'[i] = code_patch_records[i]
        /\ code_patch_records'[n + 1].call_id = CallId
    BY <2>1
  <2>3. /\ CallId \in llm_log
        /\ \A i \in 1..n : code_patch_records[i].call_id # CallId
        /\ pc' = "snapshot"
    BY <1>1, <2>2 DEF RecordPatch, CallIsLogged
  <2> HIDE DEF n
  <2>4. \A i \in 1..n : code_patch_records'[i].call_id \in llm_log'
    BY <1>0, <2>2
  <2>5. code_patch_records'[n + 1].call_id \in llm_log'
    BY <1>0, <2>2, <2>3
  <2>6. ASSUME NEW i \in 1..(n + 1), NEW j \in 1..(n + 1),
               code_patch_records'[i].call_id = code_patch_records'[j].call_id
        PROVE  i = j
    <3>1. CASE i \in 1..n /\ j \in 1..n
      BY <2>2, <2>6, <3>1
    <3>2. CASE i = n + 1 \/ j = n + 1
      BY <2>1, <2>2, <2>3, <2>6, <3>2
    <3> QED
      BY <2>1, <2>6, <3>1, <3>2
  <2>7. ASSUME NEW i \in 1..(n + 1)
        PROVE  code_patch_records'[i].call_id \in llm_log'
    <3>1. n \in Nat
      BY <2>1
    <3>2. i \in 1..n \/ i = n + 1
      BY <3>1
    <3> QED
      BY <2>4, <2>5, <3>2
  <2> QED
    BY <2>2, <2>3, <2>6, <2>7
<1>2. CASE CallModel
  <2>1. /\ llm_steps \in Nat /\ llm_steps' = llm_steps + 1 /\ Running
        /\ UNCHANGED <<code_patch_records, sessions, llm_log>>
    BY <1>2 DEF CallModel, Iterate, Running, TypeInv, TypeOK
  <2>2. \A id \in llm_log : id # CallId'
    BY <2>1 DEF LogIsOfTurns
  <2> QED
    BY <2>1, <2>2
<1>3. CASE \/ ReplyWithSeveralCalls \/ ReplyEmpty
           \/ \E blank \in BOOLEAN : ReplyWithText(blank)
           \/ \E c \in Calls : ReplyWithCall(c)
  BY <1>0, <1>3 DEF ReplyWithSeveralCalls, ReplyEmpty, ReplyWithText, ReplyWithCall, LogReply, Decide
<1>4. CASE EditFile
  BY <1>4 DEF EditFile
<1>5. CASE \/ ReadTool \/ UnknownTool \/ PatchNotFound \/ RejectPatch \/ AcceptSameVersion
           \/ WriteManifest \/ RecordSnapshot \/ RecordDecision
           \/ \E dir \in Dirs, ok \in BOOLEAN : RunTool(dir, ok)
  <2>1. pc' \in {"record", "manifest", "loop", "idle"} /\ UNCHANGED <<code_patch_records, llm_log>>
    BY <1>5 DEF ReadTool, UnknownTool, PatchNotFound, RejectPatch, AcceptSameVersion,
                WriteManifest, RecordSnapshot, RecordDecision, RunTool, ToolDone, PatchDone, Decide
  <2> QED
    BY <2>1
<1>6. CASE \/ RefuseNotReady \/ RefuseNoClient \/ Preflight \/ BaselineGuard \/ MaxStepsExceeded
           \/ Raise \/ Kill \/ KillDuringManifest \/ \E torn \in Texts : KillDuringEdit(torn)
  <2>1. pc' \in {"record", "idle"} /\ UNCHANGED <<code_patch_records, llm_log>>
    BY <1>6 DEF RefuseNotReady, RefuseNoClient, Preflight, BaselineGuard, MaxStepsExceeded, Decide,
                Raise, Kill, KillDuringManifest, KillDuringEdit, EndAbruptly
  <2> QED
    BY <2>1
<1>7. CASE \/ StartRaises
           \/ \E t \in Tasks, ready, client \in BOOLEAN : StartSession(t, ready, client)
  <2>1. pc' \in {pc, "loop"} /\ pc = "idle" /\ UNCHANGED <<code_patch_records, llm_log>>
    BY <1>7 DEF StartRaises, StartSession
  <2> QED
    BY <2>1
<1>8. CASE UNCHANGED vars
  BY <1>8 DEF vars
<1> QED
  BY <1>1, <1>2, <1>3, <1>4, <1>5, <1>6, <1>7, <1>8 DEF Next, Progress

\* Each row of code_patch_records names a logged call of its own
\* (agent_loop.py:820).
THEOREM PatchHasItsCall == Spec => []EachPatchHasItsCall
<1>1. Init => PatchCalls /\ CallIsLogged /\ VersionIsTaken
  BY DEF Init, PatchCalls, EachPatchHasItsCall, CallIsLogged, VersionIsTaken
<1>2. PatchCalls => EachPatchHasItsCall
  BY DEF PatchCalls
<1>3. Spec => [](TypeInv /\ HistoryInv)
  BY TypeInvInit, TypeInvStep, HistoryInvInit, HistoryInvStep, PTL DEF Spec
<1> QED
  BY <1>1, <1>2, <1>3, BudgetAlways, CallStep, PatchCallsStep, PTL DEF Spec

\* A session that could not resume the newest version has another directory
\* before it, until it takes its baseline.
CodeIsForeign ==
  Running /\ shared_code_version = NoVersion /\ code_snapshots # <<>> =>
    Last(code_snapshots).version.content # code

LEMMA ForeignStep ==
  ASSUME TypeInv, CodeIsForeign, [Next]_vars
  PROVE  CodeIsForeign'
<1> USE DEF CodeIsForeign, Running, durable, config, budget, version, tool, branchFrame, turnFrame
<1>1. ASSUME NEW t \in Tasks, NEW ready \in BOOLEAN, NEW client \in BOOLEAN,
             StartSession(t, ready, client)
      PROVE  CodeIsForeign'
  <2>1. code_snapshots # <<>> => Last(code_snapshots).version # NoVersion
    BY LastType, CodeAssumption DEF TypeInv, TypeOK, Snapshots, Versions, ReadableDirs
  <2> QED
    BY <1>1, <2>1 DEF StartSession, ResumedVersion
<1>2. CASE \/ StartRaises \/ MaxStepsExceeded
           \/ Raise \/ Kill \/ KillDuringManifest \/ \E torn \in Texts : KillDuringEdit(torn)
  <2>1. pc' = "idle"
    BY <1>2 DEF StartRaises, MaxStepsExceeded, Raise, Kill, KillDuringManifest, KillDuringEdit,
                EndAbruptly
  <2> QED
    BY <2>1
<1>3. CASE RefuseNotReady \/ RefuseNoClient \/ Preflight \/ CallModel \/ RecordDecision
  BY <1>3 DEF RefuseNotReady, RefuseNoClient, Preflight, CallModel, RecordDecision, Iterate
<1>4. CASE BaselineGuard \/ RecordSnapshot
  <2>1. shared_code_version' # NoVersion
    BY <1>4, SnapshotType
    DEF BaselineGuard, RecordSnapshot, TakeSnapshot, TypeInv, DirectoryWasRead
  <2> QED
    BY <2>1
<1>5. CASE \/ ReplyWithSeveralCalls \/ ReplyEmpty
           \/ \E blank \in BOOLEAN : ReplyWithText(blank)
           \/ \E c \in Calls : ReplyWithCall(c)
           \/ ReadTool \/ UnknownTool \/ PatchNotFound \/ RejectPatch \/ AcceptSameVersion
           \/ WriteManifest \/ EditFile \/ RecordPatch
           \/ \E dir \in Dirs, ok \in BOOLEAN : RunTool(dir, ok)
  <2>1. /\ pc \in {"reply", "execute", "gate", "manifest"}
        /\ UNCHANGED shared_code_version
    BY <1>5 DEF ReplyWithSeveralCalls, ReplyEmpty, ReplyWithText, ReplyWithCall, LogReply,
                ReadTool, UnknownTool, PatchNotFound, RejectPatch, AcceptSameVersion,
                WriteManifest, EditFile, RecordPatch, RunTool
  <2> QED
    BY <2>1 DEF TypeInv, VersionExists
<1>6. CASE UNCHANGED vars
  BY <1>6 DEF vars
<1> QED
  BY <1>1, <1>2, <1>3, <1>4, <1>5, <1>6 DEF Next, Progress

LEMMA ChainStep ==
  ASSUME TypeInv, HistoryInv, CodeIsForeign, ChainBreaksAtForeignCode, [Next]_vars
  PROVE  ChainBreaksAtForeignCode'
<1>1. ASSUME Running, TakeSnapshot PROVE ChainBreaksAtForeignCode'
  <2> DEFINE n == Len(code_snapshots)
             snapshot == CodeSnapshot(code, task, shared_code_version, TasksWithThis)
  <2>1. /\ n \in Nat
        /\ DOMAIN code_snapshots = 1..n /\ DOMAIN code_snapshots' = 1..(n + 1)
        /\ \A i \in 1..n : code_snapshots'[i] = code_snapshots[i]
        /\ code_snapshots'[n + 1] = snapshot
    BY <1>1, SnapshotAppends
  <2>2. snapshot.parent = shared_code_version /\ snapshot.version.content = code
    BY DEF CodeSnapshot, CodeVersion
  <2>3. n > 0 /\ shared_code_version = NoVersion => code_snapshots[n].version.content # code
    BY <1>1, <2>1 DEF CodeIsForeign, Last
  <2> HIDE DEF n, snapshot
  <2>4. SUFFICES ASSUME NEW i \in 1..(n + 1), i > 1, code_snapshots'[i].parent = NoVersion
                 PROVE  code_snapshots'[i].version.content # code_snapshots'[i - 1].version.content
    BY <2>1 DEF ChainBreaksAtForeignCode
  <2>5. i - 1 \in 1..n
    BY <2>1, <2>4
  <2>6. CASE i \in 1..n
    BY <2>1, <2>4, <2>5, <2>6 DEF ChainBreaksAtForeignCode
  <2>7. CASE i = n + 1
    <3>1. i - 1 = n /\ n > 0
      BY <2>1, <2>5, <2>7
    <3> QED
      BY <2>1, <2>2, <2>3, <2>4, <2>5, <2>7, <3>1
  <2> QED
    BY <2>1, <2>4, <2>6, <2>7
<1>2. BaselineGuard \/ RecordSnapshot => Running /\ TakeSnapshot
  BY DEF BaselineGuard, RecordSnapshot, Iterate, Running
<1> QED
  BY <1>1, <1>2, StoreSteps DEF RecordPatch, StoreUnchanged, ChainBreaksAtForeignCode

\* Only a directory that was changed behind the loop's back starts a new chain of
\* versions (agent_loop.py:546).
THEOREM ChainBreaks == Spec => []ChainBreaksAtForeignCode
<1>1. Init => CodeIsForeign /\ ChainBreaksAtForeignCode
  BY DEF Init, CodeIsForeign, ChainBreaksAtForeignCode, Running
<1>2. Spec => [](TypeInv /\ HistoryInv)
  BY TypeInvInit, TypeInvStep, HistoryInvInit, HistoryInvStep, PTL DEF Spec
<1> QED
  BY <1>1, <1>2, ForeignStep, ChainStep, PTL DEF Spec

\* The session's copy of the manifest is the manifest.
LEMMA ManifestCopyStep ==
  ASSUME Running => manifest_by_path = code_manifest, [Next]_vars
  PROVE  (Running => manifest_by_path = code_manifest)'
<1> USE DEF Running, durable, branchFrame, turnFrame
<1>1. CASE \/ \E t \in Tasks, ready, client \in BOOLEAN : StartSession(t, ready, client)
           \/ StartRaises \/ RefuseNotReady \/ RefuseNoClient \/ Preflight \/ BaselineGuard
           \/ CallModel \/ MaxStepsExceeded \/ RecordDecision
  BY <1>1 DEF StartSession, StartRaises, RefuseNotReady, RefuseNoClient, Preflight, BaselineGuard,
              CallModel, MaxStepsExceeded, RecordDecision, Iterate
<1>2. CASE \/ ReplyWithSeveralCalls \/ ReplyEmpty
           \/ \E blank \in BOOLEAN : ReplyWithText(blank)
           \/ \E c \in Calls : ReplyWithCall(c)
  BY <1>2 DEF ReplyWithSeveralCalls, ReplyEmpty, ReplyWithText, ReplyWithCall, LogReply
<1>3. CASE \/ ReadTool \/ UnknownTool \/ PatchNotFound \/ RejectPatch \/ AcceptSameVersion
           \/ WriteManifest \/ EditFile \/ RecordPatch \/ RecordSnapshot
           \/ \E dir \in Dirs, ok \in BOOLEAN : RunTool(dir, ok)
  BY <1>3 DEF ReadTool, UnknownTool, PatchNotFound, RejectPatch, AcceptSameVersion,
              WriteManifest, EditFile, RecordPatch, RecordSnapshot, RunTool
<1>4. CASE \/ Raise \/ Kill \/ KillDuringManifest \/ \E torn \in Texts : KillDuringEdit(torn)
  BY <1>4 DEF Raise, Kill, KillDuringManifest, KillDuringEdit, EndAbruptly
<1>5. CASE UNCHANGED vars
  BY <1>5 DEF vars
<1> QED
  BY <1>1, <1>2, <1>3, <1>4, <1>5 DEF Next, Progress

\* Only two steps write the manifest.
LEMMA ManifestWriters ==
  ASSUME Next
  PROVE  WriteManifest \/ KillDuringManifest \/ UNCHANGED code_manifest
<1> USE DEF durable
<1>1. CASE \/ \E t \in Tasks, ready, client \in BOOLEAN : StartSession(t, ready, client)
           \/ StartRaises \/ RefuseNotReady \/ RefuseNoClient \/ Preflight \/ BaselineGuard
           \/ CallModel \/ MaxStepsExceeded \/ RecordDecision
  BY <1>1 DEF StartSession, StartRaises, RefuseNotReady, RefuseNoClient, Preflight, BaselineGuard,
              CallModel, MaxStepsExceeded, RecordDecision
<1>2. CASE \/ ReplyWithSeveralCalls \/ ReplyEmpty
           \/ \E blank \in BOOLEAN : ReplyWithText(blank)
           \/ \E c \in Calls : ReplyWithCall(c)
  BY <1>2 DEF ReplyWithSeveralCalls, ReplyEmpty, ReplyWithText, ReplyWithCall, LogReply
<1>3. CASE \/ ReadTool \/ UnknownTool \/ PatchNotFound \/ RejectPatch \/ AcceptSameVersion
           \/ EditFile \/ RecordPatch \/ RecordSnapshot
           \/ \E dir \in Dirs, ok \in BOOLEAN : RunTool(dir, ok)
  BY <1>3 DEF ReadTool, UnknownTool, PatchNotFound, RejectPatch, AcceptSameVersion,
              EditFile, RecordPatch, RecordSnapshot, RunTool
<1>4. CASE Raise \/ Kill \/ \E torn \in Texts : KillDuringEdit(torn)
  BY <1>4 DEF Raise, Kill, KillDuringEdit
<1> QED
  BY <1>1, <1>2, <1>3, <1>4 DEF Next, Progress

\* Sessions rewrite the manifest whole and lose no entry, unless one is killed in
\* the write (agent_loop.py:372, 574).
THEOREM EntriesKept == Spec => EntriesOnlyReplaced
<1>1. Init => (Running => manifest_by_path = code_manifest)
  BY DEF Init, Running
<1>2. Spec => [](TypeInv /\ (Running => manifest_by_path = code_manifest))
  BY <1>1, ManifestCopyStep, TypeInvInit, TypeInvStep, PTL DEF Spec
<1>3. ASSUME TypeInv, Running => manifest_by_path = code_manifest, Next,
             NEW f \in Files, code_manifest[f] # NoEntry, code_manifest'[f] = NoEntry
      PROVE  code_manifest' = NoManifest /\ result' = "killed"
  <2>1. CASE WriteManifest
    <3>1. /\ manifest_by_path = code_manifest
          /\ code_manifest' = [manifest_by_path EXCEPT ![call.file] = ManifestEntry]
          /\ code_manifest \in [Files -> ManifestEntries \cup {NoEntry}]
      BY <1>3, <2>1 DEF WriteManifest, Running, TypeInv, TypeOK
    <3>2. ManifestEntry # NoEntry
      <4>1. /\ call \in EditCalls /\ code[call.file] = call.text
            /\ shared_code_version \in Versions
            /\ sessions \in Nat /\ llm_steps \in Nat
        BY <1>3, <2>1 DEF WriteManifest, TypeInv, TypeOK, CallInFlight, VersionExists
      <4>2. ManifestEntry \in ManifestEntries
        BY <4>1 DEF ManifestEntry, ManifestEntries, EditCalls, CallId
      <4> QED
        BY <4>2, EntryAssumption
    <3> QED
      BY <1>3, <3>1, <3>2
  <2>2. CASE KillDuringManifest
    BY <2>2 DEF KillDuringManifest, EndAbruptly
  <2> QED
    BY <1>3, <2>1, <2>2, ManifestWriters
<1>4. TypeInv /\ (Running => manifest_by_path = code_manifest) /\ [Next]_vars =>
        [\A f \in Files : code_manifest[f] # NoEntry /\ code_manifest'[f] = NoEntry =>
           code_manifest' = NoManifest /\ result' = "killed"]_vars
  BY <1>3
<1> QED
  BY <1>2, <1>4, PTL DEF Spec, EntriesOnlyReplaced

\* A session that succeeds has a version, the newest, and has it on disk.
SuccessInv ==
  /\ Running => result = "running"
  /\ pc = "record" /\ outcome = "finalized" => shared_code_version # NoVersion
  /\ SuccessLeavesItsVersion

LEMMA SuccessStep ==
  ASSUME TypeInv, HistoryInv, DirectoryInv, SuccessInv, [Next]_vars
  PROVE  SuccessInv'
<1> USE DEF SuccessInv, SuccessLeavesItsVersion, Running, durable, config, version, branchFrame,
            turnFrame
<1>1. CASE \/ \E t \in Tasks, ready, client \in BOOLEAN : StartSession(t, ready, client)
           \/ StartRaises \/ MaxStepsExceeded \/ CallModel
  BY <1>1 DEF StartSession, StartRaises, MaxStepsExceeded, CallModel, Iterate
<1>2. CASE RefuseNotReady \/ RefuseNoClient \/ Preflight \/ BaselineGuard
  BY <1>2 DEF RefuseNotReady, RefuseNoClient, Preflight, BaselineGuard, Decide, Iterate
<1>3. CASE \/ ReplyWithSeveralCalls \/ ReplyEmpty
           \/ \E blank \in BOOLEAN : ReplyWithText(blank)
           \/ \E c \in Calls : ReplyWithCall(c)
  BY <1>3 DEF ReplyWithSeveralCalls, ReplyEmpty, ReplyWithText, ReplyWithCall, LogReply, Decide,
              FinalizeGate
<1>4. CASE \/ ReadTool \/ UnknownTool \/ PatchNotFound \/ RejectPatch \/ AcceptSameVersion
           \/ WriteManifest \/ EditFile \/ RecordPatch \/ RecordSnapshot
           \/ \E dir \in Dirs, ok \in BOOLEAN : RunTool(dir, ok)
  BY <1>4 DEF ReadTool, UnknownTool, PatchNotFound, RejectPatch, AcceptSameVersion,
              WriteManifest, EditFile, RecordPatch, RecordSnapshot, RunTool, ToolDone, PatchDone,
              Decide
<1>5. CASE RecordDecision
  <2>1. /\ pc = "record" /\ result = "running" /\ UNCHANGED <<durable, tracked, outcome>>
        /\ pc' = "idle" \/ (pc' = "loop" /\ result' = result)
        /\ result' = "ok" => outcome = "finalized"
    BY <1>5 DEF RecordDecision, FinalOutcomes
  <2>2. ASSUME outcome = "finalized", tracked
        PROVE  code_snapshots # <<>> /\ Last(code_snapshots).version.content = code
    BY <2>1, <2>2 DEF HistoryInv, WorksFromNewest, DirectoryInv, DirectoryMatchesVersion
  <2> QED
    BY <2>1, <2>2
<1>6. CASE \/ Raise \/ Kill \/ KillDuringManifest \/ \E torn \in Texts : KillDuringEdit(torn)
  BY <1>6 DEF Raise, Kill, KillDuringManifest, KillDuringEdit, EndAbruptly
<1>7. CASE UNCHANGED vars
  BY <1>7 DEF vars
<1> QED
  BY <1>1, <1>2, <1>3, <1>4, <1>5, <1>6, <1>7 DEF Next, Progress

\* After a success the directory is the newest version, unless a command of the
\* session has changed it (agent_loop.py:878).
THEOREM SuccessOnDisk == Spec => []SuccessLeavesItsVersion
<1>1. Init => SuccessInv /\ DirectoryInv
  BY DEF Init, SuccessInv, SuccessLeavesItsVersion, Running, DirectoryInv, DirectoryMatchesVersion
<1>2. SuccessInv => SuccessLeavesItsVersion
  BY DEF SuccessInv
<1>3. Spec => [](TypeInv /\ HistoryInv)
  BY TypeInvInit, TypeInvStep, HistoryInvInit, HistoryInvStep, PTL DEF Spec
<1> QED
  BY <1>1, <1>2, <1>3, DirectoryStep, SuccessStep, PTL DEF Spec

=============================================================================
