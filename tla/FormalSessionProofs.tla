------------------------- MODULE FormalSessionProofs -------------------------
(***************************************************************************)
(* Proofs about the formal loop, for every number of tasks, files, texts,  *)
(* sessions and turns.                                                     *)
(***************************************************************************)
EXTENDS FormalSessionProperties, TLAPS

\* The call being executed is one the model can make; once its file is written
\* it is an edit, and the file holds the text of the call.
CallInFlight ==
  /\ pc \in {"execute", "gate", "snapshot", "manifest"} => call \in Calls
  /\ pc \in {"gate", "snapshot", "manifest"} =>
       call \in EditCalls /\ code[call.file] = call.text

\* A directory a snapshot is being taken of was read.
DirectoryWasRead == pc \in {"snapshot", "manifest"} => Readable(code)

\* An iteration has entered a phase of the router.
PhaseEntered == pc \notin {"idle", "loop"} => current_phase \in Phases

\* The model is only called once there is a version.
VersionExists ==
  pc \in {"reply", "execute", "gate", "snapshot", "manifest"} =>
    shared_code_version # NoVersion

\* A running session plans with the tasks of the newest snapshot ...
SupportIsCurrent == Running => supported_tasks = ResumedTasks

\* ... and a patch just recorded describes the snapshot about to be taken.
PatchIsPending ==
  pc = "snapshot" =>
    LET p == Last(code_patch_records)
    IN /\ code_patch_records # <<>>
       /\ p.base = shared_code_version
       /\ p.new = CodeVersion(code, task)
       /\ p.validation.validated_against_tasks = supported_tasks \ {task}

TypeInv ==
  TypeOK /\ CallInFlight /\ DirectoryWasRead /\ PhaseEntered /\ VersionExists

HistoryInv == WorksFromNewest /\ SupportIsCurrent /\ PatchIsPending

-----------------------------------------------------------------------------
(* Helpers.                                                                *)

LEMMA EmptySequence ==
  ASSUME NEW S
  PROVE  <<>> \in Seq(S)
  OBVIOUS

\* The last element of a sequence.
LEMMA LastType ==
  ASSUME NEW S, NEW s \in Seq(S), s # <<>>
  PROVE  Last(s) \in S
<1>1. Len(s) \in 1..Len(s)
  OBVIOUS
<1> QED
  BY <1>1 DEF Last

LEMMA LastOfAppend ==
  ASSUME NEW S, NEW s \in Seq(S), NEW e
  PROVE  /\ Append(s, e) # <<>>
         /\ Last(Append(s, e)) = e
<1>1. s \in Seq(S \cup {e}) /\ e \in S \cup {e}
  OBVIOUS
<1> QED
  BY <1>1 DEF Last

LEMMA ToSetOfAppend ==
  ASSUME NEW S, NEW s \in Seq(S), NEW e
  PROVE  ToSet(Append(s, e)) = ToSet(s) \cup {e}
<1> DEFINE t == Append(s, e)
<1>1. /\ DOMAIN t = DOMAIN s \cup {Len(s) + 1}
      /\ \A i \in DOMAIN s : t[i] = s[i]
      /\ t[Len(s) + 1] = e
  OBVIOUS
<1> HIDE DEF t
<1>2. {t[i] : i \in DOMAIN t} = {s[i] : i \in DOMAIN s} \cup {e}
  BY <1>1
<1> QED
  BY <1>2 DEF ToSet, t

\* The router only knows its own phases.
LEMMA ChooseType ==
  ASSUME NEW ready, NEW pending, NEW hasBaseline, NEW error, NEW phase
  PROVE  Choose(ready, pending, hasBaseline, error, phase) \in Phases
  BY DEF Choose, Phases, RequestedPhases

\* A version is never Python's None.
LEMMA VersionType ==
  ASSUME NEW dir \in ReadableDirs, NEW t \in Tasks
  PROVE  /\ CodeVersion(dir, t) \in Versions
         /\ CodeVersion(dir, t) # NoVersion
  BY CodeAssumption DEF CodeVersion, Versions, ReadableDirs

\* The gate's verdict is a verdict.
LEMMA GateType ==
  ASSUME NEW supported \in SUBSET Tasks, NEW t \in Tasks, NEW claimed
  PROVE  PatchGate(supported, t, claimed) \in Verdicts
  <1>1. CompatibilityChecks(supported \ {t}, t, claimed) \in
          [(supported \ {t}) \cup {t} -> BOOLEAN]
    BY DEF CompatibilityChecks
  <1>2. (supported \ {t}) \cup {t} \in SUBSET Tasks
    OBVIOUS
  <1>3. CompatibilityChecks(supported \ {t}, t, claimed) \in
          UNION {[S -> BOOLEAN] : S \in SUBSET Tasks}
    BY <1>1, <1>2
  <1>4. (\A u \in supported \ {t} :
           CompatibilityChecks(supported \ {t}, t, claimed)[u]) \in BOOLEAN
    OBVIOUS
  <1> QED
    BY <1>3, <1>4 DEF PatchGate, Verdicts

-----------------------------------------------------------------------------
(* The types.                                                              *)

LEMMA TypeInvInit == Init => TypeInv
<1> SUFFICES ASSUME Init PROVE TypeInv
  OBVIOUS
<1>1. code \in Dirs
  BY DEF Init, Dirs, ReadableDirs, Contents
<1>2. NoManifest \in [Files -> ManifestEntries \cup {NoEntry}]
  BY DEF NoManifest
<1>3. TypeOK
  BY <1>1, <1>2, EmptySequence
  DEF Init, TypeOK, Pcs, Errors, Results, Outcomes
<1> QED
  BY <1>3 DEF Init, TypeInv, CallInFlight, DirectoryWasRead, PhaseEntered, VersionExists

\* The version a session resumes, and the tasks it takes over.
LEMMA ResumedType ==
  ASSUME TypeOK
  PROVE  /\ ResumedVersion \in Versions \cup {NoVersion}
         /\ ResumedTasks \subseteq Tasks
<1>1. code_snapshots # <<>> => Last(code_snapshots) \in Snapshots
  BY LastType DEF TypeOK
<1> QED
  BY <1>1 DEF ResumedVersion, ResumedTasks, Snapshots

\* A snapshot of a directory that was read.
LEMMA SnapshotType ==
  ASSUME TypeOK, Readable(code)
  PROVE  LET snapshot == CodeSnapshot(code, task, shared_code_version, TasksWithThis)
         IN /\ snapshot \in Snapshots
            /\ snapshot.version \in Versions
            /\ snapshot.version # NoVersion
            /\ TasksWithThis \subseteq Tasks
  BY VersionType DEF TypeOK, Readable, CodeSnapshot, Snapshots, TasksWithThis

\* The phases in which the model is called have a version.
LEMMA LLMPhaseHasVersion ==
  ASSUME NextPhase \in LLMPhases
  PROVE  shared_code_version # NoVersion
  BY DEF NextPhase, Choose, LLMPhases, RequestedPhases

\* A call of one of the two editing tools carries what they need.
LEMMA EditIsEditCall ==
  ASSUME call \in Calls, call.tool \in EditTools
  PROVE  call \in EditCalls
  BY SessionAssumption DEF Calls, EditTools, ReadTools, RunTools

\* Every step keeps the types.
LEMMA TypeInvStep ==
  ASSUME TypeInv, [Next]_vars
  PROVE  TypeInv'
<1> USE DEF TypeInv, TypeOK, CallInFlight, DirectoryWasRead, PhaseEntered,
            VersionExists, durable, config, budget, version, tool, branchFrame,
            turnFrame, Pcs, Outcomes, FinalOutcomes, FailureOutcomes, Errors,
            Results, Readable
<1>1. ASSUME NEW t \in Tasks, NEW ready \in BOOLEAN, NEW client \in BOOLEAN,
              StartSession(t, ready, client)
      PROVE  TypeInv'
  <2>1. /\ shared_code_version' \in Versions \cup {NoVersion}
        /\ supported_tasks' \subseteq Tasks
    BY <1>1, ResumedType DEF StartSession
  <2>2. decision_records' \in Seq(Rows)
    BY <1>1, EmptySequence DEF StartSession
  <2>3. /\ provider_ready' \in BOOLEAN /\ has_client' \in BOOLEAN
        /\ preflight_complete' \in BOOLEAN /\ tracked' \in BOOLEAN
    BY <1>1 DEF StartSession
  <2>4. /\ task' \in Tasks /\ sessions' \in Nat /\ iteration' \in Nat /\ llm_steps' \in Nat
        /\ code' \in Dirs /\ code_snapshots' \in Seq(Snapshots)
        /\ code_patch_records' \in Seq(PatchRecords)
        /\ code_manifest' \in [Files -> ManifestEntries \cup {NoEntry}]
        /\ manifest_by_path' \in [Files -> ManifestEntries \cup {NoEntry}]
        /\ llm_log' \subseteq Nat \X Nat
    BY <1>1 DEF StartSession
  <2>5. TypeOK'
    BY <1>1, <2>1, <2>2, <2>3, <2>4 DEF StartSession
  <2> QED
    BY <1>1, <2>5 DEF StartSession
<1>2. CASE StartRaises
  BY <1>2 DEF StartRaises
<1>3. CASE RefuseNotReady
  BY <1>3, ChooseType DEF RefuseNotReady, Iterate, Decide, NextPhase
<1>4. CASE Preflight
  BY <1>4, ChooseType DEF Preflight, Iterate, Decide, NextPhase
<1>5. CASE BaselineGuard
  BY <1>5, ChooseType, SnapshotType DEF BaselineGuard, Iterate, Decide, NextPhase, TakeSnapshot
<1>6. CASE RefuseNoClient
  BY <1>6, ChooseType DEF RefuseNoClient, Iterate, Decide, NextPhase
<1>7. CASE MaxStepsExceeded
  BY <1>7, ChooseType DEF MaxStepsExceeded, Iterate, NextPhase
<1>8. CASE CallModel
  BY <1>8, ChooseType, LLMPhaseHasVersion DEF CallModel, Iterate, NextPhase
<1>9. CASE ReplyWithSeveralCalls
  BY <1>9 DEF ReplyWithSeveralCalls, LogReply, CallId, Decide
<1>10. CASE ReplyEmpty
  BY <1>10 DEF ReplyEmpty, LogReply, CallId, Decide
<1>11. ASSUME NEW c \in Calls, ReplyWithCall(c)
      PROVE  TypeInv'
  BY <1>11 DEF ReplyWithCall, LogReply, CallId
<1>12. ASSUME NEW blank \in BOOLEAN, ReplyWithText(blank)
      PROVE  TypeInv'
  BY <1>12 DEF ReplyWithText, LogReply, CallId, Decide
<1>13. CASE ReadTool
  BY <1>13 DEF ReadTool, ToolDone, Decide
<1>14. CASE UnknownTool
  BY <1>14 DEF UnknownTool, ToolDone, Decide
<1>15. CASE EditFile
  BY <1>15, EditIsEditCall DEF EditFile, EditCalls, Contents, Dirs
<1>16. CASE PatchNotFound
  BY <1>16 DEF PatchNotFound, ToolDone, Decide
<1>17. CASE RejectPatch
  BY <1>17 DEF RejectPatch, RestoreFile, Decide, EditCalls, Contents, Dirs
<1>18. CASE AcceptSameVersion
  BY <1>18 DEF AcceptSameVersion, PatchDone, Decide
<1>19. CASE RecordPatch
  BY <1>19, VersionType, GateType DEF RecordPatch, PatchRows, NewPatch, Gate,
           PatchRecords, EditCalls, CallId
<1>20. CASE RecordSnapshot
  BY <1>20, SnapshotType DEF RecordSnapshot, TakeSnapshot
<1>21. CASE WriteManifest
  BY <1>21 DEF WriteManifest, ManifestEntry, ManifestEntries, PatchDone, Decide,
           EditCalls, CallId
<1>22. CASE RecordDecision
  BY <1>22 DEF RecordDecision, Rows
<1>23. CASE Raise
  BY <1>23 DEF Raise, EndAbruptly
<1>24. ASSUME NEW dir \in Dirs, NEW ok \in BOOLEAN, RunTool(dir, ok)
      PROVE  TypeInv'
  BY <1>24 DEF RunTool, ToolDone, Decide
<1>25. CASE Kill
  BY <1>25 DEF Kill, EndAbruptly
<1>26. ASSUME NEW torn \in Texts, KillDuringEdit(torn)
      PROVE  TypeInv'
  BY <1>26, EditIsEditCall DEF KillDuringEdit, EndAbruptly, EditCalls, Contents, Dirs
<1>27. CASE KillDuringManifest
  BY <1>27 DEF KillDuringManifest, EndAbruptly, NoManifest
<1>28. CASE UNCHANGED vars
  BY <1>28 DEF vars
<1> QED
  BY <1>1, <1>2, <1>3, <1>4, <1>5, <1>6, <1>7, <1>8, <1>9, <1>10, <1>11, <1>12, <1>13, <1>14,
     <1>15, <1>16, <1>17, <1>18, <1>19, <1>20, <1>21, <1>22, <1>23, <1>24, <1>25, <1>26,
     <1>27, <1>28 DEF Next, Progress

\* A session keeps its records well-typed whatever the model asks for and
\* whenever it is killed.
THEOREM TypeCorrect == Spec => []TypeOK
<1>1. Spec => []TypeInv
  BY TypeInvInit, TypeInvStep, PTL DEF Spec
<1>2. TypeInv => TypeOK
  BY DEF TypeInv
<1> QED
  BY <1>1, <1>2, PTL

-----------------------------------------------------------------------------
(* The version history.                                                    *)

LEMMA HistoryInvInit == Init => HistoryInv
  BY DEF Init, HistoryInv, WorksFromNewest, SupportIsCurrent, PatchIsPending, Running

\* TakeSnapshot makes the directory the newest version, and the session's.
LEMMA AppendedSnapshot ==
  ASSUME TypeOK, TakeSnapshot
  PROVE  LET snapshot == CodeSnapshot(code, task, shared_code_version, TasksWithThis)
         IN /\ code_snapshots' # <<>>
            /\ Last(code_snapshots') = snapshot
            /\ shared_code_version' = snapshot.version
            /\ supported_tasks' = snapshot.tasks
  BY LastOfAppend DEF TypeOK, TakeSnapshot, CodeSnapshot

\* RecordPatch puts the patch of this call last.
LEMMA AppendedPatch ==
  ASSUME TypeOK, RecordPatch
  PROVE  /\ code_patch_records' # <<>>
         /\ Last(code_patch_records') = NewPatch
         /\ NewPatch.base = shared_code_version
         /\ NewPatch.new = CodeVersion(code, task)
         /\ NewPatch.validation.validated_against_tasks = supported_tasks \ {task}
<1>1. code_patch_records' = Append(code_patch_records, NewPatch)
  BY DEF RecordPatch, PatchRows
<1>2. NewPatch.validation = PatchGate(supported_tasks, task, call.claimed)
  BY DEF NewPatch, Gate
<1>3. PatchGate(supported_tasks, task, call.claimed).validated_against_tasks =
        supported_tasks \ {task}
  BY DEF PatchGate
<1>4. NewPatch.base = shared_code_version /\ NewPatch.new = CodeVersion(code, task)
  BY DEF NewPatch
<1> QED
  BY <1>1, <1>2, <1>3, <1>4, LastOfAppend DEF TypeOK

\* Every step keeps the session on the newest snapshot.
LEMMA HistoryInvStep ==
  ASSUME TypeInv, HistoryInv, [Next]_vars
  PROVE  HistoryInv'
<1> USE DEF HistoryInv, WorksFromNewest, SupportIsCurrent, PatchIsPending, Running,
            ResumedTasks, durable, config, budget, version, tool, branchFrame, turnFrame
<1>1. ASSUME NEW t \in Tasks, NEW ready \in BOOLEAN, NEW client \in BOOLEAN,
              StartSession(t, ready, client)
      PROVE  HistoryInv'
  BY <1>1 DEF StartSession, ResumedVersion
<1>2. CASE StartRaises
  BY <1>2 DEF StartRaises
<1>3. CASE RefuseNotReady
  BY <1>3 DEF RefuseNotReady, Iterate, Decide
<1>4. CASE Preflight
  BY <1>4 DEF Preflight, Iterate, Decide
<1>5. CASE BaselineGuard
  BY <1>5, AppendedSnapshot DEF TypeInv, BaselineGuard, Iterate, Decide, CodeSnapshot
<1>6. CASE RefuseNoClient
  BY <1>6 DEF RefuseNoClient, Iterate, Decide
<1>7. CASE MaxStepsExceeded
  BY <1>7 DEF MaxStepsExceeded
<1>8. CASE CallModel
  BY <1>8 DEF CallModel, Iterate
<1>9. CASE ReplyWithSeveralCalls
  BY <1>9 DEF ReplyWithSeveralCalls, LogReply, Decide
<1>10. CASE ReplyEmpty
  BY <1>10 DEF ReplyEmpty, LogReply, Decide
<1>11. ASSUME NEW c \in Calls, ReplyWithCall(c)
      PROVE  HistoryInv'
  BY <1>11 DEF ReplyWithCall, LogReply
<1>12. ASSUME NEW blank \in BOOLEAN, ReplyWithText(blank)
      PROVE  HistoryInv'
  BY <1>12 DEF ReplyWithText, LogReply, Decide
<1>13. CASE ReadTool
  BY <1>13 DEF ReadTool, ToolDone, Decide
<1>14. CASE UnknownTool
  BY <1>14 DEF UnknownTool, ToolDone, Decide
<1>15. CASE EditFile
  BY <1>15 DEF EditFile
<1>16. CASE PatchNotFound
  BY <1>16 DEF PatchNotFound, ToolDone, Decide
<1>17. CASE RejectPatch
  BY <1>17 DEF RejectPatch, Decide
<1>18. CASE AcceptSameVersion
  BY <1>18 DEF AcceptSameVersion, PatchDone, Decide
<1>19. CASE RecordPatch
  BY <1>19, AppendedPatch DEF TypeInv, RecordPatch
<1>20. CASE RecordSnapshot
  BY <1>20, AppendedSnapshot DEF TypeInv, RecordSnapshot, CodeSnapshot
<1>21. CASE WriteManifest
  BY <1>21 DEF WriteManifest, PatchDone, Decide
<1>22. CASE RecordDecision
  BY <1>22 DEF RecordDecision
<1>23. CASE Raise
  BY <1>23 DEF Raise, EndAbruptly
<1>24. ASSUME NEW dir \in Dirs, NEW ok \in BOOLEAN, RunTool(dir, ok)
      PROVE  HistoryInv'
  BY <1>24 DEF RunTool, ToolDone, Decide
<1>25. CASE Kill
  BY <1>25 DEF Kill, EndAbruptly
<1>26. ASSUME NEW torn \in Texts, KillDuringEdit(torn)
      PROVE  HistoryInv'
  BY <1>26 DEF KillDuringEdit, EndAbruptly
<1>27. CASE KillDuringManifest
  BY <1>27 DEF KillDuringManifest, EndAbruptly
<1>28. CASE UNCHANGED vars
  BY <1>28 DEF vars
<1> QED
  BY <1>1, <1>2, <1>3, <1>4, <1>5, <1>6, <1>7, <1>8, <1>9, <1>10, <1>11, <1>12, <1>13, <1>14,
     <1>15, <1>16, <1>17, <1>18, <1>19, <1>20, <1>21, <1>22, <1>23, <1>24, <1>25, <1>26,
     <1>27, <1>28 DEF Next, Progress

\* A running session works from the newest snapshot and plans with its tasks,
\* after any number of sessions and crashes.
THEOREM NewestVersion == Spec => []WorksFromNewest
<1>1. Spec => [](TypeInv /\ HistoryInv)
  BY TypeInvInit, TypeInvStep, HistoryInvInit, HistoryInvStep, PTL DEF Spec
<1>2. HistoryInv => WorksFromNewest
  BY DEF HistoryInv
<1> QED
  BY <1>1, <1>2, PTL

-----------------------------------------------------------------------------
(* The store implements the append-only history of SharedCodeHistory.      *)

\* Steps that leave the two tables alone.
StoreUnchanged == UNCHANGED <<code_snapshots, code_patch_records>>

\* Only three kinds of step write the tables.
LEMMA StoreSteps ==
  ASSUME [Next]_vars
  PROVE  BaselineGuard \/ RecordPatch \/ RecordSnapshot \/ StoreUnchanged
<1> USE DEF StoreUnchanged, durable, LogReply, EndAbruptly
<1>1. ASSUME NEW t \in Tasks, NEW ready \in BOOLEAN, NEW client \in BOOLEAN,
             StartSession(t, ready, client)
      PROVE  StoreUnchanged
  BY <1>1 DEF StartSession
<1>2. ASSUME \/ StartRaises \/ RefuseNotReady \/ Preflight \/ RefuseNoClient
             \/ MaxStepsExceeded \/ CallModel \/ RecordDecision
      PROVE  StoreUnchanged
  BY <1>2 DEF StartRaises, RefuseNotReady, Preflight, RefuseNoClient,
              MaxStepsExceeded, CallModel, RecordDecision
<1>3. ASSUME \/ ReplyWithSeveralCalls \/ ReplyEmpty
             \/ \E c \in Calls : ReplyWithCall(c)
             \/ \E blank \in BOOLEAN : ReplyWithText(blank)
      PROVE  StoreUnchanged
  BY <1>3 DEF ReplyWithSeveralCalls, ReplyEmpty, ReplyWithCall, ReplyWithText
<1>4. ASSUME \/ ReadTool \/ UnknownTool \/ EditFile \/ PatchNotFound
             \/ \E dir \in Dirs, ok \in BOOLEAN : RunTool(dir, ok)
      PROVE  StoreUnchanged
  BY <1>4 DEF ReadTool, UnknownTool, EditFile, PatchNotFound, RunTool
<1>5. ASSUME RejectPatch \/ AcceptSameVersion \/ WriteManifest
      PROVE  StoreUnchanged
  BY <1>5 DEF RejectPatch, AcceptSameVersion, WriteManifest
<1>6. ASSUME \/ Raise \/ Kill \/ KillDuringManifest
             \/ \E torn \in Texts : KillDuringEdit(torn)
      PROVE  StoreUnchanged
  BY <1>6 DEF Raise, Kill, KillDuringManifest, KillDuringEdit
<1>7. CASE UNCHANGED vars
  BY <1>7 DEF vars
<1> QED
  BY <1>1, <1>2, <1>3, <1>4, <1>5, <1>6, <1>7 DEF Next, Progress

\* A baseline is a Rebase of the history.
LEMMA BaselineRebases ==
  ASSUME TypeInv, HistoryInv, BaselineGuard
  PROVE  History!Rebase(code, task)
<1>1. shared_code_version = NoVersion /\ Running
  BY DEF BaselineGuard, Iterate, NextPhase, Choose, RequestedPhases, Running
<1>2. supported_tasks = ResumedTasks
  BY <1>1 DEF HistoryInv, SupportIsCurrent
<1> QED
  BY <1>1, <1>2
  DEF BaselineGuard, TakeSnapshot, TasksWithThis, ResumedTasks, History!Rebase,
      CodeSnapshot, CodeVersion, History!CodeSnapshot, History!CodeVersion, Last,
      History!Last

\* A patch record is a Propose ...
LEMMA RecordedPatchProposes ==
  ASSUME TypeInv, HistoryInv, RecordPatch
  PROVE  History!Propose(code, task)
<1> DEFINE Abstract(p) ==
      [base |-> p.base, new |-> p.new, against |-> p.validation.validated_against_tasks]
<1>1. /\ code_snapshots # <<>>
      /\ shared_code_version = Last(code_snapshots).version
      /\ supported_tasks = Last(code_snapshots).tasks
  BY DEF TypeInv, VersionExists, HistoryInv, WorksFromNewest, RecordPatch, Running
<1>2. ToSet(code_patch_records') = ToSet(code_patch_records) \cup {NewPatch}
  BY ToSetOfAppend DEF TypeInv, TypeOK, RecordPatch, PatchRows
<1>3. {Abstract(p) : p \in ToSet(code_patch_records')} =
        {Abstract(p) : p \in ToSet(code_patch_records)} \cup {Abstract(NewPatch)}
  BY <1>2
<1>4. Abstract(NewPatch) =
        [base    |-> Last(code_snapshots).version,
         new     |-> CodeVersion(code, task),
         against |-> Last(code_snapshots).tasks \ {task}]
  BY <1>1, AppendedPatch DEF TypeInv
<1> QED
  BY <1>1, <1>3, <1>4
  DEF RecordPatch, History!Propose, CodeVersion, History!CodeVersion, Last,
      History!Last, ToSet, History!ToSet

\* ... and the snapshot that follows it an Advance.
LEMMA RecordedSnapshotAdvances ==
  ASSUME TypeInv, HistoryInv, RecordSnapshot
  PROVE  History!Advance(code, task)
<1> DEFINE Abstract(p) ==
      [base |-> p.base, new |-> p.new, against |-> p.validation.validated_against_tasks]
<1>1. /\ code_snapshots # <<>>
      /\ shared_code_version = Last(code_snapshots).version
      /\ supported_tasks = Last(code_snapshots).tasks
  BY DEF TypeInv, VersionExists, HistoryInv, WorksFromNewest, RecordSnapshot, Running
<1>2. Last(code_patch_records) \in ToSet(code_patch_records)
  BY DEF TypeInv, TypeOK, HistoryInv, PatchIsPending, RecordSnapshot, Last, ToSet
<1>3. Abstract(Last(code_patch_records)) =
        [base    |-> Last(code_snapshots).version,
         new     |-> CodeVersion(code, task),
         against |-> Last(code_snapshots).tasks \ {task}]
  BY <1>1 DEF HistoryInv, PatchIsPending, RecordSnapshot
<1>4. Abstract(Last(code_patch_records)) \in
        {Abstract(p) : p \in ToSet(code_patch_records)}
  BY <1>2
<1> QED
  BY <1>1, <1>3, <1>4
  DEF RecordSnapshot, TakeSnapshot, TasksWithThis, History!Advance,
      CodeSnapshot, CodeVersion, History!CodeSnapshot, History!CodeVersion, Last,
      History!Last

\* Whatever sessions do and wherever they die, the tables grow only by the
\* three steps of the abstract history.
THEOREM Refinement == Spec => ImplementsHistory
<1>1. Init => History!Init
  BY DEF Init, History!Init, ToSet
<1>2. ASSUME TypeInv, HistoryInv, [Next]_vars
      PROVE  [History!Next]_(History!hvars)
  <2>1. CASE BaselineGuard
    <3>1. History!Rebase(code, task)
      BY <1>2, <2>1, BaselineRebases
    <3>2. code \in ReadableDirs /\ task \in Tasks
      BY <1>2, <2>1 DEF TypeInv, TypeOK, DirectoryWasRead, BaselineGuard, Readable
    <3> QED
      BY <3>1, <3>2 DEF History!Next, History!ReadableDirs, ReadableDirs
  <2>2. CASE RecordPatch
    <3>1. History!Propose(code, task)
      BY <1>2, <2>2, RecordedPatchProposes
    <3>2. code \in ReadableDirs /\ task \in Tasks
      BY <1>2, <2>2 DEF TypeInv, TypeOK, DirectoryWasRead, RecordPatch, Readable
    <3>3. \E dir \in History!ReadableDirs, t \in Tasks : History!Propose(dir, t)
      <4>1. code \in History!ReadableDirs /\ task \in Tasks
        BY <3>2 DEF History!ReadableDirs, ReadableDirs
      <4> QED
        BY <3>1, <4>1 DEF History!Propose
    <3> QED
      BY <3>3, Zenon DEF History!Next
  <2>3. CASE RecordSnapshot
    <3>1. History!Advance(code, task)
      BY <1>2, <2>3, RecordedSnapshotAdvances
    <3>2. code \in ReadableDirs /\ task \in Tasks
      BY <1>2, <2>3 DEF TypeInv, TypeOK, DirectoryWasRead, RecordSnapshot, Readable
    <3> QED
      BY <3>1, <3>2 DEF History!Next, History!ReadableDirs, ReadableDirs
  <2>4. CASE StoreUnchanged
    BY <2>4 DEF StoreUnchanged, History!hvars
  <2> QED
    BY <1>2, <2>1, <2>2, <2>3, <2>4, StoreSteps
<1>3. Spec => [](TypeInv /\ HistoryInv)
  BY TypeInvInit, TypeInvStep, HistoryInvInit, HistoryInvStep, PTL DEF Spec
<1> QED
  BY <1>1, <1>2, <1>3, PTL DEF Spec, ImplementsHistory, History!Spec

-----------------------------------------------------------------------------
(* What the tables say, row by row.                                        *)

\* The three invariants about the rows read only the two tables.
LEMMA RowsUnchanged ==
  ASSUME LineageIsLogged, SupportNeverShrinks, PatchCheckedAgainstBase, StoreUnchanged
  PROVE  LineageIsLogged' /\ SupportNeverShrinks' /\ PatchCheckedAgainstBase'
  BY DEF StoreUnchanged, LineageIsLogged, SupportNeverShrinks,
         PatchCheckedAgainstBase, PatchFor

\* Taking a snapshot adds a row that supports what the newest row supports.
LEMMA SnapshotAppends ==
  ASSUME TypeInv, HistoryInv, TakeSnapshot, Running
  PROVE  LET snapshot == CodeSnapshot(code, task, shared_code_version, TasksWithThis)
             n        == Len(code_snapshots)
         IN /\ n \in Nat
            /\ DOMAIN code_snapshots = 1..n
            /\ DOMAIN code_snapshots' = 1..(n + 1)
            /\ \A i \in 1..n : code_snapshots'[i] = code_snapshots[i]
            /\ code_snapshots'[n + 1] = snapshot
            /\ n > 0 => supported_tasks = code_snapshots[n].tasks
            /\ shared_code_version # NoVersion =>
                 n > 0 /\ shared_code_version = code_snapshots[n].version
<1>1. code_snapshots' =
        Append(code_snapshots,
               CodeSnapshot(code, task, shared_code_version, TasksWithThis))
  BY DEF TakeSnapshot
<1>2. code_snapshots \in Seq(Snapshots)
  BY DEF TypeInv, TypeOK
<1>3. Len(code_snapshots) > 0 => supported_tasks = code_snapshots[Len(code_snapshots)].tasks
  BY <1>2 DEF HistoryInv, SupportIsCurrent, ResumedTasks, Last
<1>4. shared_code_version # NoVersion =>
        /\ Len(code_snapshots) > 0
        /\ shared_code_version = code_snapshots[Len(code_snapshots)].version
  BY <1>2 DEF HistoryInv, WorksFromNewest, Last
<1> QED
  BY <1>1, <1>2, <1>3, <1>4

LEMMA SnapshotKeepsSupport ==
  ASSUME TypeInv, HistoryInv, TakeSnapshot, Running, SupportNeverShrinks
  PROVE  SupportNeverShrinks'
<1> DEFINE n == Len(code_snapshots)
<1>1. SUFFICES ASSUME NEW i \in DOMAIN code_snapshots',
                      NEW j \in DOMAIN code_snapshots', i < j
               PROVE  code_snapshots'[i].tasks \subseteq code_snapshots'[j].tasks
  BY DEF SupportNeverShrinks
<1>2. i \in 1..n
  BY <1>1, SnapshotAppends
<1>3. CASE j \in 1..n
  BY <1>1, <1>2, <1>3, SnapshotAppends DEF SupportNeverShrinks
<1>4. CASE j = n + 1
  <2>1. code_snapshots[i].tasks \subseteq code_snapshots[n].tasks
    BY <1>2, SnapshotAppends DEF SupportNeverShrinks
  <2>2. code_snapshots'[j].tasks = supported_tasks \cup {task}
    BY <1>4, SnapshotAppends DEF CodeSnapshot, TasksWithThis
  <2> QED
    BY <1>2, <2>1, <2>2, SnapshotAppends
<1> QED
  BY <1>1, <1>3, <1>4, SnapshotAppends

\* A new patch record takes nothing away from the rows there are.
LEMMA PatchesOnlyAdd ==
  ASSUME TypeInv, RecordPatch
  PROVE  /\ code_snapshots' = code_snapshots
         /\ \A base, new : PatchFor(base, new) \subseteq PatchFor(base, new)'
         /\ \A i \in DOMAIN code_patch_records :
              code_patch_records'[i] = code_patch_records[i]
<1>1. code_patch_records' = Append(code_patch_records, NewPatch)
  BY DEF RecordPatch, PatchRows
<1>2. code_patch_records \in Seq(PatchRecords)
  BY DEF TypeInv, TypeOK
<1>3. /\ DOMAIN code_patch_records \subseteq DOMAIN code_patch_records'
      /\ \A i \in DOMAIN code_patch_records :
           code_patch_records'[i] = code_patch_records[i]
  BY <1>1, <1>2
<1> QED
  BY <1>3 DEF RecordPatch, PatchFor

\* The patch record that waits for its snapshot.
LEMMA PendingPatch ==
  ASSUME TypeInv, HistoryInv, pc = "snapshot"
  PROVE  LET k == Len(code_patch_records)
             p == code_patch_records[k]
         IN /\ k \in PatchFor(shared_code_version, CodeVersion(code, task))
            /\ p.validation.validated_against_tasks = supported_tasks \ {task}
<1>1. code_patch_records \in Seq(PatchRecords) /\ code_patch_records # <<>>
  BY DEF TypeInv, TypeOK, HistoryInv, PatchIsPending
<1>2. Len(code_patch_records) \in DOMAIN code_patch_records
  BY <1>1
<1> QED
  BY <1>2 DEF HistoryInv, PatchIsPending, PatchFor, Last

LEMMA SnapshotKeepsLineage ==
  ASSUME TypeInv, HistoryInv, LineageIsLogged, PatchCheckedAgainstBase,
         TakeSnapshot, Running, UNCHANGED code_patch_records,
         shared_code_version = NoVersion \/ pc = "snapshot"
  PROVE  LineageIsLogged' /\ PatchCheckedAgainstBase'
<1> DEFINE n == Len(code_snapshots)
<1>1. \A base, new : PatchFor(base, new)' = PatchFor(base, new)
  BY DEF PatchFor
<1>2. ASSUME NEW i \in DOMAIN code_snapshots', code_snapshots'[i].parent # NoVersion
      PROVE  /\ i > 1
             /\ code_snapshots'[i].parent = code_snapshots'[i - 1].version
             /\ \E p \in PatchFor(code_snapshots'[i].parent, code_snapshots'[i].version) :
                  code_patch_records[p].validation.validated_against_tasks =
                    code_snapshots'[i - 1].tasks \ {code_snapshots'[i].version.api}
  <2>1. CASE i \in 1..n
    <3>1. code_snapshots'[i] = code_snapshots[i]
      BY <2>1, SnapshotAppends
    <3>2. i > 1 /\ code_snapshots[i].parent = code_snapshots[i - 1].version
      BY <1>2, <2>1, <3>1, SnapshotAppends DEF LineageIsLogged
    <3>3. code_snapshots'[i - 1] = code_snapshots[i - 1]
      BY <2>1, <3>2, SnapshotAppends
    <3> QED
      BY <1>2, <2>1, <3>1, <3>2, <3>3, SnapshotAppends DEF PatchCheckedAgainstBase
  <2>2. CASE i = n + 1
    <3>1. /\ code_snapshots'[i].parent = shared_code_version
          /\ code_snapshots'[i].version = CodeVersion(code, task)
          /\ code_snapshots'[i].version.api = task
      BY <2>2, SnapshotAppends DEF CodeSnapshot, CodeVersion
    <3>2. /\ n > 0
          /\ shared_code_version = code_snapshots[n].version
          /\ supported_tasks = code_snapshots[n].tasks
          /\ code_snapshots'[i - 1] = code_snapshots[n]
      BY <1>2, <2>2, <3>1, SnapshotAppends
    <3>3. pc = "snapshot"
      BY <1>2, <3>1
    <3>4. n \in Nat /\ i > 1
      BY <2>2, <3>2, SnapshotAppends
    <3> QED
      BY <3>1, <3>2, <3>3, <3>4, PendingPatch
  <2> QED
    BY <1>2, <2>1, <2>2, SnapshotAppends
<1> QED
  BY <1>1, <1>2 DEF LineageIsLogged, PatchCheckedAgainstBase

LEMMA RowsInit ==
  Init => LineageIsLogged /\ SupportNeverShrinks /\ PatchCheckedAgainstBase
  BY DEF Init, LineageIsLogged, SupportNeverShrinks, PatchCheckedAgainstBase

LEMMA RowsStep ==
  ASSUME TypeInv, HistoryInv, [Next]_vars,
         LineageIsLogged, SupportNeverShrinks, PatchCheckedAgainstBase
  PROVE  LineageIsLogged' /\ SupportNeverShrinks' /\ PatchCheckedAgainstBase'
<1>1. CASE BaselineGuard
  <2>1. shared_code_version = NoVersion /\ Running
    BY <1>1 DEF BaselineGuard, Iterate, NextPhase, Choose, RequestedPhases, Running
  <2>2. TakeSnapshot /\ UNCHANGED code_patch_records
    BY <1>1 DEF BaselineGuard
  <2> QED
    BY <2>1, <2>2, SnapshotKeepsSupport, SnapshotKeepsLineage
<1>2. CASE RecordPatch
  BY <1>2, PatchesOnlyAdd
  DEF LineageIsLogged, SupportNeverShrinks, PatchCheckedAgainstBase, PatchFor
<1>3. CASE RecordSnapshot
  <2>1. pc = "snapshot" /\ Running /\ TakeSnapshot /\ UNCHANGED code_patch_records
    BY <1>3 DEF RecordSnapshot, Running
  <2> QED
    BY <2>1, SnapshotKeepsSupport, SnapshotKeepsLineage
<1>4. CASE StoreUnchanged
  BY <1>4, RowsUnchanged
<1> QED
  BY <1>1, <1>2, <1>3, <1>4, StoreSteps

LEMMA RowsAlways ==
  Spec => [](LineageIsLogged /\ SupportNeverShrinks /\ PatchCheckedAgainstBase)
<1>1. Spec => [](TypeInv /\ HistoryInv)
  BY TypeInvInit, TypeInvStep, HistoryInvInit, HistoryInvStep, PTL DEF Spec
<1> QED
  BY <1>1, RowsInit, RowsStep, PTL DEF Spec

\* A snapshot with a parent follows it in the table and has its patch record,
\* wherever a process died.
THEOREM Lineage == Spec => []LineageIsLogged
  BY RowsAlways, PTL

\* No version drops a task an earlier version supports.
THEOREM Support == Spec => []SupportNeverShrinks
  BY RowsAlways, PTL

\* Every patch on the chain was checked against all other tasks of its base.
THEOREM CheckedAgainstBase == Spec => []PatchCheckedAgainstBase
  BY RowsAlways, PTL

=============================================================================
