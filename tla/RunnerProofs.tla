----------------------------- MODULE RunnerProofs -----------------------------
(***************************************************************************)
(* Proofs of the safety properties of RunnerWorkspace, for all files,      *)
(* texts, tasks, labels, contexts and numbers of calls.                    *)
(***************************************************************************)
EXTENDS RunnerProperties, TLAPS

-----------------------------------------------------------------------------
(* Submissions, pieces of them and what is laid over them. *)

LEMMA NothingIsWhole ==
  /\ NoEntries \in Manifests /\ NoEntries # Torn
  /\ NoArchive \in Archives /\ Torn \in Archives /\ Torn \in Manifests
  /\ [f \in Files |-> Absent] \in Codes
  /\ [t \in Tasks |-> "none"] \in Bundles
  <1>1. NoEntries \in [Files -> Texts \union {NoEntry}]
    BY DEF NoEntries
  <1>2. Torn \notin [Files -> Texts \union {NoEntry}]
    BY RunnerAssumption
  <1> QED
    BY <1>1, <1>2 DEF Manifests, Archives, Codes, Contents, Bundles

\* The pieces of a copy are a submission, with nothing in it that was not copied.
LEMMA PiecesOfCopy ==
  ASSUME NEW s \in Submissions, NEW p \in Pieces(s), NEW q \in CutOff(p)
  PROVE  /\ q \in Submissions
         /\ q.manifest \in {s.manifest, NoEntries, Torn}
         /\ q.archive \in {s.archive, NoArchive, Torn}
  <1>1. /\ p \in Submissions
        /\ p.manifest \in {s.manifest, NoEntries} /\ p.archive \in {s.archive, NoArchive}
    BY NothingIsWhole DEF Pieces, Submissions
  <1>2. CASE q = p
    BY <1>1, <1>2
  <1>3. ASSUME NEW f \in Files, q = [p EXCEPT !.code[f] = Partial]
        PROVE  /\ q \in Submissions
               /\ q.manifest = p.manifest /\ q.archive = p.archive
    <2>1. [p.code EXCEPT ![f] = Partial] \in Codes
      BY <1>1 DEF Submissions, Codes, Contents
    <2> QED
      BY <1>1, <1>3, <2>1 DEF Submissions
  <1>4. ASSUME NEW t \in Tasks, q = [p EXCEPT !.bundle[t] = "invalid"]
        PROVE  /\ q \in Submissions
               /\ q.manifest = p.manifest /\ q.archive = p.archive
    <2>1. [p.bundle EXCEPT ![t] = "invalid"] \in Bundles
      BY <1>1 DEF Submissions, Bundles
    <2> QED
      BY <1>1, <1>4, <2>1 DEF Submissions
  <1>5. CASE q = [p EXCEPT !.manifest = Torn]
    BY <1>1, <1>5, NothingIsWhole DEF Submissions
  <1>6. CASE q = [p EXCEPT !.archive = Torn]
    BY <1>1, <1>6, NothingIsWhole DEF Submissions
  <1> QED
    BY <1>1, <1>2, <1>3, <1>4, <1>5, <1>6 DEF CutOff

\* What a rollback leaves is a submission, made of the two it had.
LEMMA LaidOver ==
  ASSUME NEW s \in Submissions, sub \in Submissions, NEW q \in Over(s)
  PROVE  /\ q \in Submissions
         /\ q.manifest \in {s.manifest, sub.manifest}
         /\ s.manifest # NoEntries => q.manifest = s.manifest
         /\ q.archive \in {s.archive, sub.archive}
         /\ q.code = [f \in Files |-> IF s.code[f] = Absent THEN sub.code[f] ELSE s.code[f]]
  <1>1. [f \in Files |-> IF s.code[f] = Absent THEN sub.code[f] ELSE s.code[f]] \in Codes
    BY DEF Submissions, Codes
  <1> QED
    BY <1>1 DEF Over, Submissions

LEMMA CallShape ==
  ASSUME NEW c \in Calls
  PROVE  /\ c.tool = "write_file" => c.file \in Files /\ c.text \in Texts
         /\ c.tool \in {"snapshot", "rollback"} => c.label \in Labels
         /\ c.tool = "research_cache_write" => c.record \in Records
  BY DEF Calls

-----------------------------------------------------------------------------
(* Types. *)

\* Each step of a call belongs to its tool.
CallFits ==
  /\ pc \in {"write", "entry"} => call.tool = "write_file"
  /\ pc \in {"copy", "restore"} => call.tool \in {"snapshot", "rollback"}
  /\ pc = "cache" => call.tool = "research_cache_write"

TInv == TypeOK /\ CallFits

Contextual == [phase : Phases \union {NoPhase}, exposed : (SUBSET Tools) \union {Everything}]

\* A command that touches a file or a task leaves a submission.
LEMMA Disturbed ==
  ASSUME sub \in Submissions, Disturb
  PROVE  /\ sub' \in Submissions
         /\ sub'.manifest = sub.manifest /\ sub'.archive = sub.archive
  <1>1. ASSUME NEW f \in Files, NEW x \in Contents, SetFile(f, x)
        PROVE  /\ sub' \in Submissions
               /\ sub'.manifest = sub.manifest /\ sub'.archive = sub.archive
    <2>1. [sub.code EXCEPT ![f] = x] \in Codes
      BY DEF Submissions, Codes
    <2> QED
      BY <1>1, <2>1 DEF SetFile, SetCode, Submissions
  <1>2. ASSUME NEW t \in Tasks, NEW b \in {"none", "invalid", "valid"},
               sub' = [sub EXCEPT !.bundle[t] = b]
        PROVE  /\ sub' \in Submissions
               /\ sub'.manifest = sub.manifest /\ sub'.archive = sub.archive
    <2>1. [sub.bundle EXCEPT ![t] = b] \in Bundles
      BY DEF Submissions, Bundles
    <2> QED
      BY <1>2, <2>1 DEF Submissions
  <1> QED
    BY <1>1, <1>2 DEF Disturb

LEMMA CodeSet ==
  ASSUME sub \in Submissions, NEW c \in Codes, SetCode(c)
  PROVE  /\ sub' \in Submissions /\ sub'.code = c
         /\ sub'.manifest = sub.manifest /\ sub'.archive = sub.archive
         /\ sub'.bundle = sub.bundle
  BY DEF SetCode, Submissions

LEMMA FileSet ==
  ASSUME sub \in Submissions, NEW f \in Files, NEW x \in Contents, SetFile(f, x)
  PROVE  /\ sub' \in Submissions /\ sub'.code = [sub.code EXCEPT ![f] = x]
         /\ sub'.manifest = sub.manifest /\ sub'.archive = sub.archive
         /\ sub'.bundle = sub.bundle
  <1>1. [sub.code EXCEPT ![f] = x] \in Codes
    BY DEF Submissions, Codes
  <1> QED
    BY <1>1, CodeSet DEF SetFile

LEMMA EntrySet ==
  ASSUME sub \in Submissions, NEW f \in Files, NEW x \in Texts,
         sub' = [sub EXCEPT !.manifest = Entered(@, f, x)]
  PROVE  /\ sub' \in Submissions /\ sub'.manifest # Torn
         /\ sub'.code = sub.code /\ sub'.archive = sub.archive
         /\ sub'.manifest[f] = x
         /\ \A g \in Files \ {f} :
              \/ sub'.manifest[g] = NoEntry
              \/ sub.manifest # Torn /\ sub'.manifest[g] = sub.manifest[g]
  <1> DEFINE m == IF sub.manifest = Torn THEN NoEntries ELSE sub.manifest
  <1>1. m \in [Files -> Texts \union {NoEntry}]
    BY DEF Submissions, Manifests, NoEntries
  <1>2. Entered(sub.manifest, f, x) = [m EXCEPT ![f] = x]
    BY DEF Entered
  <1>3. [m EXCEPT ![f] = x] \in [Files -> Texts \union {NoEntry}]
    BY <1>1
  <1>4. Torn \notin [Files -> Texts \union {NoEntry}]
    BY RunnerAssumption
  <1>5. sub'.manifest = [m EXCEPT ![f] = x]
    BY <1>2 DEF Submissions
  <1>6. \A g \in Files \ {f} : [m EXCEPT ![f] = x][g] = m[g]
    BY <1>1
  <1>7. \A g \in Files : NoEntries[g] = NoEntry
    BY DEF NoEntries
  <1>8. [m EXCEPT ![f] = x][f] = x
    BY <1>1
  <1> QED
    <2>1. sub' \in Submissions /\ sub'.code = sub.code /\ sub'.archive = sub.archive
      BY <1>2, <1>3 DEF Submissions, Manifests
    <2>2. sub'.manifest # Torn
      BY <1>3, <1>4, <1>5
    <2>3. \A g \in Files \ {f} :
            \/ sub'.manifest[g] = NoEntry
            \/ sub.manifest # Torn /\ sub'.manifest[g] = sub.manifest[g]
      <3>1. CASE sub.manifest = Torn
        BY <1>5, <1>6, <1>7, <3>1
      <3>2. CASE sub.manifest # Torn
        BY <1>5, <1>6, <3>2
      <3> QED
        BY <3>1, <3>2
    <2> QED
      BY <1>5, <1>8, <2>1, <2>2, <2>3

LEMMA ContextRecord ==
  ASSUME NEW A, NEW B, NEW a \in A, NEW b \in B
  PROVE  [phase |-> a, exposed |-> b] \in [phase : A, exposed : B]
  OBVIOUS

LEMMA FreshContext == NoContext \in Contextual
  <1>1. NoPhase \in Phases \union {NoPhase} /\ Everything \in (SUBSET Tools) \union {Everything}
    OBVIOUS
  <1> QED
    BY ONLY <1>1, ContextRecord DEF NoContext, Contextual

LEMMA TypeInit == Init => TInv
  <1> SUFFICES ASSUME Init PROVE TInv
    OBVIOUS
  <1>1. sub \in Submissions /\ before \in Codes
    BY NothingIsWhole DEF Init, Submissions
  <1>2. ctx \in Contextual
    BY FreshContext DEF Init
  <1>3. picked \in [tasks : SUBSET Tasks, raced : BOOLEAN]
    BY DEF Init, NoPick
  <1>4. begun \in 0..MaxCalls
    BY RunnerAssumption DEF Init
  <1>5. pc = "idle" /\ call = NoCall /\ tries = 0
    BY DEF Init
  <1>6. CallTypes
    BY <1>1, <1>2, <1>3, <1>5 DEF CallTypes, Contextual
  <1>7. DiskTypes
    BY <1>1 DEF Init, DiskTypes
  <1>8. HistoryTypes
    BY <1>4 DEF Init, HistoryTypes
  <1>9. CallFits
    BY <1>5 DEF CallFits
  <1> QED
    BY <1>6, <1>7, <1>8, <1>9 DEF TInv, TypeOK


LEMMA AtRest ==
  ASSUME TInv, Abort
  PROVE  /\ CallTypes' /\ CallFits' /\ pc' = "idle"
         /\ begun' = begun /\ killed' \in BOOLEAN
         /\ ctx' \in {ctx, NoContext}
  <1>1. [f \in Files |-> Absent] \in Codes /\ NoPick \in [tasks : SUBSET Tasks, raced : BOOLEAN]
    BY NothingIsWhole DEF NoPick
  <1>2. ctx' \in Contextual
    BY FreshContext DEF Abort, End, Die, TInv, TypeOK, CallTypes, Contextual
  <1>3. /\ pc' = "idle" /\ call' = NoCall /\ picked' = NoPick /\ tries' = 0
        /\ before' = [f \in Files |-> Absent] /\ begun' = begun
        /\ killed' \in BOOLEAN /\ ctx' \in {ctx, NoContext}
    BY DEF Abort, End, Die, Rest
  <1>4. CallTypes'
    BY <1>1, <1>2, <1>3 DEF CallTypes, Contextual
  <1> QED
    BY <1>3, <1>4 DEF CallFits

\* The history does not depend on how many calls there were.
LEMMA SameHistory ==
  ASSUME TInv, UNCHANGED <<traced, written, reported>>,
         owner' \in [Files -> {"nobody", "write_file", "refused", "other"}],
         begun' = begun, killed' \in BOOLEAN
  PROVE  HistoryTypes'
  BY DEF TInv, TypeOK, HistoryTypes

LEMMA SameDisk ==
  ASSUME TInv, UNCHANGED <<snaps, cache>>, sub' \in Submissions, orphan' \in BOOLEAN
  PROVE  DiskTypes'
  BY DEF TInv, TypeOK, DiskTypes

LEMMA Disowned ==
  ASSUME TInv
  PROVE  /\ \A f \in Files, who \in {"nobody", "write_file", "refused", "other"} :
              Claim(f, who) => owner' \in [Files -> {"nobody", "write_file", "refused", "other"}]
         /\ \A old : DisownChanged(old) =>
              owner' \in [Files -> {"nobody", "write_file", "refused", "other"}]
         /\ \A s : DisownHeld(s) =>
              owner' \in [Files -> {"nobody", "write_file", "refused", "other"}]
         /\ owner' = owner => owner' \in [Files -> {"nobody", "write_file", "refused", "other"}]
  BY DEF TInv, TypeOK, HistoryTypes, Claim, DisownChanged, DisownHeld

\* A call is asked for.
LEMMA Asked ==
  ASSUME TInv, NEW c \in Calls, Requested(c)
  PROVE  /\ begun' \in 0..MaxCalls
         /\ traced' \in [Files -> Texts \union {Absent}]
         /\ c.tool # "write_file" => traced' = traced
         /\ c.tool = "write_file" => traced' = [traced EXCEPT ![c.file] = c.text]
  <1>1. begun' \in 0..MaxCalls
    BY RunnerAssumption DEF TInv, TypeOK, HistoryTypes, Requested
  <1>2. traced' \in [Files -> Texts \union {Absent}]
    BY CallShape DEF TInv, TypeOK, HistoryTypes, Requested
  <1> QED
    BY <1>1, <1>2 DEF Requested

LEMMA Merges ==
  ASSUME NEW S \in SUBSET Records, NEW r \in Records
  PROVE  Merged(S, r) \subseteq Records
  BY DEF Merged

\* What the two ends of a call, and the steps in between, have in common.
LEMMA Remains ==
  ASSUME TInv, UNCHANGED <<pc, ctx, running>>
  PROVE  CallTypes' /\ CallFits'
  BY DEF TInv, TypeOK, CallTypes, CallFits, running

LEMMA Advances ==
  ASSUME TInv, pc # "idle", UNCHANGED <<ctx, call, before>>, pc' \in Steps,
         picked' \in [tasks : SUBSET Tasks, raced : BOOLEAN], tries' \in 0..1
  PROVE  CallTypes'
  BY DEF TInv, TypeOK, CallTypes, Steps

Owners == [Files -> {"nobody", "write_file", "refused", "other"}]

LEMMA EndingTypes ==
  ASSUME TInv, Abort, sub' \in Submissions, orphan' \in BOOLEAN, UNCHANGED snaps,
         cache' = Torn \/ cache' \subseteq Records, owner' \in Owners,
         UNCHANGED <<traced, written, reported>>
  PROVE  TInv'
  <1>1. HistoryTypes'
    BY AtRest, SameHistory DEF Owners
  <1>2. DiskTypes'
    BY DEF TInv, TypeOK, DiskTypes
  <1> QED
    BY <1>1, <1>2, AtRest DEF TInv, TypeOK

\* A call may be refused or admitted.
LEMMA RefuseTypes ==
  ASSUME TInv, NEW c \in Calls, Refuse(c)
  PROVE  TInv'
  <1>1. CallTypes' /\ CallFits'
    BY Remains DEF Refuse
  <1>2. DiskTypes'
    BY DEF Refuse, TInv, TypeOK, DiskTypes
  <1>3. owner' \in [Files -> {"nobody", "write_file", "refused", "other"}]
    BY CallShape, Disowned DEF Refuse, NotMade
  <1>4. HistoryTypes'
    BY <1>3, Asked DEF Refuse, TInv, TypeOK, HistoryTypes
  <1> QED
    BY <1>1, <1>2, <1>4 DEF TInv, TypeOK

LEMMA AdmitTypes ==
  ASSUME TInv, NEW c \in Calls, Admit(c)
  PROVE  TInv'
  <1>1. c.tool \in Tools
    BY DEF Admit, Gate
  <1>2. pc' \in Steps /\ call' = c /\ ctx' = ctx /\ picked' = picked /\ tries' = tries
    BY DEF Admit, FirstStep, Steps
  <1>3. before' \in Codes
    BY DEF Admit, TInv, TypeOK, CallTypes, DiskTypes, Submissions
  <1>4. CallTypes'
    BY <1>1, <1>2, <1>3 DEF TInv, TypeOK, CallTypes
  <1>5. CallFits'
    BY <1>2 DEF Admit, FirstStep, CallFits
  <1>6. DiskTypes'
    BY DEF Admit, TInv, TypeOK, DiskTypes
  <1>7. HistoryTypes'
    BY Asked DEF Admit, TInv, TypeOK, HistoryTypes
  <1> QED
    BY <1>4, <1>5, <1>6, <1>7 DEF TInv, TypeOK

LEMMA SetContextTypes ==
  ASSUME TInv, NEW c \in Contexts, SetContext(c)
  PROVE  TInv'
  <1>1. c \in Contextual /\ ctx \in Contextual
    BY RunnerAssumption DEF TInv, TypeOK, CallTypes, Contextual
  <1>2. /\ (IF c.phase = NoPhase THEN ctx.phase ELSE c.phase) \in Phases \union {NoPhase}
        /\ (IF c.exposed = Everything THEN ctx.exposed ELSE c.exposed)
             \in (SUBSET Tools) \union {Everything}
    BY <1>1 DEF Contextual
  <1>3. ctx' \in Contextual
    BY ONLY <1>2, ContextRecord, SetContext(c) DEF SetContext, Updated, Contextual
  <1>4. CallTypes' /\ CallFits'
    BY <1>3 DEF SetContext, running, TInv, TypeOK, CallTypes, CallFits, Contextual
  <1>5. DiskTypes' /\ HistoryTypes'
    BY DEF SetContext, counts, history, TInv, TypeOK, DiskTypes, HistoryTypes
  <1> QED
    BY <1>4, <1>5 DEF TInv, TypeOK

\* Running on in the middle of a call.
LEMMA PassingTypes ==
  ASSUME TInv, UNCHANGED <<pc, ctx, running, snaps, cache>>, sub' \in Submissions,
         orphan' \in BOOLEAN, owner' \in Owners,
         UNCHANGED <<traced, written, reported, counts>>
  PROVE  TInv'
  <1>1. CallTypes' /\ CallFits'
    BY Remains
  <1>2. DiskTypes' /\ HistoryTypes'
    BY DEF TInv, TypeOK, DiskTypes, HistoryTypes, Owners, counts
  <1> QED
    BY <1>1, <1>2 DEF TInv, TypeOK

LEMMA Kept ==
  ASSUME TInv
  PROVE  /\ sub \in Submissions /\ orphan \in BOOLEAN /\ before \in Codes
         /\ cache = Torn \/ cache \subseteq Records
         /\ sub' = sub => sub' \in Submissions
         /\ orphan' \in {orphan, TRUE} => orphan' \in BOOLEAN
         /\ orphan' = orphan => orphan' \in BOOLEAN
         /\ cache' = cache => cache' = Torn \/ cache' \subseteq Records
         /\ owner' = owner => owner' \in Owners
         /\ picked \in [tasks : SUBSET Tasks, raced : BOOLEAN]
  BY DEF TInv, TypeOK, CallTypes, DiskTypes, HistoryTypes, Owners

\* The steps of a call that do not end it.
LEMMA InsideTypes ==
  ASSUME TInv, \/ WriteFile \/ CommandRuns \/ CommandEnds \/ ScriptRuns \/ OrphanRuns
               \/ OrphanEnds \/ Validate \/ FetchAgain
  PROVE  TInv'
  <1> USE Kept
  <1>1. CASE WriteFile
    <2>1. call \in Calls /\ call.file \in Files /\ call.text \in Texts
      BY <1>1, CallShape DEF WriteFile, TInv, TypeOK, CallTypes, CallFits
    <2>2. sub' \in Submissions
      BY <1>1, <2>1, FileSet DEF WriteFile, Contents
    <2>3. CallTypes'
      BY <1>1, Advances DEF WriteFile, running, Steps, TInv, TypeOK, CallTypes
    <2>4. CallFits'
      BY <1>1 DEF WriteFile, running, TInv, CallFits
    <2>5. DiskTypes'
      BY <1>1, <2>2 DEF WriteFile, TInv, TypeOK, DiskTypes
    <2>6. owner' \in [Files -> {"nobody", "write_file", "refused", "other"}]
      BY <1>1, <2>1, Disowned DEF WriteFile
    <2>7. HistoryTypes'
      BY <1>1, <2>1, <2>6 DEF WriteFile, counts, TInv, TypeOK, HistoryTypes
    <2> QED
      BY <2>3, <2>4, <2>5, <2>7 DEF TInv, TypeOK
  <1>2. CASE CommandRuns
    BY <1>2, Disturbed, PassingTypes DEF CommandRuns, history
  <1>3. CASE CommandEnds
    <2>1. CallTypes'
      BY <1>3, Advances DEF CommandEnds, running, Steps, TInv, TypeOK, CallTypes
    <2>2. CallFits'
      BY <1>3 DEF CommandEnds, CallFits
    <2>3. DiskTypes'
      BY <1>3 DEF CommandEnds, TInv, TypeOK, DiskTypes
    <2>4. HistoryTypes'
      BY <1>3 DEF CommandEnds, history, counts, TInv, TypeOK, HistoryTypes
    <2> QED
      BY <2>1, <2>2, <2>3, <2>4 DEF TInv, TypeOK
  <1>4. CASE ScriptRuns
    BY <1>4, Disturbed, Disowned, PassingTypes DEF ScriptRuns, Owners
  <1>5. CASE OrphanRuns
    BY <1>5, Disturbed, Disowned, PassingTypes DEF OrphanRuns, Owners
  <1>6. CASE OrphanEnds
    BY <1>6, PassingTypes DEF OrphanEnds, history
  <1>7. CASE Validate
    <2>1. Detected \subseteq Tasks
      BY DEF Detected
    <2>2. picked' \in [tasks : SUBSET Tasks, raced : BOOLEAN]
      BY <1>7, <2>1 DEF Validate
    <2>3. tries' \in 0..1 /\ pc # "idle" /\ pc' \in Steps /\ UNCHANGED <<ctx, call, before>>
      BY <1>7 DEF Validate, Steps, TInv, TypeOK, CallTypes
    <2>4. CallTypes'
      BY <2>2, <2>3, Advances
    <2>5. CallFits'
      BY <1>7 DEF Validate, CallFits
    <2>6. DiskTypes' /\ HistoryTypes'
      BY <1>7 DEF Validate, history, counts, TInv, TypeOK, DiskTypes, HistoryTypes
    <2> QED
      BY <2>4, <2>5, <2>6 DEF TInv, TypeOK
  <1>8. CASE FetchAgain
    <2>1. CallTypes'
      BY <1>8, Advances DEF FetchAgain, Steps, TInv, TypeOK, CallTypes
    <2>2. CallFits'
      BY <1>8 DEF FetchAgain, CallFits
    <2>3. DiskTypes' /\ HistoryTypes'
      BY <1>8 DEF FetchAgain, history, counts, TInv, TypeOK, DiskTypes, HistoryTypes
    <2> QED
      BY <2>1, <2>2, <2>3 DEF TInv, TypeOK
  <1> QED
    BY <1>1, <1>2, <1>3, <1>4, <1>5, <1>6, <1>7, <1>8

\* The ends that leave the submission, the snapshots and the cache alone.
Quiet ==
  \/ Answer \/ ScriptEnds \/ CutScript \/ DoNotPack \/ CacheRefuses \/ FetchEnds \/ Kill

LEMMA QuietTypes ==
  ASSUME TInv, Quiet
  PROVE  TInv'
  BY Kept, EndingTypes DEF Quiet, Abort, history, Answer, ScriptEnds, CutScript, DoNotPack,
    CacheRefuses, FetchEnds, Kill

\* write_file and run_shell end.
LEMMA CodeTypes ==
  ASSUME TInv, RecordEntry \/ CutWrite \/ CutEntry \/ SkipUndo \/ Undo \/ CutUndo
  PROVE  TInv'
  <1> USE Kept
  <1>1. pc \in {"write", "entry"} => call \in Calls /\ call.file \in Files /\ call.text \in Texts
    BY CallShape DEF TInv, TypeOK, CallTypes, CallFits
  <1>2. CASE RecordEntry
    <2>1. sub' \in Submissions
      BY <1>1, <1>2, EntrySet DEF RecordEntry
    <2> QED
      BY <1>2, <2>1, EndingTypes DEF RecordEntry, Abort, history
  <1>3. CASE CutWrite
    <2>1. PICK x \in {sub.code[call.file], Partial, call.text} : SetFile(call.file, x)
      BY <1>3 DEF CutWrite
    <2>2. x \in Contents
      BY <1>1, <1>3, <2>1 DEF CutWrite, Contents, Submissions, Codes
    <2>3. sub' \in Submissions
      BY <1>1, <1>3, <2>1, <2>2, FileSet DEF CutWrite
    <2> QED
      BY <1>1, <1>3, <2>3, EndingTypes, Disowned DEF CutWrite, Owners
  <1>4. CASE CutEntry
    <2>1. sub' \in Submissions
      BY <1>4, NothingIsWhole DEF CutEntry, Submissions
    <2> QED
      BY <1>4, <2>1, EndingTypes DEF CutEntry, history
  <1>5. CASE SkipUndo
    BY <1>5, EndingTypes, Disowned DEF SkipUndo, Owners
  <1>6. CASE Undo
    BY <1>6, EndingTypes, CodeSet DEF Undo, Abort, history
  <1>7. CASE CutUndo
    BY <1>7, EndingTypes, CodeSet, Disowned DEF CutUndo, Owners
  <1> QED
    BY <1>2, <1>3, <1>4, <1>5, <1>6, <1>7

\* Snapshots and rollbacks end.
LEMMA CopyTypes ==
  ASSUME TInv, Copy \/ CutCopy \/ Restore \/ CutRestore
  PROVE  TInv'
  <1> USE Kept
  <1>1. call \in Calls /\ call.label \in Labels
    BY CallShape DEF TInv, TypeOK, CallTypes, CallFits, Copy, CutCopy, Restore, CutRestore
  <1>2. snaps[call.label] # NoSnap => snaps[call.label] \in Submissions
    BY <1>1 DEF TInv, TypeOK, DiskTypes
  <1>3. CASE Copy
    <2>1. snaps' \in [Labels -> Submissions \union {NoSnap}]
      BY <1>1, <1>3 DEF Copy, TInv, TypeOK, DiskTypes
    <2>2. reported' \in [Labels -> Submissions \union {NoSnap}]
      BY <1>1, <1>3 DEF Copy, TInv, TypeOK, HistoryTypes
    <2>3. CallTypes' /\ CallFits' /\ begun' = begun /\ killed' \in BOOLEAN
      BY <1>3, AtRest DEF Copy, Abort
    <2>4. DiskTypes'
      BY <1>3, <2>1 DEF Copy, TInv, TypeOK, DiskTypes
    <2>5. HistoryTypes'
      BY <1>3, <2>2, <2>3 DEF Copy, TInv, TypeOK, HistoryTypes
    <2> QED
      BY <2>3, <2>4, <2>5 DEF TInv, TypeOK
  <1>4. CASE CutCopy
    <2>1. PICK p \in Pieces(sub) : \E s \in CutOff(p) : snaps' = [snaps EXCEPT ![call.label] = s]
      BY <1>4 DEF CutCopy
    <2>2. PICK s \in CutOff(p) : snaps' = [snaps EXCEPT ![call.label] = s]
      BY <2>1
    <2>6. s \in Submissions
      BY PiecesOfCopy
    <2>7. snaps' \in [Labels -> Submissions \union {NoSnap}]
      BY <2>2, <2>6 DEF TInv, TypeOK, DiskTypes
    <2>3. CallTypes' /\ CallFits' /\ begun' = begun /\ killed' \in BOOLEAN
      BY <1>4, AtRest DEF CutCopy
    <2>4. DiskTypes'
      BY <1>4, <2>7 DEF CutCopy, TInv, TypeOK, DiskTypes
    <2>5. HistoryTypes'
      BY <1>4, <2>3 DEF CutCopy, history, TInv, TypeOK, HistoryTypes
    <2> QED
      BY <2>3, <2>4, <2>5 DEF TInv, TypeOK
  <1>5. CASE Restore
    <2>1. sub' \in Submissions
      BY <1>2, <1>5, LaidOver DEF Restore
    <2>2. owner' \in Owners
      BY <1>5, Disowned DEF Restore, Owners
    <2> QED
      BY <1>5, <2>1, <2>2, EndingTypes DEF Restore, Abort
  <1>6. CASE CutRestore
    <2>1. snaps[call.label] \in Submissions
      BY <1>2, <1>6 DEF CutRestore
    <2>2. PICK p \in Pieces(snaps[call.label]) :
            \E s \in CutOff(p) : sub' \in Over(s) /\ DisownHeld(s)
      BY <1>6 DEF CutRestore
    <2>3. sub' \in Submissions
      BY <2>1, <2>2, PiecesOfCopy, LaidOver
    <2>4. owner' \in Owners
      BY <2>2, Disowned DEF Owners
    <2> QED
      BY <1>6, <2>3, <2>4, EndingTypes DEF CutRestore
  <1> QED
    BY <1>3, <1>4, <1>5, <1>6

\* Archives and the cache are written.
LEMMA PackTypes ==
  ASSUME TInv, Zip \/ CutZip \/ CacheWrites \/ CutCache
  PROVE  TInv'
  <1> USE Kept
  <1>1. CASE Zip
    <2>1. [code |-> sub.code, tasks |-> picked.tasks, bundle |-> sub.bundle,
           raced |-> picked.raced] \in Archives
      BY DEF Archives, Submissions
    <2>2. sub' \in Submissions
      BY <1>1, <2>1 DEF Zip, Submissions
    <2> QED
      BY <1>1, <2>2, EndingTypes DEF Zip, Abort, history
  <1>2. CASE CutZip
    <2>1. sub' \in Submissions
      BY <1>2, NothingIsWhole DEF CutZip, Submissions
    <2> QED
      BY <1>2, <2>1, EndingTypes DEF CutZip, history
  <1>3. pc = "cache" => call \in Calls /\ call.record \in Records
    BY CallShape DEF TInv, TypeOK, CallTypes, CallFits
  <1>4. CASE CacheWrites
    <2>1. cache' = Torn \/ cache' \subseteq Records
      BY <1>3, <1>4, Merges DEF CacheWrites
    <2> QED
      BY <1>4, <2>1, EndingTypes DEF CacheWrites, Abort, history
  <1>5. CASE CutCache
    <2>1. Merged(cache, call.record) \subseteq Records
      BY <1>3, <1>5, Merges DEF CutCache
    <2>2. cache' = Torn \/ cache' \subseteq Records
      BY <1>5, <2>1 DEF CutCache
    <2> QED
      BY <1>5, <2>2, EndingTypes DEF CutCache, Abort, history
  <1> QED
    BY <1>1, <1>2, <1>4, <1>5

LEMMA TypeStep == TInv /\ [Next]_vars => TInv'
  <1> SUFFICES ASSUME TInv, [Next]_vars PROVE TInv'
    OBVIOUS
  <1>1. CASE Step
    BY <1>1, InsideTypes, QuietTypes, CodeTypes, CopyTypes, PackTypes DEF Step, Quiet
  <1>2. CASE Environment
    BY <1>2, SetContextTypes, RefuseTypes, AdmitTypes, InsideTypes, QuietTypes, CodeTypes,
      CopyTypes, PackTypes DEF Environment, Quiet
  <1>3. CASE UNCHANGED vars
    BY <1>3 DEF vars, running, history, counts, TInv, TypeOK, CallTypes, DiskTypes, HistoryTypes,
      CallFits
  <1> QED
    BY <1>1, <1>2, <1>3 DEF Next

LEMMA Typed == Spec => []TInv
  BY TypeInit, TypeStep, PTL DEF Spec

\* Every variable keeps its type (tool_registry.py, tools/*.py).
THEOREM TypeCorrect == Spec => []TypeOK
  <1>1. TInv => TypeOK
    BY DEF TInv
  <1> QED
    BY <1>1, Typed, PTL

-----------------------------------------------------------------------------
(* The registry and the cache. *)

LEMMA Rests ==
  ASSUME Abort
  PROVE  pc' = "idle"
  BY DEF Abort, End, Die, Rest

\* A step leaves the call and its context alone, ends it, admits one, or
\* sets the context between calls.
LEMMA CallSteps ==
  ASSUME [Next]_vars
  PROVE  \/ pc' = "idle"
         \/ UNCHANGED <<call, ctx>> /\ (pc = "idle" => pc' = "idle")
         \/ \E c \in Calls : Admit(c)
  <1>1. CASE Step
    BY <1>1, Rests DEF Step, Abort, Answer, WriteFile, RecordEntry, CommandEnds, Undo, ScriptEnds,
      Copy, Restore, Validate, DoNotPack, Zip, CacheRefuses, CacheWrites, FetchAgain, FetchEnds,
      running
  <1>2. CASE Environment
    BY <1>2, Rests DEF Environment, Abort, SetContext, Refuse, CommandRuns, ScriptRuns, OrphanRuns,
      OrphanEnds, Kill, CutWrite, CutEntry, SkipUndo, CutUndo, CutScript, CutCopy, CutRestore,
      CutZip, CutCache, running
  <1>3. CASE UNCHANGED vars
    BY <1>3 DEF vars, running
  <1> QED
    BY <1>1, <1>2, <1>3 DEF Next

\* What the gate lets through is in the list the model was given
\* (tool_registry.py:110, 136).
LEMMA GateIsOffer ==
  ASSUME NEW c, NEW t, Gate(c, t)
  PROVE  t \in Offered(c)
  BY DEF Gate, Offered, InPhase, Exposed

\* No call runs that was not offered, RunsWhatWasOffered (tool_registry.py:110).
THEOREM OfferedOnly == Spec => []RunsWhatWasOffered
  <1>1. Init => RunsWhatWasOffered
    BY DEF Init, RunsWhatWasOffered
  <1>2. RunsWhatWasOffered /\ [Next]_vars => RunsWhatWasOffered'
    <2> SUFFICES ASSUME RunsWhatWasOffered, [Next]_vars, pc' # "idle"
                 PROVE  call'.tool \in Offered(ctx')
      BY DEF RunsWhatWasOffered
    <2>1. CASE UNCHANGED <<call, ctx>> /\ (pc = "idle" => pc' = "idle")
      BY <2>1 DEF RunsWhatWasOffered
    <2>2. ASSUME NEW c \in Calls, Admit(c)
          PROVE  call'.tool \in Offered(ctx')
      BY <2>2, GateIsOffer DEF Admit
    <2> QED
      BY <2>1, <2>2, CallSteps
  <1> QED
    BY <1>1, <1>2, PTL DEF Spec

LEMMA CacheSteps ==
  ASSUME [Next]_vars
  PROVE  cache' = cache \/ CacheWrites \/ CutCache
  <1>1. CASE Step
    BY <1>1 DEF Step, Answer, WriteFile, RecordEntry, CommandEnds, Undo, ScriptEnds, Copy, Restore,
      Validate, DoNotPack, Zip, CacheRefuses, FetchAgain, FetchEnds
  <1>2. CASE Environment
    BY <1>2 DEF Environment, SetContext, Refuse, Admit, CommandRuns, ScriptRuns, OrphanRuns,
      OrphanEnds, Kill, CutWrite, CutEntry, SkipUndo, CutUndo, CutScript, CutCopy, CutRestore, CutZip
  <1>3. CASE UNCHANGED vars
    BY <1>3 DEF vars
  <1> QED
    BY <1>1, <1>2, <1>3 DEF Next

\* Merging keeps sources apart, whatever the record matches.
LEMMA MergedKeepsApart ==
  ASSUME NEW S, NEW r, \A a, b \in S : SameSource(a, b) => a = b
  PROVE  \A a, b \in Merged(S, r) : SameSource(a, b) => a = b
  BY DEF Merged, SameSource

\* No two records of one source, OneEntryPerSource (research_cache.py:81).
THEOREM OneEntry == Spec => []OneEntryPerSource
  <1>1. Init => OneEntryPerSource
    BY DEF Init, OneEntryPerSource
  <1>2. OneEntryPerSource /\ [Next]_vars => OneEntryPerSource'
    <2> SUFFICES ASSUME OneEntryPerSource, [Next]_vars, cache' # Torn
                 PROVE  \A a, b \in cache' : SameSource(a, b) => a = b
      BY DEF OneEntryPerSource
    <2>1. CASE cache' = cache
      BY <2>1 DEF OneEntryPerSource
    <2>2. CASE CacheWrites
      BY <2>2, MergedKeepsApart DEF CacheWrites, OneEntryPerSource
    <2>3. CASE CutCache
      <3>1. \A a, b \in Merged(cache, call.record) : SameSource(a, b) => a = b
        BY <2>3, MergedKeepsApart DEF CutCache, OneEntryPerSource
      <3>2. cache' \subseteq Merged(cache, call.record)
        BY <2>3 DEF CutCache
      <3> QED
        BY <3>1, <3>2
    <2> QED
      BY <2>1, <2>2, <2>3, CacheSteps
  <1> QED
    BY <1>1, <1>2, PTL DEF Spec

\* A record goes only for one of the same source, LostOnlyToMatch
\* (research_cache.py:73).
THEOREM LostToMatch == Spec => LostOnlyToMatch
  <1>1. [Next]_vars => [cache # Torn /\ cache' # Torn /\ ~killed' =>
          \A r \in cache \ cache' : call.record \in cache' /\ SameSource(r, call.record)]_vars
    <2> SUFFICES ASSUME [Next]_vars, cache # Torn, cache' # Torn, ~killed', NEW r \in cache \ cache'
                 PROVE  call.record \in cache' /\ SameSource(r, call.record)
      OBVIOUS
    <2>1. CASE CacheWrites
      BY <2>1 DEF CacheWrites, Merged
    <2>2. ~CutCache
      BY DEF CutCache, Die
    <2> QED
      BY <2>1, <2>2, CacheSteps
  <1> QED
    BY <1>1, PTL DEF Spec, LostOnlyToMatch

-----------------------------------------------------------------------------
(* Manifests, archives and snapshots. *)

\* The steps that write a manifest, an archive or a snapshot.
LEMMA DiskSteps ==
  ASSUME TInv, [Next]_vars
  PROVE  \/ /\ sub'.manifest = sub.manifest /\ sub'.archive = sub.archive
            /\ snaps' = snaps /\ reported' = reported
         \/ RecordEntry \/ CutEntry \/ Copy \/ CutCopy \/ Restore \/ CutRestore \/ Zip \/ CutZip
  <1>1. sub \in Submissions
    BY Kept
  <1>2. ASSUME NEW code, SetCode(code)
        PROVE  sub'.manifest = sub.manifest /\ sub'.archive = sub.archive
    BY <1>1, <1>2 DEF SetCode, Submissions
  <1>3. CASE Step
    BY <1>2, <1>3 DEF Step, Answer, WriteFile, SetFile, CommandEnds, Undo, ScriptEnds, Validate,
      DoNotPack, CacheRefuses, CacheWrites, FetchAgain, FetchEnds, history
  <1>4. CASE CommandRuns \/ ScriptRuns \/ OrphanRuns
    BY <1>1, <1>4, Disturbed DEF CommandRuns, ScriptRuns, OrphanRuns, history
  <1>5. CASE SkipUndo \/ CutUndo \/ CutWrite
    BY <1>2, <1>5 DEF SkipUndo, CutUndo, CutWrite, SetFile
  <1>6. CASE Environment
    BY <1>4, <1>5, <1>6 DEF Environment, SetContext, Refuse, Admit, OrphanEnds, Kill, CutScript,
      CutCache, history
  <1>7. CASE UNCHANGED vars
    BY <1>7 DEF vars, history
  <1> QED
    BY <1>3, <1>6, <1>7 DEF Next

LEMMA HeldIsSubmission ==
  ASSUME TInv, pc \in {"copy", "restore"}
  PROVE  /\ call.label \in Labels
         /\ snaps[call.label] # NoSnap => snaps[call.label] \in Submissions
         /\ snaps \in [Labels -> Submissions \union {NoSnap}]
         /\ reported \in [Labels -> Submissions \union {NoSnap}]
         /\ sub \in Submissions
  BY CallShape DEF TInv, TypeOK, CallTypes, DiskTypes, HistoryTypes, CallFits

Backed(m) == m # Torn => \A f \in Files : m[f] # NoEntry => <<f, m[f]>> \in written

Whole(a) ==
  a \notin {NoArchive, Torn} =>
    a.raced \/ /\ \E f \in Files : a.code[f] # Absent
               /\ a.tasks # {}
               /\ \A t \in a.tasks : a.bundle[t] = "valid"

LEMMA NothingIsBacked ==
  Backed(NoEntries) /\ Backed(Torn) /\ Whole(NoArchive) /\ Whole(Torn)
  BY DEF Backed, NoEntries, Whole

\* The manifests are backed; what write_file wrote last, it did write.
EntriesInv ==
  /\ Backed(sub.manifest)
  /\ \A l \in Labels : snaps[l] # NoSnap => Backed(snaps[l].manifest)
  /\ pc = "entry" => <<call.file, call.text>> \in written

\* The archives are whole; while one is made, what was validated stays.
ArchiveInv ==
  /\ Whole(sub.archive)
  /\ \A l \in Labels : snaps[l] # NoSnap => Whole(snaps[l].archive)
  /\ pc = "zip" /\ ~picked.raced =>
       /\ ~orphan /\ HasCode /\ picked.tasks # {}
       /\ \A t \in picked.tasks : sub.bundle[t] = "valid"

\* What write_file wrote stays written, and the entry of a call is one.
LEMMA WrittenSteps ==
  ASSUME [Next]_vars, pc = "entry" => <<call.file, call.text>> \in written
  PROVE  /\ written \subseteq written'
         /\ pc' = "entry" => <<call'.file, call'.text>> \in written'
  <1>1. CASE Step
    <2>1. CASE WriteFile
      BY <2>1 DEF WriteFile, running
    <2>2. CASE Validate \/ CommandEnds \/ FetchAgain
      BY <2>2 DEF Validate, CommandEnds, FetchAgain, history
    <2> QED
      BY <1>1, <2>1, <2>2, Rests DEF Step, Abort, Answer, RecordEntry, Undo, ScriptEnds, Copy,
        Restore, DoNotPack, Zip, CacheRefuses, CacheWrites, FetchEnds, history
  <1>2. CASE Environment
    <2>1. ASSUME NEW c \in Calls, Admit(c)
          PROVE  written' = written /\ pc' # "entry"
      BY <2>1 DEF Admit, FirstStep
    <2> QED
      BY <1>2, <2>1, Rests DEF Environment, Abort, SetContext, Refuse, CommandRuns, ScriptRuns,
        OrphanRuns, OrphanEnds, Kill, CutWrite, CutEntry, SkipUndo, CutUndo, CutScript, CutCopy,
        CutRestore, CutZip, CutCache, running, history
  <1>3. CASE UNCHANGED vars
    BY <1>3 DEF vars, running, history
  <1> QED
    BY <1>1, <1>2, <1>3 DEF Next

LEMMA BackedStays ==
  ASSUME written \subseteq written', NEW m, Backed(m)
  PROVE  m # Torn => \A f \in Files : m[f] # NoEntry => <<f, m[f]>> \in written'
  BY DEF Backed

LEMMA EntriesStep == TInv /\ EntriesInv /\ [Next]_vars => EntriesInv'
  <1> SUFFICES ASSUME TInv, EntriesInv, [Next]_vars PROVE EntriesInv'
    OBVIOUS
  <1> DEFINE Backed1(m) == m # Torn => \A f \in Files : m[f] # NoEntry => <<f, m[f]>> \in written'
  <1>1. written \subseteq written' /\ (pc' = "entry" => <<call'.file, call'.text>> \in written')
    BY WrittenSteps DEF EntriesInv
  <1>2. \A m : Backed(m) => Backed1(m)
    BY <1>1, BackedStays
  <1>3. Backed1(sub'.manifest) /\ \A l \in Labels : snaps'[l] # NoSnap => Backed1(snaps'[l].manifest)
    <2>1. CASE sub'.manifest = sub.manifest /\ snaps' = snaps
      BY <1>2, <2>1 DEF EntriesInv
    <2>2. CASE RecordEntry
      <3>1. call.file \in Files /\ call.text \in Texts /\ sub \in Submissions
        BY <2>2, CallShape DEF RecordEntry, TInv, TypeOK, CallTypes, DiskTypes, CallFits
      <3>2. /\ sub'.manifest[call.file] = call.text
            /\ \A g \in Files \ {call.file} :
                 \/ sub'.manifest[g] = NoEntry
                 \/ sub.manifest # Torn /\ sub'.manifest[g] = sub.manifest[g]
        BY <2>2, <3>1, EntrySet DEF RecordEntry
      <3>3. <<call.file, call.text>> \in written
        BY <2>2 DEF RecordEntry, EntriesInv
      <3>4. Backed(sub.manifest) /\ snaps' = snaps
        BY <2>2 DEF RecordEntry, EntriesInv
      <3>5. Backed1(sub'.manifest)
        BY <1>1, <3>2, <3>3, <3>4 DEF Backed
      <3> QED
        BY <1>2, <3>4, <3>5 DEF EntriesInv
    <2>3. CASE CutEntry
      BY <1>2, <2>3, Kept DEF CutEntry, Submissions, EntriesInv
    <2>4. CASE Zip \/ CutZip
      BY <1>2, <2>4, Kept DEF Zip, CutZip, Submissions, EntriesInv
    <2>5. CASE Copy
      BY <1>2, <2>5, HeldIsSubmission DEF Copy, EntriesInv
    <2>6. CASE CutCopy
      <3>1. PICK p \in Pieces(sub) : \E s \in CutOff(p) : snaps' = [snaps EXCEPT ![call.label] = s]
        BY <2>6 DEF CutCopy
      <3>2. PICK s \in CutOff(p) : snaps' = [snaps EXCEPT ![call.label] = s]
        BY <3>1
      <3>3. s.manifest \in {sub.manifest, NoEntries, Torn}
        BY Kept, PiecesOfCopy
      <3>4. Backed1(s.manifest)
        BY <1>2, <3>3, NothingIsBacked DEF EntriesInv
      <3> QED
        BY <1>2, <2>6, <3>2, <3>4, HeldIsSubmission DEF CutCopy, EntriesInv
    <2>7. CASE Restore
      <3>1. CASE snaps[call.label] = NoSnap
        BY <1>2, <2>7, <3>1 DEF Restore, EntriesInv
      <3>2. CASE snaps[call.label] # NoSnap
        <4>1. sub'.manifest \in {snaps[call.label].manifest, sub.manifest}
          BY <2>7, <3>2, HeldIsSubmission, LaidOver DEF Restore
        <4>2. Backed(snaps[call.label].manifest) /\ Backed(sub.manifest)
          BY <2>7, <3>2, HeldIsSubmission DEF Restore, EntriesInv
        <4> QED
          BY <1>2, <2>7, <4>1, <4>2 DEF Restore, EntriesInv
      <3> QED
        BY <3>1, <3>2
    <2>8. CASE CutRestore
      <3>1. PICK p \in Pieces(snaps[call.label]) :
              \E s \in CutOff(p) : sub' \in Over(s) /\ DisownHeld(s)
        BY <2>8 DEF CutRestore
      <3>2. PICK s \in CutOff(p) : sub' \in Over(s)
        BY <3>1
      <3>3. s \in Submissions /\ s.manifest \in {snaps[call.label].manifest, NoEntries, Torn}
        BY <2>8, HeldIsSubmission, PiecesOfCopy DEF CutRestore
      <3>4. sub'.manifest \in {s.manifest, sub.manifest}
        BY <3>2, <3>3, Kept, LaidOver
      <3>5. Backed(snaps[call.label].manifest) /\ Backed(sub.manifest)
        BY <2>8, HeldIsSubmission DEF CutRestore, EntriesInv
      <3>6. Backed1(sub'.manifest)
        BY <1>2, <3>3, <3>4, <3>5, NothingIsBacked
      <3> QED
        BY <1>2, <2>8, <3>6 DEF CutRestore, EntriesInv
    <2> QED
      BY <2>1, <2>2, <2>3, <2>4, <2>5, <2>6, <2>7, <2>8, DiskSteps
  <1> QED
    BY <1>1, <1>3 DEF EntriesInv, Backed

\* Manifests only have contents that write_file put on disk, EntriesWereWritten
\* (fs_tools.py:74).
THEOREM EntriesAreBacked == Spec => []EntriesWereWritten
  <1>1. Init => EntriesInv
    BY NothingIsBacked DEF Init, EntriesInv
  <1>2. EntriesInv => EntriesWereWritten
    BY DEF EntriesInv, EntriesWereWritten, Backed
  <1> QED
    BY <1>1, <1>2, EntriesStep, Typed, PTL DEF Spec

\* Between validating and packing, nothing writes unless it runs on in the
\* background (package_tools.py:93).
LEMMA ZipSteps ==
  ASSUME TInv, [Next]_vars, pc' = "zip"
  PROVE  \/ Validate
         \/ pc = "zip" /\ picked' = picked /\ (orphan' => orphan)
            /\ (orphan \/ UNCHANGED sub)
  <1>1. CASE Step
    BY <1>1, Rests DEF Step, Abort, Answer, WriteFile, RecordEntry, CommandEnds, Undo, ScriptEnds,
      Copy, Restore, DoNotPack, Zip, CacheRefuses, CacheWrites, FetchAgain, FetchEnds
  <1>2. CASE Environment
    <2>1. ASSUME NEW c \in Calls, Admit(c)
          PROVE  FALSE
      BY <2>1 DEF Admit, FirstStep
    <2> QED
      BY <1>2, <2>1, Rests DEF Environment, Abort, SetContext, Refuse, CommandRuns, ScriptRuns,
        OrphanRuns, OrphanEnds, Kill, CutWrite, CutEntry, SkipUndo, CutUndo, CutScript, CutCopy,
        CutRestore, CutZip, CutCache, running
  <1>3. CASE UNCHANGED vars
    BY <1>3 DEF vars, running
  <1> QED
    BY <1>1, <1>2, <1>3 DEF Next

LEMMA DetectsSome ==
  ASSUME AllAreValid(Detected)
  PROVE  HasCode /\ Detected # {} /\ \A t \in Detected : sub.bundle[t] = "valid"
  BY RunnerAssumption DEF AllAreValid, Detected

LEMMA ArchiveStep == TInv /\ ArchiveInv /\ [Next]_vars => ArchiveInv'
  <1> SUFFICES ASSUME TInv, ArchiveInv, [Next]_vars PROVE ArchiveInv'
    OBVIOUS
  <1>1. Whole(sub'.archive) /\ \A l \in Labels : snaps'[l] # NoSnap => Whole(snaps'[l].archive)
    <2>1. CASE sub'.archive = sub.archive /\ snaps' = snaps
      BY <2>1 DEF ArchiveInv
    <2>2. CASE RecordEntry \/ CutEntry
      BY <2>2, Kept DEF RecordEntry, CutEntry, Submissions, ArchiveInv
    <2>3. CASE Zip
      <3>1. sub'.archive = [code |-> sub.code, tasks |-> picked.tasks, bundle |-> sub.bundle,
                            raced |-> picked.raced]
        BY <2>3, Kept DEF Zip, Submissions
      <3>2. picked.raced \/ /\ HasCode /\ picked.tasks # {}
                            /\ \A t \in picked.tasks : sub.bundle[t] = "valid"
        BY <2>3, Zenon DEF Zip, ArchiveInv
      <3>3. Whole(sub'.archive)
        BY <3>1, <3>2 DEF Whole, HasCode
      <3> QED
        BY <2>3, <3>3 DEF Zip, ArchiveInv
    <2>4. CASE CutZip
      BY <2>4, Kept, NothingIsBacked DEF CutZip, Submissions, ArchiveInv
    <2>5. CASE Copy
      BY <2>5, HeldIsSubmission DEF Copy, ArchiveInv
    <2>6. CASE CutCopy
      <3>1. PICK p \in Pieces(sub) : \E s \in CutOff(p) : snaps' = [snaps EXCEPT ![call.label] = s]
        BY <2>6 DEF CutCopy
      <3>2. PICK s \in CutOff(p) : snaps' = [snaps EXCEPT ![call.label] = s]
        BY <3>1
      <3>3. s.archive \in {sub.archive, NoArchive, Torn}
        BY Kept, PiecesOfCopy
      <3>4. Whole(s.archive)
        BY <3>3, NothingIsBacked DEF ArchiveInv
      <3> QED
        BY <2>6, <3>2, <3>4, HeldIsSubmission DEF CutCopy, ArchiveInv
    <2>7. CASE Restore
      <3>1. CASE snaps[call.label] = NoSnap
        BY <2>7, <3>1 DEF Restore, ArchiveInv
      <3>2. CASE snaps[call.label] # NoSnap
        <4>1. sub'.archive \in {snaps[call.label].archive, sub.archive}
          BY <2>7, <3>2, HeldIsSubmission, LaidOver DEF Restore
        <4>2. Whole(snaps[call.label].archive) /\ Whole(sub.archive)
          BY <2>7, <3>2, HeldIsSubmission DEF Restore, ArchiveInv
        <4> QED
          BY <2>7, <4>1, <4>2 DEF Restore, ArchiveInv
      <3> QED
        BY <3>1, <3>2
    <2>8. CASE CutRestore
      <3>1. PICK p \in Pieces(snaps[call.label]) :
              \E s \in CutOff(p) : sub' \in Over(s) /\ DisownHeld(s)
        BY <2>8 DEF CutRestore
      <3>2. PICK s \in CutOff(p) : sub' \in Over(s)
        BY <3>1
      <3>3. s \in Submissions /\ s.archive \in {snaps[call.label].archive, NoArchive, Torn}
        BY <2>8, HeldIsSubmission, PiecesOfCopy DEF CutRestore
      <3>4. sub'.archive \in {s.archive, sub.archive}
        BY <3>2, <3>3, Kept, LaidOver
      <3>5. Whole(snaps[call.label].archive) /\ Whole(sub.archive)
        BY <2>8, HeldIsSubmission DEF CutRestore, ArchiveInv
      <3>6. Whole(sub'.archive)
        BY <3>3, <3>4, <3>5, NothingIsBacked
      <3> QED
        BY <2>8, <3>6 DEF CutRestore, ArchiveInv
    <2> QED
      BY <2>1, <2>2, <2>3, <2>4, <2>5, <2>6, <2>7, <2>8, DiskSteps
  <1>2. ASSUME pc' = "zip", ~picked'.raced
        PROVE  /\ ~orphan' /\ HasCode' /\ picked'.tasks # {}
               /\ \A t \in picked'.tasks : sub'.bundle[t] = "valid"
    <2>1. CASE Validate
      <3>1. HasCode /\ Detected # {} /\ \A t \in Detected : sub.bundle[t] = "valid"
        BY <2>1, DetectsSome DEF Validate
      <3> QED
        BY <1>2, <2>1, <3>1 DEF Validate, HasCode
    <2>2. CASE /\ pc = "zip" /\ picked' = picked /\ (orphan' => orphan)
               /\ (orphan \/ UNCHANGED sub)
      BY <1>2, <2>2 DEF ArchiveInv, HasCode
    <2> QED
      BY <1>2, <2>1, <2>2, ZipSteps
  <1> QED
    BY <1>1, <1>2 DEF ArchiveInv

\* An archive that is whole holds code and valid bundles, ArchiveWasValid
\* (package_tools.py:93).
THEOREM ArchivesAreValid == Spec => []ArchiveWasValid
  <1>1. Init => ArchiveInv
    BY NothingIsBacked DEF Init, ArchiveInv
  <1>2. ArchiveInv => ArchiveWasValid
    BY DEF ArchiveInv, ArchiveWasValid, Whole
  <1> QED
    BY <1>1, <1>2, ArchiveStep, Typed, PTL DEF Spec

\* A label that reported success keeps its snapshot (snapshot_tools.py:19).
SnapshotStays == \A l \in Labels : reported[l] # NoSnap => snaps[l] = reported[l]

LEMMA SnapshotStep == TInv /\ SnapshotStays /\ [Next]_vars => SnapshotStays'
  <1> SUFFICES ASSUME TInv, SnapshotStays, [Next]_vars PROVE SnapshotStays'
    OBVIOUS
  <1>1. CASE Copy
    BY <1>1, HeldIsSubmission DEF Copy, SnapshotStays
  <1>2. CASE CutCopy
    <2>1. PICK s : snaps' = [snaps EXCEPT ![call.label] = s]
      BY <1>2 DEF CutCopy
    <2>2. reported[call.label] = NoSnap /\ reported' = reported
      BY <1>2, HeldIsSubmission DEF CutCopy, SnapshotStays, history
    <2> QED
      BY <1>2, <2>1, <2>2, HeldIsSubmission DEF CutCopy, SnapshotStays
  <1>3. CASE RecordEntry \/ CutEntry \/ Restore \/ CutRestore \/ Zip \/ CutZip
    BY <1>3 DEF RecordEntry, CutEntry, Restore, CutRestore, Zip, CutZip, history, SnapshotStays
  <1> QED
    BY <1>1, <1>2, <1>3, DiskSteps DEF SnapshotStays

\* A rollback that succeeds brings back what was there when the snapshot
\* reported success, RollbackBringsBack (snapshot_tools.py:19, 34).
THEOREM RollbackRestores == Spec => RollbackBringsBack
  <1>1. Init => SnapshotStays
    BY DEF Init, SnapshotStays
  <1>2. TInv /\ SnapshotStays /\ [Next]_vars =>
          [Restore /\ reported[call.label] # NoSnap =>
             LET old == reported[call.label]
             IN  /\ \A f \in Files : old.code[f] # Absent => sub'.code[f] = old.code[f]
                 /\ old.manifest # NoEntries => sub'.manifest = old.manifest]_vars
    <2> SUFFICES ASSUME TInv, SnapshotStays, Restore, reported[call.label] # NoSnap
                 PROVE  /\ \A f \in Files : reported[call.label].code[f] # Absent =>
                             sub'.code[f] = reported[call.label].code[f]
                        /\ reported[call.label].manifest # NoEntries =>
                             sub'.manifest = reported[call.label].manifest
      OBVIOUS
    <2>1. call.label \in Labels /\ reported[call.label] \in Submissions
      BY HeldIsSubmission DEF Restore
    <2>2. snaps[call.label] = reported[call.label]
      BY <2>1 DEF SnapshotStays
    <2>3. sub' \in Over(reported[call.label])
      BY <2>2 DEF Restore
    <2>4. sub'.code = [f \in Files |-> IF reported[call.label].code[f] = Absent
                                      THEN sub.code[f] ELSE reported[call.label].code[f]]
      BY <2>1, <2>3, Kept, LaidOver
    <2>5. reported[call.label].manifest # NoEntries =>
            sub'.manifest = reported[call.label].manifest
      BY <2>1, <2>3, Kept, LaidOver
    <2> QED
      BY <2>4, <2>5
  <1> QED
    BY <1>1, <1>2, SnapshotStep, Typed, PTL DEF Spec, RollbackBringsBack

-----------------------------------------------------------------------------
(* The code and the responses log. *)

Own(f) == owner[f] \in {"nobody", "write_file"}

\* While write_file is at a file only the others are traced; while a command
\* runs, what it found is.
TracedInv ==
  /\ \A f \in Files : Own(f) =>
       /\ pc \in {"shell", "undo"} => before[f] = traced[f]
       /\ pc \notin {"shell", "undo"} =>
            sub.code[f] = traced[f] \/ (pc = "write" /\ f = call.file)
  /\ pc = "write" => traced[call.file] = call.text

\* Steps that leave the code, or change only what they disown.
LEMMA TracedQuietly ==
  ASSUME TInv, TracedInv, UNCHANGED <<pc, call, before, traced>>,
         \A f \in Files : Own(f)' => Own(f) /\ (pc \notin {"shell", "undo"} =>
                                                  sub'.code[f] = sub.code[f])
  PROVE  TracedInv'
  BY DEF TracedInv

\* Steps that end a call and leave its code, or disown it.
LEMMA TracedEnding ==
  ASSUME TInv, TracedInv, Abort, pc \notin {"write", "shell", "undo"}, traced' = traced,
         \A f \in Files : Own(f)' => Own(f) /\ sub'.code[f] = sub.code[f]
  PROVE  TracedInv'
  BY Rests DEF TracedInv

LEMMA DisownedFiles ==
  ASSUME NEW old, DisownChanged(old), NEW f \in Files, Own(f)'
  PROVE  Own(f) /\ sub'.code[f] = old[f]
  BY DEF DisownChanged, Own

LEMMA TracedRequest ==
  ASSUME TInv, NEW c \in Calls, Requested(c)
  PROVE  /\ \A f \in Files : traced'[f] = traced[f] \/ (c.tool = "write_file" /\ f = c.file)
         /\ c.tool = "write_file" => traced'[c.file] = c.text
  BY CallShape DEF TInv, TypeOK, HistoryTypes, Requested

LEMMA TracedStep == TInv /\ TracedInv /\ [Next]_vars => TracedInv'
  <1> SUFFICES ASSUME TInv, TracedInv, [Next]_vars PROVE TracedInv'
    OBVIOUS
  <1> USE Kept
  <1>1. ASSUME NEW c \in Contexts, SetContext(c) PROVE TracedInv'
    BY <1>1, TracedQuietly DEF SetContext, running, history, Own
  <1>2. ASSUME NEW c \in Calls, Refuse(c) PROVE TracedInv'
    <2>1. /\ pc = "idle" /\ pc' = "idle" /\ sub' = sub
          /\ \A f \in Files : Own(f)' => Own(f) /\ ~(c.tool = "write_file" /\ f = c.file)
      BY <1>2, CallShape DEF Refuse, NotMade, Claim, Own, TInv, TypeOK, HistoryTypes
    <2>2. \A f \in Files : traced'[f] = traced[f] \/ (c.tool = "write_file" /\ f = c.file)
      BY <1>2, TracedRequest DEF Refuse
    <2> QED
      BY <2>1, <2>2 DEF TracedInv
  <1>3. ASSUME NEW c \in Calls, Admit(c) PROVE TracedInv'
    <2>1. /\ pc = "idle" /\ call' = c /\ sub' = sub /\ owner' = owner
          /\ pc' = FirstStep(c.tool)
          /\ before' = IF c.tool = "run_shell" THEN sub.code ELSE before
      BY <1>3 DEF Admit
    <2>2. /\ \A f \in Files : traced'[f] = traced[f] \/ (c.tool = "write_file" /\ f = c.file)
          /\ c.tool = "write_file" => traced'[c.file] = c.text
      BY <1>3, TracedRequest DEF Admit
    <2>3. /\ pc' = "write" <=> c.tool = "write_file"
          /\ pc' = "shell" <=> c.tool = "run_shell"
          /\ pc' # "undo"
      BY <2>1 DEF FirstStep
    <2>4. \A f \in Files : Own(f) => sub.code[f] = traced[f]
      BY <2>1 DEF TracedInv
    <2> QED
      BY <2>1, <2>2, <2>3, <2>4 DEF TracedInv, Own
  <1>4. CASE WriteFile
    <2>1. call.file \in Files /\ call.text \in Texts /\ call.text \in Contents
      BY <1>4, CallShape DEF WriteFile, TInv, TypeOK, CallTypes, CallFits, Contents
    <2>2. sub'.code = [sub.code EXCEPT ![call.file] = call.text]
      BY <1>4, <2>1, FileSet DEF WriteFile
    <2>3. sub.code \in Codes
      BY DEF Submissions
    <2>4. /\ sub'.code[call.file] = traced[call.file]
          /\ \A f \in Files \ {call.file} : sub'.code[f] = sub.code[f] /\ (Own(f)' => Own(f))
      BY <1>4, <2>1, <2>2, <2>3 DEF WriteFile, TracedInv, Codes, Claim, Own, TInv, TypeOK, HistoryTypes
    <2>5. pc = "write" /\ pc' = "entry" /\ traced' = traced
      BY <1>4 DEF WriteFile
    <2> QED
      BY <2>4, <2>5 DEF TracedInv
  <1>5. CASE CutWrite
    <2>1. call.file \in Files
      BY <1>5, CallShape DEF CutWrite, TInv, TypeOK, CallTypes, CallFits
    <2>2. PICK x : SetFile(call.file, x)
      BY <1>5 DEF CutWrite
    <2>3. sub'.code = [sub.code EXCEPT ![call.file] = x] /\ sub.code \in Codes
      BY <2>2 DEF SetFile, SetCode, Submissions
    <2>4. \A f \in Files : Own(f)' => Own(f) /\ f # call.file
      BY <1>5, <2>1 DEF CutWrite, Claim, Own, TInv, TypeOK, HistoryTypes
    <2>5. \A f \in Files \ {call.file} : sub'.code[f] = sub.code[f]
      BY <2>3 DEF Codes
    <2>6. pc = "write" /\ pc' = "idle" /\ traced' = traced
      BY <1>5, Rests DEF CutWrite
    <2> QED
      BY <2>4, <2>5, <2>6 DEF TracedInv
  <1>6. CASE RecordEntry \/ CutEntry \/ Zip \/ CutZip
    BY <1>6, TracedEnding DEF RecordEntry, CutEntry, Zip, CutZip, Abort, history, Own, Submissions
  <1>7. CASE Quiet \/ Copy \/ CutCopy \/ CacheWrites \/ CutCache
    BY <1>7, TracedEnding DEF Quiet, Answer, ScriptEnds, CutScript, DoNotPack, CacheRefuses,
      FetchEnds, Kill, Copy, CutCopy, CacheWrites, CutCache, Abort, history, Own
  <1>8. CASE CommandRuns \/ OrphanEnds \/ FetchAgain
    BY <1>8, TracedQuietly DEF CommandRuns, OrphanEnds, FetchAgain, running, history, Own
  <1>9. CASE ScriptRuns \/ OrphanRuns
    BY <1>9, DisownedFiles, TracedQuietly DEF ScriptRuns, OrphanRuns, running
  <1>10. CASE CommandEnds
    BY <1>10 DEF CommandEnds, running, history, Own, TracedInv
  <1>11. CASE Undo
    <2>1. sub'.code = before
      BY <1>11, CodeSet DEF Undo
    <2>2. pc' = "idle" /\ pc = "undo"
      BY <1>11, Rests DEF Undo, Abort
    <2> QED
      BY <1>11, <2>1, <2>2 DEF Undo, history, Own, TracedInv
  <1>12. CASE SkipUndo \/ CutUndo
    <2>1. /\ pc \in {"shell", "undo"} /\ pc' = "idle" /\ traced' = traced
          /\ DisownChanged(before)
      BY <1>12, Rests DEF SkipUndo, CutUndo
    <2> QED
      BY <2>1, DisownedFiles DEF TracedInv
  <1>13. CASE Restore
    <2>1. CASE snaps[call.label] = NoSnap
      BY <1>13, <2>1, TracedEnding DEF Restore, Abort, Own
    <2>2. CASE snaps[call.label] # NoSnap
      <3> DEFINE s == snaps[call.label]
      <3>1. s \in Submissions /\ sub' \in Over(s) /\ DisownHeld(s)
        BY <1>13, <2>2, HeldIsSubmission DEF Restore
      <3>2. sub'.code = [f \in Files |-> IF s.code[f] = Absent THEN sub.code[f] ELSE s.code[f]]
        BY <3>1, LaidOver
      <3>3. \A f \in Files : Own(f)' => Own(f) /\ s.code[f] = Absent
        BY <3>1 DEF DisownHeld, Own
      <3> QED
        BY <1>13, <3>2, <3>3, TracedEnding DEF Restore, Abort
    <2> QED
      BY <2>1, <2>2
  <1>14. CASE CutRestore
    <2>1. PICK p \in Pieces(snaps[call.label]) :
            \E s \in CutOff(p) : sub' \in Over(s) /\ DisownHeld(s)
      BY <1>14 DEF CutRestore
    <2>2. PICK s \in CutOff(p) : sub' \in Over(s) /\ DisownHeld(s)
      BY <2>1
    <2>3. s \in Submissions
      BY <1>14, HeldIsSubmission, PiecesOfCopy DEF CutRestore
    <2>4. sub'.code = [f \in Files |-> IF s.code[f] = Absent THEN sub.code[f] ELSE s.code[f]]
      BY <2>2, <2>3, LaidOver
    <2>5. \A f \in Files : Own(f)' => Own(f) /\ s.code[f] = Absent
      BY <2>2 DEF DisownHeld, Own
    <2> QED
      BY <1>14, <2>4, <2>5, TracedEnding DEF CutRestore
  <1>15. CASE Validate
    BY <1>15 DEF Validate, history, Own, TracedInv
  <1>16. CASE UNCHANGED vars
    BY <1>16 DEF vars, running, history, Own, TracedInv
  <1> QED
    BY <1>1, <1>2, <1>3, <1>4, <1>5, <1>6, <1>7, <1>8, <1>9, <1>10, <1>11, <1>12, <1>13, <1>14,
      <1>15, <1>16 DEF Next, Step, Environment, Quiet

\* Between calls the log tells what write_file left, TracedByItsWriter
\* (shell_tools.py:51).
THEOREM LogTellsTheCode == Spec => []TracedByItsWriter
  <1>1. Init => TracedInv
    BY DEF Init, TracedInv
  <1>2. TracedInv => TracedByItsWriter
    BY DEF TracedInv, TracedByItsWriter, Own
  <1> QED
    BY <1>1, <1>2, TracedStep, Typed, PTL DEF Spec

\* What validate_responses_logs finds between calls are files whose last write
\* was refused or cut off, or that something other than write_file changed
\* (validate_tools.py:137).
THEOREM ValidatorFindsOthers ==
  Spec => [](pc = "idle" => UntracedFiles \subseteq {f \in Files : owner[f] \in {"refused", "other"}})
  <1>1. TInv /\ TracedByItsWriter
          => (pc = "idle" => UntracedFiles
                \subseteq {f \in Files : owner[f] \in {"refused", "other"}})
    BY DEF TInv, TypeOK, HistoryTypes, TracedByItsWriter, UntracedFiles
  <1> QED
    BY <1>1, LogTellsTheCode, Typed, PTL

-----------------------------------------------------------------------------
(* A call comes to an end.                                                 *)

\* The steps of a call itself end it, or go on to the next of its steps.
LEMMA GoesOn ==
  ASSUME TInv, [Next]_vars, vars' # vars, pc # "idle"
  PROVE  \/ pc' = "idle"
         \/ pc = "write" /\ pc' = "entry"
         \/ pc = "shell" /\ pc' = "undo"
         \/ pc = "pack" /\ pc' = "zip"
         \/ pc = "fetch" /\ pc' = "fetch" /\ tries = 0 /\ tries' = 1
         \/ CommandRuns \/ ScriptRuns \/ OrphanRuns \/ OrphanEnds
  <1>1. CASE Step
    BY <1>1, Rests DEF Step, Abort, Answer, WriteFile, RecordEntry, CommandEnds, Undo, ScriptEnds,
      Copy, Restore, Validate, DoNotPack, Zip, CacheRefuses, CacheWrites, FetchAgain, FetchEnds
  <1>2. CASE Environment
    BY <1>2, Rests DEF Environment, Abort, SetContext, Refuse, Admit, Kill, CutWrite, CutEntry,
      SkipUndo, CutUndo, CutScript, CutCopy, CutRestore, CutZip, CutCache
  <1> QED
    BY <1>1, <1>2 DEF Next

\* Every step of a call takes it nearer to its end, but those of what it started.
\* What CallEnds adds, that a step is taken, TLC checks.
THEOREM FiniteCall == Spec => CallIsFinite
  <1> DEFINE outside == /\ orphan \/ pc \in {"shell", "python"}
                        /\ UNCHANGED <<pc, ctx, running, snaps, cache, sub.manifest, sub.archive>>
  <1>1. ASSUME TInv, [Next]_vars, vars' # vars, pc # "idle"
        PROVE  (CallLeft \in 1..2 /\ CallLeft' < CallLeft) \/ outside
    <2>1. pc \in Steps /\ tries \in 0..1 /\ sub \in Submissions
      BY <1>1 DEF TInv, TypeOK, CallTypes, DiskTypes
    <2>2. CallLeft \in 1..2
      BY <1>1, <2>1 DEF CallLeft, Steps
    <2>3. CASE pc' = "idle"
      <3>1. CallLeft' = 0
        BY <2>3 DEF CallLeft
      <3> QED
        BY <2>2, <3>1
    <2>4. CASE \/ pc = "write" /\ pc' = "entry"
               \/ pc = "shell" /\ pc' = "undo"
               \/ pc = "pack" /\ pc' = "zip"
               \/ pc = "fetch" /\ pc' = "fetch" /\ tries = 0 /\ tries' = 1
      <3>1. CallLeft = 2 /\ CallLeft' = 1
        BY <2>4 DEF CallLeft
      <3> QED
        BY <3>1
    <2>5. CASE CommandRuns \/ ScriptRuns \/ OrphanRuns
      <3>1. sub'.manifest = sub.manifest /\ sub'.archive = sub.archive
        BY <2>1, <2>5, Disturbed DEF CommandRuns, ScriptRuns, OrphanRuns
      <3> QED
        BY <2>5, <3>1 DEF CommandRuns, ScriptRuns, OrphanRuns
    <2>6. CASE OrphanEnds
      BY <2>6 DEF OrphanEnds
    <2> HIDE DEF outside
    <2> QED
      BY <1>1, <2>3, <2>4, <2>5, <2>6, GoesOn
  <1>2. TInv /\ [Next]_vars =>
          [pc # "idle" => (CallLeft \in 1..2 /\ CallLeft' < CallLeft) \/ outside]_vars
    <2> HIDE DEF outside
    <2> QED
      BY <1>1
  <1> QED
    BY <1>2, Typed, PTL DEF Spec, CallIsFinite

\* A record that is written again, after a write that was cut off, only adds
\* itself to what the cut left; after a whole write it changes nothing
\* (research_cache.py:73).
THEOREM WritesAgain ==
  ASSUME NEW S, NEW r, NEW T \in SUBSET Merged(S, r)
  PROVE  /\ Merged(T, r) = T \union {r}
         /\ Merged(Merged(S, r), r) = Merged(S, r)
  <1>1. \A c \in Merged(S, r) : c = r \/ ~SameSource(c, r)
    BY DEF Merged
  <1>2. \A U \in SUBSET Merged(S, r) : Merged(U, r) = U \union {r}
    BY <1>1 DEF Merged, SameSource
  <1>3. r \in Merged(S, r)
    BY DEF Merged
  <1> QED
    BY <1>2, <1>3

=============================================================================
