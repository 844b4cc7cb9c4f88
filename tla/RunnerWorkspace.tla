---------------------------- MODULE RunnerWorkspace ----------------------------
(***************************************************************************)
(* agent_runner: the calls of one model go one after another through the   *)
(* registry to the tools, which change the submission directory, its       *)
(* snapshots and the cache of sources.  A call is cut into the steps       *)
(* between which the process may be killed, or a process that a command    *)
(* left in the background may write.                                       *)
(*                                                                         *)
(* External: the model's requests and the runner that logs them before it  *)
(* executes them and sets the context, and what commands and scripts do.   *)
(* Bound: commands and scripts touch the files of the code and of the      *)
(* tasks, not the manifest, the archive, the snapshots or the cache.       *)
(***************************************************************************)
EXTENDS Integers, ToolRegistry, ResearchCache

CONSTANTS
  Files, Texts,         \* files of submission/code and what they hold
  Tasks, Labels,
  Contexts,             \* bound: the contexts the runner sets
  MaxCalls,             \* bound
  Absent, Partial,      \* no file; a file whose write was cut off
  NoEntry, NoSnap, NoArchive, Torn, NoCall

Contents == Texts \union {Absent, Partial}

Codes == [Files -> Contents]

NoEntries == [f \in Files |-> NoEntry]

Manifests == [Files -> Texts \union {NoEntry}] \union {Torn}

\* pred, time and log of a task: none of them, not all or not valid, valid
Bundles == [Tasks -> {"none", "invalid", "valid"}]

Archives == [code : Codes, tasks : SUBSET Tasks, bundle : Bundles, raced : BOOLEAN]
              \union {NoArchive, Torn}

Submissions == [code : Codes, manifest : Manifests, bundle : Bundles, archive : Archives]

Calls ==
  [tool : {"write_file"}, file : Files, text : Texts]
    \union [tool : {"snapshot", "rollback"}, label : Labels]
    \union [tool : {"research_cache_write"}, record : Records]
    \union [tool : (Tools \ {"write_file", "snapshot", "rollback", "research_cache_write"})
                     \union {"unknown"}]

ASSUME RunnerAssumption ==
  /\ MaxCalls \in Nat /\ Tasks # {}
  /\ Absent \notin Texts /\ Partial \notin Texts /\ Absent # Partial /\ NoEntry \notin Texts
  /\ NoSnap \notin Submissions /\ NoCall \notin Calls
  /\ \A s \in SUBSET Records : s # Torn
  /\ Torn \notin [Files -> Texts \union {NoEntry}]
  /\ \A k \in {NoArchive, Torn} :
       k \notin [code : Codes, tasks : SUBSET Tasks, bundle : Bundles, raced : BOOLEAN]
  /\ Contexts \subseteq [phase : Phases \union {NoPhase}, exposed : (SUBSET Tools) \union {Everything}]

VARIABLES
  pc,           \* the step of the call, "idle" between calls
  call, ctx,
  sub,          \* workspace/submission
  before,       \* the code as run_shell found it
  picked,       \* what package_submission decided to pack
  tries,        \* tries of a fetch
  snaps,        \* runs/snapshots
  cache,        \* research_sources.jsonl
  orphan,       \* a command or script runs in the background
  \* what happened:
  traced,       \* per file, what the responses log says was written last
  owner,        \* per file, what last wrote it, or was to
  written,      \* what write_file put on disk
  reported,     \* per label, the submission when its snapshot reported success
  begun,        \* calls
  killed        \* the last call that was admitted was ended by a kill

running == <<call, before, picked, tries>>
history == <<traced, owner, written, reported>>
counts == <<begun, killed>>
vars == <<pc, ctx, running, sub, snaps, cache, orphan, history, counts>>

NoPick == [tasks |-> {}, raced |-> FALSE]

Init ==
  /\ pc = "idle" /\ call = NoCall /\ ctx = NoContext
  /\ sub = [code |-> [f \in Files |-> Absent], manifest |-> NoEntries,
            bundle |-> [t \in Tasks |-> "none"], archive |-> NoArchive]
  /\ before = [f \in Files |-> Absent] /\ picked = NoPick /\ tries = 0
  /\ snaps = [l \in Labels |-> NoSnap]
  /\ cache = {} /\ orphan = FALSE
  /\ traced = [f \in Files |-> Absent] /\ owner = [f \in Files |-> "nobody"]
  /\ written = {} /\ reported = [l \in Labels |-> NoSnap]
  /\ begun = 0 /\ killed = FALSE

-----------------------------------------------------------------------------
(* A call. *)

SetContext(c) ==
  /\ pc = "idle"
  /\ ctx' = Updated(ctx, c.phase, c.exposed)
  /\ UNCHANGED <<pc, running, sub, snaps, cache, orphan, history, counts>>

\* The responses log has the request before anything is made of it.
Requested(c) ==
  /\ begun < MaxCalls /\ begun' = begun + 1
  /\ traced' = IF c.tool = "write_file" THEN [traced EXCEPT ![c.file] = c.text] ELSE traced

Claim(f, who) == owner' = [owner EXCEPT ![f] = who]

\* The tool validate_responses_logs: the files of the code that no logged call
\* wrote, or whose last logged call wrote something else.
UntracedFiles == {f \in Files : sub.code[f] # Absent /\ sub.code[f] # traced[f]}

\* A write that was asked for and not made.
NotMade(c) == IF c.tool = "write_file" THEN Claim(c.file, "refused") ELSE owner' = owner

\* The gate refuses, the arguments do not match the schema, or the tool's own
\* checks fail (path, command, directory, disabled).
Refuse(c) ==
  /\ pc = "idle" /\ Requested(c) /\ NotMade(c)
  /\ UNCHANGED <<pc, ctx, running, sub, snaps, cache, orphan, written, reported, killed>>

FirstStep(tool) ==
  CASE tool = "write_file" -> "write"
    [] tool = "run_shell"  -> "shell"
    [] tool = "run_python" -> "python"
    [] tool = "snapshot"   -> "copy"
    [] tool = "rollback"   -> "restore"
    [] tool = "package_submission"   -> "pack"
    [] tool = "research_cache_write" -> "cache"
    [] tool = "fetch_url"  -> "fetch"
    [] OTHER               -> "answer"

Admit(c) ==
  /\ pc = "idle" /\ Gate(ctx, c.tool) /\ Requested(c)
  /\ pc' = FirstStep(c.tool) /\ call' = c
  /\ before' = IF c.tool = "run_shell" THEN sub.code ELSE before
  /\ UNCHANGED <<ctx, picked, tries, sub, snaps, cache, orphan, owner, written, reported, killed>>

Rest == /\ pc' = "idle" /\ call' = NoCall /\ picked' = NoPick /\ tries' = 0
        /\ before' = [f \in Files |-> Absent] /\ begun' = begun

\* Whatever the handler returned or raised is the result of the call.
End == Rest /\ ctx' = ctx /\ killed' = FALSE

Die == Rest /\ ctx' = NoContext /\ killed' = TRUE

\* The tools that change nothing here.
Answer ==
  /\ pc = "answer" /\ End
  /\ UNCHANGED <<sub, snaps, cache, orphan, history>>

-----------------------------------------------------------------------------
(* write_file *)

SetCode(code) == sub' = [sub EXCEPT !.code = code]

SetFile(f, x) == SetCode([sub.code EXCEPT ![f] = x])

\* A manifest that does not parse is begun anew.
Entered(manifest, f, x) ==
  [(IF manifest = Torn THEN NoEntries ELSE manifest) EXCEPT ![f] = x]

\* Faulty: the entry is made before the file is written.
WriteFileLate ==
  /\ pc = "write"
  /\ sub' = [sub EXCEPT !.manifest = Entered(@, call.file, call.text)]
  /\ pc' = "entry"
  /\ UNCHANGED <<ctx, running, snaps, cache, orphan, history, counts>>

WriteFile ==
  /\ pc = "write"
  /\ SetFile(call.file, call.text) /\ Claim(call.file, "write_file")
  /\ written' = written \union {<<call.file, call.text>>}
  /\ pc' = "entry"
  /\ UNCHANGED <<ctx, running, snaps, cache, orphan, traced, reported, counts>>

RecordEntry ==
  /\ pc = "entry"
  /\ sub' = [sub EXCEPT !.manifest = Entered(@, call.file, call.text)]
  /\ End
  /\ UNCHANGED <<snaps, cache, orphan, history>>

\* An exception is the tool's failure; a kill ends the process.
Abort == End \/ Die

CutWrite ==
  /\ pc = "write"
  /\ \E x \in {sub.code[call.file], Partial, call.text} : SetFile(call.file, x)
  /\ Claim(call.file, "other")
  /\ Abort /\ UNCHANGED <<snaps, cache, orphan, traced, written, reported>>

CutEntry ==
  /\ pc = "entry" /\ sub' = [sub EXCEPT !.manifest = Torn]
  /\ Abort /\ UNCHANGED <<snaps, cache, orphan, history>>

-----------------------------------------------------------------------------
(* run_shell and run_python *)

\* A command may do anything to the files, step by step.
Disturb ==
  \/ \E f \in Files, x \in Contents : SetFile(f, x)
  \/ \E t \in Tasks, b \in {"none", "invalid", "valid"} :
       sub' = [sub EXCEPT !.bundle[t] = b]

CommandRuns ==
  /\ pc = "shell" /\ Disturb
  /\ UNCHANGED <<pc, ctx, running, snaps, cache, orphan, history, counts>>

\* Faulty: the output is read until what runs in the background closes it.
WaitForOrphan ==
  /\ pc = "shell" /\ ~orphan /\ pc' = "undo" /\ orphan' \in BOOLEAN
  /\ UNCHANGED <<ctx, running, sub, snaps, cache, history, counts>>

\* The command ends or is ended at its timeout; what it started may go on.
CommandEnds ==
  /\ pc = "shell" /\ pc' = "undo" /\ orphan' \in {orphan, TRUE}
  /\ UNCHANGED <<ctx, running, sub, snaps, cache, history, counts>>

\* Faulty: files the command removed are not put back.
UndoExisting ==
  /\ pc = "undo"
  /\ SetCode([f \in Files |-> IF sub.code[f] = Absent THEN Absent ELSE before[f]]) /\ End
  /\ UNCHANGED <<snaps, cache, orphan, history>>

\* Files that were added go, all others are written back.
Undo ==
  /\ pc = "undo"
  /\ SetCode(before) /\ End
  /\ UNCHANGED <<snaps, cache, orphan, history>>

DisownChanged(old) ==
  owner' = [f \in Files |-> IF sub'.code[f] # old[f] THEN "other" ELSE owner[f]]

\* At a timeout the output is bytes, which redaction does not take, and output
\* may not be UTF-8: the exception passes the undoing by.  So does a kill, which
\* the command survives.
SkipUndo ==
  /\ pc = "shell" /\ sub' = sub /\ DisownChanged(before)
  /\ orphan' \in {orphan, TRUE} /\ Abort
  /\ UNCHANGED <<snaps, cache, traced, written, reported>>

\* Not all of the files are put back.
CutUndo ==
  /\ pc = "undo"
  /\ \E c \in Codes :
       /\ \A f \in Files : c[f] \in {sub.code[f], before[f]}
                              \union (IF before[f] = Absent THEN {} ELSE {Partial})
       /\ SetCode(c)
  /\ DisownChanged(before)
  /\ Abort /\ UNCHANGED <<snaps, cache, orphan, traced, written, reported>>

\* Nothing looks at the code after a script.
ScriptRuns ==
  /\ pc = "python" /\ Disturb
  /\ DisownChanged(sub.code)
  /\ UNCHANGED <<pc, ctx, running, snaps, cache, orphan, traced, written, reported, counts>>

ScriptEnds ==
  /\ pc = "python" /\ orphan' \in {orphan, TRUE} /\ End
  /\ UNCHANGED <<sub, snaps, cache, history>>

CutScript ==
  /\ pc = "python" /\ orphan' = TRUE /\ Die
  /\ UNCHANGED <<sub, snaps, cache, history>>

\* What was left in the background writes whenever it likes.
OrphanRuns ==
  /\ orphan /\ Disturb
  /\ DisownChanged(sub.code)
  /\ UNCHANGED <<pc, ctx, running, snaps, cache, orphan, traced, written, reported, counts>>

OrphanEnds ==
  /\ orphan /\ orphan' = FALSE
  /\ UNCHANGED <<pc, ctx, running, sub, snaps, cache, history, counts>>

-----------------------------------------------------------------------------
(* snapshot and rollback *)

\* A snapshot is a submission: what it does not hold is absent.  The pieces of a
\* copy of s that stopped: some of its files, the last of them cut.
Pieces(s) ==
  [code : {c \in Codes : \A f \in Files : c[f] \in {s.code[f], Absent}},
   manifest : {s.manifest, NoEntries}, archive : {s.archive, NoArchive},
   bundle : {b \in Bundles : \A t \in Tasks : b[t] \in {s.bundle[t], "none"}}]

CutOff(s) ==
  {s} \union {[s EXCEPT !.code[f] = Partial] : f \in {g \in Files : s.code[g] # Absent}}
    \union {[s EXCEPT !.bundle[t] = "invalid"] : t \in {u \in Tasks : s.bundle[u] # "none"}}
    \union (IF s.manifest = NoEntries THEN {} ELSE {[s EXCEPT !.manifest = Torn]})
    \union (IF s.archive = NoArchive THEN {} ELSE {[s EXCEPT !.archive = Torn]})

Copy ==
  /\ pc = "copy"
  /\ IF snaps[call.label] # NoSnap
       THEN UNCHANGED <<snaps, reported>>
       ELSE /\ snaps' = [snaps EXCEPT ![call.label] = sub]
            /\ reported' = [reported EXCEPT ![call.label] = sub]
  /\ End /\ UNCHANGED <<sub, cache, orphan, traced, owner, written>>

\* The label is taken all the same, and the pieces can be rolled back to.
CutCopy ==
  /\ pc = "copy" /\ snaps[call.label] = NoSnap
  /\ \E p \in Pieces(sub) : \E s \in CutOff(p) : snaps' = [snaps EXCEPT ![call.label] = s]
  /\ Abort /\ UNCHANGED <<sub, cache, orphan, history>>

\* The files of a task that come back may be joined by others that are there.
BundleAfter(old, now) ==
  CASE old = "none"  -> {now}
    [] old = "valid" -> {"valid"}
    [] OTHER -> IF now = "none" THEN {"invalid"} ELSE {"invalid", "valid"}

\* What comes back of a snapshot replaces what is there; nothing is removed.
Over(s) ==
  [code : {[f \in Files |-> IF s.code[f] = Absent THEN sub.code[f] ELSE s.code[f]]},
   manifest : {IF s.manifest = NoEntries THEN sub.manifest ELSE s.manifest},
   archive : {IF s.archive = NoArchive THEN sub.archive ELSE s.archive},
   bundle : {b \in Bundles : \A t \in Tasks : b[t] \in BundleAfter(s.bundle[t], sub.bundle[t])}]

DisownHeld(s) ==
  owner' = [f \in Files |-> IF s.code[f] # Absent THEN "other" ELSE owner[f]]

\* Faulty: only files that are still there are brought back.
RestoreExisting ==
  /\ pc = "restore"
  /\ IF snaps[call.label] = NoSnap
       THEN UNCHANGED <<sub, owner>>
       ELSE LET s == [snaps[call.label] EXCEPT
                        !.code = [f \in Files |-> IF sub.code[f] = Absent THEN Absent ELSE @[f]]]
            IN  sub' \in Over(s) /\ DisownHeld(s)
  /\ End /\ UNCHANGED <<snaps, cache, orphan, traced, written, reported>>

Restore ==
  /\ pc = "restore"
  /\ IF snaps[call.label] = NoSnap
       THEN UNCHANGED <<sub, owner>>
       ELSE sub' \in Over(snaps[call.label]) /\ DisownHeld(snaps[call.label])
  /\ End /\ UNCHANGED <<snaps, cache, orphan, traced, written, reported>>

CutRestore ==
  /\ pc = "restore" /\ snaps[call.label] # NoSnap
  /\ \E p \in Pieces(snaps[call.label]) : \E s \in CutOff(p) : sub' \in Over(s) /\ DisownHeld(s)
  /\ Abort /\ UNCHANGED <<snaps, cache, orphan, traced, written, reported>>

-----------------------------------------------------------------------------
(* package_submission *)

\* Faulty: without any file there is no task to validate.
DetectedOnly == {t \in Tasks : sub.bundle[t] # "none"}

\* The tasks with a file, all tasks if there is none.
Detected ==
  LET found == {t \in Tasks : sub.bundle[t] # "none"}
  IN  IF found = {} THEN Tasks ELSE found

HasCode == \E f \in Files : sub.code[f] # Absent

AllAreValid(tasks) == HasCode /\ \A t \in tasks : sub.bundle[t] = "valid"

Validate ==
  /\ pc = "pack" /\ AllAreValid(Detected)
  /\ pc' = "zip" /\ picked' = [tasks |-> Detected, raced |-> orphan]
  /\ UNCHANGED <<ctx, call, before, tries, sub, snaps, cache, orphan, history, counts>>

\* A bundle is not valid, or submission.json or methodology.pdf is missing.
DoNotPack ==
  /\ pc = "pack" /\ End
  /\ UNCHANGED <<sub, snaps, cache, orphan, history>>

\* The files are listed anew for the archive.
Zip ==
  /\ pc = "zip"
  /\ sub' = [sub EXCEPT !.archive =
               [code |-> sub.code, tasks |-> picked.tasks, bundle |-> sub.bundle,
                raced |-> picked.raced]]
  /\ End /\ UNCHANGED <<snaps, cache, orphan, history>>

\* The archive has a directory of the files that were packed so far.
CutZip ==
  /\ pc = "zip" /\ sub' = [sub EXCEPT !.archive = Torn]
  /\ Abort /\ UNCHANGED <<snaps, cache, orphan, history>>

-----------------------------------------------------------------------------
(* The cache of sources, and requests to the network. *)

\* A torn index raises, as does an artifact that must not be kept.
CacheRefuses ==
  /\ pc = "cache" /\ End
  /\ UNCHANGED <<sub, snaps, cache, orphan, history>>

\* The tool fails all the same: the name of its result is not imported.  A record
\* with a character that ends a line when it is read, not when it is written,
\* cannot be read back, nor can the others.
CacheWrites ==
  /\ pc = "cache" /\ cache # Torn
  /\ cache' \in {Merged(cache, call.record), Torn}
  /\ End /\ UNCHANGED <<sub, snaps, orphan, history>>

\* Lines that were not written yet are gone, the last one may be cut.
CutCache ==
  /\ pc = "cache" /\ cache # Torn
  /\ cache' \in (SUBSET Merged(cache, call.record)) \union {Torn}
  /\ Die /\ UNCHANGED <<sub, snaps, orphan, history>>

\* Faulty: every error is tried again.
RetryAlways ==
  /\ pc = "fetch" /\ tries' = tries + 1
  /\ UNCHANGED <<pc, ctx, call, before, picked, sub, snaps, cache, orphan, history, counts>>

\* _request_with_retry: a second try after a timeout or an error of the server.
FetchAgain ==
  /\ pc = "fetch" /\ tries = 0 /\ tries' = 1
  /\ UNCHANGED <<pc, ctx, call, before, picked, sub, snaps, cache, orphan, history, counts>>

FetchEnds ==
  /\ pc = "fetch" /\ End
  /\ UNCHANGED <<sub, snaps, cache, orphan, history>>

-----------------------------------------------------------------------------

Kill ==
  /\ pc \in {"answer", "entry", "copy", "restore", "pack", "zip", "cache", "fetch"}
  /\ Die /\ UNCHANGED <<sub, snaps, cache, orphan, history>>

\* What a call does by itself.
Step ==
  \/ Answer \/ WriteFile \/ RecordEntry \/ CommandEnds \/ Undo \/ ScriptEnds
  \/ Copy \/ Restore \/ Validate \/ DoNotPack \/ Zip
  \/ CacheRefuses \/ CacheWrites \/ FetchAgain \/ FetchEnds

Environment ==
  \/ \E c \in Contexts : SetContext(c)
  \/ \E c \in Calls : Refuse(c) \/ Admit(c)
  \/ CommandRuns \/ ScriptRuns \/ OrphanRuns \/ OrphanEnds
  \/ Kill \/ CutWrite \/ CutEntry \/ SkipUndo \/ CutUndo \/ CutScript
  \/ CutCopy \/ CutRestore \/ CutZip \/ CutCache

Next == Step \/ Environment

Spec == Init /\ [][Next]_vars

\* A call goes on; commands and scripts end or run into their timeouts.
FairSpec == Spec /\ WF_vars(Step)

=============================================================================
