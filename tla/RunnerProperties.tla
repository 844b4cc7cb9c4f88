--------------------------- MODULE RunnerProperties ---------------------------
(* What the tools have to keep, whatever fails, is killed or runs on. *)
EXTENDS RunnerWorkspace

Steps == {"answer", "write", "entry", "shell", "undo", "python", "copy", "restore", "pack",
          "zip", "cache", "fetch"}

CallTypes ==
  /\ \/ pc = "idle" /\ call = NoCall
     \/ pc \in Steps /\ call \in Calls /\ call.tool \in Tools
  /\ ctx \in [phase : Phases \union {NoPhase}, exposed : (SUBSET Tools) \union {Everything}]
  /\ before \in Codes
  /\ picked \in [tasks : SUBSET Tasks, raced : BOOLEAN]
  /\ tries \in 0..1

DiskTypes ==
  /\ sub \in Submissions
  /\ snaps \in [Labels -> Submissions \union {NoSnap}]
  /\ cache = Torn \/ cache \subseteq Records
  /\ orphan \in BOOLEAN

HistoryTypes ==
  /\ traced \in [Files -> Texts \union {Absent}]
  /\ owner \in [Files -> {"nobody", "write_file", "refused", "other"}]
  /\ written \subseteq Files \X Texts
  /\ reported \in [Labels -> Submissions \union {NoSnap}]
  /\ begun \in 0..MaxCalls /\ killed \in BOOLEAN

\* Every variable keeps its type (tool_registry.py, tools/*.py).
TypeOK == CallTypes /\ DiskTypes /\ HistoryTypes

\* Between calls, a file that write_file wrote last, or that nobody wrote, is
\* what the responses log says: commands that change it are undone
\* (shell_tools.py:51), and a refused or unfinished write does not count as one.
TracedByItsWriter ==
  pc = "idle" =>
    \A f \in Files : owner[f] \in {"nobody", "write_file"} => sub.code[f] = traced[f]

\* A manifest, in the submission or in a snapshot, only has contents that
\* write_file put on disk, though it is replaced by rollbacks and begun anew
\* when it is torn (fs_tools.py:74).
EntriesWereWritten ==
  \A s \in {sub} \union {snaps[l] : l \in {k \in Labels : snaps[k] # NoSnap}} :
    s.manifest # Torn =>
      \A f \in Files : s.manifest[f] # NoEntry => <<f, s.manifest[f]>> \in written

\* No two records of the cache are of one source, although a record can match
\* one by its URL and another by its content, and lines get lost
\* (research_cache.py:81).
OneEntryPerSource ==
  cache # Torn => \A a, b \in cache : SameSource(a, b) => a = b

\* While the cache can be read, a call that is not killed takes no record out of
\* it without putting one of the same source in its place (research_cache.py:73).
LostOnlyToMatch ==
  [][cache # Torn /\ cache' # Torn /\ ~killed' =>
       \A r \in cache \ cache' : call.record \in cache' /\ SameSource(r, call.record)]_vars

\* An archive that is whole holds code and, of its tasks, the bundles that
\* passed validation, unless a command that ran on could change them in between;
\* also one that a rollback brings back (package_tools.py:93).
ArchiveWasValid ==
  sub.archive \notin {NoArchive, Torn} =>
    sub.archive.raced \/
      /\ \E f \in Files : sub.archive.code[f] # Absent
      /\ sub.archive.tasks # {}
      /\ \A t \in sub.archive.tasks : sub.archive.bundle[t] = "valid"

\* A rollback that succeeds puts back every file and the manifest that the
\* submission had when the snapshot reported success, whatever was tried under
\* the label since (snapshot_tools.py:19, 34).
RollbackBringsBack ==
  [][Restore /\ reported[call.label] # NoSnap =>
       LET old == reported[call.label]
       IN  /\ \A f \in Files : old.code[f] # Absent => sub'.code[f] = old.code[f]
           /\ old.manifest # NoEntries => sub'.manifest = old.manifest]_vars

\* What runs was offered: the list of tools for the model and the gate of its
\* calls agree, in every context the runner can have set (tool_registry.py:110).
RunsWhatWasOffered == pc # "idle" => call.tool \in Offered(ctx)

\* Every call ends: commands and fetches have limits (shell_tools.py:139,
\* research_tools.py:183).
CallEnds == (pc # "idle") ~> (pc = "idle")

\* What is left of a call at most.
CallLeft ==
  CASE pc = "idle"  -> 0
    [] pc = "fetch" -> 2 - tries
    [] pc \in {"write", "shell", "pack"} -> 2
    [] OTHER        -> 1

\* A call takes two steps of its own at most, whatever fails in it: a step that
\* does not bring it nearer to its end is one of a command, a script or what they
\* left in the background, and touches neither the call nor what only tools
\* write, the manifest, the archive, the snapshots and the cache
\* (shell_tools.py:51, research_tools.py:183).
CallIsFinite ==
  [][pc # "idle" =>
       \/ CallLeft \in 1..2 /\ CallLeft' < CallLeft
       \/ /\ orphan \/ pc \in {"shell", "python"}
          /\ UNCHANGED <<pc, ctx, running, snaps, cache, sub.manifest, sub.archive>>]_vars

\* What shell_tools.py:161 says of a command that changed the code: only
\* write_file may.  A call of run_shell that ends leaves the code as it found it.
OnlyWriteFileMutates ==
  [][(pc = "shell" \/ pc = "undo") /\ pc' = "idle" /\ ~killed' /\ ~orphan /\ ~orphan' =>
       sub'.code = before]_vars

=============================================================================
