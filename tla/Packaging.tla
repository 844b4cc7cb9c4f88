------------------------------ MODULE Packaging ------------------------------
(***************************************************************************)
(* cozy_pde_v3/package.py, package_submission_v3, with the parts of        *)
(* validation/submission.py it runs: the files of submission/ from the     *)
(* resolution of the code manifest to the archive, written one by one and  *)
(* in place, so that the process may die between two of them or inside     *)
(* one. Between two packagings the code and the predictions change.        *)
(*                                                                         *)
(* The directory is a function from the files that exist to their content. *)
(* The memory store is one the incremental patch gate accepts; what this   *)
(* module asks is what packaging does with it.                             *)
(***************************************************************************)
EXTENDS Naturals, Sequences

CONSTANTS
  Tasks,
  Sources,      \* the files of submission/code the program consists of
  Texts,        \* bound: the contents a source file can have
  Bytecode,     \* a file Python leaves under submission/code when it imports
  Torn          \* the content of a file whose writer died

VARIABLES
  dir,          \* submission/
  memory,       \* for each source file, the text of its latest patch record
  task,         \* the task being packaged
  entries,      \* the resolved code manifest entries
  step,         \* the place of the next file to write, 0 when no run is active
  gate          \* whether the run has passed the final gate

vars == <<dir, memory, task, entries, step, gate>>

CodePaths == Sources \cup {Bytecode}

\* Faulty: the manifest lists the files before the validation report is written.
ManifestBeforeReport ==
  <<"methodology_records.json", "methodology.pdf",
    "methodology_records.json", "methodology.pdf", "code_manifest.json",
    "shared_code_union.json", "submission.json", "finalize_gate.json",
    "manifest.json", "validation_report.json", "submission.zip">>

\* The files package_submission_v3 writes, in the order in which it does. The
\* first two are the provisional methodology, written before validation.
WriteOrder ==
  <<"methodology_records.json", "methodology.pdf",
    "methodology_records.json", "methodology.pdf", "code_manifest.json",
    "shared_code_union.json", "submission.json", "finalize_gate.json",
    "validation_report.json", "manifest.json", "submission.zip">>

Provisional == 2

Artefacts == {WriteOrder[i] : i \in DOMAIN WriteOrder}

Paths == Artefacts \cup Tasks \cup CodePaths

\* The names differ: code/<name>, <task>_pred.hdf5 and the artefacts above.
ASSUME PackagingAssumption ==
  /\ Bytecode \notin Sources
  /\ Tasks \cap CodePaths = {}
  /\ Artefacts \cap (Tasks \cup CodePaths) = {}

CodeFiles == CodePaths \cap DOMAIN dir

With(f, path, content) ==
  [p \in DOMAIN f \cup {path} |-> IF p = path THEN content ELSE f[p]]

Write(path, content) == With(dir, path, content)

Exists(path) == path \in DOMAIN dir

-----------------------------------------------------------------------------
\* The patch a manifest entry names, identified by the text it produced.
Entry(text, patch) == [sha256 |-> text, patch_id |-> patch]

\* Entries from the memory store name the latest patch record of the path.
GeneratedEntries ==
  [p \in CodeFiles \cap Sources |-> Entry(dir[p], memory[p])]

\* A file without a patch record has no LLM call id and is refused.
GenerationFails == Exists(Bytecode)

EntriesMatch(es) ==
  \A p \in DOMAIN es : Exists(p) /\ es[p].sha256 = dir[p]

\* An existing code_manifest.json is used when it parses and its hashes hold.
ManifestUsable ==
  /\ dir["code_manifest.json"] # Torn
  /\ EntriesMatch(dir["code_manifest.json"])

Resolvable ==
  IF Exists("code_manifest.json") THEN ManifestUsable ELSE ~GenerationFails

ResolvedEntries ==
  IF Exists("code_manifest.json") THEN dir["code_manifest.json"]
                                  ELSE GeneratedEntries

-----------------------------------------------------------------------------
\* Faulty: a manifest of an earlier packaging is not looked at.
SubmissionManifestIgnored == TRUE

\* The manifest of an earlier packaging, if there is one, must still hold.
SubmissionManifestOK ==
  Exists("manifest.json") =>
    /\ dir["manifest.json"] # Torn
    /\ \A p \in DOMAIN dir["manifest.json"] :
         Exists(p) /\ dir[p] = dir["manifest.json"][p]

\* Faulty: the files without a provenance entry are not looked for.
ProvenanceUnlessEmpty == DOMAIN entries # {}

ProvenanceOK == DOMAIN entries # {} /\ CodeFiles \subseteq DOMAIN entries

\* Every file of the code is in some patch record.
PatchHistoryOK == CodeFiles \subseteq Sources

BundleOK == Exists(task) /\ dir[task] = "good"

ChecksPass ==
  /\ BundleOK
  /\ SubmissionManifestOK
  /\ EntriesMatch(entries)
  /\ ProvenanceOK
  /\ PatchHistoryOK

\* The smoke commands run the submitted code, which may import its own modules.
AfterSmoke == {dir, Write(Bytecode, "bytecode")}

-----------------------------------------------------------------------------
\* What goes into the archive: the artefacts, this task's predictions, the code.
Members(paths) == paths \cap ((Artefacts \ {"submission.zip"}) \cup {task} \cup CodePaths)

Record(ok) == [overall_ok |-> ok, task |-> task]

Content(path, ok) ==
  CASE path \in {"methodology_records.json", "methodology.pdf"} ->
         [gate |-> ok, task |-> task, files |-> DOMAIN entries]
    [] path = "code_manifest.json" -> entries
    [] path = "manifest.json" ->
         [p \in Members(DOMAIN dir) \ {"manifest.json"} |-> dir[p]]
    [] path = "submission.zip" -> [p \in Members(DOMAIN dir) |-> dir[p]]
    [] OTHER -> Record(ok)

Active == step > 0

Finish == step' = 0 /\ entries' = <<>> /\ gate' = "none"

Init ==
  /\ memory \in [Sources -> Texts]
  /\ \/ dir = memory
     \/ dir = With(memory, "code_manifest.json",
                    [p \in Sources |-> Entry(memory[p], memory[p])])
  /\ task \in Tasks
  /\ entries = <<>>
  /\ step = 0
  /\ gate = "none"

\* package_submission_v3 up to the first write.
StartPackage(t) ==
  /\ ~Active
  /\ Resolvable
  /\ task' = t
  /\ entries' = ResolvedEntries
  /\ step' = 1
  /\ gate' = "pending"
  /\ UNCHANGED <<dir, memory>>

NextFile == WriteOrder[step]

MayWrite == Active /\ (step <= Provisional \/ gate = "passed")

\* Faulty: a finished run is not over.
AfterWriteNoEnd == step + 1

\* What follows the write of a file: the run ends after the last one.
AfterWrite == IF step = Len(WriteOrder) THEN 0 ELSE step + 1

WriteFile ==
  /\ MayWrite
  /\ dir' = Write(NextFile, Content(NextFile, gate = "passed"))
  /\ step' = AfterWrite
  /\ entries' = IF step' = 0 THEN <<>> ELSE entries
  /\ gate' = IF step' = 0 THEN "none" ELSE gate
  /\ UNCHANGED <<memory, task>>

\* validate_submission_bundle_v3, after the provisional methodology.
Validate ==
  /\ step = Provisional + 1
  /\ gate = "pending"
  /\ dir' \in AfterSmoke
  /\ \/ /\ ChecksPass
        /\ gate' = "passed"
        /\ UNCHANGED <<step, entries>>
     \/ Finish               \* a check or a smoke command fails
  /\ UNCHANGED <<memory, task>>

\* The process dies between two writes, or in the middle of one.
Kill ==
  /\ Active
  /\ \/ UNCHANGED dir
     \/ MayWrite /\ dir' = Write(NextFile, Torn)
  /\ Finish
  /\ UNCHANGED <<memory, task>>

Package ==
  \/ \E t \in Tasks : StartPackage(t)
  \/ WriteFile
  \/ Validate
  \/ Kill

-----------------------------------------------------------------------------
\* An edit the agent loop records: patch record, file, code manifest entry. A
\* manifest that does not parse starts over; the loop does not run on a
\* directory with bytecode.
RecordedEdit(p, text) ==
  LET kept == IF Exists("code_manifest.json") /\ dir["code_manifest.json"] # Torn
              THEN dir["code_manifest.json"] ELSE <<>>
  IN  /\ ~Active
      /\ ~Exists(Bytecode)
      /\ memory' = [memory EXCEPT ![p] = text]
      /\ dir' = With(Write(p, text), "code_manifest.json",
                      With(kept, p, Entry(text, text)))
      /\ UNCHANGED <<task, entries, step, gate>>

\* A shell command or a person edits the file.
UnrecordedEdit(p, text) ==
  /\ ~Active
  /\ dir' = Write(p, text)
  /\ UNCHANGED <<memory, task, entries, step, gate>>

\* Inference for a task leaves predictions, valid or not.
Predict(t, quality) ==
  /\ ~Active
  /\ dir' = Write(t, quality)
  /\ UNCHANGED <<memory, task, entries, step, gate>>

\* The validate command, or any other run of the submitted code.
RunCode ==
  /\ ~Active
  /\ dir' \in AfterSmoke
  /\ UNCHANGED <<memory, task, entries, step, gate>>

Environment ==
  \/ \E p \in Sources, text \in Texts : RecordedEdit(p, text) \/ UnrecordedEdit(p, text)
  \/ \E t \in Tasks, quality \in {"good", "bad"} : Predict(t, quality)
  \/ RunCode

Next == Package \/ Environment

Spec == Init /\ [][Next]_vars

-----------------------------------------------------------------------------
\* status.py: what collect_submission_status_v3 makes of the files.
GateOn(file) ==
  Exists(file) /\ dir[file] # Torn /\ dir[file].overall_ok

FinalizeGateOK ==
  IF Exists("finalize_gate.json") /\ dir["finalize_gate.json"] # Torn
    THEN GateOn("finalize_gate.json") ELSE GateOn("validation_report.json")

ReadyToSubmit == FinalizeGateOK /\ Exists("submission.zip")

=============================================================================
