--------------------------- MODULE PackagingProofs ---------------------------
(***************************************************************************)
(* The properties of packaging, for every set of tasks, sources and texts. *)
(*                                                                         *)
(* Why an archive is frozen: the run that made it wrote the manifest after *)
(* its own methodology, which says that the gate passed. Every later run   *)
(* first writes a methodology that says it did not, so the manifest no     *)
(* longer holds when the run validates, and the run fails.                 *)
(***************************************************************************)
EXTENDS PackagingProperties, TLAPS

\* What a stored code manifest contains when it parses.
StoredManifest ==
  (Exists("code_manifest.json") /\ dir["code_manifest.json"] # Torn) =>
    /\ DOMAIN dir["code_manifest.json"] \subseteq Sources
    /\ \A p \in DOMAIN dir["code_manifest.json"] : dir["code_manifest.json"][p] \in Entries

\* Where a run is: validation separates the provisional files from the rest.
RunShape ==
  /\ gate = "pending" => step \in 1 .. Provisional + 1
  /\ gate = "passed" => step \in Provisional + 1 .. Len(WriteOrder)

\* Before validation the methodology on disk is the provisional one.
ProvisionalWritten ==
  (gate = "pending" /\ step = 3) =>
    Exists("methodology.pdf") /\ dir["methodology.pdf"].gate = FALSE

\* What a run that passed the gate relies on while it writes.
PassedRun ==
  gate = "passed" =>
    /\ ~Archived
    /\ Exists(task) /\ dir[task] = "good"
    /\ \A p \in Sources : p \in DOMAIN entries /\ entries[p].sha256 = dir[p]
    /\ step >= 5 => Exists("methodology.pdf") /\ dir["methodology.pdf"].gate = TRUE
    /\ step >= 6 => Exists("code_manifest.json") /\ dir["code_manifest.json"] = entries
    /\ step >= 9 => Exists("finalize_gate.json") /\ dir["finalize_gate.json"] = Record(TRUE)
    /\ step >= 11 =>
         /\ Exists("manifest.json")
         /\ dir["manifest.json"] = [p \in Members(DOMAIN dir) \ {"manifest.json"} |-> dir[p]]

\* Beside an archive lies the manifest it was made with.
Sealed ==
  Archived =>
    /\ Exists("manifest.json")
    /\ "methodology.pdf" \in DOMAIN dir["manifest.json"]
    /\ dir["manifest.json"]["methodology.pdf"].gate = TRUE

Inv ==
  /\ TypeOK
  /\ StoredManifest
  /\ RunShape
  /\ ProvisionalWritten
  /\ PassedRun
  /\ Sealed
  /\ ArchiveMatchesItsManifest
  /\ ArchiveIsCovered

-----------------------------------------------------------------------------
\* The places of the order.
LEMMA Order ==
  /\ Len(WriteOrder) = 11
  /\ Provisional = 2
  /\ WriteOrder[1] = "methodology_records.json"
  /\ WriteOrder[2] = "methodology.pdf"
  /\ WriteOrder[3] = "methodology_records.json"
  /\ WriteOrder[4] = "methodology.pdf"
  /\ WriteOrder[5] = "code_manifest.json"
  /\ WriteOrder[6] = "shared_code_union.json"
  /\ WriteOrder[7] = "submission.json"
  /\ WriteOrder[8] = "finalize_gate.json"
  /\ WriteOrder[9] = "validation_report.json"
  /\ WriteOrder[10] = "manifest.json"
  /\ WriteOrder[11] = "submission.zip"
BY DEF WriteOrder, Provisional

LEMMA ArtefactNames ==
  Artefacts = {"methodology_records.json", "methodology.pdf", "code_manifest.json",
               "shared_code_union.json", "submission.json", "finalize_gate.json",
               "validation_report.json", "manifest.json", "submission.zip"}
<1>1. DOMAIN WriteOrder = 1 .. 11
  BY DEF WriteOrder
<1>2. \A i \in 1 .. 11 : i = 1 \/ i = 2 \/ i = 3 \/ i = 4 \/ i = 5 \/ i = 6 \/ i = 7
                         \/ i = 8 \/ i = 9 \/ i = 10 \/ i = 11
  OBVIOUS
<1> QED
  BY <1>1, <1>2, Order DEF Artefacts

\* No artefact has the name of a task's file or of a code file.
LEMMA NamesDiffer ==
  \A a \in Artefacts : a \notin Tasks /\ a \notin Sources /\ a # Bytecode
BY PackagingAssumption DEF CodePaths

-----------------------------------------------------------------------------
\* A step that leaves the archive and its manifest alone keeps what is said of them.
LEMMA KeptArchive ==
  ASSUME Inv,
         Exists("submission.zip")' <=> Exists("submission.zip"),
         Exists("submission.zip") => dir'["submission.zip"] = dir["submission.zip"],
         Exists("manifest.json") =>
           Exists("manifest.json")' /\ dir'["manifest.json"] = dir["manifest.json"]
  PROVE  Sealed' /\ ArchiveMatchesItsManifest' /\ ArchiveIsCovered'
<1>1. Archived' => Archived /\ Archive' = Archive
  BY DEF Archived, Archive
<1>2. Sealed'
  BY <1>1 DEF Inv, Sealed, Exists
<1>3. ArchiveMatchesItsManifest'
  BY <1>1 DEF Inv, ArchiveMatchesItsManifest
<1>4. ArchiveIsCovered'
  BY <1>1 DEF Inv, ArchiveIsCovered
<1> QED
  BY <1>2, <1>3, <1>4

LEMMA InitInv == Init => Inv
<1> SUFFICES ASSUME Init PROVE Inv
  OBVIOUS
<1> DEFINE recorded == [p \in Sources |-> Entry(memory[p], memory[p])]
<1>1. /\ DOMAIN memory = Sources
      /\ \A p \in Sources : memory[p] \in Texts
      /\ memory \in [Sources -> Texts]
  BY DEF Init
<1>2. \/ dir = memory
      \/ /\ DOMAIN dir = Sources \cup {"code_manifest.json"}
         /\ dir["code_manifest.json"] = recorded
         /\ \A p \in Sources : p # "code_manifest.json" => dir[p] = memory[p]
  BY <1>1 DEF Init, With
<1>3. \A p \in Sources : p \in DOMAIN dir /\ dir[p] \in Texts
  BY <1>1, <1>2, NamesDiffer, ArtefactNames
<1>4. DOMAIN dir \subseteq Paths /\ ~Exists("submission.zip")
  BY <1>1, <1>2, NamesDiffer, ArtefactNames DEF Paths, CodePaths, Exists
<1>5. TypeOK
  BY <1>1, <1>3, <1>4, Order DEF Init, TypeOK
<1>6. StoredManifest
  <2>1. DOMAIN recorded = Sources /\ \A p \in Sources : recorded[p] \in Entries
    BY <1>1 DEF Entry, Entries
  <2> QED
    BY <1>1, <1>2, <2>1, NamesDiffer, ArtefactNames DEF StoredManifest, Exists
<1>7. RunShape /\ ProvisionalWritten /\ PassedRun
  BY DEF Init, RunShape, ProvisionalWritten, PassedRun
<1>8. Sealed /\ ArchiveMatchesItsManifest /\ ArchiveIsCovered
  BY <1>4 DEF Sealed, ArchiveMatchesItsManifest, ArchiveIsCovered, Archived
<1> QED
  BY <1>5, <1>6, <1>7, <1>8 DEF Inv

\* Between runs, a step that touches no artefact but the code manifest.
LEMMA BetweenRuns ==
  ASSUME Inv, gate = "none", UNCHANGED <<task, entries, step, gate>>,
         memory' \in [Sources -> Texts],
         DOMAIN dir \subseteq DOMAIN dir', DOMAIN dir' \subseteq Paths,
         \A p \in Sources : dir'[p] \in Texts,
         \A a \in Artefacts \ {"code_manifest.json"} :
           /\ a \in DOMAIN dir' <=> a \in DOMAIN dir
           /\ a \in DOMAIN dir => dir'[a] = dir[a],
         StoredManifest'
  PROVE  Inv'
<1>1. TypeOK'
  BY DEF Inv, TypeOK, Paths, CodePaths
<1>2. RunShape' /\ ProvisionalWritten' /\ PassedRun'
  BY DEF RunShape, ProvisionalWritten, PassedRun
<1>3. Sealed' /\ ArchiveMatchesItsManifest' /\ ArchiveIsCovered'
  BY KeptArchive, ArtefactNames DEF Exists
<1> QED
  BY <1>1, <1>2, <1>3 DEF Inv

LEMMA IdleGate == TypeOK /\ ~Active => gate = "none"
BY Order DEF TypeOK, Active

LEMMA RecordedEditInv ==
  ASSUME Inv, NEW p \in Sources, NEW text \in Texts, RecordedEdit(p, text)
  PROVE  Inv'
<1> DEFINE kept == IF Exists("code_manifest.json") /\ dir["code_manifest.json"] # Torn
                   THEN dir["code_manifest.json"] ELSE <<>>
           listed == With(kept, p, Entry(text, text))
<1>1. gate = "none" /\ UNCHANGED <<task, entries, step, gate>>
  BY IdleGate DEF Inv, RecordedEdit
<1>2. memory' \in [Sources -> Texts]
  BY DEF Inv, TypeOK, RecordedEdit
<1>3. dir' = With(Write(p, text), "code_manifest.json", listed)
  BY DEF RecordedEdit
<1>4. /\ DOMAIN Write(p, text) = DOMAIN dir \cup {p}
      /\ Write(p, text)[p] = text
      /\ \A q \in DOMAIN dir : q # p => Write(p, text)[q] = dir[q]
  BY DEF Write, With
<1>5. /\ DOMAIN dir' = DOMAIN dir \cup {p, "code_manifest.json"}
      /\ dir'["code_manifest.json"] = listed
      /\ p # "code_manifest.json" => dir'[p] = text
      /\ \A q \in DOMAIN dir : q # p /\ q # "code_manifest.json" => dir'[q] = dir[q]
  BY <1>3, <1>4 DEF With
<1>6. /\ DOMAIN kept \subseteq Sources
      /\ \A q \in DOMAIN kept : kept[q] \in Entries
  BY DEF Inv, StoredManifest
<1>7. StoredManifest'
  <2>1. /\ DOMAIN listed \subseteq Sources
        /\ \A q \in DOMAIN listed : listed[q] \in Entries
    BY <1>6 DEF With, Entry, Entries
  <2> QED
    BY <1>5, <2>1 DEF StoredManifest, Exists
<1>8. \A q \in Sources : dir'[q] \in Texts
  BY <1>5, NamesDiffer, ArtefactNames DEF Inv, TypeOK
<1>9. DOMAIN dir' \subseteq Paths
  BY <1>5, ArtefactNames DEF Inv, TypeOK, Paths, CodePaths
<1>10. \A a \in Artefacts \ {"code_manifest.json"} :
         /\ a \in DOMAIN dir' <=> a \in DOMAIN dir
         /\ a \in DOMAIN dir => dir'[a] = dir[a]
  BY <1>5, NamesDiffer
<1> QED
  BY <1>1, <1>2, <1>5, <1>7, <1>8, <1>9, <1>10, BetweenRuns

\* The other steps between runs write one file that is no artefact.
LEMMA OneFileInv ==
  ASSUME Inv, ~Active, NEW path \in Tasks \cup CodePaths, NEW content,
         path \in Sources => content \in Texts,
         dir' = Write(path, content), UNCHANGED <<memory, task, entries, step, gate>>
  PROVE  Inv'
<1>1. gate = "none"
  BY IdleGate DEF Inv
<1>2. /\ DOMAIN dir' = DOMAIN dir \cup {path}
      /\ dir'[path] = content
      /\ \A q \in DOMAIN dir : q # path => dir'[q] = dir[q]
  BY DEF Write, With
<1>3. \A a \in Artefacts : a # path
  BY NamesDiffer DEF CodePaths
<1>4. StoredManifest'
  BY <1>2, <1>3, ArtefactNames DEF Inv, StoredManifest, Exists
<1>5. \A q \in Sources : dir'[q] \in Texts
  BY <1>2 DEF Inv, TypeOK
<1>6. DOMAIN dir' \subseteq Paths
  BY <1>2 DEF Inv, TypeOK, Paths
<1>7. memory' \in [Sources -> Texts]
  BY DEF Inv, TypeOK
<1> QED
  BY <1>1, <1>2, <1>3, <1>4, <1>5, <1>6, <1>7, BetweenRuns

LEMMA EnvironmentInv == Inv /\ Environment => Inv'
<1> SUFFICES ASSUME Inv, Environment PROVE Inv'
  OBVIOUS
<1>1. CASE \E p \in Sources, text \in Texts : RecordedEdit(p, text)
  BY <1>1, RecordedEditInv
<1>2. CASE \E p \in Sources, text \in Texts : UnrecordedEdit(p, text)
  BY <1>2, OneFileInv DEF UnrecordedEdit, CodePaths
<1>3. CASE \E t \in Tasks, quality \in {"good", "bad"} : Predict(t, quality)
  <2>1. \A t \in Tasks : t \notin Sources
    BY PackagingAssumption DEF CodePaths
  <2> QED
    BY <1>3, <2>1, OneFileInv DEF Predict
<1>4. CASE RunCode
  <2>1. UNCHANGED <<memory, task, entries, step, gate>> /\ ~Active
    BY <1>4 DEF RunCode
  <2>2. CASE dir' = Write(Bytecode, "bytecode")
    BY <2>1, <2>2, OneFileInv, PackagingAssumption DEF CodePaths
  <2>3. CASE dir' = dir
    BY <2>1, <2>3, IdleGate, BetweenRuns DEF Inv, TypeOK, StoredManifest, Exists
  <2> QED
    BY <1>4, <2>2, <2>3 DEF RunCode, AfterSmoke
<1> QED
  BY <1>1, <1>2, <1>3, <1>4 DEF Environment

-----------------------------------------------------------------------------
LEMMA StartPackageInv ==
  ASSUME Inv, NEW t \in Tasks, StartPackage(t)
  PROVE  Inv'
<1>1. gate = "none" /\ gate' = "pending" /\ step' = 1 /\ dir' = dir /\ memory' = memory
  BY IdleGate DEF Inv, StartPackage
<1>2. /\ DOMAIN ResolvedEntries \subseteq Sources
      /\ \A p \in DOMAIN ResolvedEntries : ResolvedEntries[p] \in Entries
  <2>1. CASE Exists("code_manifest.json")
    BY <2>1 DEF Inv, StoredManifest, StartPackage, Resolvable, ManifestUsable, ResolvedEntries
  <2>2. CASE ~Exists("code_manifest.json")
    <3>1. ResolvedEntries = GeneratedEntries
      BY <2>2 DEF ResolvedEntries
    <3>2. \A p \in Sources : dir[p] \in Texts /\ memory[p] \in Texts
      BY DEF Inv, TypeOK
    <3> QED
      BY <3>1, <3>2 DEF GeneratedEntries, Entry, Entries
  <2> QED
    BY <2>1, <2>2
<1>3. TypeOK'
  BY <1>1, <1>2, Order DEF Inv, TypeOK, StartPackage
<1>4. StoredManifest' /\ RunShape' /\ ProvisionalWritten' /\ PassedRun'
  BY <1>1, Order DEF Inv, StoredManifest, RunShape, ProvisionalWritten, PassedRun, Exists
<1>5. Sealed' /\ ArchiveMatchesItsManifest' /\ ArchiveIsCovered'
  BY <1>1, KeptArchive DEF Exists
<1> QED
  BY <1>3, <1>4, <1>5 DEF Inv

\* Validation never passes beside an archive.
LEMMA NothingPassesTwice ==
  ASSUME Inv, step = Provisional + 1, gate = "pending", ChecksPass
  PROVE  ~Archived
<1> SUFFICES ASSUME Archived PROVE FALSE
  OBVIOUS
<1>1. Exists("methodology.pdf") /\ dir["methodology.pdf"].gate = FALSE
  BY Order DEF Inv, ProvisionalWritten
<1>2. /\ Exists("manifest.json")
      /\ "methodology.pdf" \in DOMAIN dir["manifest.json"]
      /\ dir["manifest.json"]["methodology.pdf"].gate = TRUE
  BY DEF Inv, Sealed
<1>3. dir["methodology.pdf"] = dir["manifest.json"]["methodology.pdf"]
  BY <1>2 DEF ChecksPass, SubmissionManifestOK
<1> QED
  BY <1>1, <1>2, <1>3

LEMMA ValidateInv == Inv /\ Validate => Inv'
<1> SUFFICES ASSUME Inv, Validate PROVE Inv'
  OBVIOUS
<1>1. step = 3 /\ gate = "pending" /\ UNCHANGED <<memory, task>>
  BY Order DEF Validate
<1>2. /\ DOMAIN dir \subseteq DOMAIN dir' /\ DOMAIN dir' \subseteq DOMAIN dir \cup {Bytecode}
      /\ \A q \in DOMAIN dir : q # Bytecode => dir'[q] = dir[q]
  <2>1. CASE dir' = dir
    BY <2>1
  <2>2. CASE dir' = Write(Bytecode, "bytecode")
    BY <2>2 DEF Write, With
  <2> QED
    BY <2>1, <2>2 DEF Validate, AfterSmoke
<1>3. \A q \in Artefacts \cup Tasks \cup Sources :
        /\ q # Bytecode
        /\ q \in DOMAIN dir' <=> q \in DOMAIN dir
        /\ q \in DOMAIN dir => dir'[q] = dir[q]
  BY <1>2, PackagingAssumption DEF CodePaths
<1>4. DOMAIN dir' \subseteq Paths /\ \A p \in Sources : p \in DOMAIN dir' /\ dir'[p] \in Texts
  BY <1>2, <1>3 DEF Inv, TypeOK, Paths, CodePaths
<1>5. StoredManifest'
  BY <1>3, ArtefactNames DEF Inv, StoredManifest, Exists
<1>6. Sealed' /\ ArchiveMatchesItsManifest' /\ ArchiveIsCovered'
  BY <1>3, ArtefactNames, KeptArchive DEF Exists
<1>7. CASE ChecksPass /\ gate' = "passed" /\ UNCHANGED <<step, entries>>
  <2>1. ~Archived'
    BY <1>1, <1>3, <1>7, NothingPassesTwice, ArtefactNames, Order DEF Archived, Exists
  <2>2. task \in Tasks /\ Exists(task)' /\ dir'[task] = "good"
    BY <1>1, <1>3, <1>7 DEF Inv, TypeOK, ChecksPass, BundleOK, Exists
  <2>3. \A p \in Sources : p \in DOMAIN entries /\ entries[p].sha256 = dir[p]
    BY <1>7 DEF Inv, TypeOK, ChecksPass, ProvenanceOK, EntriesMatch, CodeFiles, CodePaths
  <2>4. \A p \in Sources : dir'[p] = dir[p]
    BY <1>3 DEF Inv, TypeOK
  <2>5. PassedRun'
    BY <1>1, <1>7, <2>1, <2>2, <2>3, <2>4 DEF PassedRun
  <2>6. TypeOK' /\ RunShape' /\ ProvisionalWritten'
    BY <1>1, <1>4, <1>7, Order DEF Inv, TypeOK, RunShape, ProvisionalWritten
  <2> QED
    BY <1>5, <1>6, <2>5, <2>6 DEF Inv
<1>8. CASE Finish
  <2>1. TypeOK' /\ RunShape' /\ ProvisionalWritten' /\ PassedRun'
    BY <1>1, <1>4, <1>8, Order DEF Inv, TypeOK, RunShape, ProvisionalWritten, PassedRun, Finish
  <2> QED
    BY <1>5, <1>6, <2>1 DEF Inv
<1> QED
  BY <1>7, <1>8 DEF Validate

-----------------------------------------------------------------------------
\* What writing the next file changes.
LEMMA NextFileWritten ==
  ASSUME Inv, MayWrite, NEW content, dir' = Write(NextFile, content), memory' = memory
  PROVE  /\ step \in 1 .. 11 /\ NextFile \in Artefacts
         /\ step >= 3 => gate = "passed"
         /\ DOMAIN dir' = DOMAIN dir \cup {NextFile}
         /\ dir'[NextFile] = content
         /\ \A q \in DOMAIN dir : q # NextFile => dir'[q] = dir[q]
         /\ DOMAIN dir' \subseteq Paths
         /\ \A p \in Sources : p \in DOMAIN dir /\ p \in DOMAIN dir' /\ dir'[p] = dir[p]
<1>1. step \in 1 .. 11 /\ (step >= 3 => gate = "passed")
  BY Order DEF Inv, TypeOK, MayWrite, Active
<1>2. NextFile \in Artefacts
  BY <1>1 DEF NextFile, Artefacts, WriteOrder
<1>3. /\ DOMAIN dir' = DOMAIN dir \cup {NextFile}
      /\ dir'[NextFile] = content
      /\ \A q \in DOMAIN dir : q # NextFile => dir'[q] = dir[q]
  BY DEF Write, With
<1>4. DOMAIN dir' \subseteq Paths
  BY <1>2, <1>3 DEF Inv, TypeOK, Paths
<1>5. \A p \in Sources : p \in DOMAIN dir /\ p \in DOMAIN dir' /\ dir'[p] = dir[p]
  BY <1>2, <1>3, NamesDiffer DEF Inv, TypeOK
<1> QED
  BY <1>1, <1>2, <1>3, <1>4, <1>5

LEMMA KillInv == Inv /\ Kill => Inv'
<1> SUFFICES ASSUME Inv, Kill PROVE Inv'
  OBVIOUS
<1>1. Finish /\ UNCHANGED <<memory, task>>
  BY DEF Kill
<1>2. RunShape' /\ ProvisionalWritten' /\ PassedRun'
  BY <1>1, Order DEF RunShape, ProvisionalWritten, PassedRun, Finish
<1>3. CASE dir' = dir
  <2>1. TypeOK'
    BY <1>1, <1>3, Order DEF Inv, TypeOK, Finish
  <2>2. StoredManifest'
    BY <1>3 DEF Inv, StoredManifest, Exists
  <2>3. Sealed' /\ ArchiveMatchesItsManifest' /\ ArchiveIsCovered'
    BY <1>3, KeptArchive DEF Exists
  <2> QED
    BY <1>2, <2>1, <2>2, <2>3 DEF Inv
<1>4. CASE MayWrite /\ dir' = Write(NextFile, Torn)
  <2>1. TypeOK'
    BY <1>1, <1>4, NextFileWritten, Order DEF Inv, TypeOK, Finish
  <2>2. StoredManifest'
    BY <1>1, <1>4, NextFileWritten DEF Inv, StoredManifest, Exists
  <2>3. CASE step <= 2
    <3>1. NextFile \in {"methodology_records.json", "methodology.pdf"}
      BY <1>1, <1>4, <2>3, NextFileWritten, Order DEF NextFile
    <3>2. Sealed' /\ ArchiveMatchesItsManifest' /\ ArchiveIsCovered'
      BY <1>1, <1>4, <3>1, NextFileWritten, KeptArchive DEF Exists
    <3> QED
      BY <1>2, <2>1, <2>2, <3>2 DEF Inv
  <2>4. CASE step >= 3
    <3>1. ~Archived
      BY <1>1, <1>4, <2>4, NextFileWritten DEF Inv, PassedRun
    <3>2. ~Archived'
      BY <1>1, <1>4, <3>1, NextFileWritten DEF Archived, Exists
    <3> QED
      BY <1>2, <2>1, <2>2, <3>2 DEF Inv, Sealed, ArchiveMatchesItsManifest, ArchiveIsCovered
  <2> QED
    BY <1>1, <1>4, <2>3, <2>4, NextFileWritten
<1> QED
  BY <1>3, <1>4 DEF Kill

LEMMA WriteFileInv == Inv /\ WriteFile => Inv'
<1> SUFFICES ASSUME Inv, WriteFile PROVE Inv'
  OBVIOUS
<1> DEFINE content == Content(NextFile, gate = "passed")
<1>1. MayWrite /\ dir' = Write(NextFile, content) /\ UNCHANGED <<memory, task>>
  BY DEF WriteFile
<1>2. /\ step \in 1 .. 11 /\ NextFile \in Artefacts
      /\ step >= 3 => gate = "passed"
      /\ DOMAIN dir' = DOMAIN dir \cup {NextFile}
      /\ dir'[NextFile] = content
      /\ \A q \in DOMAIN dir : q # NextFile => dir'[q] = dir[q]
      /\ DOMAIN dir' \subseteq Paths
      /\ \A p \in Sources : p \in DOMAIN dir /\ p \in DOMAIN dir' /\ dir'[p] = dir[p]
  BY <1>1, NextFileWritten
<1>3. gate \in {"pending", "passed"} /\ (step <= 2 => gate = "pending")
  BY <1>2, Order DEF Inv, TypeOK, RunShape
<1>4. /\ step < 11 => step' = step + 1 /\ UNCHANGED <<entries, gate>>
      /\ step = 11 => step' = 0 /\ entries' = <<>> /\ gate' = "none"
  BY <1>2, Order DEF WriteFile, AfterWrite
<1>5. TypeOK'
  BY <1>1, <1>2, <1>3, <1>4, Order DEF Inv, TypeOK
<1>6. RunShape'
  BY <1>2, <1>3, <1>4, Order DEF RunShape
<1>7. CASE step <= 2
  <2>1. NextFile = IF step = 1 THEN "methodology_records.json" ELSE "methodology.pdf"
    BY <1>2, <1>7, Order DEF NextFile
  <2>2. StoredManifest'
    BY <1>2, <2>1 DEF Inv, StoredManifest, Exists
  <2>3. ProvisionalWritten'
    <3>1. content = [gate |-> FALSE, task |-> task, files |-> DOMAIN entries]
      BY <1>3, <1>7, <2>1 DEF Content
    <3> QED
      BY <1>2, <1>4, <1>7, <2>1, <3>1 DEF ProvisionalWritten, Exists
  <2>4. PassedRun'
    BY <1>2, <1>3, <1>4, <1>7 DEF PassedRun
  <2>5. Sealed' /\ ArchiveMatchesItsManifest' /\ ArchiveIsCovered'
    BY <1>2, <2>1, KeptArchive DEF Exists
  <2> QED
    BY <1>5, <1>6, <2>2, <2>3, <2>4, <2>5 DEF Inv
<1>8. CASE step \in 3 .. 10
  <2>1. gate = "passed" /\ gate' = "passed" /\ step' = step + 1 /\ UNCHANGED entries
    BY <1>2, <1>4, <1>8
  <2>2. NextFile # "submission.zip"
    BY <1>8, Order DEF NextFile
  <2>3. ~Archived /\ ~Archived'
    BY <1>2, <2>1, <2>2 DEF Inv, PassedRun, Archived, Exists
  <2>4. task \in Tasks /\ Exists(task)' /\ dir'[task'] = "good"
    BY <1>1, <1>2, <2>1, NamesDiffer DEF Inv, TypeOK, PassedRun, Exists
  <2>5. \A p \in Sources : p \in DOMAIN entries' /\ entries'[p].sha256 = dir'[p]
    BY <1>2, <2>1 DEF Inv, PassedRun
  <2>6. step' >= 5 => Exists("methodology.pdf")' /\ dir'["methodology.pdf"].gate = TRUE
    <3>1. CASE step = 4
      <4>1. NextFile = "methodology.pdf"
        BY <3>1, Order DEF NextFile
      <4>2. content.gate = TRUE
        BY <2>1, <4>1 DEF Content
      <4> QED
        BY <1>2, <4>1, <4>2 DEF Exists
    <3>2. CASE step \in 5 .. 10
      <4>1. NextFile # "methodology.pdf"
        BY <3>2, Order DEF NextFile
      <4> QED
        BY <1>2, <2>1, <3>2, <4>1 DEF Inv, PassedRun, Exists
    <3>3. step' >= 5 => step = 4 \/ step \in 5 .. 10
      BY <1>8, <2>1
    <3> QED
      BY <3>1, <3>2, <3>3
  <2>7. step' >= 6 => Exists("code_manifest.json")' /\ dir'["code_manifest.json"] = entries'
    <3>1. CASE step = 5
      <4>1. NextFile = "code_manifest.json" /\ content = entries
        BY <3>1, Order DEF NextFile, Content
      <4> QED
        BY <1>2, <2>1, <4>1 DEF Exists
    <3>2. CASE step \in 6 .. 10
      <4>1. NextFile # "code_manifest.json"
        BY <3>2, Order DEF NextFile
      <4> QED
        BY <1>2, <2>1, <3>2, <4>1 DEF Inv, PassedRun, Exists
    <3> QED
      BY <1>8, <2>1, <3>1, <3>2
  <2>8. step' >= 9 => Exists("finalize_gate.json")' /\ dir'["finalize_gate.json"] = Record(TRUE)'
    <3>1. CASE step = 8
      <4>1. NextFile = "finalize_gate.json" /\ content = Record(TRUE)
        BY <2>1, <3>1, Order DEF NextFile, Content, Record
      <4> QED
        BY <1>1, <1>2, <4>1 DEF Exists, Record
    <3>2. CASE step \in 9 .. 10
      <4>1. NextFile # "finalize_gate.json"
        BY <3>2, Order DEF NextFile
      <4> QED
        BY <1>1, <1>2, <2>1, <3>2, <4>1 DEF Inv, PassedRun, Exists, Record
    <3>3. step' >= 9 => step = 8 \/ step \in 9 .. 10
      BY <1>8, <2>1
    <3> QED
      BY <3>1, <3>2, <3>3
  <2>9. step' >= 11 =>
          /\ Exists("manifest.json")'
          /\ dir'["manifest.json"] =
               [p \in Members(DOMAIN dir)' \ {"manifest.json"} |-> dir'[p]]
    <3> SUFFICES ASSUME step = 10 PROVE /\ Exists("manifest.json")'
                                        /\ dir'["manifest.json"] =
                                             [p \in Members(DOMAIN dir)' \ {"manifest.json"} |-> dir'[p]]
      BY <1>8, <2>1
    <3>1. NextFile = "manifest.json"
      BY Order DEF NextFile
    <3>2. content = [p \in Members(DOMAIN dir) \ {"manifest.json"} |-> dir[p]]
      BY <3>1 DEF Content
    <3>3. Members(DOMAIN dir)' \ {"manifest.json"} = Members(DOMAIN dir) \ {"manifest.json"}
      BY <1>1, <1>2, <3>1 DEF Members
    <3>4. \A p \in Members(DOMAIN dir) \ {"manifest.json"} : dir'[p] = dir[p]
      BY <1>2, <3>1 DEF Members
    <3> QED
      BY <1>2, <3>1, <3>2, <3>3, <3>4 DEF Exists
  <2>10. PassedRun'
    BY <2>3, <2>4, <2>5, <2>6, <2>7, <2>8, <2>9 DEF PassedRun
  <2>11. StoredManifest'
    <3>1. CASE NextFile = "code_manifest.json"
      BY <1>2, <3>1, <2>1 DEF Inv, TypeOK, Content, StoredManifest, Exists
    <3>2. CASE NextFile # "code_manifest.json"
      BY <1>2, <3>2 DEF Inv, StoredManifest, Exists
    <3> QED
      BY <3>1, <3>2
  <2>12. ProvisionalWritten' /\ Sealed' /\ ArchiveMatchesItsManifest' /\ ArchiveIsCovered'
    BY <2>1, <2>3 DEF ProvisionalWritten, Sealed, ArchiveMatchesItsManifest, ArchiveIsCovered
  <2> QED
    BY <1>5, <1>6, <2>10, <2>11, <2>12 DEF Inv
<1>9. CASE step = 11
  <2>1. gate = "passed" /\ gate' = "none"
    BY <1>2, <1>4, <1>9
  <2>2. NextFile = "submission.zip"
    BY <1>9, Order DEF NextFile
  <2>3. content = [p \in Members(DOMAIN dir) |-> dir[p]]
    BY <2>2 DEF Content
  <2>4. Archive' = [p \in Members(DOMAIN dir) |-> dir[p]]
    BY <1>2, <2>2, <2>3 DEF Archive
  <2>5. /\ Exists("manifest.json")
        /\ dir["manifest.json"] = [p \in Members(DOMAIN dir) \ {"manifest.json"} |-> dir[p]]
        /\ Exists("methodology.pdf") /\ dir["methodology.pdf"].gate = TRUE
        /\ Exists("code_manifest.json") /\ dir["code_manifest.json"] = entries
        /\ Exists("finalize_gate.json") /\ dir["finalize_gate.json"] = Record(TRUE)
        /\ Exists(task) /\ dir[task] = "good"
        /\ \A p \in Sources : p \in DOMAIN entries /\ entries[p].sha256 = dir[p]
    <3>1. PassedRun
      BY DEF Inv
    <3>2. step >= 5 /\ step >= 6 /\ step >= 9 /\ step >= 11
      BY <1>9
    <3> QED
      BY <2>1, <3>1, <3>2, Zenon DEF PassedRun
  <2>6. {"manifest.json", "methodology.pdf", "code_manifest.json", "finalize_gate.json", task}
          \cup Sources \subseteq Members(DOMAIN dir)
    BY <1>2, <2>5, ArtefactNames DEF Members, CodePaths, Exists
  <2>7. ArchiveMatchesItsManifest'
    <3>1. Archive'["manifest.json"] = [p \in Members(DOMAIN dir) \ {"manifest.json"} |-> dir[p]]
      BY <2>4, <2>5, <2>6
    <3> QED
      BY <2>4, <3>1 DEF ArchiveMatchesItsManifest
  <2>8. ArchiveIsCovered'
    <3>1. /\ Archive'["code_manifest.json"] = entries
          /\ \A p \in Sources : Archive'[p] = dir[p]
          /\ Archive'["finalize_gate.json"] = [overall_ok |-> TRUE, task |-> task]
          /\ Archive'[task] = "good"
      BY <2>4, <2>5, <2>6 DEF Record
    <3> QED
      BY <2>5, <3>1 DEF ArchiveIsCovered
  <2>9. Sealed'
    <3>1. Exists("manifest.json")' /\ dir'["manifest.json"] = dir["manifest.json"]
      BY <1>2, <2>2, <2>5 DEF Exists
    <3>2. /\ "methodology.pdf" \in DOMAIN dir["manifest.json"]
          /\ dir["manifest.json"]["methodology.pdf"] = dir["methodology.pdf"]
      BY <2>5, <2>6
    <3> QED
      BY <2>5, <3>1, <3>2 DEF Sealed
  <2>10. StoredManifest' /\ ProvisionalWritten' /\ PassedRun'
    BY <1>2, <2>1, <2>2 DEF Inv, StoredManifest, ProvisionalWritten, PassedRun, Exists
  <2> QED
    BY <1>5, <1>6, <2>7, <2>8, <2>9, <2>10 DEF Inv
<1> QED
  BY <1>2, <1>7, <1>8, <1>9

-----------------------------------------------------------------------------
LEMMA NextInv == Inv /\ [Next]_vars => Inv'
<1> SUFFICES ASSUME Inv, [Next]_vars PROVE Inv'
  OBVIOUS
<1>1. CASE Package
  BY <1>1, StartPackageInv, WriteFileInv, ValidateInv, KillInv DEF Package
<1>2. CASE Environment
  BY <1>2, EnvironmentInv
<1>3. CASE UNCHANGED vars
  BY <1>3 DEF vars, Inv, TypeOK, StoredManifest, RunShape, ProvisionalWritten, PassedRun, Sealed,
              ArchiveMatchesItsManifest, ArchiveIsCovered, Archived, Archive, Exists, Members, Record
<1> QED
  BY <1>1, <1>2, <1>3 DEF Next

LEMMA SpecInv == Spec => []Inv
BY InitInv, NextInv, PTL DEF Spec

\* The files of submission/ and the run keep their types (package.py:347-455).
THEOREM PackagingTypeCorrect == Spec => []TypeOK
BY SpecInv, PTL DEF Inv

\* An archive agrees with the manifest.json inside it, whatever runs died before
\* (package.py:306-322, 437-443).
THEOREM ArchiveConsistent == Spec => []ArchiveMatchesItsManifest
BY SpecInv, PTL DEF Inv

\* An archive's sources are in its code manifest, its predictions passed its gate
\* (package.py:399-443).
THEOREM ArchiveCovered == Spec => []ArchiveIsCovered
BY SpecInv, PTL DEF Inv

\* A complete archive and the reports beside it stay what they are, in every step
\* of every later run and of everything between runs (package.py:385-389, 437-443).
THEOREM ArchiveFrozen == Spec => ArchiveIsFrozen
<1> DEFINE released == {"submission.zip", "finalize_gate.json",
                        "validation_report.json", "manifest.json"}
           kept == \A p \in released :
                     /\ p \in DOMAIN dir' <=> p \in DOMAIN dir
                     /\ p \in DOMAIN dir => dir'[p] = dir[p]
<1>1. Inv /\ [Next]_vars /\ Archived =>
        /\ Archived' /\ Archive' = Archive
        /\ \A p \in {"finalize_gate.json", "validation_report.json", "manifest.json"} :
             Exists(p) => Exists(p)' /\ dir'[p] = dir[p]
  <2> SUFFICES ASSUME Inv, [Next]_vars, Archived PROVE kept
    BY DEF Archived, Archive, Exists
  <2>1. gate # "passed"
    BY DEF Inv, PassedRun
  <2>2. \A f \in released : f \in Artefacts
    BY ArtefactNames
  <2>3. CASE \E t \in Tasks : StartPackage(t)
    BY <2>3 DEF StartPackage
  <2>4. CASE WriteFile \/ (MayWrite /\ dir' = Write(NextFile, Torn))
    <3>1. step \in 1 .. 2
      BY <2>1, <2>4, Order DEF Inv, TypeOK, MayWrite, Active, WriteFile
    <3>2. NextFile \notin released
      BY <3>1, Order DEF NextFile
    <3> QED
      BY <2>4, <3>2 DEF WriteFile, Write, With
  <2>5. CASE dir' = dir
    BY <2>5
  <2>6. ASSUME NEW path \in Tasks \cup CodePaths, NEW content, dir' = Write(path, content)
        PROVE  kept
    BY <2>2, <2>6, NamesDiffer DEF Write, With, CodePaths
  <2>7. CASE Validate \/ RunCode
    BY <2>5, <2>6, <2>7 DEF Validate, RunCode, AfterSmoke, CodePaths
  <2>8. CASE \E p \in Sources, text \in Texts : RecordedEdit(p, text)
    <3>1. PICK p \in Sources, text \in Texts : RecordedEdit(p, text)
      BY <2>8
    <3>2. \A f \in released : f # p /\ f # "code_manifest.json"
      BY <2>2, NamesDiffer
    <3> QED
      BY <3>1, <3>2 DEF RecordedEdit, Write, With
  <2>9. CASE \E p \in Sources, text \in Texts : UnrecordedEdit(p, text)
    BY <2>6, <2>9 DEF UnrecordedEdit, CodePaths
  <2>10. CASE \E t \in Tasks, quality \in {"good", "bad"} : Predict(t, quality)
    BY <2>6, <2>10 DEF Predict
  <2> QED
    BY <2>3, <2>4, <2>5, <2>7, <2>8, <2>9, <2>10 DEF Next, Package, Environment, Kill, vars
<1> QED
  BY <1>1, SpecInv, PTL DEF ArchiveIsFrozen, Spec

\* The directory, with its runs and kills, implements the one-step release: the
\* archive is seen only when it is complete, and then for good
\* (package.py:379-455).
THEOREM ReleaseImplemented == Spec => ImplementsRelease
<1>1. Init => Contract!Init
  <2> SUFFICES ASSUME Init PROVE ~Archived
    BY DEF Contract!Init
  <2>1. "submission.zip" \in Artefacts
    BY ArtefactNames
  <2>2. DOMAIN dir \subseteq Sources \cup {"code_manifest.json"}
    BY DEF Init, With
  <2> QED
    BY <2>1, <2>2, NamesDiffer DEF Archived, Exists
<1>2. Inv' /\ ~Archived /\ Archived' => Contract!Release
  <2> SUFFICES ASSUME Inv', ~Archived, Archived' PROVE Contract!Release
    OBVIOUS
  <2>1. Contract!Consistent(Archive') /\ Contract!Covered(Archive')
    BY DEF Inv, ArchiveMatchesItsManifest, ArchiveIsCovered, Contract!Consistent,
           Contract!Covered
  <2> QED
    BY <2>1 DEF Contract!Release
<1>3. [Archived => Archived' /\ Archive' = Archive]_vars /\ Inv' =>
        [Contract!Release]_(IF Archived THEN {Archive} ELSE {})
  BY <1>2 DEF vars, Archived, Archive, Exists
<1>4. Spec => [][Archived => Archived' /\ Archive' = Archive]_vars
  <2>1. [Archived =>
          /\ Archived' /\ Archive' = Archive
          /\ \A p \in {"finalize_gate.json", "validation_report.json", "manifest.json"} :
               Exists(p) => Exists(p)' /\ dir'[p] = dir[p]]_vars =>
        [Archived => Archived' /\ Archive' = Archive]_vars
    OBVIOUS
  <2> QED
    BY <2>1, ArchiveFrozen, PTL DEF ArchiveIsFrozen
<1> QED
  BY <1>1, <1>3, <1>4, SpecInv, PTL DEF Spec, ImplementsRelease, Contract!Spec

=============================================================================
