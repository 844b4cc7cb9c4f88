---------------------------- MODULE CodeEvolution ----------------------------
(***************************************************************************)
(* The shared code directory submission/code, the versions computed from   *)
(* it, and the rule that admits a patch (cozy_pde_v3/code_evolution.py and *)
(* cozy_pde_v3/experiment_engine.py).                                      *)
(*                                                                         *)
(* A file holds one of a few texts, bytes that are not UTF-8 (Binary: what *)
(* running the code may leave behind, for example a .pyc), or is Absent.   *)
(* SHA-256 is modelled as injective: a hash is the value it was taken of.  *)
(***************************************************************************)
EXTENDS Integers, Sequences, SequencesExt

CONSTANTS
  Tasks,      \* the task ids of config.task_specs
  Files,      \* paths under submission/code
  Texts,      \* the texts a file may hold
  Binary,     \* a content that does not decode as UTF-8
  Absent,     \* no such file
  NoVersion   \* Python's None where a code version is expected

ASSUME CodeAssumption ==
  /\ Binary \notin Texts
  /\ Absent \notin Texts
  /\ Binary # Absent
  /\ NoVersion \notin [content : [Files -> Texts \cup {Absent}], api : Tasks]

Contents == Texts \cup {Binary, Absent}

Dirs == [Files -> Contents]

\* Directories read_shared_code_directory_content can read: it decodes every
\* file as UTF-8, so one undecodable file makes the whole read raise.
ReadableDirs == [Files -> Texts \cup {Absent}]

Readable(dir) == dir \in ReadableDirs

Versions == [content : ReadableDirs, api : Tasks]

\* code_version hashes the content hash together with the hash of the API
\* contract, and _api_contract_payload puts the spec of the task in it.
CodeVersion(dir, task) == [content |-> dir, api |-> task]

Snapshots ==
  [version : Versions, parent : Versions \cup {NoVersion}, tasks : SUBSET Tasks]

CodeSnapshot(dir, task, parent, supported) ==
  [version |-> CodeVersion(dir, task), parent |-> parent, tasks |-> supported]

\* The three compatibility checks a caller may claim to have run.
Checks == {"cli_ok", "smoke_ok", "infer_shape_ok"}

\* The verdict for every task that was supported before, and TRUE for the
\* task being worked on.
CompatibilityChecks(prior, task, claimed) ==
  [t \in prior \cup {task} |-> t = task \/ claimed = Checks]

\* The verdict as the caller stores it (the compatibility of each task is keyed
\* "<task>_compat_ok" in the code).
Verdicts ==
  [accepted                : BOOLEAN,
   compatibility           : UNION {[S -> BOOLEAN] : S \in SUBSET Tasks},
   validated_against_tasks : SUBSET Tasks]

\* Faulty: the task being worked on is not left out.
PatchGateAll(supported, task, claimed) ==
  LET compat == CompatibilityChecks(supported, task, claimed)
  IN [accepted                |-> \A t \in supported : compat[t],
      compatibility           |-> compat,
      validated_against_tasks |-> supported]

\* claimed is the set of checks the tool call's "compatibility" argument says
\* are true; the gate believes it.
PatchGate(supported, task, claimed) ==
  LET prior  == supported \ {task}
      compat == CompatibilityChecks(prior, task, claimed)
  IN [accepted                |-> \A t \in prior : compat[t],
      compatibility           |-> compat,
      validated_against_tasks |-> prior]

=============================================================================
