-------------------------- MODULE SharedCodeHistory --------------------------
(***************************************************************************)
(* What the memory store promises about the versions of the shared code,   *)
(* whoever writes it and whenever the writer dies: an append-only table in *)
(* which a version either starts from an unexplained directory or follows  *)
(* the newest version by a patch that was recorded, and checked against    *)
(* every other task the newest version supports, before it.                *)
(***************************************************************************)
EXTENDS CodeEvolution

VARIABLES
  history,  \* the snapshots, in order
  patches   \* the patches on record

hvars == <<history, patches>>

Init ==
  /\ history = <<>>
  /\ patches = {}

\* The directory is taken as it is found. Support is carried over.
Rebase(dir, task) ==
  LET carried == IF history = <<>> THEN {} ELSE Last(history).tasks
  IN /\ history' =
          Append(history, CodeSnapshot(dir, task, NoVersion, carried \cup {task}))
     /\ UNCHANGED patches

\* A patch of the newest version is put on record.
Propose(dir, task) ==
  /\ history # <<>>
  /\ LET newest == Last(history)
     IN patches' = patches \cup
          {[base    |-> newest.version,
            new     |-> CodeVersion(dir, task),
            against |-> newest.tasks \ {task}]}
  /\ UNCHANGED history

\* A patch on record becomes the newest version.
Advance(dir, task) ==
  /\ history # <<>>
  /\ LET newest == Last(history)
     IN /\ [base    |-> newest.version,
            new     |-> CodeVersion(dir, task),
            against |-> newest.tasks \ {task}] \in patches
        /\ history' =
             Append(history,
                    CodeSnapshot(dir, task, newest.version, newest.tasks \cup {task}))
  /\ UNCHANGED patches

Next ==
  \E dir \in ReadableDirs, task \in Tasks :
    Rebase(dir, task) \/ Propose(dir, task) \/ Advance(dir, task)

Spec == Init /\ [][Next]_hvars

=============================================================================
