--------------------------- MODULE ReleaseContract ---------------------------
(***************************************************************************)
(* What packaging promises of submission.zip to whoever submits it: there  *)
(* is one release at most, it appears in one step, already complete,       *)
(* consistent with its manifest and covered by its code manifest and gate, *)
(* and it is never taken back.                                             *)
(***************************************************************************)
CONSTANT Sources

VARIABLE released    \* no archive, or the one archive that was released

\* The manifest inside lists every other member as it is.
Consistent(archive) ==
  LET listed == archive["manifest.json"]
  IN  /\ DOMAIN listed = DOMAIN archive \ {"manifest.json"}
      /\ \A p \in DOMAIN listed : listed[p] = archive[p]

\* The code manifest inside gives every source its hash, and the gate inside
\* passed for predictions that are good.
Covered(archive) ==
  LET listed == archive["code_manifest.json"]
      report == archive["finalize_gate.json"]
  IN  /\ \A p \in Sources : p \in DOMAIN listed /\ listed[p].sha256 = archive[p]
      /\ report.overall_ok
      /\ archive[report.task] = "good"

Init == released = {}

Release ==
  /\ released = {}
  /\ \E archive \in released' :
       /\ released' = {archive}
       /\ Consistent(archive)
       /\ Covered(archive)

Spec == Init /\ [][Release]_released

=============================================================================
