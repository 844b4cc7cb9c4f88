--------------------------- MODULE MCFormalSession ---------------------------
\* Instances of FormalSession for TLC.
EXTENDS FormalSessionProperties

\* A call either claims all three checks or forgets one.
MCClaims == {Checks, {"cli_ok", "smoke_ok"}}

\* One tool of each kind.
MCToolNames == {"read_file", "run_shell", "unknown"}

\* Tasks, files and texts are interchangeable in the invariants.
Symmetry == Permutations(Tasks) \cup Permutations(Files) \cup Permutations(Texts)

=============================================================================
