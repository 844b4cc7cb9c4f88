----------------------------- MODULE MCPackaging -----------------------------
\* Instances of Packaging for TLC.
EXTENDS PackagingProperties, TLC

\* No property tells two tasks, sources or texts apart.
Symmetry == Permutations(Tasks) \cup Permutations(Sources) \cup Permutations(Texts)

=============================================================================
