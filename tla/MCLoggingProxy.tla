---------------------------- MODULE MCLoggingProxy ----------------------------
(* Small instance of LoggingProxy: the requests and the tasks are alike. *)
EXTENDS LoggingProxyProperties

Symmetry == Permutations(Requests) \union Permutations(Tasks)

=============================================================================
