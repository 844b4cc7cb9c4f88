------------------------------- MODULE MCRunner -------------------------------
(* Small instance of RunnerWorkspace. *)
EXTENDS RunnerProperties

\* No phase; a phase alone, which keeps the tools of the turn before; a phase
\* and tools, one of them of another phase.
MCContexts ==
  {[phase |-> "implementation", exposed |-> Everything],
   [phase |-> "finalization", exposed |-> {"package_submission", "write_file"}]}
=============================================================================
