------------------------------ MODULE MCResearch ------------------------------
(* Small instance of ResearchOrchestrator. *)
EXTENDS ResearchProperties

LegacyFile(experiment) ==
  [task |-> "task1",
   memory |-> [FreshMemory EXCEPT !.phase = "design", !.iteration = 1,
                                  !.experiments = <<experiment>>]]

\* No file of an older version, or one with an experiment that failed, or one
\* whose score cannot be compared.
MCLegacyFiles ==
  {NoFile,
   LegacyFile([metrics |-> NoMetrics, status |-> "failed"]),
   LegacyFile([metrics |-> [by |-> <<0, 1>>, score |-> Unordered], status |-> "success"])}

=============================================================================
