-------------------------------- MODULE Router --------------------------------
(***************************************************************************)
(* cozy_pde_v3/deterministic_router.py: the pure function that picks the   *)
(* phase of the next iteration of the formal loop, by strict priority.     *)
(***************************************************************************)

\* Value of latest_error_type when there is no error (Python's None).
NoError == "none"

RequestedPhases ==
  {"train_validate_benchmark", "diagnosis", "reflection", "finalization"}

\* DeterministicRouter.choose. hasBaseline is shared_code_version is not None;
\* phase is the current_phase of the state.
Choose(ready, preflightPending, hasBaseline, error, phase) ==
  IF ~ready THEN "capability_readiness"
  ELSE IF preflightPending THEN "preflight"
  ELSE IF ~hasBaseline THEN "baseline_guard"
  ELSE IF error # NoError THEN "failure_recovery"
  ELSE IF phase \in RequestedPhases THEN phase
  ELSE "implementation"

\* The tools whose schemas are offered to the model in each phase. The loop
\* does not consult them again when it executes the call that comes back.
AllowedTools(phase) ==
  CASE phase = "implementation" ->
         {"read_file", "write_file", "patch_file", "run_python", "run_shell",
          "inspect_hdf5", "validate_submission", "package_submission"}
    [] phase = "failure_recovery" ->
         {"read_file", "patch_file", "run_python", "run_shell",
          "validate_submission"}
    [] phase = "train_validate_benchmark" ->
         {"run_python", "run_shell", "validate_submission"}
    [] phase = "diagnosis" ->
         {"read_file", "inspect_hdf5", "validate_submission"}
    [] phase = "finalization" -> {"validate_submission", "package_submission"}
    [] phase = "preflight" -> {"inspect_hdf5", "read_file"}
    [] phase = "capability_readiness" -> {}
    [] OTHER -> {"read_file"}

Phases ==
  RequestedPhases \cup {"capability_readiness", "preflight", "baseline_guard",
                        "failure_recovery", "implementation"}

=============================================================================
