----------------------------- MODULE ToolRegistry -----------------------------
(***************************************************************************)
(* agent_runner/tool_registry.py: the tools, the phases each is for, what  *)
(* is offered to the model and what a call is refused for.  Tools that     *)
(* change nothing the model of the workspace keeps stand together.         *)
(***************************************************************************)
LOCAL INSTANCE TLC

CONSTANTS
  Everything,   \* no set of exposed tools was given
  NoPhase       \* no phase was given

Phases == {"research", "planning", "implementation", "debugging", "log_analysis",
           "validation", "finalization"}

Building == {"implementation", "debugging"}
Closing == {"validation", "finalization"}
Searching == {"research", "planning"}

\* The tools in the order of the code.  To work on the workspace:
WorkspaceTools ==
  [read_file |-> Searching \union Building, write_file |-> Building,
   run_shell |-> Building, run_python |-> Building]

\* To check and keep a submission; "inspect" stands for inspect_hdf5, the
\* validate_* tools and generate_methodology_pdf.
SubmissionTools ==
  [inspect |-> Closing, analyze_log |-> Building \union {"log_analysis"},
   snapshot |-> Building, rollback |-> Building, package_submission |-> Closing]

\* To find sources; "fetch_url" stands for all that searches, fetches or parses.
ResearchTools ==
  [fetch_url |-> Searching, research_cache_write |-> Searching,
   research_cache_read |-> Searching \union {"log_analysis"}]

AllowedPhases == WorkspaceTools @@ SubmissionTools @@ ResearchTools

Tools == DOMAIN AllowedPhases

NoContext == [phase |-> NoPhase, exposed |-> Everything]

InPhase(ctx, t) == ctx.phase = NoPhase \/ ctx.phase \in AllowedPhases[t]

Exposed(ctx, t) == ctx.exposed = Everything \/ t \in ctx.exposed

\* response_function_tools
Offered(ctx) == {t \in Tools : InPhase(ctx, t) /\ Exposed(ctx, t)}

\* execute, before the handler
Gate(ctx, t) ==
  /\ t \in Tools
  /\ ~(ctx.phase # NoPhase /\ ctx.phase \notin AllowedPhases[t])
  /\ ~(ctx.exposed # Everything /\ t \notin ctx.exposed)

\* set_context: what is not given stays.
Updated(ctx, phase, exposed) ==
  [phase |-> IF phase = NoPhase THEN ctx.phase ELSE phase,
   exposed |-> IF exposed = Everything THEN ctx.exposed ELSE exposed]

=============================================================================
