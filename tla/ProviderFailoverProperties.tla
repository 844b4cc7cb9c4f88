---------------------- MODULE ProviderFailoverProperties ----------------------
(***************************************************************************)
(* What the provider report and the failover promise, and what the design  *)
(* document says that the code does not do.                                *)
(***************************************************************************)
EXTENDS ProviderFailover

\* Every variable of the commands and of the report has its type.
TypeOK ==
  /\ config \in Configs /\ command \in Configs
  /\ now \in Nat
  /\ report \in Reports \cup {NoReport, Torn}
  /\ pc \in {"idle", "probe", "session"}
  /\ asked \in {"none", "primary", "fallback"}
  /\ raised \in Seq(Failures)
  /\ answers \in Seq({"primary", "fallback"})
  /\ check.config \in Configs /\ check.at \in Nat
  /\ check.by \in Seq({"primary", "fallback"})

\* run: a session starts only if a whole probe of four answered requests has
\* been made with the configuration it starts with, less than ReportLife ago,
\* however the configuration was edited and whatever died since.
StartsOnFreshCheck ==
  [][pc = "idle" /\ pc' = "session" =>
       /\ Len(check.by) = 4
       /\ check.config = command'
       /\ now < check.at + ReportLife]_vars

\* create and verify: a session sends a request on only to a fallback that the
\* report it was started with lists.
FallbackWasReported ==
  pc = "session" /\ asked = "fallback" => report \in Reports /\ report.fallback

\* create: the primary is always asked first and nobody twice.  A request moves
\* exactly when the command has a fallback and the failure is one of those that
\* move, so what was given up after one failure was not to be moved.
MovesExactlyWhenItMay ==
  LET moves == command.fallback /\ FailsOver(raised[1])
  IN  /\ Len(raised) <= 2
      /\ asked = "primary" => raised = << >>
      /\ asked = "fallback" => Len(raised) = 1 /\ moves
      /\ asked = "none" /\ Len(raised) = 1 => ~moves
      /\ Len(raised) = 2 => moves /\ pc = "idle"

-----------------------------------------------------------------------------
(* Claims of the design document. *)

\* A report that calls the primary formal-ready rests on answers of the primary.
PrimaryReadyIsThePrimary ==
  report \in Reports => \A i \in DOMAIN check.by : check.by[i] = "primary"

\* A report that calls the fallback formal-ready rests on an answer of it.
FallbackReadyWasAsked ==
  report \in Reports /\ report.fallback =>
    \E i \in DOMAIN check.by : check.by[i] = "fallback"

\* A refused parameter, key or model name never moves a request.
RefusalsStay ==
  asked = "fallback" => raised[1].status \notin {400, 401, 404, 422}

\* A request that times out is not given up while there is a fallback to ask.
TimeoutsMove ==
  pc = "idle" /\ command.fallback /\ Len(raised) = 1 => raised[1].text # "timed out"

=============================================================================
