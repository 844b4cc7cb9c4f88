--------------------------- MODULE ProviderFailover ---------------------------
(***************************************************************************)
(* cozy_pde_v3/responses_client.py and provider_capabilities.py with the   *)
(* commands of cli.py that use them: check-provider probes the endpoints   *)
(* and writes a report that expires, run refuses to start without a valid  *)
(* one, and every request may move from the primary to the fallback.       *)
(* Between commands, and while one runs, the configuration file is edited  *)
(* and time passes.  What the OpenAI SDK raises is external: a failure is  *)
(* its HTTP status (0 for none), whether it is an OSError of Python, and   *)
(* the token its text contains that decides the classification.            *)
(***************************************************************************)
EXTENDS Naturals, Sequences

CONSTANTS
  Configs,      \* bound: configurations that load_config accepts
  Failures,     \* bound: the failures of a request
  ReportLife,   \* how long a report is valid
  MaxTime,      \* bound: the clock
  MaxTurns,     \* bound: the requests of a session
  NoReport, Torn

ASSUME ProviderAssumption ==
  /\ \A c \in Configs :
       /\ c.fallback \in BOOLEAN /\ c.require_fallback \in BOOLEAN
       /\ c.require_fallback => c.fallback      \* load_config refuses the rest
  /\ \A f \in Failures : f.status \in Nat /\ f.os_error \in BOOLEAN
  /\ ReportLife \in Nat /\ MaxTime \in Nat /\ MaxTurns \in Nat
  /\ NoReport # Torn

Reports == [config : Configs, expires_at : Nat, fallback : BOOLEAN]

ASSUME ReportAssumption == NoReport \notin Reports /\ Torn \notin Reports

VARIABLES
  config,       \* the configuration file
  now,          \* the clock
  report,       \* provider_report.json
  pc,           \* "idle", or the command that runs: "probe" or "session"
  command,      \* the configuration the running command has read
  asked,        \* who the request in flight was sent to, "none" between requests
  raised,       \* what the endpoints raised for it, or for the one that ended the command
  answers,      \* who answered the requests of the command, in order
  check         \* history: the last check-provider that wrote its report

vars == <<config, now, report, pc, command, asked, raised, answers, check>>

Init ==
  /\ config \in Configs /\ command = config
  /\ now = 0 /\ report = NoReport
  /\ pc = "idle" /\ asked = "none" /\ raised = << >> /\ answers = << >>
  /\ check = [config |-> config, at |-> 0, by |-> << >>]

-----------------------------------------------------------------------------
(* Classification and verification. *)

\* Some reason, whichever: the status decides, else the class, else the text.
FailsOver(f) ==
  \/ f.status \in {429, 502, 503, 504, 524, 408, 409, 500}
  \/ f.os_error
  \/ f.text \in {"quota", "rate limit", "too many requests"}
  \/ f.text \in {"gateway", "unavailable", "524"}
  \/ f.text \in {"timeout", "connection", "network"}

\* Faulty: the report is still valid at the instant it expires.
HasExpiredLate(r) == r.expires_at < now

HasExpired(r) == r.expires_at <= now

\* Faulty: the hash of the configuration is not compared.
VerifiedAnyConfig(r, c) ==
  r \in Reports /\ ~HasExpired(r) /\ (c.require_fallback => r.fallback)

\* formal_ready is always written as true; a valid configuration that requires
\* a fallback has one, so the report of the same configuration has its section.
Verified(r, c) ==
  /\ r \in Reports
  /\ r.config = c
  /\ ~HasExpired(r)
  /\ c.require_fallback => r.fallback

ReportOf(c) == [config |-> c, expires_at |-> now + ReportLife, fallback |-> c.fallback]

ProbeCount == 4

Requests == IF pc = "probe" THEN ProbeCount ELSE MaxTurns

-----------------------------------------------------------------------------
(* The commands. *)

Begin(name) ==
  /\ pc = "idle"
  /\ pc' = name /\ command' = config /\ answers' = << >> /\ raised' = << >>
  /\ UNCHANGED <<config, now, report, asked, check>>

CheckProvider == Begin("probe")

RunSession == Verified(report, config) /\ Begin("session")

\* The process ends or is killed: only its files remain.
Leave == pc' = "idle" /\ asked' = "none"

WriteReport ==
  /\ pc = "probe" /\ asked = "none" /\ Len(answers) = ProbeCount
  /\ Leave /\ raised' = << >>
  /\ report' = ReportOf(command)
  /\ check' = [config |-> command, at |-> now, by |-> answers]
  /\ UNCHANGED <<config, now, command, answers>>

\* Killed inside the write, which is not atomic.
TearReport ==
  /\ pc = "probe" /\ asked = "none" /\ Len(answers) = ProbeCount
  /\ Leave /\ raised' = << >>
  /\ report' = Torn
  /\ UNCHANGED <<config, now, command, answers, check>>

\* The session ends for a reason of its own, or either command is killed.
EndCommand ==
  /\ pc # "idle"
  /\ Leave /\ raised' = << >>
  /\ UNCHANGED <<config, now, report, command, answers, check>>

-----------------------------------------------------------------------------
(* One request. *)

AskPrimary ==
  /\ pc # "idle" /\ asked = "none" /\ Len(answers) < Requests
  /\ asked' = "primary"
  /\ UNCHANGED <<config, now, report, pc, command, raised, answers, check>>

\* Faulty: the endpoint is looked up after the request is closed.
AnswerAfterReset ==
  /\ asked # "none"
  /\ asked' = "none" /\ raised' = << >>
  /\ answers' = Append(answers, asked')
  /\ UNCHANGED <<config, now, report, pc, command, check>>

Answer ==
  /\ asked # "none"
  /\ answers' = Append(answers, asked)
  /\ asked' = "none" /\ raised' = << >>
  /\ UNCHANGED <<config, now, report, pc, command, check>>

\* The fallback client exists iff the configuration read has a fallback.
AskFallback(f) ==
  /\ asked = "primary" /\ command.fallback /\ FailsOver(f)
  /\ asked' = "fallback" /\ raised' = <<f>>
  /\ UNCHANGED <<config, now, report, pc, command, answers, check>>

\* The exception leaves the command, which ends without writing anything.
Raise(f) ==
  /\ \/ asked = "primary" /\ ~(command.fallback /\ FailsOver(f))
     \/ asked = "fallback"
  /\ Leave /\ raised' = Append(raised, f)
  /\ UNCHANGED <<config, now, report, command, answers, check>>

Tick ==
  /\ now < MaxTime
  /\ now' = now + 1
  /\ UNCHANGED <<config, report, pc, command, asked, raised, answers, check>>

EditConfig(c) ==
  /\ config' = c
  /\ UNCHANGED <<now, report, pc, command, asked, raised, answers, check>>

Next ==
  \/ CheckProvider \/ RunSession \/ WriteReport \/ TearReport \/ EndCommand
  \/ AskPrimary \/ Answer
  \/ \E f \in Failures : AskFallback(f) \/ Raise(f)
  \/ Tick
  \/ \E c \in Configs : EditConfig(c)

Spec == Init /\ [][Next]_vars

=============================================================================
