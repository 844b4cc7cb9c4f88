------------------------ MODULE ProviderFailoverProofs ------------------------
(***************************************************************************)
(* Proofs of the properties of ProviderFailover for every set of           *)
(* configurations and failures, every life of a report and every bound.    *)
(***************************************************************************)
EXTENDS ProviderFailoverProperties, SequenceTheorems, TLAPS

\* A report tells the configuration and the time of the last whole probe.
ReportIsOfCheck ==
  report \in Reports =>
    /\ Len(check.by) = 4
    /\ report.config = check.config
    /\ report.expires_at = check.at + ReportLife
    /\ report.fallback = report.config.fallback

\* A session runs on a report of its own configuration.
SessionIsReported == pc = "session" => report \in Reports /\ report.config = command

\* A request belongs to a command, and is sent on only where there is a fallback.
RequestShape ==
  /\ pc = "idle" => asked = "none"
  /\ asked = "fallback" => command.fallback

Inv == TypeOK /\ ReportIsOfCheck /\ SessionIsReported /\ RequestShape

\* The inductive invariant holds at the start: there is no report.
LEMMA InitInv == Init => Inv
  <1> SUFFICES ASSUME Init PROVE Inv
    OBVIOUS
  <1>1. TypeOK
    BY DEF Init, TypeOK
  <1>2. ReportIsOfCheck
    BY ReportAssumption DEF Init, ReportIsOfCheck
  <1>3. SessionIsReported /\ RequestShape
    BY DEF Init, SessionIsReported, RequestShape
  <1> QED
    BY <1>1, <1>2, <1>3 DEF Inv

\* A report written now is a report, of the configuration it was made for.
LEMMA ReportOfType ==
  ASSUME NEW c \in Configs, now \in Nat
  PROVE  /\ ReportOf(c) \in Reports
         /\ ReportOf(c).config = c /\ ReportOf(c).expires_at = now + ReportLife
         /\ ReportOf(c).fallback = c.fallback
  BY ProviderAssumption DEF ReportOf, Reports

\* Every step keeps the types.
LEMMA TypeStep == TypeOK /\ [Next]_vars => TypeOK'
  <1> SUFFICES ASSUME TypeOK, [Next]_vars PROVE TypeOK'
    OBVIOUS
  <1> USE DEF TypeOK
  <1>1. CASE CheckProvider
    BY <1>1 DEF CheckProvider, Begin
  <1>2. CASE RunSession
    BY <1>2 DEF RunSession, Begin
  <1>3. CASE WriteReport
    <2>1. report' \in Reports
      BY <1>3, ReportOfType DEF WriteReport
    <2> QED
      BY <1>3, <2>1 DEF WriteReport, Leave
  <1>4. CASE TearReport
    BY <1>4 DEF TearReport, Leave
  <1>5. CASE EndCommand
    BY <1>5 DEF EndCommand, Leave
  <1>6. CASE AskPrimary
    BY <1>6 DEF AskPrimary
  <1>7. CASE Answer
    BY <1>7 DEF Answer
  <1>8. ASSUME NEW f \in Failures, AskFallback(f) PROVE TypeOK'
    BY <1>8 DEF AskFallback
  <1>9. ASSUME NEW f \in Failures, Raise(f) PROVE TypeOK'
    BY <1>9 DEF Raise, Leave
  <1>10. CASE Tick
    BY <1>10 DEF Tick
  <1>11. ASSUME NEW c \in Configs, EditConfig(c) PROVE TypeOK'
    BY <1>11 DEF EditConfig
  <1>12. CASE UNCHANGED vars
    BY <1>12 DEF vars
  <1> QED
    BY <1>1, <1>2, <1>3, <1>4, <1>5, <1>6, <1>7, <1>8, <1>9, <1>10, <1>11, <1>12
    DEF Next

\* Every step keeps the report, the session and the request in step.
LEMMA InvStep == Inv /\ [Next]_vars => Inv'
  <1> SUFFICES ASSUME Inv, [Next]_vars PROVE Inv'
    OBVIOUS
  <1>0. TypeOK'
    BY TypeStep DEF Inv
  <1> SUFFICES (ReportIsOfCheck /\ SessionIsReported /\ RequestShape)'
    BY <1>0 DEF Inv
  <1> USE DEF Inv, ReportIsOfCheck, SessionIsReported, RequestShape
  <1>1. CASE CheckProvider
    BY <1>1 DEF CheckProvider, Begin
  <1>2. CASE RunSession
    BY <1>2 DEF RunSession, Verified, Begin
  <1>3. CASE WriteReport
    <2>1. /\ report'.config = command /\ report'.expires_at = now + ReportLife
          /\ report'.fallback = command.fallback
      BY <1>3, ReportOfType DEF WriteReport, TypeOK
    <2>2. check'.by = answers /\ check'.config = command /\ check'.at = now
      BY <1>3 DEF WriteReport
    <2>3. Len(answers) = 4
      BY <1>3 DEF WriteReport, ProbeCount
    <2> QED
      BY <1>3, <2>1, <2>2, <2>3 DEF WriteReport, Leave
  <1>4. CASE TearReport
    BY <1>4, ReportAssumption DEF TearReport, Leave
  <1>5. CASE EndCommand
    BY <1>5 DEF EndCommand, Leave
  <1>6. CASE AskPrimary
    BY <1>6 DEF AskPrimary
  <1>7. CASE Answer
    BY <1>7 DEF Answer
  <1>8. ASSUME NEW f \in Failures, AskFallback(f)
        PROVE  (ReportIsOfCheck /\ SessionIsReported /\ RequestShape)'
    BY <1>8 DEF AskFallback
  <1>9. ASSUME NEW f \in Failures, Raise(f)
        PROVE  (ReportIsOfCheck /\ SessionIsReported /\ RequestShape)'
    BY <1>9 DEF Raise, Leave
  <1>10. CASE Tick
    BY <1>10 DEF Tick
  <1>11. ASSUME NEW c \in Configs, EditConfig(c)
         PROVE  (ReportIsOfCheck /\ SessionIsReported /\ RequestShape)'
    BY <1>11 DEF EditConfig
  <1>12. CASE UNCHANGED vars
    BY <1>12 DEF vars
  <1> QED
    BY <1>1, <1>2, <1>3, <1>4, <1>5, <1>6, <1>7, <1>8, <1>9, <1>10, <1>11, <1>12
    DEF Next

\* The inductive invariant holds in every reachable state.
THEOREM ProviderInvariant == Spec => []Inv
  <1>1. Init => Inv
    BY InitInv
  <1>2. Inv /\ [Next]_vars => Inv'
    BY InvStep
  <1> QED
    BY <1>1, <1>2, PTL DEF Spec

\* Every variable keeps its type.
THEOREM ProviderTypeCorrect == Spec => []TypeOK
  <1>1. Inv => TypeOK
    BY DEF Inv
  <1> QED
    BY <1>1, ProviderInvariant, PTL

\* Only run opens a session, and what it verifies is the report of the last
\* whole probe.
LEMMA FreshStep ==
  ASSUME Inv, [Next]_vars, pc = "idle", pc' = "session"
  PROVE  Len(check.by) = 4 /\ check.config = command' /\ now < check.at + ReportLife
  <1>1. RunSession
    BY DEF Next, CheckProvider, Begin, WriteReport, TearReport, EndCommand, AskPrimary,
           Answer, AskFallback, Raise, Leave, Tick, EditConfig, vars
  <1>2. report \in Reports /\ report.config = config /\ ~(report.expires_at <= now)
    BY <1>1 DEF RunSession, Verified, HasExpired
  <1>3. command' = config
    BY <1>1 DEF RunSession, Begin
  <1>4. now \in Nat /\ check.at + ReportLife \in Nat
    BY ProviderAssumption DEF Inv, TypeOK
  <1> QED
    BY <1>2, <1>3, <1>4 DEF Inv, ReportIsOfCheck

\* A session starts only on a fresh check of its own configuration (cli.py
\* run_command, verify_provider_capability_report).
THEOREM FreshCheck == Spec => StartsOnFreshCheck
  <1>1. Inv /\ [Next]_vars =>
          [pc = "idle" /\ pc' = "session" =>
             /\ Len(check.by) = 4
             /\ check.config = command'
             /\ now < check.at + ReportLife]_vars
    BY FreshStep
  <1> QED
    BY <1>1, ProviderInvariant, PTL DEF Spec, StartsOnFreshCheck

\* A session's request moves only to a fallback its report lists (create,
\* write_provider_capability_report).
THEOREM ReportedFallback == Spec => []FallbackWasReported
  <1>1. Inv => FallbackWasReported
    BY DEF Inv, ReportIsOfCheck, SessionIsReported, RequestShape, FallbackWasReported
  <1> QED
    BY <1>1, ProviderInvariant, PTL

\* A request, and what is left of it when it ended the command: nothing, or one
\* failure, or two.
RequestInv ==
  /\ MovesExactlyWhenItMay
  /\ pc # "idle" /\ asked = "none" => raised = << >>

\* A second failure leaves the first in its place.
LEMMA SecondFailure ==
  ASSUME NEW s \in Seq(Failures), NEW f \in Failures, Len(s) = 1
  PROVE  Len(Append(s, f)) = 2 /\ Append(s, f)[1] = s[1]
  <1>1. Len(Append(s, f)) = Len(s) + 1
    BY AppendProperties
  <1>2. Append(s, f)[1] = s[1]
    OBVIOUS
  <1> QED
    BY <1>1, <1>2

\* Every step keeps what the endpoints raised in step with who is asked.
LEMMA RequestStep == Inv /\ RequestInv /\ [Next]_vars => RequestInv'
  <1> SUFFICES ASSUME Inv, RequestInv, [Next]_vars PROVE RequestInv'
    OBVIOUS
  <1> DEFINE Exactly(c, a, r, p) ==
        LET moves == c.fallback /\ FailsOver(r[1])
        IN  /\ Len(r) <= 2
            /\ a = "primary" => r = << >>
            /\ a = "fallback" => Len(r) = 1 /\ moves
            /\ a = "none" /\ Len(r) = 1 => ~moves
            /\ Len(r) = 2 => moves /\ p = "idle"
            /\ p # "idle" /\ a = "none" => r = << >>
  <1>a. RequestInv <=> Exactly(command, asked, raised, pc)
    BY DEF RequestInv, MovesExactlyWhenItMay
  <1>b. RequestInv' <=> Exactly(command', asked', raised', pc')
    BY DEF RequestInv, MovesExactlyWhenItMay, FailsOver
  <1>c. Exactly(command, asked, raised, pc)
    BY <1>a
  <1> SUFFICES Exactly(command', asked', raised', pc')
    BY <1>b
  <1>1. ASSUME raised' = << >>, asked' # "fallback" PROVE Exactly(command', asked', raised', pc')
    <2>1. Len(raised') = 0
      BY <1>1
    <2> QED
      BY <1>1, <2>1
  <1>2. CASE CheckProvider \/ RunSession
    BY <1>1, <1>2 DEF CheckProvider, RunSession, Begin, Inv, RequestShape
  <1>3. CASE WriteReport \/ TearReport \/ EndCommand \/ Answer
    BY <1>1, <1>3 DEF WriteReport, TearReport, EndCommand, Answer, Leave
  <1>4. CASE AskPrimary
    BY <1>1, <1>4, <1>c DEF AskPrimary
  <1>5. ASSUME NEW f \in Failures, AskFallback(f) PROVE Exactly(command', asked', raised', pc')
    <2>1. /\ raised' = <<f>> /\ asked' = "fallback" /\ command' = command /\ pc' = pc /\ pc # "idle"
          /\ command.fallback /\ FailsOver(f)
      BY <1>5 DEF AskFallback, Inv, RequestShape
    <2>2. Len(raised') = 1 /\ raised'[1] = f
      BY <2>1
    <2> QED
      BY <2>1, <2>2
  <1>6. ASSUME NEW f \in Failures, Raise(f) PROVE Exactly(command', asked', raised', pc')
    <2>1. raised \in Seq(Failures) /\ raised' = Append(raised, f) /\ command' = command
          /\ pc' = "idle" /\ asked' = "none"
      BY <1>6 DEF Raise, Leave, Inv, TypeOK
    <2>2. CASE asked = "primary"
      <3>1. raised' = <<f>> /\ ~(command.fallback /\ FailsOver(f))
        BY <1>6, <1>c, <2>1, <2>2 DEF Raise
      <3>2. Len(raised') = 1 /\ raised'[1] = f
        BY <3>1
      <3> QED
        BY <2>1, <3>1, <3>2
    <2>3. CASE asked = "fallback"
      <3>1. Len(raised) = 1 /\ command.fallback /\ FailsOver(raised[1])
        BY <1>c, <2>3
      <3>2. Len(raised') = 2 /\ raised'[1] = raised[1]
        BY <2>1, <3>1, SecondFailure
      <3> QED
        BY <2>1, <3>1, <3>2
    <2> QED
      BY <1>6, <2>2, <2>3 DEF Raise
  <1>7. CASE Tick \/ (\E c \in Configs : EditConfig(c)) \/ UNCHANGED vars
    BY <1>c, <1>7 DEF Tick, EditConfig, vars
  <1> QED
    BY <1>2, <1>3, <1>4, <1>5, <1>6, <1>7 DEF Next

\* A request is sent to the primary, then to the fallback exactly if it may be,
\* and to nobody else (create).
THEOREM MovesExactly == Spec => []MovesExactlyWhenItMay
  <1>1. Init => RequestInv
    BY DEF Init, RequestInv, MovesExactlyWhenItMay
  <1>2. Inv /\ RequestInv /\ [Next]_vars => RequestInv'
    BY RequestStep
  <1>3. RequestInv => MovesExactlyWhenItMay
    BY DEF RequestInv
  <1> QED
    BY <1>1, <1>2, <1>3, ProviderInvariant, PTL DEF Spec

=============================================================================
