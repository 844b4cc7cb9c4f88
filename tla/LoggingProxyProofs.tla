-------------------------- MODULE LoggingProxyProofs --------------------------
(***************************************************************************)
(* What a proxy's client was given is in the log, a merge finds it, and an *)
(* export is one valid log, for any number of requests, events and tasks.  *)
(***************************************************************************)
EXTENDS LoggingProxyProperties, FiniteSetTheorems, WellFoundedInduction, TLAPS

RequestTypes ==
  /\ step \in [Requests -> {"new", "asked", "answered", "streaming", "closing", "done"}]
  /\ via \in [Requests -> Logs]
  /\ got \in [Requests -> SUBSET Kinds] /\ owed \in [Requests -> SUBSET Kinds]
  /\ given \in [Requests -> SUBSET Kinds]
  /\ fate \in [Requests -> {"open", "closed", "raised", "cut", "killed"}]

LogTypes == logs \in [Logs -> Seq(Lines)]

TypeInv == RequestTypes /\ LogTypes

-----------------------------------------------------------------------------
(* Appending a line.                                                       *)

\* The lines there were keep what they tell; the last of them may turn out to
\* have no end.  The new line tells what it was to tell, whole or glued.
LEMMA AppendedLog ==
  ASSUME NEW log \in Seq(Lines), NEW line \in Lines
  PROVE  LET n   == Len(log)
             new == Appended(log, line)
         IN /\ new \in Seq(Lines) /\ n \in Nat /\ Len(new) = n + 1
            /\ \A i \in 1..n : /\ new[i].id = log[i].id /\ new[i].holds = log[i].holds
                               /\ new[i].form \in {log[i].form, "glued"}
                               /\ new[i].at = log[i].at
            /\ new[n + 1].id = line.id /\ new[n + 1].holds = line.holds
            /\ new[n + 1].at = line.at
<1> DEFINE n == Len(log)
<1>1. CASE ~(log # <<>> /\ Last(log).form \in {"bare", "torn"})
  BY <1>1 DEF Appended
<1>2. CASE log # <<>> /\ Last(log).form \in {"bare", "torn"}
  <2> DEFINE old == [log EXCEPT ![n].form = "glued"]
             end == [line EXCEPT !.form = IF @ = "whole" THEN "glued" ELSE "torn"]
  <2>1. n \in 1..n
    BY <1>2
  <2>2. [log[n] EXCEPT !.form = "glued"] \in Lines
    <3>1. log[n] \in Lines
      BY <2>1
    <3>2. ASSUME NEW l \in Lines PROVE [l EXCEPT !.form = "glued"] \in Lines
      BY DEF Lines, Forms
    <3> QED
      BY <3>1, <3>2
  <2>3. old \in Seq(Lines) /\ Len(old) = n
    BY <2>1, <2>2
  <2>4. end \in Lines /\ end.id = line.id /\ end.holds = line.holds /\ end.at = line.at
    BY DEF Lines, Forms
  <2>5. \A i \in 1..n : /\ old[i].id = log[i].id /\ old[i].holds = log[i].holds
                        /\ old[i].form \in {log[i].form, "glued"}
                        /\ old[i].at = log[i].at
    BY <2>1 DEF Lines
  <2>6. Appended(log, line) = Append(old, end)
    BY <1>2 DEF Appended
  <2> HIDE DEF old, end
  <2> QED
    BY <2>3, <2>4, <2>5, <2>6
<1> QED
  BY <1>1, <1>2

\* An entry is a line.
LEMMA EntryIsLine ==
  ASSUME LogTypes, NEW r \in Requests, NEW kinds \in SUBSET Traces, NEW form \in Forms
  PROVE  Entry(r, kinds, form) \in Lines
<1>1. Now \in Nat
  BY DEF LogTypes, Logs, Proxies, Now
<1> QED
  BY <1>1 DEF Entry, Lines

LEMMA LogKeepsTypes ==
  ASSUME TypeInv, NEW r \in Requests, NEW kinds \in SUBSET Traces, NEW form \in Forms,
         Log(r, kinds, form)
  PROVE  LogTypes'
<1>1. via[r] \in Logs /\ logs[via[r]] \in Seq(Lines)
  BY DEF TypeInv, RequestTypes, LogTypes
<1>2. Appended(logs[via[r]], Entry(r, kinds, form)) \in Seq(Lines)
  BY <1>1, EntryIsLine, AppendedLog DEF TypeInv
<1> QED
  BY <1>2 DEF Log, TypeInv, LogTypes

\* What is left of an answer is what a line can hold.
LEMMA ExtractedTraces ==
  ASSUME RequestTypes, NEW r \in Requests, "null" \notin got[r], NEW kinds \in Extracted(r)
  PROVE  kinds \in SUBSET Traces
  BY DEF RequestTypes, Extracted, Traces, Kinds

\* A request that was cut off while it was logged.
LEMMA CutTraces ==
  ASSUME TypeInv, NEW r \in Requests, NEW kinds \in SUBSET Traces,
         NEW form \in {"bare", "torn"}, CutLog(r, kinds, form)
  PROVE  Finish(r, "cut") /\ Log(r, kinds, form) /\ form \in Forms /\ UNCHANGED <<via, given>>
  BY DEF CutLog, Forms

LEMMA TypeStep == TypeInv /\ [Next]_vars => TypeInv'
<1> SUFFICES ASSUME TypeInv, [Next]_vars PROVE TypeInv'
  OBVIOUS
<1> USE DEF requests, readers
<1>1. ASSUME NEW r \in Requests, Request(r)
      PROVE  TypeInv'
  <2>1. CASE \E p \in Proxies, stream \in BOOLEAN : Arrive(r, p, stream)
    BY <2>1 DEF TypeInv, RequestTypes, LogTypes, Arrive, Go, Logs
  <2>2. CASE NormalFails(r) \/ Respond(r)
    <3>1. RequestTypes /\ LogTypes /\ logs' = logs
      BY <2>2 DEF TypeInv, NormalFails, Respond
    <3>2. CASE NormalFails(r)
      BY <3>1, <3>2 DEF TypeInv, RequestTypes, LogTypes, NormalFails, Finish, Go
    <3>3. CASE Respond(r)
      BY <3>1, <3>3 DEF TypeInv, RequestTypes, LogTypes, Respond, Finish, Go
    <3> QED
      BY <2>2, <3>2, <3>3
  <2>3. CASE Yield(r) \/ StreamStops(r)
    <3>1. CASE Yield(r)
      BY <3>1 DEF TypeInv, RequestTypes, LogTypes, Yield
    <3>2. CASE StreamStops(r)
      BY <3>2 DEF TypeInv, RequestTypes, LogTypes, StreamStops, Go
    <3> QED
      BY <2>3, <3>1, <3>2
  <2>4. CASE LogStream(r)
    <3>1. RequestTypes'
      BY <2>4 DEF TypeInv, RequestTypes, LogStream, Finish, Go
    <3>2. LogTypes'
      BY <2>4, ExtractedTraces, LogKeepsTypes DEF TypeInv, LogTypes, LogStream, Forms
    <3> QED
      BY <3>1, <3>2 DEF TypeInv
  <2>5. ASSUME NEW kinds \in SUBSET Traces, NormalAnswers(r, kinds) \/ SessionLogs(r, kinds)
        PROVE  TypeInv'
    <3>1. RequestTypes'
      BY <2>5 DEF TypeInv, RequestTypes, NormalAnswers, SessionLogs, Finish, Go, Traces
    <3>2. LogTypes'
      BY <2>5, LogKeepsTypes DEF NormalAnswers, SessionLogs, Forms
    <3> QED
      BY <3>1, <3>2 DEF TypeInv
  <2>6. CASE \E k \in Kinds : Collect(r, k)
    BY <2>6 DEF TypeInv, RequestTypes, LogTypes, Collect
  <2>7. ASSUME NEW kinds \in SUBSET Traces, NEW form \in {"bare", "torn"}, CutLog(r, kinds, form)
        PROVE  TypeInv'
    <3>1. RequestTypes'
      BY <2>7, CutTraces DEF TypeInv, RequestTypes, Finish, Go
    <3>2. LogTypes'
      BY <2>7, CutTraces, LogKeepsTypes
    <3> QED
      BY <3>1, <3>2 DEF TypeInv
  <2> QED
    BY <1>1, <2>1, <2>2, <2>3, <2>4, <2>5, <2>6, <2>7 DEF Request
<1>2. CASE \E p \in Proxies : KillProxy(p)
  BY <1>2 DEF TypeInv, RequestTypes, LogTypes, KillProxy
<1>3. CASE Reader
  BY <1>3 DEF TypeInv, RequestTypes, LogTypes, Reader, MergeFirst, MergeSecond, ExportReads,
              ExportBegins, ExportWrites, CutExport
<1>4. CASE UNCHANGED vars
  BY <1>4 DEF vars, TypeInv, RequestTypes, LogTypes
<1> QED
  BY <1>1, <1>2, <1>3, <1>4 DEF Next

LEMMA TypeInit == Init => TypeInv
  BY DEF Init, TypeInv, RequestTypes, LogTypes, Logs, Kinds

LEMMA Typed == Spec => []TypeInv
  BY TypeInit, TypeStep, PTL DEF Spec

-----------------------------------------------------------------------------
(* What was given is logged.                                               *)

\* A line of the request tells these kinds, or was glued to a line before it.
Told(r, kinds) ==
  \E i \in LinesOf(r, via[r]) :
    logs[via[r]][i].form = "glued" \/ kinds \subseteq logs[via[r]][i].holds

LinesFor(r) ==
  \A l \in Logs :
    /\ step[r] \in {"new", "asked", "streaming", "closing"} => LinesOf(r, l) = {}
    /\ LinesOf(r, l) # {} => l = via[r]
    /\ \A i, j \in LinesOf(r, l) : i = j

GivenFor(r) ==
  /\ step[r] # "done" => fate[r] = "open"
  /\ step[r] \in {"new", "asked", "answered"} => given[r] = {}
  /\ step[r] \in {"streaming", "closing"} => given[r] \union owed[r] \subseteq got[r]
  /\ step[r] \in {"new", "asked"} => owed[r] = {} /\ got[r] = {}
  /\ step[r] = "answered" /\ got[r] # {} => Told(r, got[r])
  /\ fate[r] = "closed" /\ given[r] \ {"split"} # {} => Told(r, given[r] \ {"split"})

LinesInv == \A r \in Requests : LinesFor(r)

GivenInv == \A r \in Requests : GivenFor(r)

LogInv == LinesInv /\ GivenInv

\* Logging adds one line to one log, and takes none from another request.
OneMore(r, kinds) ==
  /\ kinds = {} => \A l \in Logs : LinesOf(r, l)' = {}
  /\ \A l \in Logs : l # via[r] => LinesOf(r, l)' = {}
  /\ \A l \in Logs : l = via[r] /\ kinds # {} => LinesOf(r, l)' = {Len(logs[l]) + 1}
  /\ kinds # {} => logs'[via[r]][Len(logs[via[r]]) + 1].holds = kinds

NoneLost(r) ==
  \A q \in Requests, l \in Logs :
    /\ q # r => LinesOf(q, l)' = LinesOf(q, l)
    /\ \A i \in LinesOf(q, l) : /\ logs'[l][i].holds = logs[l][i].holds
                                  /\ logs'[l][i].form \in {logs[l][i].form, "glued"}

LEMMA LogEffect ==
  ASSUME TypeInv, NEW r \in Requests, NEW kinds \in SUBSET Traces, NEW form \in Forms,
         Log(r, kinds, form), \A l \in Logs : LinesOf(r, l) = {}
  PROVE  OneMore(r, kinds) /\ NoneLost(r)
<1> USE DEF OneMore, NoneLost
<1>0. PICK v \in Logs : v = via[r]
  BY DEF TypeInv, RequestTypes
<1> DEFINE n == Len(logs[v])
           line == Entry(r, kinds, form)
<1>1. logs \in [Logs -> Seq(Lines)] /\ logs[v] \in Seq(Lines) /\ n \in Nat
  BY DEF TypeInv, RequestTypes, LogTypes
<1>2. CASE kinds = {}
  <2>1. logs' = logs
    BY <1>2 DEF Log
  <2> QED
    BY <2>1, <1>2 DEF LinesOf
<1>3. CASE kinds # {}
  <2>1. logs' = [logs EXCEPT ![v] = Appended(logs[v], line)]
    BY <1>0, <1>3 DEF Log
  <2>2. line \in Lines /\ line.id = r /\ line.holds = kinds
    BY EntryIsLine DEF TypeInv, Entry
  <2>3. /\ logs'[v] \in Seq(Lines) /\ Len(logs'[v]) = n + 1
        /\ \A i \in 1..n : /\ logs'[v][i].id = logs[v][i].id
                            /\ logs'[v][i].holds = logs[v][i].holds
                            /\ logs'[v][i].form \in {logs[v][i].form, "glued"}
        /\ logs'[v][n + 1].id = r /\ logs'[v][n + 1].holds = kinds
    <3> DEFINE new == Appended(logs[v], line)
    <3>1. logs'[v] = new
      BY <1>1, <2>1
    <3>2. /\ new \in Seq(Lines) /\ Len(new) = n + 1
          /\ \A i \in 1..n : /\ new[i].id = logs[v][i].id
                              /\ new[i].holds = logs[v][i].holds
                              /\ new[i].form \in {logs[v][i].form, "glued"}
          /\ new[n + 1].id = line.id /\ new[n + 1].holds = line.holds
      <4>1. logs[v] \in Seq(Lines) /\ line \in Lines
        BY <1>1, <2>2
      <4> HIDE DEF line
      <4>2. new \in Seq(Lines) /\ Len(new) = n + 1
        BY <4>1, AppendedLog
      <4>3. \A i \in 1..n : /\ new[i].id = logs[v][i].id /\ new[i].holds = logs[v][i].holds
                            /\ new[i].form \in {logs[v][i].form, "glued"}
                            /\ new[i].at = logs[v][i].at
        BY <4>1, AppendedLog, Zenon
      <4>4. new[n + 1].id = line.id /\ new[n + 1].holds = line.holds
        BY <4>1, AppendedLog
      <4> QED
        BY <4>2, <4>3, <4>4
    <3> HIDE DEF new, line
    <3> QED
      BY <2>2, <3>1, <3>2
  <2>4. \A l \in Logs \ {v} : logs'[l] = logs[l]
    BY <1>1, <2>1
  <2>5. DOMAIN logs[v] = 1..n /\ DOMAIN logs'[v] = 1..(n + 1)
    BY <1>1, <2>3
  <2>6. \A q \in Requests, l \in Logs \ {v} : LinesOf(q, l)' = LinesOf(q, l)
    BY <2>4 DEF LinesOf
  <2>10. \A q \in Requests : /\ LinesOf(q, v) = {i \in 1..n : logs[v][i].id = q}
                             /\ LinesOf(q, v)' = {i \in 1..(n + 1) : logs'[v][i].id = q}
    BY <2>5 DEF LinesOf
  <2>7. ASSUME NEW q \in Requests, q # r
        PROVE  LinesOf(q, v)' = LinesOf(q, v)
    <3>1. \A i \in 1..(n + 1) : i \in 1..n \/ i = n + 1
      BY <1>1
    <3>2. 1..n \subseteq 1..(n + 1)
      BY <1>1
    <3>3. \A i \in 1..n : logs'[v][i].id = logs[v][i].id
      BY <2>3
    <3>4. logs'[v][n + 1].id # q
      BY <2>3, <2>7
    <3>5. /\ LinesOf(q, v) = {i \in 1..n : logs[v][i].id = q}
          /\ LinesOf(q, v)' = {i \in 1..(n + 1) : logs'[v][i].id = q}
      BY <2>10
    <3> HIDE DEF n
    <3> QED
      BY <3>1, <3>2, <3>3, <3>4, <3>5
  <2>8. LinesOf(r, v)' = {n + 1}
    <3>1. \A i \in 1..n : logs[v][i].id # r
      BY <1>1, <2>10
    <3>2. \A i \in 1..(n + 1) : i \in 1..n \/ i = n + 1
      BY <1>1
    <3>3. n + 1 \in 1..(n + 1)
      BY <1>1
    <3> HIDE DEF n
    <3> QED
      BY <2>3, <2>10, <3>1, <3>2, <3>3
  <2>9. \A q \in Requests, l \in Logs : \A i \in LinesOf(q, l) :
          /\ logs'[l][i].holds = logs[l][i].holds
          /\ logs'[l][i].form \in {logs[l][i].form, "glued"}
    BY <2>3, <2>4, <2>5 DEF LinesOf
  <2>11. \A l \in Logs : l # v => LinesOf(r, l)' = {}
    BY <2>6
  <2>12. \A q \in Requests, l \in Logs : q # r => LinesOf(q, l)' = LinesOf(q, l)
    BY <2>6, <2>7
  <2> QED
    BY <1>0, <1>3, <2>3, <2>8, <2>9, <2>11, <2>12
<1> QED
  BY <1>2, <1>3

\* What others were told stays told.
LEMMA ToldStays ==
  ASSUME TypeInv, NEW q \in Requests, NEW kinds, Told(q, kinds), via'[q] = via[q],
         LinesOf(q, via[q])' = LinesOf(q, via[q]),
         \A i \in LinesOf(q, via[q]) :
           /\ logs'[via[q]][i].holds = logs[via[q]][i].holds
           /\ logs'[via[q]][i].form \in {logs[via[q]][i].form, "glued"}
  PROVE  Told(q, kinds)'
<1>1. PICK i \in LinesOf(q, via[q]) :
        logs[via[q]][i].form = "glued" \/ kinds \subseteq logs[via[q]][i].holds
  BY DEF Told
<1>2. i \in LinesOf(q, via[q])'
  BY <1>1
<1>3. logs'[via'[q]][i].form = "glued" \/ kinds \subseteq logs'[via'[q]][i].holds
  BY <1>1
<1> QED
  BY <1>2, <1>3 DEF Told

\* The request that moves is r; the others keep their lines and their state.
LEMMA OthersStay ==
  ASSUME TypeInv, LogInv, NEW r \in Requests, NEW kinds \in SUBSET Traces, NEW form \in Forms,
         Log(r, kinds, form), \A l \in Logs : LinesOf(r, l) = {},
         NEW q \in Requests, q # r,
         step'[q] = step[q], via'[q] = via[q], got'[q] = got[q], owed'[q] = owed[q],
         given'[q] = given[q], fate'[q] = fate[q]
  PROVE  LinesFor(q)' /\ GivenFor(q)'
<1>1. via[q] \in Logs
  BY DEF TypeInv, RequestTypes
<1>2. /\ \A l \in Logs : LinesOf(q, l)' = LinesOf(q, l)
      /\ \A l \in Logs : \A i \in LinesOf(q, l) :
           /\ logs'[l][i].holds = logs[l][i].holds
           /\ logs'[l][i].form \in {logs[l][i].form, "glued"}
  <2>1. NoneLost(r)
    BY LogEffect
  <2> QED
    BY <2>1 DEF NoneLost
<1>3. LinesFor(q) /\ GivenFor(q)
  BY DEF LogInv, LinesInv, GivenInv
<1>4. LinesFor(q)'
  BY <1>2, <1>3 DEF LinesFor
<1>5. LinesOf(q, via[q])' = LinesOf(q, via[q])
  <2>1. PICK v \in Logs : v = via[q]
    BY <1>1
  <2>2. LinesOf(q, v)' = LinesOf(q, v)
    BY <1>2
  <2> QED
    BY <2>1, <2>2
<1>6. \A kinds_ : Told(q, kinds_) => Told(q, kinds_)'
  BY <1>1, <1>2, <1>5, ToldStays
<1>7. GivenFor(q)'
  BY <1>3, <1>6 DEF GivenFor
<1> QED
  BY <1>4, <1>7

\* A request that takes no line leaves what every other was told.
LEMMA QuietStep ==
  ASSUME LogInv, UNCHANGED logs, NEW q \in Requests,
         step'[q] = step[q], via'[q] = via[q], got'[q] = got[q], owed'[q] = owed[q],
         given'[q] = given[q], fate'[q] = fate[q]
  PROVE  LinesFor(q)' /\ GivenFor(q)'
<1>1. LinesFor(q) /\ GivenFor(q)
  BY DEF LogInv, LinesInv, GivenInv
<1> QED
  BY <1>1 DEF LinesFor, GivenFor, Told, LinesOf

\* What r has after it logged: one line that tells the kinds, or none.
LEMMA ToldNow ==
  ASSUME TypeInv, NEW r \in Requests, NEW kinds \in SUBSET Traces, NEW form \in Forms,
         Log(r, kinds, form), \A l \in Logs : LinesOf(r, l) = {},
         via' = via, step'[r] \in {"answered", "done"}
  PROVE  LinesFor(r)' /\ (kinds # {} => Told(r, kinds)')
<1>0. OneMore(r, kinds)
  BY LogEffect
<1>1. PICK v \in Logs : v = via[r]
  BY DEF TypeInv, RequestTypes
<1>2. /\ kinds = {} => \A l \in Logs : LinesOf(r, l)' = {}
      /\ \A l \in Logs : l # v => LinesOf(r, l)' = {}
      /\ kinds # {} => LinesOf(r, v)' = {Len(logs[v]) + 1}
      /\ kinds # {} => logs'[v][Len(logs[v]) + 1].holds = kinds
  BY <1>0, <1>1 DEF OneMore
<1>3. LinesFor(r)'
  BY <1>1, <1>2 DEF LinesFor
<1>4. ASSUME kinds # {} PROVE Told(r, kinds)'
  <2>1. LinesOf(r, via[r])' = LinesOf(r, v)'
    BY <1>1
  <2> QED
    BY <1>1, <1>2, <1>4, <2>1 DEF Told
<1> QED
  BY <1>3, <1>4

LEMMA LogStep == TypeInv /\ LogInv /\ [Next]_vars => LogInv'
<1> SUFFICES ASSUME TypeInv, LogInv, [Next]_vars PROVE LogInv'
  OBVIOUS
<1> USE DEF requests
<1>0. ASSUME NEW r \in Requests PROVE LinesFor(r) /\ GivenFor(r)
  BY DEF LogInv, LinesInv, GivenInv
<1>1. ASSUME NEW r \in Requests, Request(r)
      PROVE  LogInv'
  <2> SUFFICES ASSUME NEW q \in Requests PROVE LinesFor(q)' /\ GivenFor(q)'
    BY DEF LogInv, LinesInv, GivenInv
  <2>0. LinesFor(r) /\ GivenFor(r) /\ RequestTypes
    BY <1>0 DEF TypeInv
  <2>1. ASSUME NEW p \in Proxies, NEW stream \in BOOLEAN, Arrive(r, p, stream)
        PROVE  LinesFor(q)' /\ GivenFor(q)'
    <3>1. CASE q # r
      BY <2>0, <2>1, <3>1, QuietStep DEF Arrive, Go, At, RequestTypes
    <3>2. CASE q = r
      BY <2>0, <2>1, <3>2 DEF Arrive, Go, At, RequestTypes, LinesFor, GivenFor, LinesOf
    <3> QED
      BY <3>1, <3>2
  <2>2. CASE NormalFails(r) \/ Respond(r)
    <3>1. CASE q # r
      BY <2>0, <2>2, <3>1, QuietStep DEF NormalFails, Respond, Finish, Go, At, RequestTypes
    <3>2. CASE q = r
      <4>1. LinesFor(r)'
        BY <2>0, <2>2 DEF NormalFails, Respond, Finish, Go, At, RequestTypes, LinesFor, LinesOf
      <4>2. ASSUME NormalFails(r) PROVE GivenFor(r)'
        <5>1. /\ step'[r] = "done" /\ given'[r] = given[r] /\ given[r] = {}
          BY <2>0, <4>2 DEF NormalFails, Finish, Go, At, RequestTypes, GivenFor
        <5> QED
          BY <5>1 DEF GivenFor
      <4>3. ASSUME Respond(r) PROVE GivenFor(r)'
        <5>1. /\ step'[r] = "done" /\ given'[r] \in {{}, got[r]}
              /\ UNCHANGED <<via, logs>> /\ (got[r] # {} => Told(r, got[r]))
          BY <2>0, <4>3 DEF Respond, Finish, Go, At, RequestTypes, GivenFor
        <5>2. given'[r] \ {"split"} # {} => Told(r, given'[r] \ {"split"})
          BY <5>1 DEF Told
        <5> QED
          <6>1. ASSUME given'[r] \ {"split"} # {}
                PROVE  Told(r, given[r] \ {"split"})'
            BY <5>1, <5>2, <6>1 DEF Told, LinesOf
          <6> QED
            BY <5>1, <6>1 DEF GivenFor
      <4> QED
        BY <2>2, <3>2, <4>1, <4>2, <4>3
    <3> QED
      BY <3>1, <3>2
  <2>3. CASE Yield(r) \/ StreamStops(r) \/ \E k \in Kinds : Collect(r, k)
    <3>1. CASE q # r
      BY <2>0, <2>3, <3>1, QuietStep DEF Yield, StreamStops, Collect, Go, At, RequestTypes
    <3>2. CASE q = r
      BY <2>0, <2>3, <3>2 DEF Yield, StreamStops, Collect, Go, At, RequestTypes, LinesFor, GivenFor,
                              LinesOf
    <3> QED
      BY <3>1, <3>2
  <2>4. ASSUME NEW kinds \in SUBSET Traces, NEW form \in Forms, Log(r, kinds, form),
               \A l \in Logs : LinesOf(r, l) = {}, via' = via,
               \A p \in Requests \ {r} : /\ step'[p] = step[p] /\ got'[p] = got[p]
                                        /\ owed'[p] = owed[p] /\ given'[p] = given[p]
                                        /\ fate'[p] = fate[p],
               step'[r] \in {"answered", "done"}, GivenFor(r)'
        PROVE  LinesFor(q)' /\ GivenFor(q)'
    <3>1. CASE q # r
      BY <2>4, <3>1, OthersStay
    <3>2. CASE q = r
      BY <2>4, <3>2, ToldNow
    <3> QED
      BY <3>1, <3>2
  <2>5. ASSUME NEW kinds \in SUBSET Traces, NormalAnswers(r, kinds)
        PROVE  LinesFor(q)' /\ GivenFor(q)'
    <3>1. /\ \A l \in Logs : LinesOf(r, l) = {}
          /\ Log(r, kinds, "whole") /\ via' = via /\ step'[r] = "answered" /\ got'[r] = kinds
          /\ given[r] = {} /\ fate[r] = "open" /\ UNCHANGED <<given, fate, owed>>
      BY <2>0, <2>5 DEF NormalAnswers, Go, At, RequestTypes, LinesFor, GivenFor
    <3>2. kinds # {} => Told(r, kinds)'
      BY <3>1, ToldNow DEF Forms
    <3>3. GivenFor(r)'
      BY <3>1, <3>2 DEF GivenFor, Told
    <3> QED
      BY <2>0, <2>4, <2>5, <3>1, <3>3 DEF NormalAnswers, Go, At, RequestTypes, Forms
  <2>6. CASE LogStream(r)
    <3>1. CASE "null" \in got[r]
      <4>1. CASE q # r
        BY <2>0, <2>6, <3>1, <4>1, QuietStep DEF LogStream, Finish, Go, At, RequestTypes
      <4>2. CASE q = r
        BY <2>0, <2>6, <3>1, <4>2 DEF LogStream, Finish, Go, At, RequestTypes, LinesFor, GivenFor,
                                      LinesOf
      <4> QED
        BY <4>1, <4>2
    <3>2. CASE "null" \notin got[r]
      <4>1. PICK kinds \in Extracted(r) : Log(r, kinds, "whole")
        BY <2>6, <3>2 DEF LogStream
      <4>2. kinds \in SUBSET Traces /\ "whole" \in Forms
        BY <2>0, <3>2, <4>1, ExtractedTraces DEF Forms
      <4>3. /\ \A l \in Logs : LinesOf(r, l) = {}
            /\ via' = via /\ step'[r] = "done" /\ given' = given
            /\ given[r] \ {"split"} \subseteq kinds
        BY <2>0, <2>6, <3>2, <4>1 DEF LogStream, Finish, Go, At, RequestTypes, LinesFor, GivenFor,
                                      Extracted
      <4>4. kinds # {} => Told(r, kinds)'
        BY <4>1, <4>2, <4>3, ToldNow
      <4>5. GivenFor(r)'
        BY <4>3, <4>4 DEF GivenFor, Told
      <4> QED
        BY <2>0, <2>4, <2>6, <3>2, <4>1, <4>2, <4>3, <4>5 DEF LogStream, Finish, Go, RequestTypes
    <3> QED
      BY <3>1, <3>2
  <2>7. ASSUME NEW kinds \in SUBSET Traces, SessionLogs(r, kinds)
        PROVE  LinesFor(q)' /\ GivenFor(q)'
    <3>1. /\ \A l \in Logs : LinesOf(r, l) = {}
          /\ Log(r, kinds, "whole") /\ via' = via /\ step'[r] = "done"
          /\ given' = given /\ given[r] = {}
      BY <2>0, <2>7 DEF SessionLogs, Finish, Go, At, RequestTypes, LinesFor, GivenFor
    <3>2. GivenFor(r)'
      BY <3>1 DEF GivenFor
    <3> QED
      BY <2>0, <2>4, <2>7, <3>1, <3>2 DEF SessionLogs, Finish, Go, RequestTypes, Forms
  <2>8. ASSUME NEW kinds \in SUBSET Traces, NEW form \in {"bare", "torn"}, CutLog(r, kinds, form)
        PROVE  LinesFor(q)' /\ GivenFor(q)'
    <3>1. /\ Finish(r, "cut") /\ Log(r, kinds, form) /\ form \in Forms
          /\ UNCHANGED <<via, given>>
      BY <2>8, CutTraces
    <3>2. \A l \in Logs : LinesOf(r, l) = {}
      BY <2>0, <2>8 DEF CutLog, Logging, At, LinesFor
    <3>3. step'[r] = "done" /\ fate'[r] = "cut"
      BY <2>0, <3>1 DEF Finish, Go, RequestTypes
    <3>4. GivenFor(r)'
      BY <3>3 DEF GivenFor
    <3> QED
      BY <2>0, <2>4, <3>1, <3>2, <3>3, <3>4 DEF Finish, Go, RequestTypes
  <2> QED
    BY <1>1, <2>1, <2>2, <2>3, <2>5, <2>6, <2>7, <2>8 DEF Request
<1>2. ASSUME NEW p \in Proxies, KillProxy(p)
      PROVE  LogInv'
  <2> SUFFICES ASSUME NEW q \in Requests PROVE LinesFor(q)' /\ GivenFor(q)'
    BY DEF LogInv, LinesInv, GivenInv
  <2> DEFINE gone == via[q] = p /\ step[q] \notin {"new", "done"}
  <2>1. /\ UNCHANGED <<via, given, logs>>
        /\ gone => step'[q] = "done" /\ fate'[q] = "killed"
        /\ ~gone => /\ step'[q] = step[q] /\ fate'[q] = fate[q]
                    /\ got'[q] = got[q] /\ owed'[q] = owed[q]
    BY <1>2 DEF KillProxy
  <2>2. CASE gone
    <3>1. LinesFor(q)'
      BY <1>0, <2>1, <2>2 DEF LinesFor, LinesOf
    <3>2. GivenFor(q)'
      BY <2>1, <2>2 DEF GivenFor
    <3> QED
      BY <3>1, <3>2
  <2>3. CASE ~gone
    BY <2>1, <2>3, QuietStep
  <2> QED
    BY <2>2, <2>3
<1>3. CASE Reader \/ UNCHANGED vars
  <2>1. UNCHANGED <<requests, logs>>
    BY <1>3 DEF Reader, MergeFirst, MergeSecond, ExportReads, ExportBegins, ExportWrites, CutExport,
                vars
  <2> QED
    BY <1>0, <2>1, QuietStep DEF LogInv, LinesInv, GivenInv
<1> QED
  BY <1>1, <1>2, <1>3 DEF Next

\* A request has at most one line, in its proxy's log, and one that ended
\* without an error or a kill has a line with what its client was given
\* (proxy.py:261, 331).
THEOREM GivenLogged == Spec => []GivenIsLogged
<1>1. Init => LogInv
  BY DEF Init, LogInv, LinesInv, GivenInv, LinesFor, GivenFor, LinesOf
<1>2. TypeInv /\ LogInv => GivenIsLogged
  <2> SUFFICES ASSUME TypeInv, LogInv, NEW r \in Requests
               PROVE  /\ \A l \in Logs : LinesOf(r, l) # {} =>
                                             l = via[r] /\ Cardinality(LinesOf(r, l)) = 1
                      /\ given[r] \ {"split"} # {} /\ fate[r] = "closed" =>
                           Told(r, given[r] \ {"split"})
    BY DEF GivenIsLogged, Told
  <2>1. LinesFor(r) /\ GivenFor(r)
    BY DEF LogInv, LinesInv, GivenInv
  <2>2. ASSUME NEW l \in Logs, LinesOf(r, l) # {}
        PROVE  Cardinality(LinesOf(r, l)) = 1
    <3>1. PICK i : LinesOf(r, l) = {i}
      BY <2>1, <2>2 DEF LinesFor
    <3> QED
      BY <3>1, FS_Singleton
  <2> QED
    BY <2>1, <2>2 DEF LinesFor, GivenFor
<1> QED
  BY <1>1, <1>2, LogStep, Typed, PTL DEF Spec

-----------------------------------------------------------------------------
(* The export.                                                             *)

\* The files of the tasks that are done hold the one content that was read.
ExportInv ==
  /\ export \in [step : {"idle", "valid", "writing", "refused", "exported"}, source : Logs,
                 content : Seq(Lines), left : SUBSET Tasks, tasks : SUBSET Tasks]
  /\ files \in [Tasks -> Seq(Lines) \cup {Cut}]
  /\ export.step \in {"valid", "writing", "exported"} => export.left \subseteq export.tasks
  /\ export.step = "valid" => export.left = export.tasks
  /\ export.step = "exported" => export.left = {}
  /\ export.step \in {"writing", "exported"} =>
       \A t \in export.tasks \ export.left : files[t] = export.content /\ Valid(files[t])

LEMMA ExportStep == TypeInv /\ ExportInv /\ [Next]_vars => ExportInv'
<1> SUFFICES ASSUME TypeInv, ExportInv, [Next]_vars PROVE ExportInv'
  OBVIOUS
<1> USE DEF ExportInv, requests, readers
<1>1. CASE UNCHANGED readers
  BY <1>1 DEF Valid, AllReadable, ToSet, Readable
<1>2. CASE MergeFirst
  BY <1>2 DEF MergeFirst, NoExport, Logs
<1>3. CASE MergeSecond
  BY <1>3 DEF MergeSecond
<1>4. CASE ExportReads
  BY <1>4 DEF ExportReads, TypeInv, LogTypes
<1>5. CASE \E source \in Sources, tasks \in SUBSET Tasks : ExportBegins(source, tasks)
  BY <1>5, LogsAssumption DEF ExportBegins
<1>6. ASSUME NEW t \in Tasks, ExportWrites(t)
      PROVE  ExportInv'
  <2> DEFINE done == export.tasks \ export.left
  <2>1. /\ files' = [files EXCEPT ![t] = export.content]
        /\ export.step = "writing" /\ t \in export.left
        /\ export'.left = export.left \ {t}
        /\ export'.tasks = export.tasks /\ export'.content = export.content
        /\ export'.step \in {"refused", "exported", "writing"}
        /\ export'.step # "refused" => Valid(export.content)
        /\ export'.step = "exported" => export.left = {t}
        /\ export' \in [step : {"idle", "valid", "writing", "refused", "exported"}, source : Logs,
                        content : Seq(Lines), left : SUBSET Tasks, tasks : SUBSET Tasks]
    BY <1>6 DEF ExportWrites
  <2>2. files' \in [Tasks -> Seq(Lines) \cup {Cut}]
    BY <2>1
  <2>3. ASSUME export'.step # "refused", NEW u \in export'.tasks \ export'.left
        PROVE  files'[u] = export'.content /\ Valid(files'[u])
    BY <2>1, <2>3
  <2>4. Valid(files[t])' = Valid(files'[t])
    BY DEF Valid, AllReadable, ToSet, Readable
  <2> QED
    BY <2>1, <2>2, <2>3
<1>7. CASE \E t \in Tasks : CutExport(t)
  BY <1>7 DEF CutExport, NoExport, Logs
<1>8. ASSUME NEW r \in Requests, Request(r)
      PROVE  UNCHANGED readers
  BY <1>8 DEF Request, Arrive, NormalFails, NormalAnswers, Respond, Collect, Yield, StreamStops,
              LogStream, SessionLogs, CutLog
<1>9. ASSUME NEW p \in Proxies, KillProxy(p)
      PROVE  UNCHANGED readers
  BY <1>9 DEF KillProxy
<1>10. CASE UNCHANGED vars
  BY <1>10, <1>1 DEF vars
<1> QED
  BY <1>1, <1>2, <1>3, <1>4, <1>5, <1>6, <1>7, <1>8, <1>9, <1>10 DEF Next, Reader

\* An export that reports success has written one valid log for all its tasks,
\* however the source grew or was torn meanwhile (log_export.py:76, 80).
THEOREM OneLogExported == Spec => []ExportIsOneLog
<1>1. Init => ExportInv
  BY DEF Init, ExportInv, NoExport, Logs
<1>2. ExportInv => ExportIsOneLog
  BY LogsAssumption DEF ExportInv, ExportIsOneLog
<1> QED
  BY <1>1, <1>2, ExportStep, Typed, PTL DEF Spec

-----------------------------------------------------------------------------
(* Sorting.                                                                *)

\* A set of numbers has a smallest one.
LEMMA HasSmallest ==
  ASSUME NEW S \in SUBSET Nat, S # {}
  PROVE  \E x \in S : \A y \in S : x <= y
<1> DEFINE R == OpToRel(<, Nat)
<1>1. \A x, y \in Nat : <<x, y>> \in R <=> x < y
  BY DEF OpToRel
<1>2. IsWellFoundedOn(R, Nat)
  BY NatLessThanWellFounded
<1>3. PICK x \in S : \A y \in S : ~(<<y, x>> \in R)
  <2> HIDE DEF R
  <2> QED
    BY <1>2, WFMin
<1>4. \A y \in S : ~(y < x)
  BY <1>1, <1>3
<1>5. \A y \in S : x <= y
  BY <1>4
<1> QED
  BY <1>5

\* The first k places of a sorting of n keys: the k smallest, in order.
Sorts(p, k, n, key) ==
  /\ p \in Injection(1..k, 1..n)
  /\ \A i, j \in 1..k : i < j => key[p[i]] <= key[p[j]]
  /\ \A i \in 1..k, x \in 1..n : (\A j \in 1..k : p[j] # x) => key[p[i]] <= key[x]

\* One more place is filled with the smallest key that is left.
LEMMA SortsOneMore ==
  ASSUME NEW n \in Nat, NEW key \in [1..n -> Nat], NEW k \in Nat, k < n,
         NEW p, Sorts(p, k, n, key)
  PROVE  \E q : Sorts(q, k + 1, n, key)
<1> DEFINE rest == {x \in 1..n : \A j \in 1..k : p[j] # x}
<1>1. p \in [1..k -> 1..n] /\ \A i, j \in 1..k : p[i] = p[j] => i = j
  BY DEF Sorts, Injection, IsInjective
<1>2. rest # {}
  <2>1. SUFFICES ASSUME rest = {} PROVE FALSE
    OBVIOUS
  <2>2. \A x \in 1..n : \E j \in 1..k : p[j] = x
    BY <2>1
  <2>3. p \in Surjection(1..k, 1..n)
    BY <1>1, <2>2 DEF Surjection
  <2>4. IsFiniteSet(1..k) /\ Cardinality(1..k) = k /\ Cardinality(1..n) = n
    <3>1. ASSUME NEW m \in Nat
          PROVE  /\ IsFiniteSet(1..m)
                 /\ Cardinality(1..m) = IF 1 > m THEN 0 ELSE m - 1 + 1
      <4>1. 1 \in Int /\ m \in Int
        OBVIOUS
      <4> QED
        BY <4>1, FS_Interval, Zenon
    <3>2. \A m \in Nat : (IF 1 > m THEN 0 ELSE m - 1 + 1) = m
      OBVIOUS
    <3> QED
      BY <3>1, <3>2
  <2>5. Cardinality(1..n) <= Cardinality(1..k)
    BY <2>3, <2>4, FS_Surjection
  <2> QED
    BY <2>4, <2>5
<1>3. PICK c \in rest : \A x \in rest : key[c] <= key[x]
  <2> DEFINE keys == {key[x] : x \in rest}
  <2>1. keys \in SUBSET Nat /\ keys # {}
    BY <1>2
  <2>2. PICK least \in keys : \A y \in keys : least <= y
    <3> HIDE DEF keys
    <3> QED
      BY <2>1, HasSmallest
  <2> QED
    BY <2>2
<1> DEFINE q == [i \in 1..(k + 1) |-> IF i \in 1..k THEN p[i] ELSE c]
<1>4. /\ \A i \in 1..(k + 1) : i \in 1..k \/ i = k + 1
      /\ \A i \in 1..k : i \in 1..(k + 1) /\ q[i] = p[i]
      /\ q[k + 1] = c /\ k + 1 \in 1..(k + 1) /\ c \in 1..n
      /\ \A j \in 1..k : p[j] # c
  OBVIOUS
<1>5. q \in Injection(1..(k + 1), 1..n)
  <2>1. q \in [1..(k + 1) -> 1..n]
    BY <1>1
  <2>2. \A i, j \in 1..(k + 1) : q[i] = q[j] => i = j
    <3> HIDE DEF q, rest
    <3> QED
      BY <1>1, <1>4
  <2> HIDE DEF q
  <2> QED
    BY <2>1, <2>2 DEF Injection, IsInjective
<1>6. \A i \in 1..k : key[p[i]] <= key[c]
  BY <1>4 DEF Sorts
<1> HIDE DEF q
<1>7. ASSUME NEW i \in 1..(k + 1), NEW j \in 1..(k + 1), i < j
      PROVE  key[q[i]] <= key[q[j]]
  <2>1. i \in 1..k
    BY <1>4, <1>7
  <2> QED
    BY <1>4, <1>6, <1>7, <2>1 DEF Sorts
<1>8. ASSUME NEW i \in 1..(k + 1), NEW x \in 1..n, \A j \in 1..(k + 1) : q[j] # x
      PROVE  key[q[i]] <= key[x]
  <2>1. \A j \in 1..k : p[j] # x
    BY <1>4, <1>8
  <2> QED
    BY <1>3, <1>4, <2>1 DEF Sorts
<1>9. Sorts(q, k + 1, n, key)
  BY <1>5, <1>7, <1>8 DEF Sorts
<1> QED
  BY <1>9

\* Whatever the keys, some order of the places sorts them.
LEMMA SortingExists ==
  ASSUME NEW n \in Nat, NEW key \in [1..n -> Nat]
  PROVE  \E p \in Bijection(1..n, 1..n) :
           \A i, j \in 1..n : i < j => key[p[i]] <= key[p[j]]
<1> DEFINE left == {d \in 0..n : \E p : Sorts(p, n - d, n, key)}
<1>1. left \in SUBSET Nat
  OBVIOUS
<1>2. n \in left
  <2>1. <<>> \in Injection(1..0, 1..n)
    BY DEF Injection, IsInjective
  <2>2. Sorts(<<>>, n - n, n, key)
    BY <2>1 DEF Sorts
  <2> QED
    BY <2>2
<1>3. PICK d \in left : \A e \in left : d <= e
  <2> HIDE DEF left
  <2> QED
    BY <1>1, <1>2, HasSmallest
<1>4. PICK p : Sorts(p, n - d, n, key)
  BY <1>3
<1>5. d = 0
  <2>1. SUFFICES ASSUME d # 0 PROVE FALSE
    OBVIOUS
  <2>2. n - d \in Nat /\ n - d < n /\ d - 1 \in 0..n /\ n - (d - 1) = n - d + 1
    BY <1>3, <2>1
  <2>3. \E q : Sorts(q, n - d + 1, n, key)
    BY <1>4, <2>2, SortsOneMore
  <2>4. d - 1 \in left
    BY <2>2, <2>3
  <2>5. d \in 0..n
    BY <1>3
  <2> HIDE DEF left
  <2>6. d <= d - 1
    BY <1>3, <2>4
  <2> QED
    BY <2>5, <2>6
<1>6. Sorts(p, n, n, key)
  BY <1>4, <1>5
<1>7. p \in Injection(1..n, 1..n)
  BY <1>6 DEF Sorts
<1>8. IsFiniteSet(1..n)
  BY FS_Interval
<1>9. p \in Bijection(1..n, 1..n)
  BY <1>7, <1>8, FS_Injection DEF Bijection
<1> QED
  BY <1>6, <1>9 DEF Sorts

\* Sorted lines are the same lines, none later than the next.
LEMMA SortedLines ==
  ASSUME NEW lines \in Seq(Lines)
  PROVE  LET sorted == InTimeOrder(lines)
             n      == Len(lines)
         IN /\ sorted \in Seq(Lines) /\ Len(sorted) = n
            /\ \E p \in [1..n -> 1..n] :
                 /\ \A i, j \in 1..n : p[i] = p[j] => i = j
                 /\ \A i \in 1..n : \E j \in 1..n : p[j] = i
                 /\ \A i \in 1..n : sorted[i] = lines[p[i]]
                 /\ \A i, j \in 1..n : i < j => lines[p[i]].at <= lines[p[j]].at
<1> DEFINE n == Len(lines)
           key == [i \in 1..n |-> lines[i].at]
           order == CHOOSE p \in Bijection(1..n, 1..n) :
                      \A i, j \in 1..n : i < j => lines[p[i]].at <= lines[p[j]].at
<1>1. n \in Nat /\ DOMAIN lines = 1..n /\ \A i \in 1..n : lines[i] \in Lines
  OBVIOUS
<1>2. key \in [1..n -> Nat]
  BY <1>1 DEF Lines
<1>3. PICK p \in Bijection(1..n, 1..n) :
        \A i, j \in 1..n : i < j => key[p[i]] <= key[p[j]]
  <2> HIDE DEF key, n
  <2> QED
    BY <1>1, <1>2, SortingExists
<1>4. \A f \in Bijection(1..n, 1..n) :
        /\ f \in [1..n -> 1..n]
        /\ \A i, j \in 1..n : f[i] = f[j] => i = j
        /\ \A i \in 1..n : \E j \in 1..n : f[j] = i
  BY DEF Bijection, Injection, IsInjective, Surjection
<1>5. \A i, j \in 1..n : i < j => lines[p[i]].at <= lines[p[j]].at
  <2>1. \A i \in 1..n : key[p[i]] = lines[p[i]].at
    <3>1. \A i \in 1..n : p[i] \in 1..n
      BY <1>3, <1>4
    <3> QED
      BY <3>1
  <2> HIDE DEF key, n
  <2> QED
    BY <1>3, <2>1
<1>6. /\ order \in Bijection(1..n, 1..n)
      /\ \A i, j \in 1..n : i < j => lines[order[i]].at <= lines[order[j]].at
  BY <1>3, <1>5
<1>7. InTimeOrder(lines) = [i \in 1..n |-> lines[order[i]]]
  BY <1>1 DEF InTimeOrder
<1> HIDE DEF order
<1>8. \A i \in 1..n : order[i] \in 1..n /\ lines[order[i]] \in Lines
  <2>1. order \in [1..n -> 1..n]
    BY <1>4, <1>6, Zenon
  <2> HIDE DEF n
  <2> QED
    BY <1>1, <2>1
<1> DEFINE sorted == [i \in 1..n |-> lines[order[i]]]
<1>9. sorted \in [1..n -> Lines]
  BY <1>8
<1> HIDE DEF n
<1>10. sorted \in Seq(Lines) /\ Len(sorted) = n /\ \A i \in 1..n : sorted[i] = lines[order[i]]
  BY <1>1, <1>9
<1> HIDE DEF sorted
<1>11. InTimeOrder(lines) = sorted
  BY <1>7 DEF sorted
<1> QED
  BY <1>1, <1>4, <1>6, <1>10, <1>11 DEF n

-----------------------------------------------------------------------------
(* The merge.                                                              *)

\* No two lines of the logs are of the same time, and the clock goes on.
Times ==
  /\ \A l \in Logs : \A i \in 1..Len(logs[l]) : logs[l][i].at < Now
  /\ \A l, m \in Logs : \A i \in 1..Len(logs[l]), j \in 1..Len(logs[m]) :
       logs[l][i].at = logs[m][j].at => l = m /\ i = j

\* A line is written whole, or by a request that is cut.
WrittenAs(line) == line.form # "whole" => line.form # "glued" /\ fate'[line.id] = "cut"

\* A step leaves the logs alone or appends a line of this time to one of
\* them, whole unless the write is cut.
LEMMA LogsGrow ==
  ASSUME TypeInv, [Next]_vars
  PROVE  \/ logs' = logs
         \/ \E v \in Logs, line \in Lines :
              /\ line.at = Now /\ WrittenAs(line)
              /\ logs' = [logs EXCEPT ![v] = Appended(logs[v], line)]
<1> USE DEF requests, readers
<1> DEFINE grows == \/ logs' = logs
                    \/ \E v \in Logs, line \in Lines :
                         /\ line.at = Now /\ WrittenAs(line)
                         /\ logs' = [logs EXCEPT ![v] = Appended(logs[v], line)]
<1>1. ASSUME NEW r \in Requests, NEW kinds \in SUBSET Traces, NEW form \in Forms,
             Log(r, kinds, form), form # "whole" => form # "glued" /\ fate'[r] = "cut"
      PROVE  grows
  <2>1. /\ via[r] \in Logs
        /\ Entry(r, kinds, form) \in Lines /\ Entry(r, kinds, form).at = Now
    BY EntryIsLine DEF TypeInv, RequestTypes, Entry
  <2>2. WrittenAs(Entry(r, kinds, form))
    BY <1>1 DEF WrittenAs, Entry
  <2> QED
    BY <1>1, <2>1, <2>2 DEF Log
<1>2. ASSUME NEW r \in Requests, Request(r)
      PROVE  grows
  <2>1. CASE \/ \E p \in Proxies, stream \in BOOLEAN : Arrive(r, p, stream)
             \/ NormalFails(r) \/ Respond(r) \/ Yield(r) \/ StreamStops(r)
             \/ \E k \in Kinds : Collect(r, k)
    BY <2>1 DEF Arrive, NormalFails, Respond, Yield, StreamStops, Collect
  <2>2. CASE LogStream(r)
    <3>1. CASE "null" \in got[r]
      BY <2>2, <3>1 DEF LogStream
    <3>2. CASE "null" \notin got[r]
      BY <1>1, <2>2, <3>2, ExtractedTraces DEF LogStream, TypeInv, Forms
    <3> QED
      BY <3>1, <3>2
  <2>3. CASE \E kinds \in SUBSET Traces : NormalAnswers(r, kinds) \/ SessionLogs(r, kinds)
    BY <1>1, <2>3 DEF NormalAnswers, SessionLogs, Forms
  <2>4. CASE \E kinds \in SUBSET Traces, form \in {"bare", "torn"} : CutLog(r, kinds, form)
    BY <1>1, <2>4 DEF CutLog, Finish, Forms, TypeInv, RequestTypes
  <2> QED
    BY <1>2, <2>1, <2>2, <2>3, <2>4 DEF Request
<1>3. CASE (\E p \in Proxies : KillProxy(p)) \/ Reader \/ UNCHANGED vars
  BY <1>3 DEF KillProxy, Reader, MergeFirst, MergeSecond, ExportReads, ExportBegins,
              ExportWrites, CutExport, vars
<1> QED
  BY <1>2, <1>3 DEF Next

\* A log keeps its lines, with their times.
LEMMA LinesStay ==
  ASSUME TypeInv, [Next]_vars, NEW l \in Logs
  PROVE  /\ Len(logs[l]) <= Len(logs'[l])
         /\ \A i \in 1..Len(logs[l]) :
              logs'[l][i].id = logs[l][i].id /\ logs'[l][i].at = logs[l][i].at
<1>1. logs \in [Logs -> Seq(Lines)] /\ logs[l] \in Seq(Lines) /\ Len(logs[l]) \in Nat
  BY DEF TypeInv, LogTypes
<1>2. CASE logs' = logs
  BY <1>1, <1>2
<1>3. ASSUME NEW v \in Logs, NEW line \in Lines,
             logs' = [logs EXCEPT ![v] = Appended(logs[v], line)]
      PROVE  /\ Len(logs[l]) <= Len(logs'[l])
             /\ \A i \in 1..Len(logs[l]) :
                  logs'[l][i].id = logs[l][i].id /\ logs'[l][i].at = logs[l][i].at
  <2>1. CASE l = v
    <3> DEFINE new == Appended(logs[l], line)
    <3>1. logs'[l] = new
      BY <1>1, <1>3, <2>1
    <3>2. /\ Len(new) = Len(logs[l]) + 1
          /\ \A i \in 1..Len(logs[l]) : new[i].id = logs[l][i].id /\ new[i].at = logs[l][i].at
      BY <1>1, AppendedLog
    <3> HIDE DEF new
    <3> QED
      BY <1>1, <3>1, <3>2
  <2>2. CASE l # v
    BY <1>1, <1>3, <2>2
  <2> QED
    BY <2>1, <2>2
<1> QED
  BY <1>2, <1>3, LogsGrow

LEMMA TimesStep ==
  ASSUME TypeInv, Times, [Next]_vars
  PROVE  Times'
<1>1. logs \in [Logs -> Seq(Lines)] /\ \A l \in Logs : Len(logs[l]) \in Nat
  BY DEF TypeInv, LogTypes
<1>2. CASE logs' = logs
  <2>1. Now' = Now
    BY <1>2 DEF Now
  <2> QED
    BY <1>2, <2>1 DEF Times
<1>3. ASSUME NEW v \in Logs, NEW line \in Lines, line.at = Now,
             logs' = [logs EXCEPT ![v] = Appended(logs[v], line)]
      PROVE  Times'
  <2> DEFINE n == Len(logs[v])
             new == Appended(logs[v], line)
  <2>1. logs[v] \in Seq(Lines) /\ logs'[v] = new
    BY <1>1, <1>3
  <2>2. /\ n \in Nat /\ Len(logs'[v]) = n + 1 /\ logs'[v][n + 1].at = Now
        /\ \A i \in 1..n : logs'[v][i].at = logs[v][i].at
    <3>1. /\ n \in Nat /\ Len(new) = n + 1 /\ new[n + 1].at = line.at
          /\ \A i \in 1..n : new[i].at = logs[v][i].at
      BY <2>1, AppendedLog
    <3> HIDE DEF new
    <3> QED
      BY <1>3, <2>1, <3>1
  <2>3. \A l \in Logs : l # v => logs'[l] = logs[l]
    BY <1>1, <1>3
  <2>4. Now \in Nat /\ Now' = Now + 1
    <3> DEFINE N(l) == Len(logs[l])
               M(l) == Len(logs'[l])
    <3>1. /\ N("primary") \in Nat /\ N("fallback") \in Nat /\ N("session") \in Nat
          /\ Now = N("primary") + N("fallback") + N("session")
          /\ Now' = M("primary") + M("fallback") + M("session")
      BY <1>1 DEF Now, Logs, Proxies
    <3>2. v \in {"primary", "fallback", "session"} /\ M(v) = N(v) + 1
      BY <2>2 DEF Logs, Proxies
    <3>3. \A l \in {"primary", "fallback", "session"} : l # v => M(l) = N(l)
      BY <2>3 DEF Logs, Proxies
    <3> HIDE DEF N, M
    <3>4. CASE v = "primary"
      BY <3>1, <3>2, <3>3, <3>4
    <3>5. CASE v = "fallback"
      BY <3>1, <3>2, <3>3, <3>5
    <3>6. CASE v = "session"
      BY <3>1, <3>2, <3>3, <3>6
    <3> QED
      BY <3>2, <3>4, <3>5, <3>6
  <2>5. \A l \in Logs : \A i \in 1..Len(logs'[l]) :
          \/ i \in 1..Len(logs[l]) /\ logs'[l][i].at = logs[l][i].at
          \/ l = v /\ i = n + 1 /\ logs'[l][i].at = Now
    <3> HIDE DEF n
    <3>1. \A i \in 1..(n + 1) : i \in 1..n \/ i = n + 1
      BY <2>2
    <3>2. n = Len(logs[v])
      BY DEF n
    <3> QED
      BY <2>2, <2>3, <3>1, <3>2
  <2>6. \A l \in Logs : \A i \in 1..Len(logs[l]) : logs[l][i].at \in Nat /\ logs[l][i].at < Now
    <3>1. \A l \in Logs : \A i \in 1..Len(logs[l]) : logs[l][i] \in Lines
      BY <1>1
    <3> QED
      BY <3>1 DEF Times, Lines
  <2> HIDE DEF n
  <2>7. \A l \in Logs : \A i \in 1..Len(logs'[l]) : logs'[l][i].at < Now'
    <3> TAKE l \in Logs
    <3> TAKE i \in 1..Len(logs'[l])
    <3>1. \/ logs'[l][i].at \in Nat /\ logs'[l][i].at < Now
          \/ logs'[l][i].at = Now
      BY <2>5, <2>6
    <3> QED
      BY <2>4, <3>1
  <2>8. ASSUME NEW l \in Logs, NEW m \in Logs,
               NEW i \in 1..Len(logs'[l]), NEW j \in 1..Len(logs'[m]),
               logs'[l][i].at = logs'[m][j].at
        PROVE  l = m /\ i = j
    <3>1. CASE i \in 1..Len(logs[l]) /\ logs'[l][i].at = logs[l][i].at
      <4>1. CASE j \in 1..Len(logs[m]) /\ logs'[m][j].at = logs[m][j].at
        <5>1. logs[l][i].at = logs[m][j].at
          BY <2>8, <3>1, <4>1
        <5>2. \A a \in 1..Len(logs[l]), b \in 1..Len(logs[m]) :
                logs[l][a].at = logs[m][b].at => l = m /\ a = b
          BY DEF Times
        <5> QED
          BY <3>1, <4>1, <5>1, <5>2
      <4>2. CASE logs'[m][j].at = Now
        <5>1. logs[l][i].at \in Nat /\ logs[l][i].at < Now
          BY <2>6, <3>1, Zenon
        <5>2. logs[l][i].at = Now
          BY <2>8, <3>1, <4>2
        <5> QED
          BY <2>4, <5>1, <5>2
      <4> QED
        BY <2>5, <4>1, <4>2
    <3>2. CASE l = v /\ i = n + 1 /\ logs'[l][i].at = Now
      <4>1. CASE j \in 1..Len(logs[m]) /\ logs'[m][j].at = logs[m][j].at
        BY <2>4, <2>6, <2>8, <3>2, <4>1
      <4>2. CASE m = v /\ j = n + 1
        BY <3>2, <4>2
      <4> QED
        BY <2>5, <4>1, <4>2
    <3> QED
      BY <2>5, <3>1, <3>2
  <2> QED
    BY <2>7, <2>8 DEF Times
<1> QED
  BY <1>2, <1>3, LogsGrow

\* Half a merge has the first lines of the primary log; what it was begun for
\* is among them or in the other log.
MergeInv ==
  /\ merge \in [step : {"idle", "half", "done", "raised"}, lines : Seq(Lines),
                before : SUBSET Lines]
  /\ merge.step = "half" =>
       /\ Len(merge.lines) <= Len(logs["primary"])
       /\ \A i \in 1..Len(merge.lines) : merge.lines[i].at = logs["primary"][i].at
       /\ \A line \in merge.before :
            \/ \E i \in 1..Len(merge.lines) : merge.lines[i].id = line.id
            \/ \E i \in 1..Len(logs["fallback"]) : logs["fallback"][i].id = line.id
  /\ MergeFindsAll

\* What half a merge has stays what it is while others log.
LEMMA HalfStays ==
  ASSUME TypeInv, MergeInv, [Next]_vars, UNCHANGED merge
  PROVE  MergeInv'
<1>1. "primary" \in Logs /\ "fallback" \in Logs
  BY DEF Logs, Proxies
<1>2. /\ logs["primary"] \in Seq(Lines) /\ logs["fallback"] \in Seq(Lines)
      /\ logs'["primary"] \in Seq(Lines) /\ logs'["fallback"] \in Seq(Lines)
  BY <1>1, TypeStep DEF TypeInv, LogTypes
<1>3. merge.lines \in Seq(Lines)
  BY DEF MergeInv
<1>4. ASSUME merge.step = "half", NEW i \in 1..Len(merge.lines)
      PROVE  i \in 1..Len(logs["primary"]) /\ logs'["primary"][i].at = merge.lines[i].at
  <2>1. i \in 1..Len(logs["primary"])
    BY <1>2, <1>3, <1>4 DEF MergeInv
  <2> QED
    BY <1>1, <1>4, <2>1, LinesStay DEF MergeInv
<1>5. \A i \in 1..Len(logs["fallback"]) :
        i \in 1..Len(logs'["fallback"]) /\ logs'["fallback"][i].id = logs["fallback"][i].id
  BY <1>1, <1>2, LinesStay
<1>6. merge.step = "half" => Len(merge.lines) <= Len(logs'["primary"])
  BY <1>1, <1>2, <1>3, LinesStay DEF MergeInv
<1>7. ASSUME merge.step = "half", NEW line \in merge.before
      PROVE  \/ \E i \in 1..Len(merge.lines) : merge.lines[i].id = line.id
             \/ \E i \in 1..Len(logs'["fallback"]) : logs'["fallback"][i].id = line.id
  BY <1>5, <1>7 DEF MergeInv
<1>8. MergeFindsAll'
  BY DEF MergeInv, MergeFindsAll
<1> QED
  BY <1>4, <1>6, <1>7, <1>8 DEF MergeInv

LEMMA MergeBegins ==
  ASSUME TypeInv, MergeFirst
  PROVE  MergeInv'
<1>1. /\ merge'.step \in {"half", "raised"} /\ merge'.lines = logs["primary"]
      /\ merge'.before = ToSet(logs["primary"]) \cup ToSet(logs["fallback"])
      /\ logs' = logs
      /\ merge' = [step |-> merge'.step, lines |-> merge'.lines, before |-> merge'.before]
  BY DEF MergeFirst, requests
<1>2. logs["primary"] \in Seq(Lines) /\ logs["fallback"] \in Seq(Lines)
  BY DEF TypeInv, LogTypes, Logs, Proxies
<1>3. \A log \in Seq(Lines) : \A line \in ToSet(log) :
        line \in Lines /\ \E i \in 1..Len(log) : log[i] = line
  BY DEF ToSet
<1>4. merge'.before \in SUBSET Lines
  BY <1>1, <1>2, <1>3
<1>5. \A line \in merge'.before :
        \/ \E i \in 1..Len(merge'.lines) : merge'.lines[i].id = line.id
        \/ \E i \in 1..Len(logs'["fallback"]) : logs'["fallback"][i].id = line.id
  BY <1>1, <1>2, <1>3
<1>6. Len(merge'.lines) \in Nat
  BY <1>1, <1>2
<1> QED
  BY <1>1, <1>2, <1>4, <1>5, <1>6 DEF MergeInv, MergeFindsAll

LEMMA MergeEnds ==
  ASSUME TypeInv, Times, MergeInv, MergeSecond
  PROVE  MergeInv'
<1> DEFINE mine == merge.lines
           other == logs["fallback"]
           all == mine \o other
           n == Len(all)
           sorted == InTimeOrder(all)
<1>1. mine \in Seq(Lines) /\ other \in Seq(Lines) /\ logs["primary"] \in Seq(Lines)
  BY DEF MergeInv, TypeInv, LogTypes, Logs, Proxies
<1>2. /\ all \in Seq(Lines) /\ n \in Nat /\ n = Len(mine) + Len(other)
      /\ \A i \in 1..Len(mine) : i \in 1..n /\ all[i] = mine[i]
      /\ \A i \in 1..Len(other) : Len(mine) + i \in 1..n /\ all[Len(mine) + i] = other[i]
  <2> HIDE DEF mine, other
  <2> QED
    BY <1>1
<1>3. \A i \in 1..n : \/ i \in 1..Len(mine)
                      \/ i - Len(mine) \in 1..Len(other) /\ Len(mine) + (i - Len(mine)) = i
  <2>1. Len(mine) \in Nat /\ Len(other) \in Nat /\ n = Len(mine) + Len(other)
    BY <1>1, <1>2
  <2> HIDE DEF mine, other, n
  <2> QED
    BY <2>1
<1>4. /\ merge.step = "half" /\ merge'.lines = sorted /\ merge'.before = merge.before
      /\ merge'.step \in {"done", "raised"}
      /\ merge' = [step |-> merge'.step, lines |-> merge'.lines, before |-> merge'.before]
  BY DEF MergeSecond, MergeInv
<1>5. \A i \in 1..n : \/ /\ i \in 1..Len(logs["primary"])
                         /\ i \in 1..Len(mine)
                         /\ all[i].at = logs["primary"][i].at
                      \/ /\ i \notin 1..Len(mine)
                         /\ i - Len(mine) \in 1..Len(other)
                         /\ all[i].at = logs["fallback"][i - Len(mine)].at
  <2>1. \A i \in 1..Len(mine) : i \in 1..Len(logs["primary"]) /\ mine[i].at = logs["primary"][i].at
    BY <1>1, <1>4 DEF MergeInv
  <2>2. \A i \in 1..n : i - Len(mine) \in 1..Len(other) => i \notin 1..Len(mine)
    BY <1>1
  <2> HIDE DEF all, mine, other, n
  <2> QED
    BY <1>2, <1>3, <2>1, <2>2 DEF other
<1>6. \A i, j \in 1..n : all[i].at = all[j].at => i = j
  <2> SUFFICES ASSUME NEW i \in 1..n, NEW j \in 1..n, all[i].at = all[j].at
               PROVE  i = j
    OBVIOUS
  <2>1. "primary" \in Logs /\ "fallback" \in Logs
    BY DEF Logs, Proxies
  <2>2. Len(mine) \in Nat
    BY <1>1
  <2> DEFINE mineAt(k)  == k \in 1..Len(mine) /\ k \in 1..Len(logs["primary"])
                           /\ all[k].at = logs["primary"][k].at
             otherAt(k) == k \notin 1..Len(mine) /\ k - Len(mine) \in 1..Len(logs["fallback"])
                           /\ all[k].at = logs["fallback"][k - Len(mine)].at
  <2>3. (mineAt(i) \/ otherAt(i)) /\ (mineAt(j) \/ otherAt(j))
    BY <1>5
  <2> HIDE DEF all, mine, n
  <2>7. \A l \in {"primary", "fallback"} : \A x, y \in 1..Len(logs[l]) :
          logs[l][x].at = logs[l][y].at => x = y
    BY <2>1 DEF Times
  <2>8. \A x \in 1..Len(logs["primary"]), y \in 1..Len(logs["fallback"]) :
          logs["primary"][x].at # logs["fallback"][y].at
    BY <2>1 DEF Times
  <2>4. CASE mineAt(i) /\ mineAt(j)
    BY <2>4, <2>7
  <2>5. CASE otherAt(i) /\ otherAt(j)
    <3>1. i - Len(mine) = j - Len(mine)
      BY <2>5, <2>7
    <3> QED
      BY <1>2, <2>2, <3>1
  <2>6. ~(mineAt(i) /\ otherAt(j)) /\ ~(otherAt(i) /\ mineAt(j))
    BY <2>8
  <2> QED
    BY <2>3, <2>4, <2>5, <2>6
<1> HIDE DEF all, mine, other, n, sorted
<1>7. PICK p \in [1..n -> 1..n] :
        /\ \A i, j \in 1..n : p[i] = p[j] => i = j
        /\ \A i \in 1..n : \E j \in 1..n : p[j] = i
        /\ \A i \in 1..n : sorted[i] = all[p[i]]
        /\ \A i, j \in 1..n : i < j => all[p[i]].at <= all[p[j]].at
  BY <1>2, SortedLines DEF sorted, n
<1>8. sorted \in Seq(Lines) /\ Len(sorted) = n /\ DOMAIN sorted = 1..n
  BY <1>2, SortedLines DEF sorted, n
<1>9. ASSUME NEW i \in 1..n, NEW j \in 1..n, i < j
      PROVE  sorted[i].at < sorted[j].at
  <2>1. p[i] \in 1..n /\ p[j] \in 1..n /\ p[i] # p[j]
    <3>1. i # j
      BY <1>9
    <3>2. p[i] # p[j]
      BY <1>7, <3>1, Zenon
    <3> QED
      BY <3>2
  <2>2. all[p[i]] \in Lines /\ all[p[j]] \in Lines
    BY <1>2, <2>1 DEF n
  <2>3. all[p[i]].at \in Nat /\ all[p[j]].at \in Nat
    BY <2>2 DEF Lines
  <2>4. all[p[i]].at # all[p[j]].at
    BY <1>6, <2>1
  <2>5. all[p[i]].at <= all[p[j]].at
    BY <1>7, <1>9
  <2>6. all[p[i]].at < all[p[j]].at
    BY <2>3, <2>4, <2>5
  <2>7. sorted[i] = all[p[i]] /\ sorted[j] = all[p[j]]
    BY <1>7
  <2> QED
    BY <2>6, <2>7
<1>10. \A i \in 1..n : all[i] \in ToSet(sorted)
  <2>1. \A j \in 1..n : sorted[j] \in ToSet(sorted)
    BY <1>8 DEF ToSet
  <2> QED
    BY <1>7, <2>1
<1>11. ASSUME NEW line \in merge.before
       PROVE  \E found \in ToSet(sorted) : found.id = line.id
  <2>1. \/ \E i \in 1..Len(mine) : mine[i].id = line.id
        \/ \E i \in 1..Len(other) : other[i].id = line.id
    BY <1>4 DEF MergeInv, mine, other
  <2> QED
    BY <1>2, <1>10, <2>1
<1>12. MergeFindsAll'
  BY <1>4, <1>8, <1>9, <1>11 DEF MergeFindsAll
<1> QED
  BY <1>4, <1>8, <1>12 DEF MergeInv

LEMMA MergeStep ==
  ASSUME TypeInv, Times, MergeInv, [Next]_vars
  PROVE  MergeInv'
<1> USE DEF requests, readers
<1>1. CASE UNCHANGED merge
  BY <1>1, HalfStays
<1>2. CASE MergeFirst
  BY <1>2, MergeBegins
<1>3. CASE MergeSecond
  BY <1>3, MergeEnds
<1>4. CASE merge' = NoMerge
  BY <1>4 DEF NoMerge, MergeInv, MergeFindsAll
<1>5. ASSUME NEW r \in Requests, Request(r)
      PROVE  UNCHANGED merge
  BY <1>5 DEF Request, Arrive, NormalFails, NormalAnswers, Respond, Collect, Yield, StreamStops,
              LogStream, SessionLogs, CutLog
<1>6. CASE \/ \E p \in Proxies : KillProxy(p)
           \/ ExportReads \/ \E t \in Tasks : ExportWrites(t) \/ CutExport(t)
           \/ UNCHANGED vars
  BY <1>1, <1>6 DEF KillProxy, ExportReads, ExportWrites, CutExport, vars
<1>7. CASE \E source \in Sources, tasks \in SUBSET Tasks : ExportBegins(source, tasks)
  BY <1>4, <1>7 DEF ExportBegins
<1> QED
  BY <1>1, <1>2, <1>3, <1>5, <1>6, <1>7 DEF Next, Reader

LEMMA MergeInit == Init => Times /\ MergeInv
  BY DEF Init, Times, MergeInv, MergeFindsAll, NoMerge, Logs, Proxies

LEMMA MergeAlways == Spec => []MergeInv
  BY MergeInit, MergeStep, TimesStep, Typed, PTL DEF Spec

\* A merge that does not raise finds all lines that were there when it began,
\* once and in the order of time, whatever is appended while it reads
\* (proxy_logs.py:73).
THEOREM MergeFinds == Spec => []MergeFindsAll
<1>1. MergeInv => MergeFindsAll
  BY DEF MergeInv
<1> QED
  BY <1>1, MergeAlways, PTL

\* Every variable of the proxies, the logs and their readers keeps its type.
THEOREM LogsTypeCorrect == Spec => []TypeOK
<1>1. Init => ExportInv
  BY DEF Init, ExportInv, NoExport, Logs
<1>2. TypeInv /\ ExportInv /\ MergeInv => TypeOK
  BY DEF TypeInv, RequestTypes, LogTypes, ExportInv, MergeInv, TypeOK
<1> QED
  BY <1>1, <1>2, ExportStep, Typed, MergeAlways, PTL DEF Spec

-----------------------------------------------------------------------------
(* What a cut write does to a log.                                         *)

\* Only a last line without an end changes, and only then is the new line not
\* what was written.
LEMMA AppendedForms ==
  ASSUME NEW log \in Seq(Lines), NEW line \in Lines
  PROVE  LET n   == Len(log)
             new == Appended(log, line)
         IN /\ \A i \in 1..n :
                 \/ new[i] = log[i]
                 \/ /\ i = n /\ log[i].form \in {"bare", "torn"}
                    /\ new[i] = [log[i] EXCEPT !.form = "glued"]
            /\ \/ new[n + 1].form = line.form
               \/ n > 0 /\ log[n].form \in {"bare", "torn"}
            /\ new[n + 1].form \in {"bare", "torn"} => line.form # "whole"
<1> DEFINE n == Len(log)
<1>1. CASE ~(log # <<>> /\ Last(log).form \in {"bare", "torn"})
  BY <1>1 DEF Appended
<1>2. CASE log # <<>> /\ Last(log).form \in {"bare", "torn"}
  <2> DEFINE old == [log EXCEPT ![n].form = "glued"]
             end == [line EXCEPT !.form = IF @ = "whole" THEN "glued" ELSE "torn"]
  <2>1. n \in 1..n /\ n \in Nat /\ n > 0 /\ log[n].form \in {"bare", "torn"} /\ log[n] \in Lines
    BY <1>2 DEF Last
  <2>2. ASSUME NEW l \in Lines PROVE [l EXCEPT !.form = "glued"] \in Lines
    BY DEF Lines, Forms
  <2>3. old \in Seq(Lines) /\ Len(old) = n
    BY <2>1, <2>2
  <2>4. end \in Lines /\ (end.form \in {"bare", "torn"} => line.form # "whole")
    BY DEF Lines, Forms
  <2>5. old[n] = [log[n] EXCEPT !.form = "glued"] /\ \A i \in 1..n : i # n => old[i] = log[i]
    BY <2>1
  <2>6. Appended(log, line) = Append(old, end)
    BY <1>2 DEF Appended
  <2> HIDE DEF old, end
  <2>7. Append(old, end)[n + 1] = end /\ \A i \in 1..n : Append(old, end)[i] = old[i]
    BY <2>3, <2>4
  <2> HIDE DEF n
  <2> QED
    BY <2>1, <2>4, <2>5, <2>6, <2>7 DEF n
<1> QED
  BY <1>1, <1>2

\* Every line stays in its place, unless it is the last and without an end.
THEOREM LinesStayed == Spec => LinesStayInPlace
<1> DEFINE A(l) ==
      /\ Len(logs'[l]) \in {Len(logs[l]), Len(logs[l]) + 1}
      /\ \A i \in DOMAIN logs[l] :
           \/ logs'[l][i] = logs[l][i]
           \/ /\ i = Len(logs[l]) /\ Len(logs'[l]) = i + 1
              /\ logs[l][i].form \in {"bare", "torn"}
              /\ logs'[l][i] = [logs[l][i] EXCEPT !.form = "glued"]
<1>1. ASSUME TypeInv, [Next]_vars, NEW l \in Logs
      PROVE  A(l)
  <2>0. logs \in [Logs -> Seq(Lines)] /\ logs[l] \in Seq(Lines)
    BY <1>1 DEF TypeInv, LogTypes
  <2>1. /\ logs \in [Logs -> Seq(Lines)] /\ logs[l] \in Seq(Lines)
        /\ DOMAIN logs[l] = 1..Len(logs[l]) /\ Len(logs[l]) \in Nat
    BY <2>0
  <2>2. CASE logs'[l] = logs[l]
    BY <2>2
  <2>3. ASSUME NEW line \in Lines, logs'[l] = Appended(logs[l], line)
        PROVE  A(l)
    <3> DEFINE log == logs[l]
               new == Appended(log, line)
    <3>1. Len(new) = Len(log) + 1
      BY <2>1, AppendedLog
    <3>2. \A i \in 1..Len(log) :
            \/ new[i] = log[i]
            \/ /\ i = Len(log) /\ log[i].form \in {"bare", "torn"}
               /\ new[i] = [log[i] EXCEPT !.form = "glued"]
      BY <2>1, AppendedForms
    <3>3. logs'[l] = new
      BY <2>3
    <3> HIDE DEF new
    <3> QED
      BY <2>1, <3>1, <3>2, <3>3
  <2>4. CASE logs' = logs
    BY <2>2, <2>4
  <2>5. ASSUME NEW v \in Logs, NEW line \in Lines, logs' = [logs EXCEPT ![v] = Appended(logs[v], line)]
        PROVE  A(l)
    <3>1. CASE l = v
      BY <2>1, <2>3, <2>5, <3>1
    <3>2. CASE l # v
      BY <2>1, <2>2, <2>5, <3>2
    <3> QED
      BY <3>1, <3>2
  <2> HIDE DEF A
  <2> QED
    BY <1>1, <2>4, <2>5, LogsGrow
<1>2. TypeInv /\ [Next]_vars => [\A l \in Logs : A(l)]_vars
  <2> HIDE DEF A
  <2> QED
    BY <1>1
<1> QED
  BY <1>2, Typed, PTL DEF LinesStayInPlace, Spec

\* A line without an end is of a request that was cut, and what is glued is so
\* by a line that was.
DamageInv ==
  \A l \in Logs : \A i \in 1..Len(logs[l]) :
    /\ logs[l][i].form \in {"bare", "torn"} => fate[logs[l][i].id] = "cut"
    /\ logs[l][i].form # "whole" =>
         \/ fate[logs[l][i].id] = "cut"
         \/ i > 1 /\ fate[logs[l][i - 1].id] = "cut"

\* A request that was cut is done, and stays so.
LEMMA CutStays ==
  ASSUME TypeInv, LogInv, [Next]_vars, NEW q \in Requests, fate[q] = "cut"
  PROVE  fate'[q] = "cut"
<1>1. step[q] = "done"
  BY DEF TypeInv, RequestTypes, LogInv, GivenInv, GivenFor
<1>2. fate \in [Requests -> {"open", "closed", "raised", "cut", "killed"}]
  BY DEF TypeInv, RequestTypes
<1>3. CASE \E r \in Requests : Request(r)
  <2>1. PICK r \in Requests : Request(r)
    BY <1>3
  <2>2. CASE fate' = fate
    BY <2>2
  <2>3. CASE r # q /\ \E how : Finish(r, how)
    BY <1>2, <2>3 DEF Finish
  <2>4. fate' = fate \/ (step[r] # "done" /\ \E how : Finish(r, how))
    BY <2>1 DEF Request, Arrive, NormalFails, NormalAnswers, Respond, Collect, Yield, StreamStops,
                LogStream, SessionLogs, CutLog, Logging, At
  <2> QED
    BY <1>1, <2>2, <2>3, <2>4
<1>4. CASE \E p \in Proxies : KillProxy(p)
  BY <1>1, <1>4 DEF KillProxy
<1>5. CASE Reader \/ UNCHANGED vars
  BY <1>5 DEF Reader, MergeFirst, MergeSecond, ExportReads, ExportBegins, ExportWrites, CutExport,
              requests, vars
<1> QED
  BY <1>3, <1>4, <1>5 DEF Next

LEMMA DamageStep ==
  ASSUME TypeInv, LogInv, DamageInv, [Next]_vars
  PROVE  DamageInv'
<1>1. \A q \in Requests : fate[q] = "cut" => fate'[q] = "cut"
  BY CutStays
<1>2. /\ logs \in [Logs -> Seq(Lines)]
      /\ \A l \in Logs : /\ logs[l] \in Seq(Lines) /\ Len(logs[l]) \in Nat
                         /\ \A i \in 1..Len(logs[l]) : logs[l][i].id \in Requests
  <2>1. logs \in [Logs -> Seq(Lines)]
    BY DEF TypeInv, LogTypes
  <2>2. ASSUME NEW l \in Logs, NEW i \in 1..Len(logs[l]) PROVE logs[l][i].id \in Requests
    <3>1. logs[l] \in Seq(Lines)
      BY <2>1
    <3>2. logs[l][i] \in Lines
      BY <3>1
    <3> QED
      BY <3>2 DEF Lines
  <2> QED
    BY <2>1, <2>2
<1> DEFINE Spoilt(log, f, i) ==
      /\ log[i].form \in {"bare", "torn"} => f[log[i].id] = "cut"
      /\ log[i].form # "whole" => \/ f[log[i].id] = "cut"
                                  \/ i > 1 /\ f[log[i - 1].id] = "cut"
<1>3. ASSUME NEW l \in Logs, logs'[l] = logs[l], NEW i \in 1..Len(logs[l])
      PROVE  Spoilt(logs'[l], fate', i)
  <2>1. i > 1 => i - 1 \in 1..Len(logs[l])
    BY <1>2
  <2> QED
    BY <1>1, <1>2, <1>3, <2>1 DEF DamageInv
<1>4. ASSUME NEW v \in Logs, NEW line \in Lines, WrittenAs(line),
             logs'[v] = Appended(logs[v], line), NEW i \in 1..Len(logs'[v])
      PROVE  Spoilt(logs'[v], fate', i)
  <2> DEFINE log == logs[v]
             new == Appended(log, line)
             n   == Len(log)
  <2>1. log \in Seq(Lines) /\ n \in Nat /\ \A k \in 1..n : log[k].id \in Requests
    BY <1>2
  <2>2. /\ Len(new) = n + 1 /\ new[n + 1].id = line.id
        /\ \A k \in 1..n : new[k].id = log[k].id
    BY <2>1, AppendedLog
  <2>3. /\ \A k \in 1..n : new[k] = log[k] \/ (k = n /\ log[k].form \in {"bare", "torn"})
        /\ new[n + 1].form = line.form \/ (n > 0 /\ log[n].form \in {"bare", "torn"})
        /\ new[n + 1].form \in {"bare", "torn"} => line.form # "whole"
    <3>1. \A k \in 1..n :
            \/ new[k] = log[k]
            \/ /\ k = n /\ log[k].form \in {"bare", "torn"}
               /\ new[k] = [log[k] EXCEPT !.form = "glued"]
      BY <2>1, AppendedForms
    <3>2. /\ \/ new[n + 1].form = line.form
             \/ n > 0 /\ log[n].form \in {"bare", "torn"}
          /\ new[n + 1].form \in {"bare", "torn"} => line.form # "whole"
      BY <2>1, AppendedForms
    <3> HIDE DEF new, n, log
    <3> QED
      BY <3>1, <3>2
  <2>4. \A k \in 1..n : Spoilt(log, fate, k)
    BY DEF DamageInv
  <2>5. line.form # "whole" => fate'[line.id] = "cut"
    BY <1>4 DEF WrittenAs
  <2>6. logs'[v] = new /\ i \in 1..(n + 1)
    BY <1>4, <2>2
  <2> HIDE DEF new, n
  <2>7. CASE i \in 1..n
    <3>1. i > 1 => i - 1 \in 1..n
      BY <2>1, <2>7
    <3>2. log[i].form \in {"bare", "torn"} => fate'[new[i].id] = "cut"
      BY <1>1, <2>1, <2>2, <2>4, <2>7
    <3>3. CASE new[i] = log[i]
      BY <1>1, <2>1, <2>2, <2>4, <2>6, <2>7, <3>1, <3>3
    <3>4. CASE log[i].form \in {"bare", "torn"}
      BY <2>6, <3>2, <3>4
    <3> QED
      BY <2>3, <2>7, <3>3, <3>4
  <2>8. CASE i = n + 1
    <3>1. CASE n > 0 /\ log[n].form \in {"bare", "torn"}
      <4>1. fate'[new[n].id] = "cut" /\ i > 1 /\ i - 1 = n
        <5>1. n \in 1..n
          BY <2>1, <3>1
        <5> QED
          BY <1>1, <2>1, <2>2, <2>4, <2>8, <3>1, <5>1
      <4> QED
        BY <2>2, <2>3, <2>5, <2>6, <2>8, <4>1
    <3>2. CASE new[n + 1].form = line.form
      BY <2>2, <2>5, <2>6, <2>8, <3>2
    <3> QED
      BY <2>3, <3>1, <3>2
  <2> QED
    BY <2>1, <2>6, <2>7, <2>8
<1>5. ASSUME NEW l \in Logs, NEW i \in 1..Len(logs'[l])
      PROVE  Spoilt(logs'[l], fate', i)
  <2>1. CASE logs' = logs
    BY <1>3, <1>5, <2>1
  <2>2. ASSUME NEW v \in Logs, NEW line \in Lines, WrittenAs(line),
               logs' = [logs EXCEPT ![v] = Appended(logs[v], line)]
        PROVE  Spoilt(logs'[l], fate', i)
    <3>1. CASE l = v
      <4>1. logs'[l] = Appended(logs[l], line)
        BY <1>2, <2>2, <3>1
      <4> QED
        BY <1>4, <1>5, <2>2, <4>1
    <3>2. CASE l # v
      <4>1. logs'[l] = logs[l]
        BY <1>2, <2>2, <3>2
      <4> QED
        BY <1>3, <1>5, <4>1
    <3> QED
      BY <3>1, <3>2
  <2> HIDE DEF Spoilt
  <2> QED
    BY <2>1, <2>2, LogsGrow
<1> QED
  BY <1>5 DEF DamageInv

\* One cut write spoils its own line and at most the next, whoever writes it.
THEOREM LocalDamage == Spec => []DamageIsLocal
<1>1. Init => LogInv /\ DamageInv
  BY DEF Init, LogInv, LinesInv, LinesFor, LinesOf, GivenInv, GivenFor, DamageInv
<1>2. TypeInv /\ LogInv /\ [Next]_vars => LogInv'
  BY LogStep
<1>3. TypeInv /\ LogInv /\ DamageInv /\ [Next]_vars => DamageInv'
  BY DamageStep
<1>4. TypeInv /\ DamageInv => DamageIsLocal
  BY DEF TypeInv, LogTypes, DamageInv, DamageIsLocal
<1> QED
  BY <1>1, <1>2, <1>3, <1>4, Typed, PTL DEF Spec

=============================================================================
