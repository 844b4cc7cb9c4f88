----------------------------- MODULE LoggingProxy -----------------------------
(***************************************************************************)
(* Requests that go through the two proxies, several at a time, and turns  *)
(* of the formal session, each to be logged; and the readers of the logs:  *)
(* the merge of the proxies' logs and the export for the submission.       *)
(*                                                                         *)
(* A proxy runs on one event loop: what it does between two awaits is one  *)
(* step.  External: the model's API, the clients, disks and kills.         *)
(***************************************************************************)
EXTENDS LlmLogs

CONSTANTS
  Tasks,
  MaxEvents,    \* bound: kinds of events in one answer
  Sources,      \* bound: the logs that are exported
  Cut           \* an exported log whose write was cut off

ASSUME LogsAssumption == MaxEvents \in Nat /\ Sources \subseteq Logs /\ Cut \notin Seq(Lines)

VARIABLES
  step,         \* per request, where its handler is
  via,          \* the log it is to be in
  got,          \* kinds of events collected of its answer
  owed,         \* of these, the one that was not yielded yet
  given,        \* what its client was given
  fate,         \* how it ended
  logs,
  merge, export,
  files         \* submission/<task>_logs.log

requests == <<step, via, got, owed, given, fate>>
readers == <<merge, export, files>>
vars == <<requests, logs, readers>>

NoMerge == [step |-> "idle", lines |-> <<>>, before |-> {}]
NoExport == [step |-> "idle", source |-> "session", content |-> <<>>, left |-> {}, tasks |-> {}]

Init ==
  /\ step = [r \in Requests |-> "new"] /\ via = [r \in Requests |-> "session"]
  /\ got = [r \in Requests |-> {}] /\ owed = [r \in Requests |-> {}]
  /\ given = [r \in Requests |-> {}] /\ fate = [r \in Requests |-> "open"]
  /\ logs = [l \in Logs |-> <<>>]
  /\ merge = NoMerge /\ export = NoExport
  /\ files = [t \in Tasks |-> <<>>]

-----------------------------------------------------------------------------
(* The handlers of requests. *)

At(r, s) == step[r] = s

Go(r, s) == step' = [step EXCEPT ![r] = s]

\* What the handler collected goes with it.
Finish(r, how) ==
  /\ Go(r, "done") /\ fate' = [fate EXCEPT ![r] = how]
  /\ got' = [got EXCEPT ![r] = {}] /\ owed' = [owed EXCEPT ![r] = {}]

\* The clock of the machine, as far as lines tell.
Now == Len(logs["primary"]) + Len(logs["fallback"]) + Len(logs["session"])

Entry(r, kinds, form) == [id |-> r, holds |-> kinds, form |-> form, at |-> Now]

\* Nothing extracted is not logged.
Log(r, kinds, form) ==
  logs' = IF kinds = {} THEN logs
          ELSE [logs EXCEPT ![via[r]] = Appended(@, Entry(r, kinds, form))]

\* stream says what the request's body asks for.
Arrive(r, p, stream) ==
  /\ At(r, "new") /\ via' = [via EXCEPT ![r] = p]
  /\ Go(r, IF stream THEN "streaming" ELSE "asked")
  /\ UNCHANGED <<got, owed, given, fate, logs, readers>>

\* 502; or 500 for a body with a null for its message.
NormalFails(r) ==
  /\ At(r, "asked") /\ Finish(r, "closed")
  /\ UNCHANGED <<via, given, logs, readers>>

\* The answer is logged before it is forwarded.  Bound: one kind of content.
NormalAnswers(r, kinds) ==
  /\ At(r, "asked") /\ Cardinality(kinds) <= 1 /\ Log(r, kinds, "whole")
  /\ got' = [got EXCEPT ![r] = kinds] /\ Go(r, "answered")
  /\ UNCHANGED <<via, owed, given, fate, readers>>

\* The client may have left.
Respond(r) ==
  /\ At(r, "answered") /\ Finish(r, "closed")
  /\ given' \in {given, [given EXCEPT ![r] = got[r]]}
  /\ UNCHANGED <<via, logs, readers>>

Collect(r, k) ==
  /\ At(r, "streaming") /\ owed[r] = {}
  /\ got' = [got EXCEPT ![r] = @ \union {k}] /\ owed' = [owed EXCEPT ![r] = {k}]
  /\ UNCHANGED <<step, via, given, fate, logs, readers>>

Yield(r) ==
  /\ At(r, "streaming") /\ owed[r] # {}
  /\ given' = [given EXCEPT ![r] = @ \union owed[r]]
  /\ owed' = [owed EXCEPT ![r] = {}]
  /\ UNCHANGED <<step, via, got, fate, logs, readers>>

\* Faulty: the entry is only made when the stream was consumed.
StopsUnlogged(r) ==
  /\ At(r, "streaming")
  /\ \/ Go(r, "closing") /\ owed[r] = {} /\ UNCHANGED <<got, owed, fate>>
     \/ Finish(r, "closed")
  /\ UNCHANGED <<via, given, logs, readers>>

\* The upstream ends or fails, or the client leaves, perhaps before it has the
\* last chunk.
StreamStops(r) ==
  /\ At(r, "streaming") /\ Go(r, "closing")
  /\ owed' = [owed EXCEPT ![r] = {}]
  /\ UNCHANGED <<via, got, given, fate, logs, readers>>

\* Faulty: what was collected is logged whether it was understood or not.
LogAnything(r) ==
  /\ At(r, "closing") /\ Finish(r, "closed") /\ Log(r, got[r], "whole")
  /\ UNCHANGED <<via, given, readers>>

\* An event whose splitting character is not escaped does not parse and is
\* passed over.
Extracted(r) == {got[r], got[r] \ {"split"}}

\* The finally of the stream.  Parsing raises on a null, also when there is text.
LogStream(r) ==
  /\ At(r, "closing")
  /\ IF "null" \in got[r]
       THEN Finish(r, "raised") /\ logs' = logs
       ELSE Finish(r, "closed") /\ \E kinds \in Extracted(r) : Log(r, kinds, "whole")
  /\ UNCHANGED <<via, given, readers>>

\* A turn of the formal session: an answer with neither text nor calls is logged
\* with an empty response.
SessionLogs(r, kinds) ==
  /\ At(r, "new") /\ kinds \in {{"text"}, {"split"}}
  /\ Finish(r, "closed") /\ Log(r, kinds, "whole")
  /\ UNCHANGED <<via, given, readers>>

Logging(r) ==
  \/ At(r, "new") /\ via[r] = "session"
  \/ At(r, "asked")
  \/ At(r, "closing") /\ "null" \notin got[r]

\* The disk is full, or the process is killed while it writes.
CutLog(r, kinds, form) ==
  /\ Logging(r)
  /\ IF At(r, "closing") THEN kinds \in Extracted(r)
                         ELSE Cardinality(kinds) = 1 /\ (At(r, "new") => kinds # {"think"})
  /\ Finish(r, "cut") /\ Log(r, kinds, form)
  /\ UNCHANGED <<via, given, readers>>

KillProxy(p) ==
  LET lost == {r \in Requests : via[r] = p /\ step[r] \notin {"new", "done"}}
  IN  /\ lost # {}
      /\ step' = [r \in Requests |-> IF r \in lost THEN "done" ELSE step[r]]
      /\ fate' = [r \in Requests |-> IF r \in lost THEN "killed" ELSE fate[r]]
      /\ got' = [r \in Requests |-> IF r \in lost THEN {} ELSE got[r]]
      /\ owed' = [r \in Requests |-> IF r \in lost THEN {} ELSE owed[r]]
      /\ UNCHANGED <<via, given, logs, readers>>

-----------------------------------------------------------------------------
(* The readers.  Bound: they run one at a time, next to the requests, and the   *)
(* result of one is forgotten when the other begins.                           *)

NoReader == merge.step # "half" /\ export.step \notin {"valid", "writing"}

\* The entries sorted by their time.
InTimeOrder(lines) ==
  LET places == DOMAIN lines
      order  == CHOOSE p \in Bijection(places, places) :
                  \A i, j \in places : i < j => lines[p[i]].at <= lines[p[j]].at
  IN [i \in places |-> lines[order[i]]]

\* merge_provider_logs reads one log after the other.
MergeFirst ==
  /\ NoReader
  /\ merge' = [step |-> IF AllReadable(logs["primary"]) THEN "half" ELSE "raised",
               lines |-> logs["primary"],
               before |-> ToSet(logs["primary"]) \union ToSet(logs["fallback"])]
  /\ export' = NoExport
  /\ UNCHANGED <<requests, logs, files>>

\* Faulty: the logs are put one behind the other.
MergeUnsorted ==
  /\ merge.step = "half"
  /\ merge' = [merge EXCEPT !.step = IF AllReadable(logs["fallback"]) THEN "done" ELSE "raised",
                            !.lines = @ \o logs["fallback"]]
  /\ UNCHANGED <<requests, logs, export, files>>

MergeSecond ==
  /\ merge.step = "half"
  /\ merge' = [merge EXCEPT !.step = IF AllReadable(logs["fallback"]) THEN "done" ELSE "raised",
                            !.lines = InTimeOrder(@ \o logs["fallback"])]
  /\ UNCHANGED <<requests, logs, export, files>>

\* export_task_logs validates the source and then reads it again.
ExportBegins(source, tasks) ==
  /\ NoReader /\ tasks # {}
  /\ export' = [step |-> IF Valid(logs[source]) THEN "valid" ELSE "refused",
                source |-> source, content |-> <<>>, left |-> tasks, tasks |-> tasks]
  /\ merge' = NoMerge
  /\ UNCHANGED <<requests, logs, files>>

ExportReads ==
  /\ export.step = "valid"
  /\ export' = [export EXCEPT !.step = "writing", !.content = logs[export.source]]
  /\ UNCHANGED <<requests, logs, merge, files>>

\* Faulty: every task is given what the source holds by then.
ExportFresh(t) ==
  /\ export.step = "writing" /\ t \in export.left
  /\ files' = [files EXCEPT ![t] = logs[export.source]]
  /\ export' = [export EXCEPT
       !.left = @ \ {t},
       !.step = IF ~Valid(logs[export.source]) THEN "refused"
                ELSE IF export.left = {t} THEN "exported" ELSE "writing"]
  /\ UNCHANGED <<requests, logs, merge>>

\* Each copy is written in place and validated; the first that is not valid
\* ends the export.
ExportWrites(t) ==
  /\ export.step = "writing" /\ t \in export.left
  /\ files' = [files EXCEPT ![t] = export.content]
  /\ export' = [export EXCEPT
       !.left = @ \ {t},
       !.step = IF ~Valid(export.content) THEN "refused"
                ELSE IF export.left = {t} THEN "exported" ELSE "writing"]
  /\ UNCHANGED <<requests, logs, merge>>

CutExport(t) ==
  /\ export.step = "writing" /\ t \in export.left
  /\ files' = [files EXCEPT ![t] = Cut] /\ export' = NoExport
  /\ UNCHANGED <<requests, logs, merge>>

-----------------------------------------------------------------------------

Request(r) ==
  \/ \E p \in Proxies, stream \in BOOLEAN : Arrive(r, p, stream)
  \/ NormalFails(r) \/ Respond(r) \/ Yield(r) \/ StreamStops(r) \/ LogStream(r)
  \/ \E kinds \in SUBSET Traces : NormalAnswers(r, kinds) \/ SessionLogs(r, kinds)
  \/ \E k \in Kinds : Cardinality(got[r] \union {k}) <= MaxEvents /\ Collect(r, k)
  \/ \E kinds \in SUBSET Traces, form \in {"bare", "torn"} : CutLog(r, kinds, form)

Reader ==
  \/ MergeFirst \/ MergeSecond \/ ExportReads
  \/ \E source \in Sources, tasks \in SUBSET Tasks : ExportBegins(source, tasks)
  \/ \E t \in Tasks : ExportWrites(t) \/ CutExport(t)

Next == (\E r \in Requests : Request(r)) \/ (\E p \in Proxies : KillProxy(p)) \/ Reader

Spec == Init /\ [][Next]_vars

=============================================================================
