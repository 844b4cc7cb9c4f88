------------------------ MODULE LoggingProxyProperties ------------------------
(* What the logs have to tell, and what the readers have to find. *)
EXTENDS LoggingProxy

\* Every variable keeps its type (proxy.py, proxy_logs.py, log_export.py).
TypeOK ==
  /\ step \in [Requests -> {"new", "asked", "answered", "streaming", "closing", "done"}]
  /\ via \in [Requests -> Logs]
  /\ got \in [Requests -> SUBSET Kinds] /\ owed \in [Requests -> SUBSET Kinds]
  /\ given \in [Requests -> SUBSET Kinds]
  /\ fate \in [Requests -> {"open", "closed", "raised", "cut", "killed"}]
  /\ logs \in [Logs -> Seq(Lines)]
  /\ merge \in [step : {"idle", "half", "done", "raised"}, lines : Seq(Lines), before : SUBSET Lines]
  /\ export \in [step : {"idle", "valid", "writing", "refused", "exported"}, source : Logs,
                 content : Seq(Lines), left : SUBSET Tasks, tasks : SUBSET Tasks]
  /\ files \in [Tasks -> Seq(Lines) \union {Cut}]

LinesOf(r, l) == {i \in DOMAIN logs[l] : logs[l][i].id = r}

\* A request has at most one line, in the log of its proxy.  When it has ended
\* without an error or a kill, the line tells all that its client was given, but
\* for events split by a character, and unless the line before it was cut
\* (proxy.py:261, 331).
GivenIsLogged ==
  \A r \in Requests :
    /\ \A l \in Logs : LinesOf(r, l) # {} => l = via[r] /\ Cardinality(LinesOf(r, l)) = 1
    /\ given[r] \ {"split"} # {} /\ fate[r] = "closed" =>
         \E i \in LinesOf(r, via[r]) :
           \/ logs[via[r]][i].form = "glued"
           \/ given[r] \ {"split"} \subseteq logs[via[r]][i].holds

\* A merge that does not raise has the lines that were there when it began, no
\* line twice, and all in the order of time, whatever was appended while it read
\* (proxy_logs.py:73).
MergeFindsAll ==
  merge.step = "done" =>
    /\ {line.id : line \in merge.before} \subseteq {line.id : line \in ToSet(merge.lines)}
    /\ \A i, j \in DOMAIN merge.lines : i < j => merge.lines[i].at < merge.lines[j].at

\* An export that reports success has written one valid log for all its tasks,
\* although the source may grow or be torn after it was validated
\* (log_export.py:76, 80).
ExportIsOneLog ==
  export.step = "exported" =>
    \A t, u \in export.tasks : files[t] = files[u] /\ files[t] # Cut /\ Valid(files[t])

\* A log is only appended to, one line a step, and a line keeps its place, its
\* time and what it tells; only the last line can still change, when the next one
\* goes on where it was cut (proxy.py:84).
LinesStayInPlace ==
  [][\A l \in Logs :
       /\ Len(logs'[l]) \in {Len(logs[l]), Len(logs[l]) + 1}
       /\ \A i \in DOMAIN logs[l] :
            \/ logs'[l][i] = logs[l][i]
            \/ /\ i = Len(logs[l]) /\ Len(logs'[l]) = i + 1
               /\ logs[l][i].form \in {"bare", "torn"}
               /\ logs'[l][i] = [logs[l][i] EXCEPT !.form = "glued"]]_vars

\* A cut write spoils at most one line besides its own: a line that is not whole
\* was cut itself, or stands directly behind one that was, however many requests
\* log at the same time (proxy.py:84).
DamageIsLocal ==
  \A l \in Logs : \A i \in DOMAIN logs[l] :
    logs[l][i].form # "whole" =>
      \/ fate[logs[l][i].id] = "cut"
      \/ i > 1 /\ fate[logs[l][i - 1].id] = "cut"

=============================================================================
