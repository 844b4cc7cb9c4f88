-------------------------------- MODULE LlmLogs --------------------------------
(***************************************************************************)
(* The logs of what language models answered, one JSON object a line: how  *)
(* lines are appended, by the proxies of PDEAgent/task_log_sample and by   *)
(* the formal session, and what the readers of cozy_pde_v3 make of them.   *)
(***************************************************************************)
EXTENDS Naturals, Sequences, SequencesExt

CONSTANT Requests

Proxies == {"primary", "fallback"}

\* One file per log. Bound: one day, so one file per proxy.
Logs == Proxies \union {"session"}

\* What the events of an answer hold: text or tool calls; the same with a
\* character that splitlines takes for the end of a line and JSON need not
\* escape (U+2028); thinking; a null where the parser iterates.  Events that
\* leave no trace are left out.
Kinds == {"text", "split", "think", "null"}

Traces == Kinds \ {"null"}

\* "whole"; "bare" without its end of line; "torn" inside, or glued to such a
\* line and without an end; "glued" to a line without an end, or by one.
Forms == {"whole", "bare", "torn", "glued"}

Lines == [id : Requests, holds : SUBSET Traces, form : Forms, at : Nat]

\* The next line goes on where a line without an end stopped.
Appended(log, line) ==
  IF log # <<>> /\ Last(log).form \in {"bare", "torn"}
    THEN Append([log EXCEPT ![Len(log)].form = "glued"],
                [line EXCEPT !.form = IF @ = "whole" THEN "glued" ELSE "torn"])
    ELSE Append(log, line)

\* json.loads takes the line, after splitlines.
Readable(line) == line.form \in {"whole", "bare"} /\ "split" \notin line.holds

AllReadable(log) == \A line \in ToSet(log) : Readable(line)

\* validate_task_log_jsonl: every line has a response or tool calls.
Valid(log) == log # <<>> /\ AllReadable(log) /\ \A line \in ToSet(log) : "text" \in line.holds

=============================================================================
