------------------------------ MODULE EvalRunner ------------------------------
(***************************************************************************)
(* trace-to-eval run CASES --traces DIR --out OUT: every case of an eval   *)
(* file is checked against the trace it names, and the verdicts are        *)
(* written as a JSON and a Markdown report.                                *)
(*                                                                         *)
(* A case names its trace by file or by id.  An id is looked for in the    *)
(* file called after it and, if there is none, in every file of DIR, in    *)
(* the order in which the file system lists them.  The recorders of        *)
(* traces may go on writing.                                               *)
(*                                                                         *)
(* Abstractions: a trace is the sets of texts its output and its citations *)
(* contain, of tools it called and of effects it had, and its terminal     *)
(* state; files and trace ids have the same names, a file being called     *)
(* after its id plus ".json"; items of the cases list that are no objects, *)
(* which the loader drops, are not in it; a suite is only copied.          *)
(***************************************************************************)
EXTENDS Naturals, Sequences

CONSTANTS
  Names,      \* names of trace files, and trace ids
  CaseIds,    \* case ids
  Texts,      \* texts, tools, effects and states
  Contents,   \* contents a trace file may have
  EvalFiles,  \* eval files a user may run
  None,       \* an absent field
  Missing,    \* a report that was not written
  Truncated,  \* a report whose writing was interrupted
  MaxRuns,    \* bound: runs
  MaxWrites   \* bound: times a trace file is replaced

CheckType ==
  [type : {"contains_required_text", "does_not_contain_text", "citation_span_present",
           "tool_call_allowed", "refusal_required", "terminal_state_matches",
           "no_unexpected_effects", "unknown"},
   values : SUBSET Texts]

Trace ==
  [trace_id : Names, output : SUBSET Texts, citations : SUBSET Texts,
   tool_calls : SUBSET Texts, terminal_state : SUBSET Texts, effects : SUBSET Texts]

\* A broken file is not JSON, or lacks a field of a trace.
Content == [kind : {"absent", "broken", "trace"}, trace : Trace]

Case ==
  [id : CaseIds \cup {None}, trace_file : Names \cup {None},
   trace_id : Names \cup {None}, checks : Seq(CheckType)]

\* A malformed eval file is not YAML; a shapeless one has no list of cases.
EvalFile ==
  [kind : {"absent", "malformed", "shapeless", "cases"}, cases : Seq(Case)]

ASSUME ConstantsAssumption ==
  /\ Contents \subseteq Content /\ EvalFiles \subseteq EvalFile
  /\ None \notin Names
  /\ MaxRuns \in Nat /\ MaxWrites \in Nat

VARIABLES
  file,      \* the directory of traces
  writes,    \* how often a file of it was replaced
  replaced,  \* whether one was since the running command started
  pc,        \* next step of the running command
  eval,      \* its eval file
  gate,      \* whether it is given --fail-on-failure
  todo,      \* files left to search for the current case
  results,   \* verdicts so far
  json,      \* OUT
  markdown,  \* OUT with the suffix .md
  history    \* how the runs ended, and with which verdicts

vars == <<file, writes, replaced, pc, eval, gate, todo, results, json, markdown, history>>

-----------------------------------------------------------------------------
(***************************************************************************)
(* The verdict on a case.                                                  *)
(***************************************************************************)
Holds(t, check) ==
  LET v == check.values
  IN  CASE check.type = "contains_required_text" -> v \subseteq t.output
        [] check.type = "does_not_contain_text"  -> v \cap t.output = {}
        [] check.type = "citation_span_present"  -> v \subseteq t.citations
        [] check.type = "tool_call_allowed"      -> t.tool_calls \subseteq v
        [] check.type = "refusal_required"       -> v \cap t.output # {}
        [] check.type = "terminal_state_matches" -> t.terminal_state = v
        [] check.type = "no_unexpected_effects"  -> t.effects \subseteq v
        [] OTHER -> FALSE

Checkable(c) ==
  /\ c.checks # << >>
  /\ \A i \in DOMAIN c.checks : c.checks[i].type # "unknown"

\* Mutant: the last check decides.
VerdictOfLast(c, t) ==
  [id |-> IF c.id = None THEN t.trace_id ELSE c.id,
   trace_id |-> t.trace_id,
   passed |-> Holds(t, c.checks[Len(c.checks)])]

Verdict(c, t) ==
  [id |-> IF c.id = None THEN t.trace_id ELSE c.id,
   trace_id |-> t.trace_id,
   passed |-> \A i \in DOMAIN c.checks : Holds(t, c.checks[i])]

-----------------------------------------------------------------------------
(***************************************************************************)
(* The command.                                                            *)
(***************************************************************************)
Outcomes == {"ok", "failed", "error", "uncaught", "killed"}

Finish(outcome) ==
  /\ pc' = "idle"
  /\ history' = Append(history, [outcome |-> outcome, results |-> results])

Start(e, strict) ==
  /\ pc = "idle" /\ Len(history) < MaxRuns
  /\ pc' = "load" /\ eval' = e /\ gate' = strict
  /\ todo' = {} /\ results' = << >> /\ replaced' = FALSE
  /\ UNCHANGED <<file, writes, json, markdown, history>>

\* Mutant: goes on after the last case.
NextCaseAlways(done) == IF done <= Len(eval.cases) THEN "find" ELSE "json"

NextCase(done) == IF done < Len(eval.cases) THEN "find" ELSE "json"

\* cli.py:552-558 expects OSError and YAMLError, and no other exception.
LoadCases ==
  /\ pc = "load"
  /\ \/ eval.kind \in {"absent", "malformed"} /\ Finish("error")
     \/ eval.kind = "shapeless" /\ Finish("uncaught")
     \/ eval.kind = "cases" /\ pc' = NextCase(0) /\ UNCHANGED history
  /\ UNCHANGED <<file, writes, replaced, eval, gate, todo, results, json, markdown>>

Current == eval.cases[Len(results) + 1]

Present(n) == file[n].kind # "absent"

Search(step, names) == pc' = step /\ todo' = names /\ UNCHANGED history

FindTrace ==
  /\ pc = "find"
  /\ LET c == Current
     IN  \/ c.trace_file # None /\ Search("open", {c.trace_file})
         \/ /\ c.trace_file = None /\ c.trace_id = None
            /\ Finish("uncaught") /\ UNCHANGED todo
         \/ /\ c.trace_file = None /\ c.trace_id # None
            /\ IF Present(c.trace_id) THEN Search("open", {c.trace_id})
                                     ELSE Search("list", {})
  /\ UNCHANGED <<file, writes, replaced, eval, gate, results, json, markdown>>

ListTraces ==
  /\ pc = "list" /\ Search("scan", {n \in Names : Present(n)})
  /\ UNCHANGED <<file, writes, replaced, eval, gate, results, json, markdown>>

Evaluate(t) ==
  IF Checkable(Current)
  THEN /\ results' = Append(results, Verdict(Current, t))
       /\ pc' = NextCase(Len(results')) /\ UNCHANGED history
  ELSE Finish("uncaught") /\ UNCHANGED results

\* load_trace fails: a missing file is an OSError, a broken one is not.
CannotLoad(n) ==
  /\ \/ file[n].kind = "absent" /\ Finish("error")
     \/ file[n].kind = "broken" /\ Finish("uncaught")
  /\ UNCHANGED <<todo, results>>

\* The file a case names, whatever id its trace has.
OpenTrace(n) ==
  /\ pc = "open" /\ n \in todo
  /\ \/ CannotLoad(n)
     \/ file[n].kind = "trace" /\ Evaluate(file[n].trace) /\ UNCHANGED todo
  /\ UNCHANGED <<file, writes, replaced, eval, gate, json, markdown>>

\* Mutant: a trace with another id is the end of the search.
ScanFirst(n) ==
  /\ pc = "scan" /\ n \in todo
  /\ \/ CannotLoad(n)
     \/ /\ file[n].kind = "trace" /\ file[n].trace.trace_id = Current.trace_id
        /\ Evaluate(file[n].trace) /\ UNCHANGED todo
     \/ /\ file[n].kind = "trace" /\ file[n].trace.trace_id # Current.trace_id
        /\ Finish("error") /\ UNCHANGED <<todo, results>>
  /\ UNCHANGED <<file, writes, replaced, eval, gate, json, markdown>>

\* The next file of the directory.
ScanTrace(n) ==
  /\ pc = "scan" /\ n \in todo
  /\ \/ CannotLoad(n)
     \/ /\ file[n].kind = "trace" /\ file[n].trace.trace_id = Current.trace_id
        /\ Evaluate(file[n].trace) /\ UNCHANGED todo
     \/ /\ file[n].kind = "trace" /\ file[n].trace.trace_id # Current.trace_id
        /\ todo' = todo \ {n} /\ UNCHANGED <<pc, results, history>>
  /\ UNCHANGED <<file, writes, replaced, eval, gate, json, markdown>>

\* Mutant: what was evaluated is written before the run fails.
NotFoundButWritten ==
  /\ pc = "scan" /\ todo = {} /\ Finish("error")
  /\ json' = results
  /\ UNCHANGED <<file, writes, replaced, eval, gate, todo, results, markdown>>

\* A FileNotFoundError, which cli.py:552 expects.
NotFound ==
  /\ pc = "scan" /\ todo = {} /\ Finish("error")
  /\ UNCHANGED <<file, writes, replaced, eval, gate, todo, results, json, markdown>>

WriteJson ==
  /\ pc = "json" /\ pc' = "markdown"
  /\ json' = results
  /\ UNCHANGED <<file, writes, replaced, eval, gate, todo, results, markdown, history>>

WriteMarkdown ==
  /\ pc = "markdown"
  /\ markdown' = results
  /\ Finish(IF gate /\ \E i \in DOMAIN results : ~results[i].passed THEN "failed" ELSE "ok")
  /\ UNCHANGED <<file, writes, replaced, eval, gate, todo, results, json>>

\* A kill may leave the file that is being written truncated.
Interrupt ==
  /\ pc # "idle" /\ Finish("killed")
  /\ json' \in {json} \cup {x \in {Truncated} : pc = "json"}
  /\ markdown' \in {markdown} \cup {x \in {Truncated} : pc = "markdown"}
  /\ UNCHANGED <<file, writes, replaced, eval, gate, todo, results>>

\* A recorder writes, replaces or removes a trace, at any time.
Replace(n, content) ==
  /\ writes < MaxWrites /\ writes' = writes + 1
  /\ file' = [file EXCEPT ![n] = content] /\ replaced' = TRUE
  /\ UNCHANGED <<pc, eval, gate, todo, results, json, markdown, history>>

Init ==
  /\ file \in [Names -> Contents] /\ writes = 0 /\ replaced = FALSE
  /\ pc = "idle" /\ eval \in EvalFiles /\ gate = FALSE
  /\ todo = {} /\ results = << >>
  /\ json = Missing /\ markdown = Missing /\ history = << >>

Step ==
  \/ LoadCases \/ FindTrace \/ ListTraces \/ NotFound \/ WriteJson \/ WriteMarkdown
  \/ \E n \in Names : OpenTrace(n) \/ ScanTrace(n)

Next ==
  \/ \E e \in EvalFiles, strict \in BOOLEAN : Start(e, strict)
  \/ Step
  \/ Interrupt
  \/ \E n \in Names, content \in Contents : Replace(n, content)

Spec == Init /\ [][Next]_vars

-----------------------------------------------------------------------------
(***************************************************************************)
(* Properties.                                                             *)
(***************************************************************************)
CaseResult == [id : CaseIds \cup Names, trace_id : Names, passed : BOOLEAN]

\* What the variables hold; a step that works on a case has one.
TypeOK ==
  /\ file \in [Names -> Contents] /\ writes \in 0..MaxWrites /\ replaced \in BOOLEAN
  /\ pc \in {"idle", "load", "find", "list", "open", "scan", "json", "markdown"}
  /\ eval \in EvalFiles /\ gate \in BOOLEAN /\ todo \subseteq Names
  /\ results \in Seq(CaseResult)
  /\ pc \in {"find", "list", "open", "scan"} => Len(results) < Len(eval.cases)
  /\ json \in Seq(CaseResult) \cup {Missing, Truncated}
  /\ markdown \in Seq(CaseResult) \cup {Missing, Truncated}
  /\ history \in Seq([outcome : Outcomes, results : Seq(CaseResult)])

Ended(outcomes) ==
  pc = "idle" /\ history # << >> /\ history[Len(history)].outcome \in outcomes

\* The files a case may be evaluated on: the one it names, the one called
\* after the id it names, or else any that holds a trace with this id.
Source(c, n) ==
  \/ c.trace_file = n
  \/ c.trace_file = None /\ c.trace_id = n
  \/ /\ c.trace_file = None /\ ~Present(c.trace_id)
     /\ file[n].trace.trace_id = c.trace_id

\* If no trace file changed meanwhile, each verdict of a report is the one the
\* case deserves on a trace it names, no case lacks one, and the exit code of
\* the gate is 1 exactly if some verdict is negative.  "A correct final message
\* must not mask the wrong stored state" (requirements.md:209-211).
VerdictsBacked ==
  Ended({"ok", "failed"}) /\ ~replaced =>
    /\ eval.kind = "cases" /\ Len(results) = Len(eval.cases)
    /\ \A i \in DOMAIN results : \E n \in Names :
         /\ Source(eval.cases[i], n) /\ file[n].kind = "trace"
         /\ results[i].trace_id = file[n].trace.trace_id
         /\ results[i].passed <=>
              \A k \in DOMAIN eval.cases[i].checks : Holds(file[n].trace, eval.cases[i].checks[k])
    /\ Ended({"failed"}) <=> gate /\ \E i \in DOMAIN results : ~results[i].passed

\* A case that can be evaluated, in whatever order the directory is listed.
Runnable(c) ==
  /\ Checkable(c)
  /\ \/ c.trace_file # None /\ file[c.trace_file].kind = "trace"
     \/ /\ c.trace_file = None /\ c.trace_id # None
        /\ \/ file[c.trace_id].kind = "trace"
           \/ /\ \A n \in Names : file[n].kind # "broken"
              /\ \E n \in Names : Present(n) /\ file[n].trace.trace_id = c.trace_id

\* A run whose eval file has cases that can all be evaluated, on traces that
\* do not change meanwhile, ends with a report.  One broken trace is reason
\* enough to fail: whether it is opened depends on the order of the listing
\* (runner.py:208-209).
FailsForAReason ==
  Ended({"error", "uncaught"}) /\ ~replaced =>
    eval.kind # "cases" \/ \E i \in DOMAIN eval.cases : ~Runnable(eval.cases[i])

Whole(i) == history[i].outcome \in {"ok", "failed"}

\* The report on disk is that of the last run that ended with one, in both
\* formats, unless a later run was killed: a run that fails keeps it as it is
\* (cli.py:552-559).
ReportOfLastWholeRun ==
  pc = "idle" =>
    \/ \E k \in DOMAIN history :
         /\ history[k].outcome = "killed"
         /\ \A j \in DOMAIN history : j > k => ~Whole(j)
    \/ \E k \in DOMAIN history :
         /\ Whole(k) /\ \A j \in DOMAIN history : j > k => ~Whole(j)
         /\ json = history[k].results /\ markdown = history[k].results
    \/ /\ \A k \in DOMAIN history : ~Whole(k)
       /\ json = Missing /\ markdown = Missing
=============================================================================
