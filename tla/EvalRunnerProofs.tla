--------------------------- MODULE EvalRunnerProofs ---------------------------
(***************************************************************************)
(* Proofs about EvalRunner, for any eval files, any number of trace files  *)
(* and any number of runs, with traces that are replaced at any time.      *)
(***************************************************************************)
EXTENDS EvalRunner, TLAPS, SequenceTheorems

-----------------------------------------------------------------------------
(* The inductive invariant.                                                *)

Working == {"find", "list", "open", "scan"}

\* Where the run is, and what it wrote on the way there.
Control ==
  /\ pc = "load" => results = << >>
  /\ pc \in Working => eval.kind = "cases"
  /\ pc \in {"json", "markdown"} => eval.kind = "cases" /\ Len(results) = Len(eval.cases)
  /\ pc = "markdown" => json = results

\* The file a case names, or the one called after the id it names.
Direct(c, n) ==
  c.trace_file = n \/ (c.trace_file = None /\ c.trace_id = n /\ Present(n))

\* While the traces stay as they are, the search opens what the case asks for
\* and has passed over no trace that has the id it asks for.
Searching ==
  ~replaced =>
    /\ pc = "open" => \A n \in todo : Direct(Current, n)
    /\ pc \in {"list", "scan"} =>
         Current.trace_file = None /\ Current.trace_id # None /\ ~Present(Current.trace_id)
    /\ pc = "scan" =>
         \A n \in Names :
           IF n \in todo THEN Present(n)
           ELSE Present(n) => file[n].trace.trace_id # Current.trace_id

\* The verdict on case i is the one it deserves on a trace it names.
BackedBy(i, n) ==
  /\ Source(eval.cases[i], n) /\ file[n].kind = "trace"
  /\ results[i].trace_id = file[n].trace.trace_id
  /\ results[i].passed <=>
       \A k \in DOMAIN eval.cases[i].checks : Holds(file[n].trace, eval.cases[i].checks[k])

Backed == ~replaced => \A i \in DOMAIN results : \E n \in Names : BackedBy(i, n)

\* While the Markdown report is not yet due, the reports are those of the last
\* run that wrote them.
Reported ==
  \/ \E k \in DOMAIN history :
       /\ history[k].outcome = "killed"
       /\ \A j \in DOMAIN history : j > k => ~Whole(j)
  \/ \E k \in DOMAIN history :
       /\ Whole(k) /\ \A j \in DOMAIN history : j > k => ~Whole(j)
       /\ json = history[k].results /\ markdown = history[k].results
  \/ /\ \A k \in DOMAIN history : ~Whole(k)
     /\ json = Missing /\ markdown = Missing

Reporting == pc # "markdown" => Reported

IInv ==
  TypeOK /\ Control /\ Searching /\ Backed /\ VerdictsBacked /\ FailsForAReason /\ Reporting

-----------------------------------------------------------------------------
(* Types.                                                                  *)

Run == [outcome : Outcomes, results : Seq(CaseResult)]

LEMMA Types ==
  ASSUME TypeOK
  PROVE  /\ file \in [Names -> Contents] /\ writes \in 0..MaxWrites /\ replaced \in BOOLEAN
         /\ eval \in EvalFile /\ eval.cases \in Seq(Case) /\ todo \subseteq Names
         /\ results \in Seq(CaseResult) /\ history \in Seq(Run)
BY ConstantsAssumption DEF TypeOK, EvalFile, Run

LEMMA FileType ==
  ASSUME TypeOK, NEW n \in Names
  PROVE  /\ file[n].kind \in {"absent", "broken", "trace"}
         /\ file[n].trace \in Trace /\ file[n].trace.trace_id \in Names
<1>1. file[n] \in Content
  BY Types, ConstantsAssumption
<1> QED
  BY <1>1 DEF Content, Trace

LEMMA CurrentType ==
  ASSUME TypeOK, pc \in Working
  PROVE  /\ Len(results) + 1 \in DOMAIN eval.cases /\ Current = eval.cases[Len(results) + 1]
         /\ Current \in Case
         /\ Current.trace_file \in Names \cup {None} /\ Current.trace_id \in Names \cup {None}
<1>1. Len(results) < Len(eval.cases)
  BY DEF TypeOK, Working
<1>2. Len(results) + 1 \in DOMAIN eval.cases
  BY <1>1, Types
<1>3. eval.cases[Len(results) + 1] \in Case
  BY <1>2, Types
<1> QED
  BY <1>2, <1>3 DEF Current, Case

LEMMA VerdictType ==
  ASSUME NEW c \in Case, NEW t \in Trace
  PROVE  Verdict(c, t) \in CaseResult
<1>1. c.id \in CaseIds \cup {None} /\ t.trace_id \in Names
  BY DEF Case, Trace
<1>2. (\A i \in DOMAIN c.checks : Holds(t, c.checks[i])) \in BOOLEAN
  OBVIOUS
<1> QED
  BY <1>1, <1>2 DEF Verdict, CaseResult

LEMMA FinishType ==
  ASSUME TypeOK, NEW outcome \in Outcomes, Finish(outcome)
  PROVE  /\ pc' = "idle" /\ history' \in Seq(Run)
         /\ Len(history') \in Nat /\ history' # << >>
         /\ history'[Len(history')] = [outcome |-> outcome, results |-> results]
         /\ \A i \in DOMAIN history : history'[i] = history[i] /\ i < Len(history')
         /\ DOMAIN history' = DOMAIN history \cup {Len(history')}
         /\ Len(history') \notin DOMAIN history
<1> DEFINE r == [outcome |-> outcome, results |-> results]
<1>1. history \in Seq(Run) /\ r \in Run
  BY Types DEF Run
<1>2. history' = Append(history, r) /\ pc' = "idle"
  BY DEF Finish
<1> HIDE DEF r
<1>3. /\ history' \in Seq(Run) /\ Len(history') = Len(history) + 1 /\ Len(history) \in Nat
      /\ history'[Len(history')] = r /\ \A i \in DOMAIN history : history'[i] = history[i]
      /\ DOMAIN history = 1..Len(history) /\ DOMAIN history' = 1..Len(history')
  BY <1>1, <1>2
<1>4. history' # << >> /\ \A i \in DOMAIN history : i < Len(history')
  BY <1>3
<1>5. DOMAIN history' = DOMAIN history \cup {Len(history')} /\ Len(history') \notin DOMAIN history
  BY <1>3
<1> QED
  BY <1>2, <1>3, <1>4, <1>5 DEF r

\* The outcome of the last run.
LEMMA EndsOnce ==
  ASSUME TypeOK, NEW outcome \in Outcomes, Finish(outcome), NEW S, outcome \notin S
  PROVE  ~Ended(S)'
<1>1. history'[Len(history')] = [outcome |-> outcome, results |-> results]
  BY FinishType
<1>2. history'[Len(history')].outcome = outcome
  BY <1>1
<1> QED
  BY <1>2 DEF Ended

LEMMA Limits == MaxRuns \in Nat /\ MaxWrites \in Nat
BY ConstantsAssumption

LEMMA OneMore ==
  ASSUME NEW n \in 0..MaxWrites, n < MaxWrites
  PROVE  n + 1 \in 0..MaxWrites
BY Limits

\* One more verdict.
LEMMA Evaluated ==
  ASSUME TypeOK, pc \in Working, NEW t \in Trace, Checkable(Current), Evaluate(t)
  PROVE  /\ results' \in Seq(CaseResult) /\ Len(results') = Len(results) + 1
         /\ results'[Len(results) + 1] = Verdict(Current, t)
         /\ \A i \in DOMAIN results : results'[i] = results[i]
         /\ DOMAIN results' = DOMAIN results \cup {Len(results) + 1}
         /\ UNCHANGED history
         /\ pc' \in {"find", "json"}
         /\ pc' = "find" => Len(results') < Len(eval.cases)
         /\ pc' = "json" => Len(results') = Len(eval.cases)
<1>1. results \in Seq(CaseResult) /\ Verdict(Current, t) \in CaseResult
  BY Types, CurrentType, VerdictType
<1>2. results' = Append(results, Verdict(Current, t)) /\ pc' = NextCase(Len(results')) /\ UNCHANGED history
  BY DEF Evaluate
<1>3. /\ results' \in Seq(CaseResult) /\ Len(results') = Len(results) + 1
      /\ results'[Len(results) + 1] = Verdict(Current, t)
      /\ \A i \in DOMAIN results : results'[i] = results[i]
      /\ DOMAIN results' = DOMAIN results \cup {Len(results) + 1}
  <2> HIDE DEF Verdict
  <2> QED
    BY <1>1, <1>2
<1>4. Len(results) \in Nat /\ Len(eval.cases) \in Nat /\ Len(results) < Len(eval.cases)
  BY Types DEF TypeOK, Working
<1> QED
  BY <1>2, <1>3, <1>4 DEF NextCase

\* What a step that opens a trace may do: fail, evaluate, or go on searching.
LEMMA OpenedCases ==
  ASSUME TypeOK, NEW n \in Names, OpenTrace(n) \/ ScanTrace(n)
  PROVE  /\ n \in todo /\ pc \in {"open", "scan"}
         /\ UNCHANGED <<file, writes, replaced, eval, gate, json, markdown>>
         /\ \/ /\ file[n].kind \in {"absent", "broken"} /\ UNCHANGED <<todo, results>>
               /\ Finish("error") \/ Finish("uncaught")
            \/ /\ file[n].kind = "trace" /\ UNCHANGED todo /\ Evaluate(file[n].trace)
               /\ pc = "scan" => file[n].trace.trace_id = Current.trace_id
            \/ /\ pc = "scan" /\ UNCHANGED <<pc, results, history>> /\ todo' = todo \ {n}
               /\ file[n].kind = "trace" /\ file[n].trace.trace_id # Current.trace_id
BY DEF OpenTrace, ScanTrace, CannotLoad

-----------------------------------------------------------------------------
(* Every step keeps the types and the control.                             *)

LEMMA TypeInit == Init => TypeOK
<1> SUFFICES ASSUME Init PROVE TypeOK
  OBVIOUS
<1>1. << >> \in Seq(CaseResult) /\ << >> \in Seq([outcome : Outcomes, results : Seq(CaseResult)])
  BY EmptySeq
<1>2. pc = "idle" /\ file \in [Names -> Contents] /\ eval \in EvalFiles /\ gate \in BOOLEAN /\ replaced \in BOOLEAN
  BY DEF Init
<1>3. writes \in 0..MaxWrites /\ todo \subseteq Names
  BY Limits DEF Init
<1>4. /\ results = << >> /\ history = << >> /\ json = Missing /\ markdown = Missing
  BY DEF Init
<1> QED
  BY <1>1, <1>2, <1>3, <1>4 DEF TypeOK

LEMMA StartStep ==
  ASSUME TypeOK, NEW e \in EvalFiles, NEW strict \in BOOLEAN, Start(e, strict)
  PROVE  TypeOK' /\ Control'
<1>1. << >> \in Seq(CaseResult)
  BY EmptySeq
<1> QED
  BY <1>1 DEF Start, TypeOK, Control, Working

\* A run that ends keeps the types, whatever its reports.
LEMMA EndType ==
  ASSUME TypeOK, NEW outcome \in Outcomes, Finish(outcome),
         UNCHANGED <<file, writes, replaced, eval, gate, results>>, todo' \subseteq Names,
         json' \in {json, results, Truncated}, markdown' \in {markdown, results, Truncated}
  PROVE  TypeOK' /\ Control'
<1>1. pc' = "idle" /\ history' \in Seq(Run)
  BY FinishType
<1>2. results \in Seq(CaseResult)
  BY Types
<1> QED
  BY <1>1, <1>2 DEF TypeOK, Control, Working, Run

LEMMA OpenedStep ==
  ASSUME TypeOK, Control, NEW n \in Names, OpenTrace(n) \/ ScanTrace(n)
  PROVE  TypeOK' /\ Control'
<1>1. n \in todo /\ pc \in {"open", "scan"} /\ UNCHANGED <<file, writes, replaced, eval, gate, json, markdown>>
  BY OpenedCases
<1>2. ASSUME NEW outcome \in Outcomes, Finish(outcome), UNCHANGED <<todo, results>>
      PROVE  TypeOK' /\ Control'
  BY <1>1, <1>2, EndType, Types
<1>3. CASE Evaluate(file[n].trace) /\ UNCHANGED todo
  <2>1. CASE Checkable(Current)
    <3>1. /\ results' \in Seq(CaseResult) /\ UNCHANGED history /\ pc' \in {"find", "json"}
          /\ pc' = "find" => Len(results') < Len(eval.cases)
          /\ pc' = "json" => Len(results') = Len(eval.cases)
      BY <1>1, <1>3, <2>1, FileType, Evaluated DEF Working
    <3> QED
      BY <1>1, <1>3, <3>1 DEF TypeOK, Control, Working
  <2>2. CASE ~Checkable(Current)
    <3>1. Finish("uncaught") /\ UNCHANGED results
      BY <1>3, <2>2 DEF Evaluate
    <3> QED
      BY <1>2, <1>3, <3>1 DEF Outcomes
  <2> QED
    BY <2>1, <2>2
<1>4. CASE pc = "scan" /\ UNCHANGED <<pc, results, history>> /\ todo' = todo \ {n}
  BY <1>1, <1>4 DEF TypeOK, Control, Working
<1> QED
  BY <1>2, <1>3, <1>4, OpenedCases DEF Outcomes

LEMMA ControlStep == TypeOK /\ Control /\ [Next]_vars => TypeOK' /\ Control'
<1> SUFFICES ASSUME TypeOK, Control, [Next]_vars PROVE TypeOK' /\ Control'
  OBVIOUS
<1>1. CASE LoadCases
  <2>1. pc = "load" /\ UNCHANGED <<file, writes, replaced, eval, gate, todo, results, json, markdown>>
    BY <1>1 DEF LoadCases
  <2>2. CASE Finish("error") \/ Finish("uncaught")
    BY <2>1, <2>2, EndType, Types DEF Outcomes
  <2>3. CASE eval.kind = "cases" /\ pc' = NextCase(0) /\ UNCHANGED history
    <3>1. results = << >> /\ Len(<< >>) = 0 /\ Len(eval.cases) \in Nat
      BY <2>1, Types DEF Control
    <3> QED
      BY <2>1, <2>3, <3>1 DEF NextCase, TypeOK, Control, Working
  <2> QED
    BY <1>1, <2>2, <2>3 DEF LoadCases
<1>2. CASE FindTrace
  <2>1. /\ pc = "find"
        /\ UNCHANGED <<file, writes, replaced, eval, gate, results, json, markdown>>
    BY <1>2 DEF FindTrace
  <2>2. CASE Finish("uncaught") /\ UNCHANGED todo
    BY <2>1, <2>2, EndType, Types DEF Outcomes
  <2>3. ASSUME NEW step \in {"open", "list"}, NEW names \in SUBSET Names, Search(step, names)
        PROVE  TypeOK' /\ Control'
    BY <2>1, <2>3 DEF Search, TypeOK, Control, Working
  <2>4. Current.trace_file \in Names \cup {None} /\ Current.trace_id \in Names \cup {None}
    BY <2>1, CurrentType DEF Working
  <2> QED
    BY <1>2, <2>2, <2>3, <2>4 DEF FindTrace
<1>3. CASE ListTraces
  BY <1>3 DEF ListTraces, Search, TypeOK, Control, Working
<1>4. CASE NotFound
  BY <1>4, EndType, Types DEF NotFound, Outcomes
<1>5. CASE WriteJson
  BY <1>5, Types DEF WriteJson, TypeOK, Control, Working
<1>6. CASE WriteMarkdown
  <2>1. PICK outcome \in {"ok", "failed"} : Finish(outcome)
    BY <1>6 DEF WriteMarkdown
  <2> QED
    BY <1>6, <2>1, EndType, Types DEF WriteMarkdown, Outcomes
<1>7. CASE \E n \in Names : OpenTrace(n) \/ ScanTrace(n)
  BY <1>7, OpenedStep
<1>8. CASE Interrupt
  <2>1. json' \in {json, Truncated} /\ markdown' \in {markdown, Truncated}
    BY <1>8 DEF Interrupt
  <2> QED
    BY <1>8, <2>1, EndType, Types DEF Interrupt, Outcomes
<1>9. CASE \E n \in Names, content \in Contents : Replace(n, content)
  <2>1. PICK n \in Names, content \in Contents : Replace(n, content)
    BY <1>9
  <2>2. writes' \in 0..MaxWrites
    BY <2>1, Types, OneMore DEF Replace
  <2>3. file' \in [Names -> Contents]
    BY <2>1, Types DEF Replace
  <2> QED
    BY <2>1, <2>2, <2>3 DEF Replace, TypeOK, Control, Working
<1>10. CASE UNCHANGED vars
  BY <1>10 DEF vars, TypeOK, Control, Working
<1> QED
  BY <1>1, <1>2, <1>3, <1>4, <1>5, <1>6, <1>7, <1>8, <1>9, <1>10, StartStep DEF Next, Step

-----------------------------------------------------------------------------
(* The search.                                                             *)

\* A step that leaves the traces, the case and the files left alone, and is not
\* the beginning of a search.
LEMMA SearchingKept ==
  ASSUME Searching, UNCHANGED <<file, replaced>>, pc' \notin {"open", "list", "scan"}
  PROVE  Searching'
BY DEF Searching

LEMMA SearchingStep == TypeOK /\ Searching /\ [Next]_vars => Searching'
<1> SUFFICES ASSUME TypeOK, Searching, [Next]_vars PROVE Searching'
  OBVIOUS
<1>1. CASE FindTrace
  <2>1. pc = "find" /\ UNCHANGED <<file, replaced, eval, results>> /\ Current' = Current
    BY <1>1 DEF FindTrace, Current
  <2>2. CASE Finish("uncaught")
    BY <2>1, <2>2, SearchingKept DEF Finish
  <2>3. CASE Current.trace_file # None /\ Search("open", {Current.trace_file})
    BY <2>1, <2>3 DEF Search, Searching, Direct, Present
  <2>4. CASE /\ Current.trace_file = None /\ Current.trace_id # None
             /\ Present(Current.trace_id) /\ Search("open", {Current.trace_id})
    BY <2>1, <2>4 DEF Search, Searching, Direct, Present
  <2>5. CASE /\ Current.trace_file = None /\ Current.trace_id # None
             /\ ~Present(Current.trace_id) /\ Search("list", {})
    BY <2>1, <2>5 DEF Search, Searching, Present
  <2> QED
    BY <1>1, <2>2, <2>3, <2>4, <2>5 DEF FindTrace
<1>2. CASE ListTraces
  <2>1. /\ pc = "list" /\ pc' = "scan" /\ todo' = {n \in Names : Present(n)}
        /\ UNCHANGED <<file, replaced, eval, results>> /\ Current' = Current
    BY <1>2 DEF ListTraces, Search, Current
  <2> QED
    BY <2>1 DEF Searching, Present
<1>3. CASE \E n \in Names : OpenTrace(n) \/ ScanTrace(n)
  <2>1. PICK n \in Names : OpenTrace(n) \/ ScanTrace(n)
    BY <1>3
  <2>2. pc \in {"open", "scan"} /\ UNCHANGED <<file, replaced, eval>>
    BY <2>1, OpenedCases
  <2>3. CASE pc' \in {"idle", "find", "json"}
    BY <2>2, <2>3, SearchingKept
  <2>4. CASE /\ pc = "scan" /\ UNCHANGED <<pc, results>> /\ todo' = todo \ {n}
             /\ file[n].trace.trace_id # Current.trace_id
    <3>1. Current' = Current
      BY <2>2, <2>4 DEF Current
    <3> QED
      BY <2>2, <2>4, <3>1 DEF Searching, Present
  <2>5. Evaluate(file[n].trace) => pc' \in {"idle", "find", "json"}
    BY DEF Evaluate, Finish, NextCase
  <2> QED
    BY <2>1, <2>3, <2>4, <2>5, OpenedCases DEF Finish
<1>4. CASE \E n \in Names, content \in Contents : Replace(n, content)
  BY <1>4 DEF Replace, Searching
<1>5. CASE \E e \in EvalFiles, strict \in BOOLEAN : Start(e, strict)
  BY <1>5 DEF Start, Searching
<1>6. CASE LoadCases
  BY <1>6, SearchingKept DEF LoadCases, NextCase, Finish
<1>7. CASE NotFound \/ WriteJson \/ WriteMarkdown \/ Interrupt
  BY <1>7, SearchingKept DEF NotFound, WriteJson, WriteMarkdown, Interrupt, Finish
<1>8. CASE UNCHANGED vars
  BY <1>8 DEF vars, Searching, Current, Direct, Present
<1> QED
  BY <1>1, <1>2, <1>3, <1>4, <1>5, <1>6, <1>7, <1>8 DEF Next, Step

-----------------------------------------------------------------------------
(* The verdicts.                                                           *)

\* A trace that is evaluated is one the case names.
LEMMA OpenedSource ==
  ASSUME TypeOK, Searching, ~replaced, NEW n \in todo, pc \in {"open", "scan"},
         pc = "scan" => file[n].trace.trace_id = Current.trace_id
  PROVE  Source(Current, n)
<1>1. CASE pc = "open"
  BY <1>1 DEF Searching, Direct, Source
<1>2. CASE pc = "scan"
  BY <1>2 DEF Searching, Source
<1> QED
  BY <1>1, <1>2

LEMMA BackedKept ==
  ASSUME Backed, UNCHANGED <<file, replaced, eval, results>>
  PROVE  Backed'
BY DEF Backed, BackedBy, Source, Present

LEMMA BackedStep == TypeOK /\ Searching /\ Backed /\ [Next]_vars => Backed'
<1> SUFFICES ASSUME TypeOK, Searching, Backed, [Next]_vars PROVE Backed'
  OBVIOUS
<1>1. CASE \E n \in Names : OpenTrace(n) \/ ScanTrace(n)
  <2>1. PICK n \in Names : OpenTrace(n) \/ ScanTrace(n)
    BY <1>1
  <2>2. n \in todo /\ pc \in {"open", "scan"} /\ UNCHANGED <<file, replaced, eval>>
    BY <2>1, OpenedCases
  <2>3. CASE UNCHANGED results
    BY <2>2, <2>3, BackedKept
  <2>4. CASE /\ Evaluate(file[n].trace) /\ Checkable(Current) /\ file[n].kind = "trace"
             /\ pc = "scan" => file[n].trace.trace_id = Current.trace_id
    <3> DEFINE verdict == Verdict(Current, file[n].trace)
    <3>0. PICK m : m = Len(results) + 1
      OBVIOUS
    <3>1. /\ results'[m] = verdict /\ \A i \in DOMAIN results : results'[i] = results[i]
          /\ DOMAIN results' = DOMAIN results \cup {m}
      BY <2>2, <2>4, <3>0, FileType, Evaluated DEF Working
    <3>2. Current = eval.cases[m]
      BY <2>2, <3>0, CurrentType DEF Working
    <3>3. /\ verdict.trace_id = file[n].trace.trace_id
          /\ verdict.passed <=>
               \A k \in DOMAIN Current.checks : Holds(file[n].trace, Current.checks[k])
      BY DEF Verdict
    <3> HIDE DEF verdict
    <3>4. ASSUME ~replaced PROVE BackedBy(m, n)'
      <4>1. Source(Current, n)
        BY <2>2, <2>4, <3>4, OpenedSource
      <4>2. Source(eval.cases[m], n)'
        BY <2>2, <3>2, <4>1 DEF Source, Present
      <4> QED
        BY <2>2, <2>4, <3>1, <3>2, <3>3, <4>2 DEF BackedBy
    <3>5. ASSUME NEW i \in DOMAIN results, NEW p \in Names, BackedBy(i, p) PROVE BackedBy(i, p)'
      BY <2>2, <3>1, <3>5 DEF BackedBy, Source, Present
    <3> QED
      BY <2>2, <3>1, <3>4, <3>5 DEF Backed
  <2> QED
    BY <2>1, <2>3, <2>4, OpenedCases DEF Evaluate
<1>2. CASE \E n \in Names, content \in Contents : Replace(n, content)
  BY <1>2 DEF Replace, Backed
<1>3. CASE \E e \in EvalFiles, strict \in BOOLEAN : Start(e, strict)
  <2>1. DOMAIN << >> = {}
    OBVIOUS
  <2> QED
    BY <1>3, <2>1 DEF Start, Backed
<1>4. CASE UNCHANGED <<file, replaced, eval, results>>
  BY <1>4, BackedKept
<1> QED
  BY <1>1, <1>2, <1>3, <1>4 DEF Next, Step, vars, LoadCases, FindTrace, ListTraces, NotFound,
     WriteJson, WriteMarkdown, Interrupt

-----------------------------------------------------------------------------
(* What the end of a run tells.                                            *)

\* Neither the middle of a run nor an end with another outcome is at stake.
LEMMA EndedKept ==
  ASSUME UNCHANGED <<pc, history>>, NEW S
  PROVE  Ended(S)' <=> Ended(S)
BY DEF Ended

LEMMA VerdictsKept ==
  ASSUME VerdictsBacked, UNCHANGED <<file, replaced, pc, eval, gate, results, history>>
  PROVE  VerdictsBacked'
<1>1. Ended({"ok", "failed"})' <=> Ended({"ok", "failed"})
  BY EndedKept
<1>2. Ended({"failed"})' <=> Ended({"failed"})
  BY EndedKept
<1> QED
  BY <1>1, <1>2 DEF VerdictsBacked, Source, Present

\* Only WriteMarkdown ends a run with a report.
LEMMA OtherEnds ==
  ASSUME TypeOK, NEW outcome \in {"error", "uncaught", "killed"}, Finish(outcome)
  PROVE  VerdictsBacked'
<1>1. outcome \in Outcomes /\ outcome \notin {"ok", "failed"}
  BY DEF Outcomes
<1>2. ~Ended({"ok", "failed"})'
  BY <1>1, EndsOnce
<1> QED
  BY <1>2 DEF VerdictsBacked

LEMMA StillRunning ==
  ASSUME pc' # "idle"
  PROVE  VerdictsBacked' /\ FailsForAReason'
BY DEF VerdictsBacked, FailsForAReason, Ended

LEMMA WriteMarkdownVerdicts ==
  ASSUME TypeOK, Control, Backed, WriteMarkdown
  PROVE  VerdictsBacked'
<1> DEFINE failing == gate /\ \E i \in DOMAIN results : ~results[i].passed
           outcome == IF failing THEN "failed" ELSE "ok"
<1>1. /\ pc = "markdown" /\ UNCHANGED <<file, replaced, eval, gate, results>> /\ Finish(outcome)
  BY DEF WriteMarkdown
<1>2. eval.kind = "cases" /\ Len(results) = Len(eval.cases)
  BY <1>1 DEF Control
<1>3. outcome \in Outcomes
  BY DEF Outcomes
<1>4. pc' = "idle" /\ history' # << >> /\ history'[Len(history')].outcome = outcome
  <2> HIDE DEF outcome
  <2>1. history'[Len(history')] = [outcome |-> outcome, results |-> results]
    BY <1>1, <1>3, FinishType
  <2> QED
    BY <1>1, <1>3, <2>1, FinishType
<1>5. Ended({"failed"})' <=> failing
  BY <1>4 DEF Ended
<1>6. failing' <=> failing
  BY <1>1
<1>7. ~replaced => \A i \in DOMAIN results : \E n \in Names : BackedBy(i, n)'
  <2>1. ASSUME NEW i, NEW n, BackedBy(i, n) PROVE BackedBy(i, n)'
    BY <1>1, <2>1 DEF BackedBy, Source, Present
  <2> QED
    BY <2>1 DEF Backed
<1> QED
  BY <1>1, <1>2, <1>5, <1>6, <1>7 DEF VerdictsBacked, BackedBy

LEMMA VerdictsStep ==
  TypeOK /\ Control /\ Backed /\ VerdictsBacked /\ [Next]_vars => VerdictsBacked'
<1> SUFFICES ASSUME TypeOK, Control, Backed, VerdictsBacked, [Next]_vars PROVE VerdictsBacked'
  OBVIOUS
<1>1. CASE WriteMarkdown
  BY <1>1, WriteMarkdownVerdicts
<1>2. CASE Finish("error") \/ Finish("uncaught") \/ Finish("killed")
  BY <1>2, OtherEnds
<1>3. CASE pc' # "idle"
  BY <1>3, StillRunning
<1>4. CASE \E n \in Names, content \in Contents : Replace(n, content)
  BY <1>4 DEF Replace, VerdictsBacked
<1>5. CASE UNCHANGED vars
  BY <1>5, VerdictsKept DEF vars
<1>6. CASE LoadCases \/ FindTrace \/ ListTraces \/ NotFound \/ WriteJson
  BY <1>2, <1>3, <1>6 DEF LoadCases, NextCase, FindTrace, Search, ListTraces, NotFound, WriteJson
<1>7. CASE \E n \in Names : OpenTrace(n) \/ ScanTrace(n)
  BY <1>2, <1>3, <1>7, OpenedCases DEF Evaluate, NextCase
<1>8. CASE Interrupt \/ \E e \in EvalFiles, strict \in BOOLEAN : Start(e, strict)
  BY <1>2, <1>3, <1>8 DEF Interrupt, Start
<1> QED
  BY <1>1, <1>4, <1>5, <1>6, <1>7, <1>8 DEF Next, Step

-----------------------------------------------------------------------------
(* The reason of a failure.                                                *)

\* A case that cannot be run is a reason.
LEMMA ReasonFound ==
  ASSUME TypeOK, pc \in Working, ~Runnable(Current), UNCHANGED <<file, eval>>
  PROVE  FailsForAReason'
<1>1. Len(results) + 1 \in DOMAIN eval.cases /\ Current = eval.cases[Len(results) + 1]
  BY CurrentType
<1>2. \E i \in DOMAIN eval.cases : ~Runnable(eval.cases[i])
  BY <1>1
<1>3. \A c : Runnable(c)' <=> Runnable(c)
  BY DEF Runnable, Checkable, Present
<1> QED
  BY <1>2, <1>3 DEF FailsForAReason

LEMMA FailsKept ==
  ASSUME FailsForAReason, UNCHANGED <<file, replaced, pc, eval, history>>
  PROVE  FailsForAReason'
BY DEF FailsForAReason, Runnable, Checkable, Present, Ended

\* A run that ends in another way needs none.
LEMMA NoReasonNeeded ==
  ASSUME TypeOK, NEW outcome \in {"ok", "failed", "killed"}, Finish(outcome)
  PROVE  FailsForAReason'
<1>1. outcome \in Outcomes /\ outcome \notin {"error", "uncaught"}
  BY DEF Outcomes
<1>2. ~Ended({"error", "uncaught"})'
  BY <1>1, EndsOnce
<1> QED
  BY <1>2 DEF FailsForAReason

LEMMA FindReason ==
  ASSUME TypeOK, FindTrace
  PROVE  FailsForAReason'
<1>1. pc = "find" /\ UNCHANGED <<file, eval>>
  BY DEF FindTrace
<1>2. CASE Current.trace_file = None /\ Current.trace_id = None
  BY <1>1, <1>2, ReasonFound DEF Runnable, Working
<1>3. CASE ~(Current.trace_file = None /\ Current.trace_id = None)
  BY <1>3, StillRunning DEF FindTrace, Search
<1> QED
  BY <1>2, <1>3

LEMMA NotFoundReason ==
  ASSUME TypeOK, Searching, NotFound
  PROVE  FailsForAReason'
<1>1. pc = "scan" /\ todo = {} /\ UNCHANGED <<file, eval, replaced>>
  BY DEF NotFound
<1>2. CASE replaced
  BY <1>1, <1>2 DEF FailsForAReason
<1>3. CASE ~replaced
  <2>1. /\ Current.trace_file = None /\ ~Present(Current.trace_id)
        /\ \A n \in Names : Present(n) => file[n].trace.trace_id # Current.trace_id
    BY <1>1, <1>3 DEF Searching
  <2>2. ~Runnable(Current)
    BY <2>1 DEF Runnable, Present
  <2> QED
    BY <1>1, <2>2, ReasonFound DEF Working
<1> QED
  BY <1>2, <1>3

LEMMA OpenedReason ==
  ASSUME TypeOK, Searching, NEW n \in Names, OpenTrace(n) \/ ScanTrace(n)
  PROVE  FailsForAReason'
<1>1. n \in todo /\ pc \in {"open", "scan"} /\ UNCHANGED <<file, eval, replaced>>
  BY OpenedCases
<1>2. CASE replaced
  BY <1>1, <1>2 DEF FailsForAReason
<1>3. CASE ~replaced /\ file[n].kind \in {"absent", "broken"}
  <2>1. CASE pc = "open"
    <3>1. Direct(Current, n)
      BY <1>1, <1>3, <2>1 DEF Searching
    <3>2. CASE Current.trace_file = n
      <4>1. n # None
        BY ConstantsAssumption
      <4> QED
        BY <1>1, <1>3, <3>2, <4>1, ReasonFound DEF Runnable, Working
    <3>3. CASE Current.trace_file = None /\ Current.trace_id = n /\ Present(n)
      <4>1. file[n].kind = "broken"
        BY <1>3, <3>3 DEF Present
      <4>2. ~Runnable(Current)
        BY <3>3, <4>1 DEF Runnable
      <4> QED
        BY <1>1, <4>2, ReasonFound DEF Working
    <3> QED
      BY <3>1, <3>2, <3>3 DEF Direct
  <2>2. CASE pc = "scan"
    <3>1. Current.trace_file = None /\ ~Present(Current.trace_id) /\ Present(n)
      BY <1>1, <1>3, <2>2 DEF Searching
    <3>2. file[n].kind = "broken" /\ file[Current.trace_id].kind = "absent"
      BY <1>3, <3>1 DEF Present
    <3>3. ~Runnable(Current)
      BY <3>1, <3>2 DEF Runnable
    <3> QED
      BY <1>1, <3>3, ReasonFound DEF Working
  <2> QED
    BY <1>1, <2>1, <2>2
<1>4. CASE Evaluate(file[n].trace)
  <2>1. CASE Checkable(Current)
    BY <1>4, <2>1, StillRunning DEF Evaluate, NextCase
  <2>2. CASE ~Checkable(Current)
    BY <1>1, <2>2, ReasonFound DEF Runnable, Working
  <2> QED
    BY <2>1, <2>2
<1>5. CASE UNCHANGED pc
  BY <1>1, <1>5, StillRunning
<1> QED
  BY <1>2, <1>3, <1>4, <1>5, OpenedCases

LEMMA FailsStep ==
  TypeOK /\ Searching /\ FailsForAReason /\ [Next]_vars => FailsForAReason'
<1> SUFFICES ASSUME TypeOK, Searching, FailsForAReason, [Next]_vars PROVE FailsForAReason'
  OBVIOUS
<1>1. CASE LoadCases
  <2>1. CASE eval.kind # "cases"
    BY <1>1, <2>1 DEF LoadCases, FailsForAReason
  <2>2. CASE eval.kind = "cases"
    BY <1>1, <2>2, StillRunning DEF LoadCases, NextCase
  <2> QED
    BY <2>1, <2>2
<1>2. CASE ListTraces \/ WriteJson \/ \E e \in EvalFiles, strict \in BOOLEAN : Start(e, strict)
  BY <1>2, StillRunning DEF ListTraces, Search, WriteJson, Start
<1>3. CASE WriteMarkdown \/ Interrupt
  BY <1>3, NoReasonNeeded DEF WriteMarkdown, Interrupt
<1>4. CASE \E n \in Names, content \in Contents : Replace(n, content)
  BY <1>4 DEF Replace, FailsForAReason
<1>5. CASE UNCHANGED vars
  BY <1>5, FailsKept DEF vars
<1> QED
  BY <1>1, <1>2, <1>3, <1>4, <1>5, FindReason, NotFoundReason, OpenedReason DEF Next, Step

-----------------------------------------------------------------------------
(* The reports on disk.                                                    *)

\* A run that fails before it writes leaves the reports to those before it.
LEMMA ReportedAfterFailure ==
  ASSUME TypeOK, NEW outcome \in {"error", "uncaught"}, Finish(outcome),
         Reported, UNCHANGED <<json, markdown>>
  PROVE  Reported'
<1>1. outcome \in Outcomes
  BY DEF Outcomes
<1> DEFINE n == Len(history')
<1>2. /\ history'[n] = [outcome |-> outcome, results |-> results]
      /\ \A i \in DOMAIN history : history'[i] = history[i] /\ i < n
      /\ DOMAIN history' = DOMAIN history \cup {n}
  BY <1>1, FinishType
<1> HIDE DEF n
<1>3. \A i \in DOMAIN history : Whole(i)' <=> Whole(i)
  BY <1>2 DEF Whole
<1>4. history'[n].outcome = outcome
  BY <1>2
<1>5. ASSUME NEW j \in DOMAIN history', Whole(j)' PROVE j \in DOMAIN history
  BY <1>2, <1>4, <1>5 DEF Whole
<1>6. ASSUME NEW k \in DOMAIN history, \A j \in DOMAIN history : j > k => ~Whole(j)
      PROVE  \A j \in DOMAIN history' : j > k => ~Whole(j)'
  BY <1>3, <1>5, <1>6
<1>7. CASE \E k \in DOMAIN history :
             history[k].outcome = "killed" /\ \A j \in DOMAIN history : j > k => ~Whole(j)
  BY <1>2, <1>6, <1>7 DEF Reported
<1>8. CASE \E k \in DOMAIN history :
             /\ Whole(k) /\ \A j \in DOMAIN history : j > k => ~Whole(j)
             /\ json = history[k].results /\ markdown = history[k].results
  BY <1>2, <1>3, <1>6, <1>8 DEF Reported
<1>9. CASE (\A k \in DOMAIN history : ~Whole(k)) /\ json = Missing /\ markdown = Missing
  BY <1>3, <1>5, <1>9 DEF Reported
<1> QED
  BY <1>7, <1>8, <1>9 DEF Reported

LEMMA LastRun ==
  ASSUME TypeOK, NEW outcome \in Outcomes, Finish(outcome)
  PROVE  \E n \in DOMAIN history' :
           /\ history'[n].outcome = outcome /\ history'[n].results = results
           /\ \A j \in DOMAIN history' : ~(j > n)
<1> DEFINE n == Len(history')
<1>1. /\ n \in Nat /\ history'[n] = [outcome |-> outcome, results |-> results]
      /\ \A i \in DOMAIN history : i < n
      /\ DOMAIN history' = DOMAIN history \cup {n}
      /\ history \in Seq(Run)
  BY FinishType, Types
<1>2. \A i \in DOMAIN history : i \in Nat
  BY <1>1
<1> HIDE DEF n
<1> QED
  BY <1>1, <1>2

LEMMA ReportingStep == TypeOK /\ Control /\ Reporting /\ [Next]_vars => Reporting'
<1> SUFFICES ASSUME TypeOK, Control, Reporting, [Next]_vars PROVE Reporting'
  OBVIOUS
<1>1. ASSUME pc # "markdown", UNCHANGED <<json, markdown>>,
             Finish("error") \/ Finish("uncaught") \/ UNCHANGED history
      PROVE  Reporting'
  <2>1. Reported
    BY <1>1 DEF Reporting
  <2>2. CASE UNCHANGED history
    BY <1>1, <2>1, <2>2 DEF Reporting, Reported, Whole
  <2>3. CASE Finish("error") \/ Finish("uncaught")
    BY <1>1, <2>1, <2>3, ReportedAfterFailure DEF Reporting
  <2> QED
    BY <1>1, <2>2, <2>3
<1>2. CASE LoadCases \/ FindTrace \/ ListTraces \/ NotFound
  BY <1>1, <1>2 DEF LoadCases, FindTrace, Search, ListTraces, NotFound
<1>3. CASE \E n \in Names : OpenTrace(n) \/ ScanTrace(n)
  BY <1>1, <1>3, OpenedCases DEF Evaluate
<1>4. CASE WriteJson
  BY <1>4 DEF WriteJson, Reporting
<1>5. CASE WriteMarkdown
  <2>1. json' = results /\ markdown' = results
    BY <1>5 DEF WriteMarkdown, Control
  <2>2. PICK outcome \in {"ok", "failed"} : Finish(outcome)
    BY <1>5 DEF WriteMarkdown
  <2>3. PICK n \in DOMAIN history' :
          /\ history'[n].outcome = outcome /\ history'[n].results = results
          /\ \A j \in DOMAIN history' : ~(j > n)
    BY <2>2, LastRun DEF Outcomes
  <2>4. Whole(n)'
    BY <2>3 DEF Whole
  <2> QED
    BY <2>1, <2>3, <2>4 DEF Reporting, Reported
<1>6. CASE Interrupt
  <2>1. PICK n \in DOMAIN history' :
          history'[n].outcome = "killed" /\ \A j \in DOMAIN history' : ~(j > n)
    BY <1>6, LastRun DEF Interrupt, Outcomes
  <2> QED
    BY <2>1 DEF Reporting, Reported
<1>7. CASE \E e \in EvalFiles, strict \in BOOLEAN : Start(e, strict)
  BY <1>1, <1>7 DEF Start
<1>8. CASE (\E n \in Names, content \in Contents : Replace(n, content)) \/ UNCHANGED vars
  BY <1>8 DEF Replace, vars, Reporting, Reported, Whole
<1> QED
  BY <1>2, <1>3, <1>4, <1>5, <1>6, <1>7, <1>8 DEF Next, Step

-----------------------------------------------------------------------------
(* The theorems.                                                           *)

LEMMA InitInvariant == Init => IInv
<1> SUFFICES ASSUME Init PROVE IInv
  OBVIOUS
<1>1. TypeOK
  BY TypeInit
<1>2. /\ pc = "idle" /\ results = << >> /\ history = << >> /\ DOMAIN << >> = {}
      /\ json = Missing /\ markdown = Missing
  BY DEF Init
<1> QED
  BY <1>1, <1>2 DEF IInv, Control, Working, Searching, Backed, VerdictsBacked, FailsForAReason,
                    Ended, Reporting, Reported

LEMMA InductiveInvariant == Spec => []IInv
<1>1. Init => IInv
  BY InitInvariant
<1>2. IInv /\ [Next]_vars => IInv'
  BY ControlStep, SearchingStep, BackedStep, VerdictsStep, FailsStep, ReportingStep DEF IInv
<1> QED
  BY <1>1, <1>2, PTL DEF Spec

\* TypeOK holds in every reachable state.
THEOREM TypeCorrect == Spec => []TypeOK
<1>1. IInv => TypeOK
  BY DEF IInv
<1> QED
  BY <1>1, InductiveInvariant, PTL

\* A run on traces that stay as they are ends with one verdict per case, each
\* the one the case deserves on a trace it names (run_eval_file), and its exit
\* code is 1 exactly if the gate is on and a verdict is negative.
THEOREM VerdictsAlwaysBacked == Spec => []VerdictsBacked
<1>1. IInv => VerdictsBacked
  BY DEF IInv
<1> QED
  BY <1>1, InductiveInvariant, PTL

\* A run on traces that stay as they are fails only if its eval file cannot be
\* read or one of its cases cannot be evaluated (_load_case_trace).
THEOREM FailuresHaveReasons == Spec => []FailsForAReason
<1>1. IInv => FailsForAReason
  BY DEF IInv
<1> QED
  BY <1>1, InductiveInvariant, PTL

\* Between runs both reports on disk are those of the last run that wrote
\* them, unless a later one was killed (write_reports).
THEOREM ReportsOfLastWholeRun == Spec => []ReportOfLastWholeRun
<1>1. IInv => ReportOfLastWholeRun
  BY DEF IInv, Reporting, Reported, ReportOfLastWholeRun
<1> QED
  BY <1>1, InductiveInvariant, PTL
=============================================================================
