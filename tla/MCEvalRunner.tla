---------------------------- MODULE MCEvalRunner ----------------------------
(* A small instance of EvalRunner for TLC. *)
EXTENDS EvalRunner

CONSTANTS traceT, traceU, traceV, c1, c2, answer, sorry, span, read, completed, sent, deleted

ThreeNames == {traceT, traceU, traceV}
TwoCaseIds == {c1, c2}
AllTexts == {answer, sorry, span, read, completed, sent, deleted}

Good(id) ==
  [trace_id |-> id, output |-> {answer, sorry}, citations |-> {span},
   tool_calls |-> {read}, terminal_state |-> {completed}, effects |-> {sent}]

\* The same message, with an effect nobody allowed.
Masked(id) == [Good(id) EXCEPT !.effects = {sent, deleted}]

File(trace) == [kind |-> "trace", trace |-> trace]
NoTrace(kind) == [kind |-> kind, trace |-> Good(traceT)]
FileContents ==
  {NoTrace("absent"), NoTrace("broken"), File(Good(traceT)), File(Masked(traceT)), File(Good(traceU))}

Check(type, values) == [type |-> type, values |-> values]
AllChecks ==
  <<Check("contains_required_text", {answer}), Check("does_not_contain_text", {deleted}),
    Check("citation_span_present", {span}), Check("tool_call_allowed", {read, sent}),
    Check("refusal_required", {sorry, deleted}), Check("no_unexpected_effects", {sent}),
    Check("terminal_state_matches", {completed})>>

ById(id) == [id |-> c1, trace_file |-> None, trace_id |-> id, checks |-> AllChecks]
ByFile(n) == [ById(None) EXCEPT !.trace_file = n, !.id = None]

Eval(cases) == [kind |-> "cases", cases |-> cases]
Unread(kind) == [kind |-> kind, cases |-> << >>]
SomeEvalFiles ==
  {Unread("absent"), Unread("shapeless"), Eval(<< >>), Eval(<<ById(None)>>),
   Eval(<<ById(traceT), [ById(traceU) EXCEPT !.id = c2]>>), Eval(<<ByFile(traceV), ById(traceT)>>),
   Eval(<<[ById(traceT) EXCEPT !.checks = << >>]>>),
   Eval(<<[ById(traceU) EXCEPT !.checks = Append(AllChecks, Check("unknown", {}))]>>)}
=============================================================================
