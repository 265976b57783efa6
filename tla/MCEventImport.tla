---------------------------- MODULE MCEventImport ----------------------------
(* Small instances of EventImport. *)
EXTENDS EventImport

WordSet == Abouts \cup Endings \cup {"t", "u", "draft", "line", "_", "1"}

Text(value, values) == [type |-> "text", value |-> value, values |-> values]
Other(type)         == [type |-> type, value |-> FALSE, values |-> "missing"]

Failure(trace) ==
  [kind |-> "event", about |-> "gate", ending |-> "failed", trace_id |-> trace,
   candidate_id |-> None, checks |-> {}, expected_behavior |-> {}]
Proposed(trace, id) == [Failure(trace) EXCEPT !.candidate_id = id]
Malformed   == [Failure("t") EXCEPT !.kind = "malformed"]
Undecodable == [Failure("t") EXCEPT !.kind = "undecodable"]

\* Events of two files whose ids clash by trace, and lines that make no case.
DirLines == {Failure("t"), Malformed, [Failure("t") EXCEPT !.ending = "closed"]}

\* One file whose explicit ids clash with the ids made up for others.
Four == <<"u", "line", "1", "1", "1", "1">>
ClashLines ==
  {Proposed("t", <<"u">>), Proposed("t", <<"u", "line", "1", "1", "1">>), Proposed("t", Four),
   Proposed("u", Four \o <<"_", "1", "1">>)}

\* Every kind of check, event and line that the drafts depend on.
ExplicitLine(checks) == [Failure("t") EXCEPT !.checks = checks]
Incident(ending) ==
  [Failure("u") EXCEPT !.about = "incident", !.ending = ending, !.expected_behavior = {Text(TRUE, "missing")}]
KindLines ==
  {ExplicitLine(S) : S \in {{Text(FALSE, "missing")}, {Text(FALSE, "empty"), Other("tools")},
                            {Text(FALSE, "some"), Text(FALSE, "empty"), Other("state")}}}
    \cup {Incident("failed"), Incident("closed"), Failure(None), Malformed}

AllLines == DirLines \cup ClashLines \cup KindLines

From(lines, targets) ==
  /\ \A f \in Files : \A i \in DOMAIN ledger[f] : ledger[f][i] \in lines
  /\ imports = 0 \/ target \in targets

\* The worlds: two imports of two files, or of the second alone, of at most two
\* lines each; one import of a single file, of up to four lines that clash or of
\* up to three lines of every kind.
Scenario ==
  \/ From(DirLines, {Dir, 2}) /\ \A f \in Files : Len(ledger[f]) <= 2
  \/ From(ClashLines, {1}) /\ ledger[2] = <<>> /\ imports <= 1
  \/ /\ From(ClashLines \cup KindLines, {1}) /\ ledger[2] = <<>> /\ imports <= 1
     /\ Len(ledger[1]) <= 3

ScenarioInit == Init /\ Scenario

ScenarioSpec == ScenarioInit /\ [][Next /\ Scenario']_vars /\ WF_vars(Step /\ Scenario')

AnyLines == {Failure("t"), Malformed, Undecodable}
=============================================================================
