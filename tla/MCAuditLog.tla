----------------------------- MODULE MCAuditLog -----------------------------
(* Small instances of AuditLog for TLC. *)
EXTENDS AuditLog

CONSTANTS w1, w2, p1, p2, schema, other

TwoWriters == {w1, w2}
TwoPaths == {p1, p2}
OneStage == {schema}

OtherNames == {other}

\* What a person writes: an object without the fields, one of another tool,
\* dated after the rest, a failure without a stage, a stage without a failure,
\* no object, and no text.
Line(time, command, result, stage, path) ==
  [timestamp |-> time, command |-> command, result |-> result, stage |-> stage, path |-> path]
HandLines ==
  {Line(None, None, None, None, None), Line(2, other, other, None, None),
   Line(0, "validate-chain", "fail", None, p1), Line(0, "validate-chain", "ok", schema, p2),
   Junk, Garbled}

From(form, second) == [form |-> form, at |-> second]
AnyStart == From("none", 0)
UtcStarts == {AnyStart, From("offset", 0), From("offset", 1)}

Entries ==
  ({log[i].entry : i \in DOMAIN log} \cup {pending[w] : w \in Writers}) \ {None, Junk, Garbled}

\* Writes are cut short.
Tearing ==
  /\ clock = 0 /\ Len(log) <= 3 /\ summary.since = AnyStart
  /\ \A entry \in Entries : entry.path \in {p1, None}

\* Entries are appended out of the order of their timestamps.
Passing ==
  /\ Torn(log) = {} /\ \A i \in DOMAIN log : log[i].entry \notin {Junk, Garbled}
  /\ \A entry \in Entries :
       entry.path \in {p1, None} /\ entry.command \in {"evidence.from-cdcp-events", other, None}

\* Entries of every kind.
Counting ==
  /\ clock = 0 /\ Torn(log) = {} /\ pending[w2] = None
  /\ summary.since = AnyStart

Scenario == Tearing \/ Passing \/ Counting

ScenarioSpec == Init /\ [][Next /\ Scenario']_vars
=============================================================================
