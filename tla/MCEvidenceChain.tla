--------------------------- MODULE MCEvidenceChain ---------------------------
(* Small instances of EvidenceChain: the lines, Run records and command     *)
(* lines its configurations choose from.                                    *)
EXTENDS ChainRefinement

r1 == "r1"
r2 == "r2"

Line(type, id) ==
  [utf8 |-> TRUE, json |-> TRUE, valid |-> TRUE, conforms |-> TRUE, type |-> type,
   run_id |-> id, payload_run_id |-> None, prompt_snapshot_hash |-> None,
   tool_schemas_snapshot_hash |-> None, gate_name |-> None, fields_populated |-> {}]

StartLine(id, prompt, tools) ==
  [Line("pipeline.start", id) EXCEPT !.prompt_snapshot_hash = prompt,
                                     !.tool_schemas_snapshot_hash = tools]
GateLine(id, type, gate) == [Line(type, id) EXCEPT !.gate_name = gate]
Recorded(fields) == [Line("gate.run.evidence_recorded", None) EXCEPT
                       !.payload_run_id = r1, !.fields_populated = fields]

Latin1     == [Line("other", r1) EXCEPT !.utf8 = FALSE, !.json = FALSE, !.valid = FALSE]
Torn       == [Line("other", None) EXCEPT !.json = FALSE, !.valid = FALSE]
Nonconform == [Line("other", r1) EXCEPT !.valid = FALSE]
Unpackable == [Line("other", r1) EXCEPT !.conforms = FALSE]
Nested(id) == [Line("other", None) EXCEPT !.payload_run_id = id]

Record(id, prompt, passed) ==
  [id |-> id, conforms |-> TRUE, prompt_snapshot_hash |-> prompt,
   tool_schemas_snapshot_hash |-> None, sandbox_image_ref |-> FALSE,
   summary_is_object |-> TRUE, gates_passed |-> passed, gates_failed |-> {}]

Command(name, target, override) ==
  [name |-> name, target |-> target, run_record |-> override, no_audit |-> FALSE]
Silent(c) == [c EXCEPT !.no_audit = TRUE]

-----------------------------------------------------------------------------
\* One ledger file, every kind of line, every reason to refuse.
FileLines ==
  {StartLine(r1, "h1", "t1"), GateLine(r1, "gate.check.passed", "g1"),
   GateLine(r1, "gate.check.failed", "g2"),
   Recorded({"prompt_snapshot_hash", "gate_results_summary", "determinism"}),
   Recorded({"sandbox_image_ref"}), StartLine(r1, "h2", "t1"), Line("other", r2),
   Torn, Latin1, Nonconform, Unpackable}
FileRecords ==
  {[Record(r1, "h1", {"g1"}) EXCEPT !.tool_schemas_snapshot_hash = "t1", !.gates_failed = {"g2"},
                                    !.sandbox_image_ref = TRUE],
   [Record(r1, "h1", {"g1", "g2"}) EXCEPT !.tool_schemas_snapshot_hash = "t1"],
   Record(r1, "", {}), [Record(r1, "h1", {}) EXCEPT !.summary_is_object = FALSE],
   [Record(r1, None, {}) EXCEPT !.tool_schemas_snapshot_hash = "t1"],
   [Record(r1, "h1", {}) EXCEPT !.conforms = FALSE], Record(None, None, {})}
FileCommands ==
  {Command("chain", 1, None), Command("chain", 1, r1), Command("chain", 1, BadRef),
   Command("evidence", 1, None), Command("evidence", 1, r1), Command("evidence", 1, BadRef)}

\* Two ledger files under one directory.
DirLines == {StartLine(r1, "h1", None), Line("other", r2), Nested(r1), Torn}
DirRecords == {Record(r1, "h1", {}), Record(r2, None, {})}
DirCommands ==
  {Command("chain", Dir, None), Command("chain", Dir, r1), Command("chain", 2, None),
   Command("evidence", Dir, None), Command("evidence", Dir, r2)}

\* Producers that write while commands run, one command after the other.
BusyLines == {StartLine(r1, "h1", None), Nested(r2), Unpackable, Latin1}
BusyRecords == {Record(r1, "h1", {}), Record(r1, "h2", {}), Record(r2, "h1", {})}
BusyCommands ==
  {Command("chain", 1, None), Silent(Command("chain", 1, r1)), Command("evidence", 1, None)}

BusyOrDirLines == BusyLines \cup DirLines
BusyOrDirRecords == BusyRecords \cup DirRecords
BusyOrDirCommands == BusyCommands \cup DirCommands

\* What the ledgers, the records, and the command that runs or ran are of.
Of(lines, contents, commands) ==
  /\ \A f \in Files : \A i \in DOMAIN ledger[f] : ledger[f][i] \in lines
  /\ \A id \in RunIds : records[id] \in contents \cup {Absent}
  /\ pc # "idle" => cmd \in commands
  /\ \A i \in DOMAIN history : history[i].cmd \in commands

\* The two worlds: two commands in a row on one ledger file, or one command on
\* a directory of two files of at most one line.
Scenario ==
  \/ /\ Of(BusyLines, BusyRecords, BusyCommands) /\ ledger[2] = <<>>
     /\ records[r2] \in {Absent, Record(r2, "h1", {})}
  \/ /\ Of(DirLines, DirRecords \cup {Garbled}, DirCommands)
     /\ \A f \in Files : Len(ledger[f]) <= 1
     /\ pc # "idle" => history = <<>>

ScenarioInit == Init /\ Scenario

ScenarioSpec == ScenarioInit /\ [][Next /\ Scenario']_vars
=============================================================================
