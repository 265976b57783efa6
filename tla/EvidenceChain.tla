---------------------------- MODULE EvidenceChain ----------------------------
(***************************************************************************)
(* The two commands that turn a producer's event ledger and Run record     *)
(* into evidence:                                                          *)
(*                                                                         *)
(*   "evidence"  trace-to-eval evidence from-cdcp-events LEDGER --out OUT  *)
(*   "chain"     trace-to-eval validate-chain LEDGER                       *)
(*                                                                         *)
(* Neither command takes a snapshot: it opens the ledger files up to four  *)
(* times and the Run record twice.  Every file access is a step of its     *)
(* own, so a producer that is still writing (Concurrent = TRUE) can slip   *)
(* between any two of them.  With Concurrent = FALSE the producer only     *)
(* writes while no command runs, which is how README.md describes it.      *)
(*                                                                         *)
(* Abstractions: a hash is the content that was hashed; a ledger line is   *)
(* the record of what the commands read in it; a ledger file exists once   *)
(* it holds a line; files are numbered in the order the sorted glob lists  *)
(* them; the artifact files a Run record names are in PacketStore.        *)
(***************************************************************************)
EXTENDS Naturals, Sequences, FiniteSets

CONSTANTS
  NFiles,      \* ledger files the directory may come to hold
  RunIds,      \* run identifiers; each names one file of run-records/
  ActiveRuns,  \* runs whose Run record a producer may write
  Lines,       \* lines a producer may append to a ledger
  Records,     \* contents a producer may give a Run record
  Commands,    \* command lines a user may issue
  None,        \* an absent value
  Absent,      \* no Run record file at that path
  Broken,      \* a Run record file that is not a JSON object
  Garbled,     \* a Run record file that is not UTF-8
  BadRef,      \* a --run-record no file can stand behind (artifact://, bad repo://)
  Concurrent,  \* may producers write while a command runs?
  MaxLines,    \* bound: lines per ledger file
  MaxRuns      \* bound: commands issued

Files == 1..NFiles
Dir == 0       \* the target "the whole directory" of a command line

(***************************************************************************)
(* Lines, Run records and command lines, by the fields the commands read.  *)
(*   utf8      can be decoded; a file that holds one line that cannot is   *)
(*             not read at all                                             *)
(*   json      parses as a JSON object                                     *)
(*   valid     conforms to event.schema.json                               *)
(*   conforms  what it contributes to a packet conforms to                 *)
(*             run-evidence.schema.json                                    *)
(***************************************************************************)
LineType(Hashes, Gates) ==
  [utf8 : BOOLEAN, json : BOOLEAN, valid : BOOLEAN, conforms : BOOLEAN, type : STRING,
   run_id : RunIds \cup {None}, payload_run_id : RunIds \cup {None},
   prompt_snapshot_hash : Hashes \cup {None},
   tool_schemas_snapshot_hash : Hashes \cup {None},
   gate_name : Gates \cup {None}, fields_populated : SUBSET STRING]

RecordType(Hashes, Gates) ==
  [id : RunIds \cup {None}, conforms : BOOLEAN,
   prompt_snapshot_hash : Hashes \cup {None, ""},
   tool_schemas_snapshot_hash : Hashes \cup {None, ""},
   sandbox_image_ref : BOOLEAN, summary_is_object : BOOLEAN,
   gates_passed : SUBSET Gates, gates_failed : SUBSET Gates]

CommandType ==
  [name : {"evidence", "chain"}, target : Files \cup {Dir},
   run_record : RunIds \cup {None, BadRef}, no_audit : BOOLEAN]

ASSUME ConstantsAssumption ==
  /\ NFiles \in Nat \ {0}
  /\ MaxLines \in Nat
  /\ MaxRuns \in Nat
  /\ Concurrent \in BOOLEAN
  /\ Commands \subseteq CommandType
  /\ ActiveRuns \subseteq RunIds
  /\ None \notin RunIds /\ BadRef \notin RunIds /\ None # BadRef
  /\ None # "" /\ None \notin Commands
  /\ \A l \in Lines : {l.run_id, l.payload_run_id} \subseteq RunIds \cup {None}
  /\ {Absent, Broken, Garbled, None} \cap Records = {}

VARIABLES
  ledger,     \* the ledger files: Files -> sequence of lines
  records,    \* run-records/: RunIds -> contents
  pc,         \* next step of the running command
  cmd,        \* its command line
  primary,    \* validate_chain: discovered[0]
  files,      \* run_evidence: files
  todo,       \* files the present loop has still to open
  validated,  \* validate_chain: what its own parse read, per file
  parsed,     \* run_evidence: what the generator's parse read, per file
  inputs,     \* run_evidence: input_refs[].hash, per file
  record,     \* run_evidence: the Run record it loaded and hashed
  logHash,    \* run_evidence: event_log_hash
  checked,    \* validate_chain: the Run record it re-read
  verdict,    \* how the command ends: a stage, "ok", "uncaught" or "none" yet
  out,        \* the packet at OUT
  audit,      \* ops/audit-log.jsonl
  history     \* the commands that ended: ghost, read by the properties only

store   == <<ledger, records>>
reads   == <<primary, files, todo, validated, parsed, inputs, record, logHash, checked>>
results == <<out, audit, history>>
vars    == <<store, pc, cmd, reads, verdict, results>>

-----------------------------------------------------------------------------
(* Views of the ledger files.                                              *)

EmptyView == [f \in {} |-> <<>>]

Extend(view, f) ==
  [g \in DOMAIN view \cup {f} |-> IF g = f THEN ledger[f] ELSE view[g]]

LinesOf(view) == UNION {{view[f][i] : i \in 1..Len(view[f])} : f \in DOMAIN view}

\* parse_event_logs drops a malformed line into line_errors.
Events(view) == {l \in LinesOf(view) : l.json}

Exists(f) == ledger[f] # <<>>

\* read_text decodes the whole file before the first line is looked at.
Decodes(f) == \A i \in 1..Len(ledger[f]) : ledger[f][i].utf8

\* discover_event_log_files: the file itself, or the directory's *.jsonl.
Discovered(target) == IF target = Dir THEN {f \in Files : Exists(f)} ELSE {target}

First(S) == CHOOSE f \in S : \A g \in S : f <= g

-----------------------------------------------------------------------------
(* What the commands compute from the lines and records they read.         *)

\* validate_chain._find_run_id reads the envelope only ...
EnvelopeIds(view) == {l.run_id : l \in Events(view)} \ {None}

\* ... run_evidence._events_run_id falls back on the payload.
EventIds(view) ==
  {IF l.run_id # None THEN l.run_id ELSE l.payload_run_id : l \in Events(view)} \ {None}

Conflicting(ids) == \E a, b \in ids : a # b

TheId(ids) == CHOOSE id \in RunIds : id \in ids

\* _first_value takes "" for absent.
PassThrough(value) == IF value = "" THEN None ELSE value

GateTypes == {"gate.check.passed", "gate.check.failed", "gate.run.evidence_recorded"}
IsGate(l) == l.type \in GateTypes \/ l.gate_name # None

Packet ==
  [run_id                     |-> record.id,
   run_record_hash            |-> record,
   event_log_hash             |-> logHash,
   input_refs                 |-> inputs,
   prompt_snapshot_hash       |-> PassThrough(record.prompt_snapshot_hash),
   tool_schemas_snapshot_hash |-> PassThrough(record.tool_schemas_snapshot_hash),
   sandbox_image_ref          |-> record.sandbox_image_ref,
   gate_results               |-> {l \in Events(parsed) : IsGate(l)},
   conforms                   |-> record.conforms /\ \A l \in Events(parsed) : l.conforms]

\* OUT when it was opened for writing and not filled yet.
Truncated == [conforms |-> FALSE]

\* _find_event_of_type(events, "pipeline.start"), events in file and line order.
Starts(view) ==
  UNION {{<<f, i>> : i \in {j \in 1..Len(view[f]) : view[f][j].type = "pipeline.start"}}
           : f \in DOMAIN view}

FirstStart(view) ==
  LET p == CHOOSE p \in Starts(view) : \A q \in Starts(view) :
             p[1] < q[1] \/ (p[1] = q[1] /\ p[2] <= q[2])
  IN  view[p[1]][p[2]]

\* Mutants: a source the comparison leaves out.
HashesAgreeWithoutEvent(rec, field) == rec[field] = Packet[field]
HashesAgreeWithoutPacket(rec, field) ==
  Starts(validated) # {} => FirstStart(validated)[field] = rec[field]

\* _cross_check_prompt_hash and _cross_check_tool_schemas_hash.
HashesAgree(rec, field) ==
  /\ rec[field] = Packet[field]
  /\ Starts(validated) # {} => FirstStart(validated)[field] = rec[field]

Typed(view, type) == {l \in LinesOf(view) : l.type = type}
LedgerGates(view, type) == {l.gate_name : l \in Typed(view, type)} \ {None}

\* _cross_check_gate_results: the summary against the ledger, not the packet.
SummaryBacked(rec, view) ==
  LET passed == LedgerGates(view, "gate.check.passed")
      failed == LedgerGates(view, "gate.check.failed")
  IN  /\ rec.summary_is_object
      /\ passed \cup failed # {} =>
           rec.gates_passed \subseteq passed /\ rec.gates_failed \subseteq failed

\* _cross_check_fields_populated: what the ledger declares, the packet carries.
Declared == UNION {l.fields_populated : l \in Typed(validated, "gate.run.evidence_recorded")}

Carries(field) ==
  CASE field \in {"prompt_snapshot_hash", "tool_schemas_snapshot_hash"} -> Packet[field] # None
    [] field = "sandbox_image_ref"    -> Packet.sandbox_image_ref
    [] field = "gate_results_summary" -> Packet.gate_results # {}
    [] OTHER -> TRUE

-----------------------------------------------------------------------------
(* The producers.  A ledger only grows; a Run record may be rewritten.     *)

MayWrite == pc = "idle" \/ Concurrent

AppendLine(f, l) ==
  /\ MayWrite
  /\ Len(ledger[f]) < MaxLines
  /\ ledger' = [ledger EXCEPT ![f] = Append(@, l)]
  /\ UNCHANGED <<records, pc, cmd, reads, verdict, results>>

Contents == Records \cup {Absent, Broken, Garbled}

WriteRecord(id, content) ==
  /\ MayWrite
  /\ records[id] # content
  /\ records' = [records EXCEPT ![id] = content]
  /\ UNCHANGED <<ledger, pc, cmd, reads, verdict, results>>

Produce ==
  \/ \E f \in Files, l \in Lines : AppendLine(f, l)
  \/ \E id \in ActiveRuns, content \in Contents : WriteRecord(id, content)

-----------------------------------------------------------------------------
(* Control.  An exception ends the command: verdict says which.            *)

Stages ==
  {"load-events", "event-schema", "run-record", "packet-schema",
   "cross-check.prompt_snapshot_hash", "cross-check.tool_schemas_snapshot_hash",
   "cross-check.gate_results_summary", "cross-check.fields_populated"}

Labels ==
  {"idle", "discover", "list", "read", "check", "gen_discover", "gen_list", "gen_read",
   "gen_hash", "load_record", "hash_log", "open", "write", "validate", "cross_check", "exit"}

Goto(label) == pc' = label /\ UNCHANGED verdict
End(how)    == pc' = "exit" /\ verdict' = how

\* run_validate_chain catches the ValueErrors the generator raises and names a
\* stage; the evidence command catches nothing.
GenRaise(stage) == End(IF cmd.name = "chain" THEN stage ELSE "uncaught")

Start(c) ==
  /\ pc = "idle"
  /\ Len(history) < MaxRuns
  /\ cmd' = c
  /\ pc' = IF c.name = "chain" THEN "discover" ELSE "gen_discover"
  /\ verdict' = "none"
  /\ primary' = 0 /\ files' = {} /\ todo' = {}
  /\ validated' = EmptyView /\ parsed' = EmptyView /\ inputs' = EmptyView
  /\ record' = None /\ logHash' = <<>> /\ checked' = None
  /\ UNCHANGED <<store, results>>

-----------------------------------------------------------------------------
(* validate-chain, stages 1 and 2: its own pass over the ledger.           *)

\* A missing file is a stage failure; an empty directory raises
\* FileNotFoundError out of discover_event_log_files.
Discover ==
  /\ pc = "discover"
  /\ \/ /\ cmd.target \in Files /\ ~Exists(cmd.target)
        /\ End("load-events") /\ UNCHANGED primary
     \/ /\ Discovered(cmd.target) = {}
        /\ End("uncaught") /\ UNCHANGED primary
     \/ /\ \A f \in Discovered(cmd.target) : Exists(f)
        /\ Discovered(cmd.target) # {}
        /\ primary' = First(Discovered(cmd.target))
        /\ Goto("list")
  /\ UNCHANGED <<store, cmd, files, todo, validated, parsed, inputs, record, logHash,
                 checked, results>>

\* parse_event_logs discovers the files anew before it opens them.
List ==
  /\ pc = "list"
  /\ todo' = Discovered(cmd.target)
  /\ Goto("read")
  /\ UNCHANGED <<store, cmd, primary, files, validated, parsed, inputs, record, logHash,
                 checked, results>>

\* Nobody expects the UnicodeDecodeError of a file that is not UTF-8.
Read ==
  /\ pc = "read"
  /\ \/ /\ Decodes(First(todo))
        /\ validated' = Extend(validated, First(todo))
        /\ todo' = todo \ {First(todo)}
        /\ Goto(IF todo' = {} THEN "check" ELSE "read")
     \/ /\ ~Decodes(First(todo))
        /\ End("uncaught") /\ UNCHANGED <<validated, todo>>
  /\ UNCHANGED <<store, cmd, primary, files, parsed, inputs, record, logHash, checked, results>>

Malformed(view) == \E l \in LinesOf(view) : ~l.json

\* Mutant: only the first event of a file is validated.
FirstNonconforming(view) == \E f \in DOMAIN view : ~view[f][1].valid
Nonconforming(view) == \E l \in LinesOf(view) : ~l.valid

OneRun(view) == EnvelopeIds(view) # {} /\ ~Conflicting(EnvelopeIds(view))

Check ==
  /\ pc = "check"
  /\ \/ Malformed(validated) /\ End("load-events")
     \/ ~Malformed(validated) /\ Nonconforming(validated) /\ End("event-schema")
     \/ /\ ~Malformed(validated) /\ ~Nonconforming(validated) /\ ~OneRun(validated)
        /\ End("load-events")
     \/ /\ ~Malformed(validated) /\ ~Nonconforming(validated) /\ OneRun(validated)
        /\ Goto("gen_discover")
  /\ UNCHANGED <<store, cmd, reads, results>>

-----------------------------------------------------------------------------
(* build_run_evidence_from_cdcp_events and write_run_evidence_...: the     *)
(* generator, on the primary ledger alone when validate-chain calls it.    *)

\* Mutant: the generator is given the ledger path as the user gave it.
SourceAsGiven == cmd.target
Source == IF cmd.name = "chain" THEN primary ELSE cmd.target

GenDiscover ==
  /\ pc = "gen_discover"
  /\ \/ /\ \A f \in Discovered(Source) : ~Exists(f)
        /\ End("uncaught") /\ UNCHANGED files
     \/ /\ \E f \in Discovered(Source) : Exists(f)
        /\ files' = Discovered(Source)
        /\ Goto("gen_list")
  /\ UNCHANGED <<store, cmd, primary, todo, validated, parsed, inputs, record, logHash,
                 checked, results>>

GenList ==
  /\ pc = "gen_list"
  /\ todo' = Discovered(Source)
  /\ Goto("gen_read")
  /\ UNCHANGED <<store, cmd, primary, files, validated, parsed, inputs, record, logHash,
                 checked, results>>

\* Malformed lines are skipped with a warning here, never an error.  A
\* UnicodeDecodeError is a ValueError, which validate-chain takes for the
\* packet's.
GenRead ==
  /\ pc = "gen_read"
  /\ \/ /\ Decodes(First(todo))
        /\ parsed' = Extend(parsed, First(todo))
        /\ todo' = IF todo = {First(todo)} THEN files ELSE todo \ {First(todo)}
        /\ Goto(IF todo = {First(todo)} THEN "gen_hash" ELSE "gen_read")
     \/ /\ ~Decodes(First(todo))
        /\ GenRaise("packet-schema") /\ UNCHANGED <<parsed, todo>>
  /\ UNCHANGED <<store, cmd, primary, files, validated, inputs, record, logHash, checked, results>>

\* input_refs: every file is opened a second time to hash it.
GenHashInput ==
  /\ pc = "gen_hash"
  /\ inputs' = Extend(inputs, First(todo))
  /\ todo' = todo \ {First(todo)}
  /\ Goto(IF todo' = {} THEN "load_record" ELSE "gen_hash")
  /\ UNCHANGED <<store, cmd, primary, files, validated, parsed, record, logHash, checked, results>>

\* _load_run_record: which file, and every reason to refuse it.
RecordSlot == IF cmd.run_record = None THEN TheId(EventIds(parsed)) ELSE cmd.run_record

LocatesRecord ==
  /\ ~Conflicting(EventIds(parsed))
  /\ cmd.run_record # BadRef
  /\ cmd.run_record = None => EventIds(parsed) # {}

\* Mutants: what was read is not checked to be a record, or to be this run's.
AcceptsAnyFile == LocatesRecord
AcceptsAnyRun ==
  /\ LocatesRecord
  /\ records[RecordSlot] \in Records
  /\ records[RecordSlot].id # None
AcceptsRecord ==
  /\ LocatesRecord
  /\ records[RecordSlot] \in Records
  /\ records[RecordSlot].id # None
  /\ EventIds(parsed) \subseteq {records[RecordSlot].id}

\* The one file that is found and refused with no RunRecordError.
Undecodable == LocatesRecord /\ records[RecordSlot] = Garbled

LoadRecord ==
  /\ pc = "load_record"
  /\ \/ /\ AcceptsRecord
        /\ record' = records[RecordSlot]
        /\ Goto("hash_log")
     \/ /\ ~AcceptsRecord
        /\ GenRaise(IF Undecodable THEN "packet-schema" ELSE "run-record")
        /\ UNCHANGED record
  /\ UNCHANGED <<store, cmd, primary, files, todo, validated, parsed, inputs, logHash,
                 checked, results>>

\* Mutant: the bytes parsed are hashed, those on disk no more.
PrimaryBytesCached == parsed[First(files)]
PrimaryBytes == ledger[First(files)]

HashLog ==
  /\ pc = "hash_log"
  /\ logHash' = PrimaryBytes
  /\ Goto("open")
  /\ UNCHANGED <<store, cmd, primary, files, todo, validated, parsed, inputs, record,
                 checked, results>>

\* The packet reaches OUT before it is validated, and OUT is empty before that;
\* validate-chain writes to a temporary directory instead.
OpenOut ==
  /\ pc = "open"
  /\ out' = IF cmd.name = "evidence" THEN Truncated ELSE out
  /\ Goto("write")
  /\ UNCHANGED <<store, cmd, reads, audit, history>>

\* Mutant: validate-chain has no directory of its own.
WriteEveryPacket ==
  /\ pc = "write"
  /\ out' = Packet
  /\ Goto("validate")
  /\ UNCHANGED <<store, cmd, reads, audit, history>>

WritePacket ==
  /\ pc = "write"
  /\ out' = IF cmd.name = "evidence" THEN Packet ELSE out
  /\ Goto("validate")
  /\ UNCHANGED <<store, cmd, reads, audit, history>>

\* Mutant: only validate-chain validates the packet.
PacketPassesUnlessChain == cmd.name = "chain" => Packet.conforms
PacketPasses == Packet.conforms

ValidatePacket ==
  /\ pc = "validate"
  /\ \/ ~PacketPasses /\ GenRaise("packet-schema")
     \/ PacketPasses /\ cmd.name = "chain" /\ Goto("cross_check")
     \/ PacketPasses /\ cmd.name = "evidence" /\ End("ok")
  /\ UNCHANGED <<store, cmd, reads, results>>

-----------------------------------------------------------------------------
(* validate-chain, stage 5: the Run record is read again, then the checks  *)
(* of CROSS_CHECKS run in order; the first that fails names the stage.     *)

CrossChecks ==
  <<"cross-check.prompt_snapshot_hash", "cross-check.tool_schemas_snapshot_hash",
    "cross-check.gate_results_summary", "cross-check.fields_populated">>

Passes(check, rec) ==
  CASE check = "cross-check.prompt_snapshot_hash" -> HashesAgree(rec, "prompt_snapshot_hash")
    [] check = "cross-check.tool_schemas_snapshot_hash" ->
         HashesAgree(rec, "tool_schemas_snapshot_hash")
    [] check = "cross-check.gate_results_summary" -> SummaryBacked(rec, validated)
    [] check = "cross-check.fields_populated" -> \A field \in Declared : Carries(field)

Failures(rec) == {i \in DOMAIN CrossChecks : ~Passes(CrossChecks[i], rec)}

\* _derive_run_record_path goes by the run id validate-chain found.
ReloadSlot == IF cmd.run_record = None THEN TheId(EnvelopeIds(validated)) ELSE cmd.run_record

\* A record gone or broken since the generator read it is not a
\* ChainValidationError.
CrossCheck ==
  /\ pc = "cross_check"
  /\ \/ /\ records[ReloadSlot] \notin Records
        /\ End("uncaught") /\ UNCHANGED checked
     \/ /\ records[ReloadSlot] \in Records
        /\ checked' = records[ReloadSlot]
        /\ End(IF Failures(checked') = {} THEN "ok" ELSE CrossChecks[First(Failures(checked'))])
  /\ UNCHANGED <<store, cmd, primary, files, todo, validated, parsed, inputs, record, logHash,
                 results>>

-----------------------------------------------------------------------------
(* cli.main: report, append to the audit log, exit.  An exception that is  *)
(* no ChainValidationError leaves main without an audit entry; a log that  *)
(* cannot be written ends a command that has given its answer.             *)

Audited ==
  \/ cmd.name = "evidence" /\ verdict = "ok"
  \/ cmd.name = "chain" /\ verdict \in Stages \cup {"ok"} /\ ~cmd.no_audit

Entry ==
  [command       |-> cmd.name,
   ledger_path   |-> cmd.target,
   result        |-> IF verdict = "ok" THEN "ok" ELSE "fail",
   failing_stage |-> IF verdict = "ok" THEN None ELSE verdict,
   run_id        |-> IF verdict # "ok" THEN None
                     ELSE IF cmd.name = "chain" THEN TheId(EnvelopeIds(validated))
                     ELSE Packet.run_id,
   packet_hash   |-> IF verdict = "ok" /\ cmd.name = "chain" THEN Packet ELSE None]

\* What an append that failed leaves in the log, at the worst.
Cut == [command |-> ""]

EndedAs(how, raised) == [cmd |-> cmd, verdict |-> how, raised |-> raised]

Exit ==
  /\ pc = "exit"
  /\ \/ /\ audit' = IF Audited THEN Append(audit, Entry) ELSE audit
        /\ history' = Append(history, EndedAs(verdict, FALSE))
     \/ /\ Audited
        /\ audit' \in {audit, Append(audit, Cut)}
        /\ history' = Append(history, EndedAs(verdict, TRUE))
  /\ Goto("idle")
  /\ UNCHANGED <<store, cmd, reads, out>>

\* The process may be killed between any two steps.
Interrupt ==
  /\ pc # "idle"
  /\ pc' = "idle" /\ verdict' = "killed"
  /\ history' = Append(history, EndedAs("killed", FALSE))
  /\ UNCHANGED <<store, cmd, reads, out, audit>>

-----------------------------------------------------------------------------
Init ==
  /\ ledger = [f \in Files |-> <<>>]
  /\ records = [id \in RunIds |-> Absent]
  /\ pc = "idle" /\ cmd = None /\ verdict = "none"
  /\ primary = 0 /\ files = {} /\ todo = {}
  /\ validated = EmptyView /\ parsed = EmptyView /\ inputs = EmptyView
  /\ record = None /\ logHash = <<>> /\ checked = None
  /\ out = None /\ audit = <<>> /\ history = <<>>

Step ==
  \/ Discover \/ List \/ Read \/ Check
  \/ GenDiscover \/ GenList \/ GenRead \/ GenHashInput \/ LoadRecord \/ HashLog
  \/ OpenOut \/ WritePacket \/ ValidatePacket \/ CrossCheck \/ Exit

Next == Produce \/ (\E c \in Commands : Start(c)) \/ Step \/ Interrupt

Spec == Init /\ [][Next]_vars

\* A command that is running is scheduled by the operating system; nobody has
\* to start one, to write, or to kill one.
FairSpec == Spec /\ WF_vars(Step)

-----------------------------------------------------------------------------
(* Properties.                                                             *)

IsView(view) ==
  /\ DOMAIN view \subseteq Files
  /\ \A f \in DOMAIN view : view[f] \in Seq(Lines)

\* The types of the variables.
TypeOK ==
  /\ ledger \in [Files -> Seq(Lines)]
  /\ records \in [RunIds -> Contents]
  /\ pc \in Labels
  /\ cmd \in Commands \cup {None}
  /\ pc # "idle" => cmd \in Commands
  /\ primary \in Files \cup {0}
  /\ files \subseteq Files /\ todo \subseteq Files
  /\ IsView(validated) /\ IsView(parsed) /\ IsView(inputs)
  /\ record \in Records \cup {None} /\ checked \in Records \cup {None}
  /\ logHash \in Seq(Lines)
  /\ verdict \in Stages \cup {"none", "ok", "uncaught", "killed"}

Prefix(s, t) == Len(s) <= Len(t) /\ \A i \in 1..Len(s) : s[i] = t[i]

Earlier(view, other) == \A f \in DOMAIN view \cap DOMAIN other : Prefix(view[f], other[f])

\* However a producer interleaves, the snapshots one command takes of a ledger
\* file are taken in the order validated, parsed, input hash, event_log_hash:
\* nothing the packet reports is missing from the ledger bytes it hashes.
SnapshotsOrdered ==
  /\ Earlier(validated, parsed) /\ Earlier(parsed, inputs) /\ Earlier(inputs, ledger)
  /\ pc \in {"open", "write", "validate", "cross_check"} =>
       /\ First(files) \in DOMAIN inputs
       /\ Prefix(inputs[First(files)], logHash)
       /\ Prefix(logHash, ledger[First(files)])

Passed(name) == pc = "exit" /\ verdict = "ok" /\ cmd.name = name

\* An OK of validate-chain is justified even if the Run record was rewritten
\* between the generator's read and the cross-checks: the record hashed into the
\* packet and the one checked carry the same replay hashes, and so does the
\* first pipeline.start event.
ReplayHashesAgree ==
  Passed("chain") =>
    \A field \in {"prompt_snapshot_hash", "tool_schemas_snapshot_hash"} :
      /\ PassThrough(record[field]) = checked[field]
      /\ Starts(validated) # {} => FirstStart(validated)[field] = PassThrough(record[field])

\* On one ledger file, the run id that validate-chain reports and audits is the
\* run id of the packet whose hash it reports, although the two are computed from
\* two reads of the ledger by two different rules.
RunIdentity ==
  Passed("chain") /\ cmd.target \in Files => EnvelopeIds(validated) = {Packet.run_id}

\* The ledger that an OK of validate-chain hashes is one it validated, as far as
\* it went then: a file that appears in the directory meanwhile is never hashed.
HashedLedgerWasValidated ==
  Passed("chain") =>
    /\ files = {primary} /\ primary \in DOMAIN validated
    /\ Prefix(validated[primary], logHash)

\* With quiet producers, an OK for one ledger file vouches for what the packet
\* hashes: the hashed ledger is all valid events of that run, and the hashed Run
\* record's gate summary is backed by the hashed ledger.
OkVouchesForPacket ==
  Passed("chain") /\ cmd.target \in Files /\ ~Concurrent =>
    LET log == [f \in {primary} |-> Packet.event_log_hash]
    IN  /\ \A l \in LinesOf(log) : l.json /\ l.valid /\ l.conforms
        /\ EventIds(log) = {Packet.run_id}
        /\ SummaryBacked(Packet.run_record_hash, log)
        /\ Packet.gate_results = {l \in Events(log) : IsGate(l)}

\* The i-th command was the last one that may have written to OUT.
LastWriter(i) ==
  /\ history[i].cmd.name = "evidence"
  /\ \A j \in (i + 1)..Len(history) : history[j].cmd.name # "evidence"

\* The evidence command has no --no-audit: what it wrote to OUT is what the audit
\* log tells of it last, whatever commands validate-chain ran, and however they
\* ended, since (R-TTE-021).  That holds unless it was cut off between the two,
\* by a kill or by a log that could not be written.
LogTellsOfPacket ==
  pc = "idle" =>
    \A i \in 1..Len(history) :
      LastWriter(i) /\ history[i].verdict = "ok" /\ ~history[i].raised =>
        /\ out.conforms
        /\ \E k \in 1..Len(audit) :
             /\ audit[k].command = "evidence"
             /\ audit[k].run_id = out.run_id
             /\ audit[k].ledger_path = history[i].cmd.target
             /\ \A m \in (k + 1)..Len(audit) : audit[m].command # "evidence"

\* Half a packet, or one that violates run-evidence.schema.json, stays at OUT only
\* after an evidence command that did not succeed, with no success since.
BadPacketOnlyAfterFailure ==
  pc = "idle" /\ out # None /\ ~out.conforms =>
    \E i \in 1..Len(history) :
      /\ history[i].cmd.name = "evidence" /\ history[i].verdict \in {"uncaught", "killed"}
      /\ \A j \in i..Len(history) :
           ~(history[j].cmd.name = "evidence" /\ history[j].verdict = "ok")

\* validate_chain.py:391: the Run record path re-derived for the cross-checks is
\* the one the generator used.
SameRecordReloaded == pc = "cross_check" => ReloadSlot = RecordSlot

-----------------------------------------------------------------------------
(* What is true at each step of a command: the strengthening from which    *)
(* EvidenceChainProofs derives the invariants above.                       *)

Generated == {"load_record", "hash_log", "open", "write", "validate", "cross_check"}
Answered  == pc = "exit" /\ verdict = "ok"

\* Who runs, on which file, and with what left to open.
Control ==
  /\ pc \in {"discover", "list", "read", "check", "cross_check"} => cmd.name = "chain"
  /\ (pc \notin {"idle", "discover", "exit"} \/ Answered) /\ cmd.name = "chain" =>
       /\ primary \in Files /\ Exists(primary)
       /\ cmd.target \in Files => primary = cmd.target
  /\ pc \in {"read", "gen_read", "gen_hash"} => todo # {}
  /\ pc \in {"gen_list", "gen_read", "gen_hash"} \cup Generated =>
       files # {} /\ \A f \in files : Exists(f)
  /\ pc = "read" /\ cmd.target \in Files => todo = {cmd.target}
  /\ pc = "gen_read" /\ cmd.name = "chain" => todo = {primary}

\* Which snapshots have been taken, and that none is younger than the ledger.
Order ==
  /\ Earlier(validated, parsed) /\ Earlier(parsed, inputs)
  /\ Earlier(validated, ledger) /\ Earlier(parsed, ledger) /\ Earlier(inputs, ledger)
  /\ pc \in {"discover", "list"} => validated = EmptyView
  /\ pc \in {"discover", "list", "read", "check", "gen_discover", "gen_list"} => DOMAIN parsed = {}
  /\ pc \notin {"idle", "exit", "gen_hash"} \cup Generated => DOMAIN inputs = {}
  /\ pc = "gen_hash" => files \subseteq todo \cup DOMAIN inputs
  /\ pc \in Generated => files \subseteq DOMAIN inputs
  /\ pc \in {"open", "write", "validate", "cross_check"} =>
       /\ Prefix(inputs[First(files)], logHash)
       /\ Prefix(logHash, ledger[First(files)])

\* What validate-chain has established about run ids.
Identity ==
  /\ pc # "idle" /\ cmd.name = "chain" /\ cmd.target \in Files =>
       DOMAIN validated \subseteq {cmd.target}
  /\ /\ pc \in {"gen_discover", "gen_list", "gen_read", "gen_hash"} \cup Generated \/ Answered
     /\ cmd.name = "chain"
     => EnvelopeIds(validated) # {}
  /\ (pc \in {"gen_hash"} \cup Generated \/ Answered) /\ cmd.name = "chain" =>
       primary \in DOMAIN parsed
  /\ pc \in {"hash_log", "open", "write", "validate", "cross_check"} \/ Answered =>
       /\ record \in Records
       /\ EventIds(parsed) \subseteq {record.id}

IInv == TypeOK /\ Control /\ Order /\ Identity

=============================================================================
