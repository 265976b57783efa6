----------------------------- MODULE AtomicChain -----------------------------
(***************************************************************************)
(* What the evidence commands promise for one ledger file: a command looks *)
(* at the ledger and the run-records directory once, and its verdict is a  *)
(* function of what is there.  EvidenceChain reads both several times, by  *)
(* two sets of rules; with quiet producers it keeps this promise.          *)
(*                                                                         *)
(* Acceptable is written from what a verdict should mean, not from the     *)
(* stages: no reads, no order of checks, no packet.                        *)
(***************************************************************************)
EXTENDS Naturals, Sequences

CONSTANTS RunIds, Records, Commands, None, BadRef

VARIABLES
  ledger,    \* the ledger files
  records,   \* the Run records, by run id
  running,   \* the command line being executed, or None
  results    \* the commands that ended and how

vars == <<ledger, records, running, results>>

-----------------------------------------------------------------------------
Log(c)   == ledger[c.target]
LogLines(c) == {Log(c)[i] : i \in 1..Len(Log(c))}

RunOf(l) == IF l.run_id # None THEN l.run_id ELSE l.payload_run_id

\* The Run record of run id, or the one named on the command line.
RecordOf(c, id) == records[IF c.run_record = None THEN id ELSE c.run_record]

\* Record r can become a packet together with the lines E.
Packable(r, E) ==
  /\ r \in Records /\ r.id # None /\ r.conforms
  /\ \A l \in E : l.conforms /\ RunOf(l) \in {r.id, None}

\* "evidence": some Run record goes with every line that can be read.
EvidenceAcceptable(c) ==
  LET E == {l \in LogLines(c) : l.json}
  IN  /\ Log(c) # <<>> /\ c.run_record # BadRef
      /\ \A l \in LogLines(c) : l.utf8
      /\ \E id \in RunIds :
           /\ c.run_record = None => \E l \in E : RunOf(l) = id
           /\ Packable(RecordOf(c, id), E)

\* The replay hashes of r are those of the run's first pipeline.start event.
StartAgrees(c, r) ==
  \A field \in {"prompt_snapshot_hash", "tool_schemas_snapshot_hash"} :
    /\ r[field] # ""
    /\ \A i \in 1..Len(Log(c)) :
         /\ Log(c)[i].type = "pipeline.start"
         /\ \A j \in 1..(i - 1) : Log(c)[j].type # "pipeline.start"
         => Log(c)[i][field] = r[field]

\* Every gate the summary names has its event, if gates have events at all.
GatesAgree(c, r) ==
  LET Shown(type) == {l.gate_name : l \in {k \in LogLines(c) : k.type = type}} \ {None}
  IN  /\ r.summary_is_object
      /\ \/ Shown("gate.check.passed") = {} /\ Shown("gate.check.failed") = {}
         \/ /\ r.gates_passed \subseteq Shown("gate.check.passed")
            /\ r.gates_failed \subseteq Shown("gate.check.failed")

\* What gate.run.evidence_recorded declares, the record has.  A declared
\* gate_results_summary asks for nothing: the event that declares it is
\* itself a gate result.
DeclaredPresent(c, r) ==
  \A l \in LogLines(c) : l.type = "gate.run.evidence_recorded" =>
    /\ "prompt_snapshot_hash" \in l.fields_populated => r.prompt_snapshot_hash # None
    /\ "tool_schemas_snapshot_hash" \in l.fields_populated => r.tool_schemas_snapshot_hash # None
    /\ "sandbox_image_ref" \in l.fields_populated => r.sandbox_image_ref

\* "chain": every line is a valid event, one run id, and its Run record agrees.
ChainAcceptable(c) ==
  /\ EvidenceAcceptable(c)
  /\ \A l \in LogLines(c) : l.json /\ l.valid
  /\ \E id \in RunIds :
       /\ \E l \in LogLines(c) : l.run_id = id
       /\ \A l \in LogLines(c) : RunOf(l) \in {id, None}
       /\ LET r == RecordOf(c, id)
          IN  r.id = id /\ StartAgrees(c, r) /\ GatesAgree(c, r) /\ DeclaredPresent(c, r)

Acceptable(c) == IF c.name = "chain" THEN ChainAcceptable(c) ELSE EvidenceAcceptable(c)

-----------------------------------------------------------------------------
Init == running = None /\ results = <<>>

Produce == running = None /\ UNCHANGED <<running, results>>

Issue(c) == running = None /\ running' = c /\ UNCHANGED <<ledger, records, results>>

Finish(how) ==
  /\ running # None
  /\ running' = None
  /\ results' = Append(results, [cmd |-> running, how |-> how])
  /\ UNCHANGED <<ledger, records>>

Decide == running # None /\ Finish(IF Acceptable(running) THEN "accepted" ELSE "rejected")

Next == Produce \/ (\E c \in Commands : Issue(c)) \/ Decide \/ Finish("abandoned")

Spec == Init /\ [][Next]_vars /\ WF_vars(Decide)
=============================================================================
