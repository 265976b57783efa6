----------------------------- MODULE PacketStore -----------------------------
(***************************************************************************)
(* What run-evidence packets are made of and stored as: a producer         *)
(* repository with one run's event ledger, Run record and artifacts, and   *)
(* the packet files that trace-to-eval evidence from-cdcp-events writes.   *)
(*                                                                         *)
(* EvidenceChain has every reason why the command may refuse a ledger or a *)
(* record; here it is given valid ones, and what matters is which file a   *)
(* ref in the packet leads to, and which content a hash belongs to.        *)
(*                                                                         *)
(* Abstractions: a hash is the content that was hashed; a ref is the place *)
(* it leads to; an event's created_at is its number.                       *)
(***************************************************************************)
EXTENDS Naturals, Sequences, FiniteSets

CONSTANTS
  Lines,        \* lines a producer may append to the ledger
  RecordForms,  \* forms of a Run record a producer may write
  Refs,         \* artifact refs a Run record may list
  Versions,     \* contents of artifacts
  Layouts,      \* where a producer may keep its ledger and its Run record
  Stocks,       \* artifacts that may be there at first
  PacketFiles,  \* packet files, numbered in the order of their names
  Missing,      \* no file
  Torn,         \* a file that was opened for writing and not written
  Foreign,      \* a file that is not UTF-8, or JSON but no object
  Foreigners,   \* packet files that may be of that kind at first
  MaxLines,     \* bound: lines of the ledger
  MaxWrites,    \* bound: writes of the producer after the run
  MaxPackets    \* bound: packets generated

\* The two places the refs of a portable packet point to, and others.
LedgerPlaces == {"ops/event-ledger", "ops/event-log"}
RecordPlaces == {"ops/run-records", "elsewhere"}

Words == {"passed", "failed", "warn", "skipped", "none"}

\* A ledger line: whether it reports a gate, the status it states and the
\* one its event type ends in.
Line == [gate : BOOLEAN, status : Words, type : Words \ {"skipped"}]

Repos == {"producer", "other"}
Ref == [scheme : {"repo", "artifact", "relative"}, repo : Repos, name : STRING]

\* A Run record sums up the first lines of the ledger.  It may be formatted
\* in more than one way, and may name the producer's commit.
RecordForm == [canonical : BOOLEAN, sandbox : BOOLEAN, outputs : SUBSET Refs]
Record == [covers : Nat, canonical : BOOLEAN, sandbox : BOOLEAN, outputs : SUBSET Refs]

Layout == [ledger : LedgerPlaces, record : RecordPlaces]

\* Artifacts lie in a repository, under the portfolio root, or beside a Run
\* record that is not in a repository.
Places == (Repos \cup {"portfolio", "elsewhere"}) \X {ref.name : ref \in Refs}

ASSUME StoreAssumption ==
  /\ Lines \subseteq Line /\ Refs \subseteq Ref /\ RecordForms \subseteq RecordForm
  /\ IsFiniteSet(Refs)
  /\ Layouts \subseteq Layout
  /\ Stocks \subseteq [Places -> Versions \cup {Missing}]
  /\ PacketFiles \subseteq Nat /\ Foreigners \subseteq SUBSET PacketFiles
  /\ Missing \notin Versions \cup Record
  /\ MaxLines \in Nat /\ MaxWrites \in Nat /\ MaxPackets \in Nat

VARIABLES
  layout,     \* where the ledger and the Run record are
  ledger,     \* the event ledger
  record,     \* the Run record
  artifacts,  \* the artifacts
  writes,     \* how often the producer wrote
  packets,    \* the packet files
  generated,  \* how many packets were begun
  gen         \* the running evidence command

store == <<layout, ledger, record, artifacts, writes>>
generator == <<packets, generated, gen>>

-----------------------------------------------------------------------------
(***************************************************************************)
(* Refs and hashes.                                                        *)
(***************************************************************************)
\* resolve_ref: a repo:// URI leads into that repository whatever commit it
\* names, a path to the portfolio root, an artifact:// URI nowhere.
Resolve(ref) ==
  CASE ref.scheme = "repo"     -> {<<ref.repo, ref.name>>}
    [] ref.scheme = "artifact" -> {}
    [] OTHER                   -> {<<"portfolio", ref.name>>}

ProducerRoot == IF layout.record = "ops/run-records" THEN "producer" ELSE "elsewhere"

\* The generator takes a path from the producer's root instead.
ResolveForPacket(ref) ==
  IF ref.scheme = "relative" THEN {<<ProducerRoot, ref.name>>} ELSE Resolve(ref)

At(places) == {artifacts[p] : p \in places} \ {Missing}

LedgerAt(place) == IF place = layout.ledger /\ ledger # << >> THEN {ledger} ELSE {}
RecordAt(place) == IF place = layout.record /\ record # Missing THEN {record} ELSE {}

\* The canonical bytes of a Run record do not depend on its formatting.
Canonical(r) == [covers |-> r.covers, sandbox |-> r.sandbox, outputs |-> r.outputs]

\* The stated status if there is one, else that of the event type.
StatusOf(line) ==
  IF line.status # "none" THEN line.status
  ELSE IF line.type # "none" THEN line.type ELSE "unknown"

\* One result for each gate line; equal ones are reported once.
GateResults(lines) ==
  {<<line, StatusOf(line)>> : line \in {lines[i] : i \in {j \in DOMAIN lines : lines[j].gate}}}

-----------------------------------------------------------------------------
(***************************************************************************)
(* The producer.  A ledger only grows; a Run record sums up what is in the *)
(* ledger when it is written.                                              *)
(***************************************************************************)
Writing == writes < MaxWrites /\ writes' = writes + 1

AppendLine(line) ==
  /\ Writing /\ Len(ledger) < MaxLines
  /\ ledger' = Append(ledger, line)
  /\ UNCHANGED <<layout, record, artifacts>>

WriteRecord(form) ==
  /\ Writing
  /\ record' = [covers |-> Len(ledger), canonical |-> form.canonical,
                sandbox |-> form.sandbox, outputs |-> form.outputs]
  /\ UNCHANGED <<layout, ledger, artifacts>>

RemoveRecord ==
  /\ Writing /\ record' = Missing
  /\ UNCHANGED <<layout, ledger, artifacts>>

WriteArtifact(p, version) ==
  /\ Writing /\ artifacts[p] # version
  /\ artifacts' = [artifacts EXCEPT ![p] = version]
  /\ UNCHANGED <<layout, ledger, record>>

Produce ==
  \/ \E line \in Lines : AppendLine(line)
  \/ \E form \in RecordForms : WriteRecord(form)
  \/ RemoveRecord
  \/ \E p \in Places, version \in Versions \cup {Missing} : WriteArtifact(p, version)

-----------------------------------------------------------------------------
(***************************************************************************)
(* evidence from-cdcp-events: the files are opened one after the other,    *)
(* the ledger twice.                                                       *)
(***************************************************************************)
NoRun == [pc |-> "idle"]

Generate(out) ==
  /\ gen.pc = "idle" /\ generated < MaxPackets /\ generated' = generated + 1
  /\ gen' = [pc |-> "parse", out |-> out, since |-> writes]
  /\ UNCHANGED packets

Parse ==
  /\ gen.pc = "parse"
  /\ gen' = IF ledger = << >> THEN NoRun
            ELSE [pc |-> "load_record", out |-> gen.out, since |-> gen.since, events |-> ledger]
  /\ UNCHANGED <<packets, generated>>

LoadRecord ==
  /\ gen.pc = "load_record"
  /\ gen' = IF record = Missing THEN NoRun
            ELSE [pc |-> "hash_ledger", out |-> gen.out, since |-> gen.since,
                  events |-> gen.events, record |-> record]
  /\ UNCHANGED <<packets, generated>>

\* Mutant: the bytes that were parsed are hashed.
HashParsed ==
  /\ gen.pc = "hash_ledger"
  /\ gen' = [pc |-> "hash_artifacts", out |-> gen.out, since |-> gen.since,
             events |-> gen.events, record |-> gen.record, log |-> gen.events,
             todo |-> gen.record.outputs, hashes |-> {}]
  /\ UNCHANGED <<packets, generated>>

HashLedger ==
  /\ gen.pc = "hash_ledger"
  /\ gen' = [pc |-> "hash_artifacts", out |-> gen.out, since |-> gen.since,
             events |-> gen.events, record |-> gen.record, log |-> ledger,
             todo |-> gen.record.outputs, hashes |-> {}]
  /\ UNCHANGED <<packets, generated>>

\* Mutant: an artifact that cannot be found gets a hash all the same.
HashEveryArtifact ==
  /\ gen.pc = "hash_artifacts" /\ gen.todo # {}
  /\ \E ref \in gen.todo :
       LET found == At(ResolveForPacket(ref))
       IN  gen' = [gen EXCEPT !.todo = @ \ {ref},
                     !.hashes = @ \cup ({ref} \X IF found = {} THEN {Missing} ELSE found)]
  /\ UNCHANGED <<packets, generated>>

\* An artifact that cannot be found is listed without a hash.
HashArtifact ==
  /\ gen.pc = "hash_artifacts" /\ gen.todo # {}
  /\ \E ref \in gen.todo :
       gen' = [gen EXCEPT !.todo = @ \ {ref},
                          !.hashes = @ \cup ({ref} \X At(ResolveForPacket(ref)))]
  /\ UNCHANGED <<packets, generated>>

OpenPacket ==
  /\ gen.pc = "hash_artifacts" /\ gen.todo = {}
  /\ packets' = [packets EXCEPT ![gen.out] = Torn]
  /\ gen' = [gen EXCEPT !.pc = "write"]
  /\ UNCHANGED generated

\* A packet of a producer that names its commit has refs of one fixed form,
\* wherever the files were found; others carry the path of the file.
Packet ==
  LET r == gen.record
  IN  [record_ref |-> IF r.sandbox THEN "ops/run-records" ELSE layout.record,
       record_hash |-> Canonical(r),
       log_ref |-> IF r.sandbox THEN "ops/event-ledger" ELSE layout.ledger,
       log_hash |-> gen.log,
       input |-> layout.ledger,
       producer |-> IF r.sandbox THEN {"producer"} ELSE {},
       artifact_refs |-> r.outputs,
       artifact_hashes |-> gen.hashes,
       gate_results |-> GateResults(gen.events),
       generated_at |-> Len(gen.events),
       since |-> gen.since]

WritePacket ==
  /\ gen.pc = "write"
  /\ packets' = [packets EXCEPT ![gen.out] = Packet]
  /\ gen' = NoRun
  /\ UNCHANGED generated

KillGenerator == gen.pc # "idle" /\ gen' = NoRun /\ UNCHANGED <<packets, generated>>

GenerateStep ==
  \/ \E out \in PacketFiles : Generate(out)
  \/ Parse \/ LoadRecord \/ HashLedger \/ HashArtifact \/ OpenPacket \/ WritePacket
  \/ KillGenerator

StoreInit ==
  /\ layout \in Layouts /\ artifacts \in Stocks
  /\ ledger = << >> /\ record = Missing /\ writes = 0
  /\ \E foreign \in Foreigners :
       packets = [p \in PacketFiles |-> IF p \in foreign THEN Foreign ELSE Missing]
  /\ generated = 0 /\ gen = NoRun

Whole(file) == file \notin {Missing, Torn, Foreign}
=============================================================================
