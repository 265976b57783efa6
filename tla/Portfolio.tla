------------------------------ MODULE Portfolio ------------------------------
(***************************************************************************)
(* A portfolio of repositories at work: a producer writes its ledger, its  *)
(* Run record and its artifacts, packets and bundles are made from them,   *)
(* packets are checked against them again and added up on a dashboard, all *)
(* by commands that run at the same time and share nothing but files.      *)
(***************************************************************************)
EXTENDS StrictRehash, RunBundle, Dashboard

vars == <<store, generator, strict, bundles, maker, compared, board>>

Init == StoreInit /\ strict = Idle /\ BundleInit /\ board = NoBoard

Next ==
  \/ Produce /\ UNCHANGED <<generator, strict, bundles, maker, compared, board>>
  \/ GenerateStep /\ UNCHANGED <<store, strict, bundles, maker, compared, board>>
  \/ StrictStep /\ UNCHANGED <<store, generator, bundles, maker, compared, board>>
  \/ BundleStep /\ UNCHANGED <<store, generator, strict, board>>
  \/ BoardStep /\ UNCHANGED <<store, generator, strict, bundles, maker, compared>>

Spec == Init /\ [][Next]_vars

-----------------------------------------------------------------------------
WholePackets == {packets[f] : f \in {g \in PacketFiles : Whole(packets[g])}}
WholeBundles == {bundles[b] : b \in {c \in Bundles : Whole(bundles[c])}}

\* The packets some command has in its hands, too.
HeldPackets ==
  IF strict.pc \in {"hash_record", "hash_ledger", "hash_artifacts"} THEN {strict.packet} ELSE {}

PacketOK(packet) ==
  /\ packet.record_ref \in RecordPlaces /\ packet.log_ref \in LedgerPlaces
  /\ packet.log_hash \in Seq(Lines)
  /\ \A entry \in packet.artifact_hashes : entry[1] \in packet.artifact_refs /\ entry[2] \in Versions

\* Type invariant: what every file holds, half-written ones included.
TypeOK ==
  /\ layout \in Layouts /\ ledger \in Seq(Lines) /\ record \in Record \cup {Missing}
  /\ artifacts \in [Places -> Versions \cup {Missing}]
  /\ writes \in 0..MaxWrites /\ generated \in 0..MaxPackets
  /\ DOMAIN packets = PacketFiles /\ DOMAIN bundles = Bundles
  /\ \A packet \in WholePackets \cup HeldPackets : PacketOK(packet)
  /\ \A bundle \in WholeBundles :
       bundle.run_record_hash \in Record /\ bundle.event_ledger_hash \in Seq(Lines) \ {<< >>}

\* The point where strict validation has compared everything.
Compared == strict.pc = "hash_artifacts" /\ strict.todo = {}

\* evidence validate --strict opens the Run record, the ledger and the
\* artifacts one after the other (cli.py:80-118).  Its "re-hash matches" still
\* tells of one moment: when the record had the hash in the packet, so did
\* the ledger, although a producer may write between the two reads.
StrictOkMeansCoexisted ==
  Compared /\ strict.failures = {} => strict.then = {strict.packet.log_hash}

\* Do the refs of a packet lead to the files they were made from, under the
\* two rules by which generator (run_evidence.py:550-568) and validator
\* (uri.py:60-76) resolve them?
Portable(packet) ==
  /\ packet.log_ref = layout.ledger /\ packet.record_ref = layout.record
  /\ \A entry \in packet.artifact_hashes : entry[1].scheme # "relative"

\* Nothing was written since the packet was begun.
UpToDate(packet) == packet.since = writes

\* A portable packet passes strict validation as long as the producer has
\* not written since it was begun: generator and validator agree about what
\* they hash (run_evidence.py:638-639, 603 and cli.py:40-59).
PortableFreshPasses ==
  Compared /\ Portable(strict.packet) /\ UpToDate(strict.packet) => strict.failures = {}

\* Packets and bundles read the Run record before the ledger bytes they hash
\* (run_evidence.py:634-639, cli.py:759-760): whatever the producer does in
\* between, the hashed ledger has all the lines the hashed record sums up.
LedgerCoversRecord ==
  /\ \A packet \in WholePackets : packet.record_hash.covers <= Len(packet.log_hash)
  /\ \A bundle \in WholeBundles : bundle.run_record_hash.covers <= Len(bundle.event_ledger_hash)

\* What an undisturbed dashboard has to show for a repository: each packet
\* once for every different path that leads to it.
PathsTo(f) == {p \in {f, Directory} : \E i \in DOMAIN board.given : board.given[i] = p}

Expected(repo) ==
  UNION {PathsTo(f) \X {f} :
           f \in {g \in PacketFiles : Whole(packets[g]) /\ repo \in ProducersOf(packets[g])}}

\* If no packet is written while dashboard runs and it prints a page, then
\* half-written files that an earlier kill left behind take nothing away from
\* the others: the page has
\* every packet of every repository, its gate results under one of the three
\* columns, and the latest date (dashboard.py:58-91, 125-137).
PageComplete ==
  board.pc = "printed" /\ board.quiet /\ board.begun = generated =>
    LET named == UNION {ProducersOf(p) : p \in
                   {packets[f] : f \in {g \in PacketFiles : Whole(packets[g]) /\ PathsTo(g) # {}}}}
    IN  /\ DOMAIN board.page = named
        /\ \A repo \in named :
             LET line == board.page[repo]
                 due == Expected(repo)
             IN  /\ line.packet_count = Cardinality(due)
                 /\ line.pass + line.fail + line.other
                      = Cardinality(UNION {{v} \X packets[v[2]].gate_results : v \in due})
                 /\ \E v \in due : packets[v[2]].generated_at = line.latest_generated_at
                 /\ \A v \in due : packets[v[2]].generated_at <= line.latest_generated_at

\* README.md:220-222: "A fresh W31 packet passes this check; older examples
\* whose source files changed or disappeared fail".
FreshPacketPasses ==
  Compared /\ UpToDate(strict.packet) => strict.failures = {}

\* dashboard.py:3-8: the page has a "gate results breakdown" of packets in
\* the shape of the run-evidence schema, whose statuses are passed, failed,
\* warn, skipped and unknown.
PassColumnCountsPassed ==
  board.pc = "printed" =>
    \A repo \in DOMAIN board.page :
      board.page[repo].pass = Cardinality(Gates(board.seen, Of(board.seen, repo), {"passed"}))
=============================================================================
