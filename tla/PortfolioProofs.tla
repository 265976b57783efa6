---------------------------- MODULE PortfolioProofs ----------------------------
(***************************************************************************)
(* Proofs about Portfolio, for any ledgers, Run records and artifacts,     *)
(* any number of packets and bundles, and any interleaving of the producer *)
(* with the commands.                                                      *)
(***************************************************************************)
EXTENDS Portfolio, TLAPS, SequenceTheorems, FiniteSetTheorems

-----------------------------------------------------------------------------
(* The inductive invariant.                                                *)

\* What the producer owns.
StoreOK ==
  /\ layout \in Layouts /\ ledger \in Seq(Lines) /\ record \in Record \cup {Missing}
  /\ artifacts \in [Places -> Versions \cup {Missing}] /\ writes \in 0..MaxWrites
  /\ record # Missing => record.covers <= Len(ledger)

\* A record sums up lines of the ledger, and a ledger that was read is the
\* beginning of the present one.
Covered(r) == r \in Record /\ r.covers <= Len(ledger)

Begins(s) ==
  s \in Seq(Lines) /\ Len(s) <= Len(ledger) /\ \A i \in 1..Len(s) : s[i] = ledger[i]

\* The artifact hashes are those of the artifacts now.
Hashed(hashes) == \A entry \in hashes : At(ResolveForPacket(entry[1])) = {entry[2]}

Matches(packet) ==
  /\ ledger # << >> /\ packet.log_hash = ledger
  /\ record # Missing /\ packet.record_hash = Canonical(record)
  /\ Hashed(packet.artifact_hashes)

\* A packet is of the past, and of the present if nothing was written since.
Good(packet) ==
  /\ PacketOK(packet) /\ Begins(packet.log_hash)
  /\ packet.record_hash.covers <= Len(packet.log_hash)
  /\ packet.since \in 0..writes
  /\ packet.since = writes => Matches(packet)

PacketsOK ==
  /\ DOMAIN packets = PacketFiles /\ generated \in 0..MaxPackets
  /\ \A f \in PacketFiles : Whole(packets[f]) => Good(packets[f])

\* What the evidence command knows at each of its steps.
GenOK ==
  /\ gen.pc # "idle" =>
       /\ {"pc", "out", "since"} \subseteq DOMAIN gen
       /\ gen.out \in PacketFiles /\ gen.since \in 0..writes
  /\ gen.pc \in {"load_record", "hash_ledger", "hash_artifacts", "write"} => ledger # << >>
  /\ gen.pc \in {"hash_ledger", "hash_artifacts", "write"} =>
       Covered(gen.record) /\ (gen.since = writes => gen.record = record)
  /\ gen.pc \in {"hash_artifacts", "write"} =>
       /\ {"record", "log", "todo", "hashes"} \subseteq DOMAIN gen
       /\ Begins(gen.log) /\ gen.record.covers <= Len(gen.log)
       /\ gen.todo \subseteq gen.record.outputs
       /\ \A entry \in gen.hashes :
            entry[1] \in gen.record.outputs /\ entry[2] \in Versions
       /\ gen.since = writes => gen.log = ledger /\ Hashed(gen.hashes)

BundlesOK ==
  /\ DOMAIN bundles = Bundles
  /\ \A b \in Bundles : Whole(bundles[b]) =>
       /\ bundles[b].run_record_hash \in Record
       /\ bundles[b].event_ledger_hash \in Seq(Lines) \ {<< >>}
       /\ bundles[b].run_record_hash.covers <= Len(bundles[b].event_ledger_hash)

MakerOK ==
  /\ maker.pc # "idle" => "pc" \in DOMAIN maker
  /\ maker.pc \in {"hash_ledger", "hash_trace", "open", "write"} => Covered(maker.record)
  /\ maker.pc \in {"hash_trace", "open", "write"} =>
       /\ {"record", "log"} \subseteq DOMAIN maker
       /\ maker.log \in Seq(Lines) \ {<< >>} /\ maker.record.covers <= Len(maker.log)

\* The ledger that was there when strict validation hashed the Run record.
Then(found, packet) ==
  \/ packet.log_ref # layout.ledger /\ found = {}
  \/ /\ packet.log_ref = layout.ledger
     /\ \E s \in Seq(Lines) :
          /\ Begins(s) /\ Len(packet.log_hash) <= Len(s)
          /\ found = IF s = << >> THEN {} ELSE {s}

StrictOK ==
  /\ strict.pc \in {"validate", "load", "hash_record", "hash_ledger", "hash_artifacts"} =>
       /\ {"pc", "paths", "failed"} \subseteq DOMAIN strict
       /\ strict.paths \in Seq(PacketFiles) \ {<< >>}
  /\ strict.pc \in {"hash_record", "hash_ledger", "hash_artifacts"} => Good(strict.packet)
  /\ strict.pc \in {"hash_ledger", "hash_artifacts"} =>
       /\ {"packet", "then", "todo", "failures"} \subseteq DOMAIN strict
       /\ strict.todo \subseteq strict.packet.artifact_hashes
       /\ Portable(strict.packet) /\ UpToDate(strict.packet) => strict.failures = {}
  /\ strict.pc = "hash_ledger" => Then(strict.then, strict.packet)
  /\ strict.pc = "hash_artifacts" =>
       ("event_log" \notin strict.failures => strict.then = {strict.packet.log_hash})

IInv == StoreOK /\ PacketsOK /\ GenOK /\ BundlesOK /\ MakerOK /\ StrictOK

-----------------------------------------------------------------------------
(* The store.                                                              *)

LEMMA RecordFields ==
  ASSUME NEW r \in Record
  PROVE  /\ r.covers \in Nat /\ r.sandbox \in BOOLEAN /\ r.outputs \in SUBSET Refs
BY DEF Record

LEMMA RefFields ==
  ASSUME NEW ref \in Refs
  PROVE  /\ ref \in Ref /\ ref.repo \in Repos
         /\ ref.name \in {r.name : r \in Refs}
<1>1. ref \in Ref
  BY StoreAssumption
<1> QED
  BY <1>1 DEF Ref

\* A ref leads to one place at most.
LEMMA OnePlace ==
  ASSUME NEW ref \in Refs
  PROVE  /\ ResolveForPacket(ref) \in SUBSET Places
         /\ \A p, q \in ResolveForPacket(ref) : p = q
         /\ ref.scheme # "relative" => ResolveForPacket(ref) = Resolve(ref)
<1>1. ref.repo \in Repos /\ ref.name \in {r.name : r \in Refs}
  BY RefFields
<1>2. ProducerRoot \in Repos \cup {"portfolio", "elsewhere"}
  BY DEF ProducerRoot, Repos
<1>3. CASE ref.scheme = "relative"
  <2>1. ResolveForPacket(ref) = {<<ProducerRoot, ref.name>>}
    BY <1>3 DEF ResolveForPacket
  <2> QED
    BY <1>1, <1>2, <1>3, <2>1 DEF Places
<1>4. CASE ref.scheme = "repo"
  <2>1. ResolveForPacket(ref) = {<<ref.repo, ref.name>>} /\ Resolve(ref) = {<<ref.repo, ref.name>>}
    BY <1>4 DEF ResolveForPacket, Resolve
  <2> QED
    BY <1>1, <2>1 DEF Places
<1>5. CASE ref.scheme = "artifact"
  <2>1. ResolveForPacket(ref) = {} /\ Resolve(ref) = {}
    BY <1>5 DEF ResolveForPacket, Resolve
  <2> QED
    BY <2>1
<1>6. ref.scheme \in {"repo", "artifact", "relative"}
  BY RefFields DEF Ref
<1> QED
  BY <1>3, <1>4, <1>5, <1>6

LEMMA FoundThere ==
  ASSUME StoreOK, NEW ref \in Refs, NEW version \in At(ResolveForPacket(ref))
  PROVE  version \in Versions /\ At(ResolveForPacket(ref)) = {version}
<1>1. ResolveForPacket(ref) \in SUBSET Places /\ \A p, q \in ResolveForPacket(ref) : p = q
  BY OnePlace
<1>2. version \in Versions
  BY <1>1 DEF At, StoreOK
<1>3. \A v \in At(ResolveForPacket(ref)) : v = version
  BY <1>1 DEF At
<1> QED
  BY <1>2, <1>3

\* What a step of the producer leaves alone.
LEMMA ProducerMoves ==
  ASSUME StoreOK, Produce
  PROVE  /\ StoreOK' /\ layout' = layout /\ writes \in Nat /\ writes' = writes + 1
         /\ Len(ledger) <= Len(ledger') /\ \A i \in 1..Len(ledger) : ledger'[i] = ledger[i]
<1>1. /\ ledger \in Seq(Lines) /\ writes \in 0..MaxWrites /\ MaxWrites \in Nat
      /\ record \in Record \cup {Missing} /\ layout \in Layouts
      /\ artifacts \in [Places -> Versions \cup {Missing}]
      /\ (record # Missing => record.covers <= Len(ledger))
  BY StoreAssumption DEF StoreOK
<1>2. ASSUME Writing PROVE writes \in Nat /\ writes' = writes + 1 /\ writes' \in 0..MaxWrites
  BY <1>1, <1>2 DEF Writing
<1>3. record # Missing => record.covers \in Nat
  BY <1>1, RecordFields
<1>4. Len(ledger) \in Nat
  BY <1>1
<1>5. ASSUME NEW line \in Lines, AppendLine(line)
      PROVE  /\ StoreOK' /\ layout' = layout /\ Writing
             /\ Len(ledger) <= Len(ledger') /\ \A i \in 1..Len(ledger) : ledger'[i] = ledger[i]
  <2>1. Writing /\ ledger' = Append(ledger, line) /\ UNCHANGED <<layout, record, artifacts>>
    BY <1>5 DEF AppendLine
  <2>2. /\ ledger' \in Seq(Lines) /\ Len(ledger') = Len(ledger) + 1
        /\ \A i \in 1..Len(ledger) : ledger'[i] = ledger[i]
    BY <1>1, <2>1
  <2>3. record' # Missing => record'.covers <= Len(ledger')
    BY <1>1, <1>3, <1>4, <2>1, <2>2
  <2> QED
    BY <1>1, <1>2, <1>4, <2>1, <2>2, <2>3 DEF StoreOK
<1>6. ASSUME NEW form \in RecordForms, WriteRecord(form)
      PROVE  StoreOK' /\ layout' = layout /\ Writing /\ ledger' = ledger
  <2>1. Writing /\ UNCHANGED <<layout, ledger, artifacts>>
        /\ record' = [covers |-> Len(ledger), canonical |-> form.canonical,
                      sandbox |-> form.sandbox, outputs |-> form.outputs]
    BY <1>6 DEF WriteRecord
  <2>2. form \in RecordForm
    BY StoreAssumption
  <2>3. record' \in Record /\ record'.covers = Len(ledger)
    BY <1>4, <2>1, <2>2 DEF RecordForm, Record
  <2>4. record'.covers <= Len(ledger')
    BY <1>4, <2>1, <2>3
  <2> QED
    BY <1>1, <1>2, <2>1, <2>3, <2>4 DEF StoreOK
<1>7. ASSUME RemoveRecord PROVE StoreOK' /\ layout' = layout /\ Writing /\ ledger' = ledger
  BY <1>1, <1>2, <1>7 DEF RemoveRecord, StoreOK
<1>8. ASSUME NEW p \in Places, NEW version \in Versions \cup {Missing}, WriteArtifact(p, version)
      PROVE  StoreOK' /\ layout' = layout /\ Writing /\ ledger' = ledger
  BY <1>1, <1>2, <1>8 DEF WriteArtifact, StoreOK
<1>9. /\ StoreOK' /\ layout' = layout /\ Writing
      /\ Len(ledger) <= Len(ledger') /\ \A i \in 1..Len(ledger) : ledger'[i] = ledger[i]
  BY <1>4, <1>5, <1>6, <1>7, <1>8 DEF Produce
<1> QED
  BY <1>2, <1>9

-----------------------------------------------------------------------------
(* What was true of the past stays true, whatever the producer does.       *)

Moves == UNCHANGED store \/ Produce

LEMMA MovesForward ==
  ASSUME StoreOK, Moves
  PROVE  /\ StoreOK' /\ layout' = layout
         /\ writes \in Nat /\ writes' \in Nat /\ writes <= writes'
         /\ writes' = writes => UNCHANGED store
         /\ ledger \in Seq(Lines) /\ ledger' \in Seq(Lines)
         /\ Len(ledger) \in Nat /\ Len(ledger') \in Nat
         /\ Len(ledger) <= Len(ledger') /\ \A i \in 1..Len(ledger) : ledger'[i] = ledger[i]
<1>1. CASE UNCHANGED store
  <2>1. StoreOK' /\ layout' = layout /\ writes' = writes /\ ledger' = ledger
    BY <1>1 DEF store, StoreOK
  <2>2. writes \in Nat /\ ledger \in Seq(Lines) /\ Len(ledger) \in Nat
    BY StoreAssumption DEF StoreOK
  <2> QED
    BY <1>1, <2>1, <2>2
<1>2. CASE Produce
  <2>1. /\ StoreOK' /\ layout' = layout /\ writes \in Nat /\ writes' = writes + 1
        /\ Len(ledger) <= Len(ledger') /\ \A i \in 1..Len(ledger) : ledger'[i] = ledger[i]
    BY <1>2, ProducerMoves
  <2>2. ledger \in Seq(Lines) /\ ledger' \in Seq(Lines)
    BY <2>1 DEF StoreOK
  <2>3. Len(ledger) \in Nat /\ Len(ledger') \in Nat
    BY <2>2
  <2>4. writes' \in Nat /\ writes <= writes' /\ writes' # writes
    BY <2>1
  <2> QED
    BY <2>1, <2>2, <2>3, <2>4
<1> QED
  BY <1>1, <1>2 DEF Moves

LEMMA BeginsKept ==
  ASSUME StoreOK, Moves, NEW s, Begins(s)
  PROVE  Begins(s)'
<1>1. s \in Seq(Lines) /\ Len(s) <= Len(ledger) /\ (\A i \in 1..Len(s) : s[i] = ledger[i])
  BY DEF Begins
<1>2. Len(s) \in Nat
  BY <1>1
<1>3. Len(s) <= Len(ledger') /\ \A i \in 1..Len(s) : s[i] = ledger'[i]
  BY <1>1, <1>2, MovesForward
<1> QED
  BY <1>1, <1>3 DEF Begins

LEMMA CoveredKept ==
  ASSUME StoreOK, Moves, NEW r, Covered(r)
  PROVE  Covered(r)'
<1>1. r \in Record /\ r.covers <= Len(ledger) /\ r.covers \in Nat
  BY RecordFields DEF Covered
<1>2. r.covers <= Len(ledger')
  BY <1>1, MovesForward
<1> QED
  BY <1>1, <1>2 DEF Covered

LEMMA HashedKept ==
  ASSUME UNCHANGED store, NEW h, Hashed(h)
  PROVE  Hashed(h)'
BY DEF Hashed, At, ResolveForPacket, Resolve, ProducerRoot, store

LEMMA MatchesKept ==
  ASSUME UNCHANGED store, NEW packet, Matches(packet)
  PROVE  Matches(packet)'
<1>1. Hashed(packet.artifact_hashes)
  BY DEF Matches
<1>2. PICK h : h = packet.artifact_hashes
  OBVIOUS
<1>3. Hashed(h)
  BY <1>1, <1>2
<1>4. Hashed(h)'
  BY <1>3, HashedKept
<1>5. h = packet.artifact_hashes
  BY <1>2
<1>6. Hashed(packet.artifact_hashes)'
  BY <1>4, <1>5
<1> QED
  BY <1>6 DEF Matches, Canonical, store

LEMMA GoodKept ==
  ASSUME StoreOK, Moves, NEW packet, Good(packet)
  PROVE  Good(packet)'
<1>1. /\ PacketOK(packet) /\ Begins(packet.log_hash)
      /\ packet.record_hash.covers <= Len(packet.log_hash)
      /\ packet.since \in 0..writes
      /\ packet.since = writes => Matches(packet)
  BY DEF Good
<1>2. PacketOK(packet)'
  BY <1>1 DEF PacketOK
<1>3. PICK s : s = packet.log_hash
  OBVIOUS
<1>31. Begins(s)
  BY <1>1, <1>3
<1>32. Begins(s)'
  BY <1>31, BeginsKept
<1>33. Begins(packet.log_hash)'
  <2>1. s = packet.log_hash
    BY <1>3
  <2> QED
    BY <1>32, <2>1
<1>4. packet.since \in 0..writes'
  BY <1>1, MovesForward
<1>5. ASSUME packet.since = writes' PROVE Matches(packet)'
  <2>1. packet.since = writes /\ writes' = writes
    BY <1>1, <1>5, MovesForward
  <2>2. UNCHANGED store
    BY <2>1, MovesForward
  <2> QED
    BY <1>1, <2>1, <2>2, MatchesKept
<1> QED
  BY <1>1, <1>2, <1>33, <1>4, <1>5 DEF Good

-----------------------------------------------------------------------------
(* Each command's part of the invariant outlives the steps of the others.  *)

LEMMA PacketsKept ==
  ASSUME StoreOK, Moves, PacketsOK, UNCHANGED <<packets, generated>>
  PROVE  PacketsOK'
<1>1. SUFFICES ASSUME NEW f \in PacketFiles, Whole(packets[f]) PROVE Good(packets[f])'
  BY <1>1 DEF PacketsOK, Whole
<1>2. PICK packet : packet = packets[f]
  OBVIOUS
<1>3. Good(packet)
  BY <1>1, <1>2 DEF PacketsOK
<1>4. Good(packet)'
  BY <1>3, GoodKept
<1>5. packet = packets'[f]
  BY <1>2
<1> QED
  BY <1>4, <1>5

LEMMA GenKept ==
  ASSUME StoreOK, Moves, GenOK, UNCHANGED gen
  PROVE  GenOK'
<1>1. writes \in Nat /\ writes' \in Nat /\ writes <= writes' /\ (writes' = writes => UNCHANGED store)
  BY MovesForward
<1>2. (gen.pc # "idle" =>
       /\ {"pc", "out", "since"} \subseteq DOMAIN gen
       /\ gen.out \in PacketFiles /\ gen.since \in 0..writes)'
  BY <1>1 DEF GenOK
<1>3. ASSUME gen.pc \in {"load_record", "hash_ledger", "hash_artifacts", "write"}
      PROVE  ledger' # << >>
  <2>1. ledger # << >> /\ ledger \in Seq(Lines)
    BY <1>3, MovesForward DEF GenOK
  <2>2. Len(ledger) # 0
    BY <2>1
  <2>3. Len(ledger') # 0
    BY <2>2, MovesForward
  <2> QED
    BY <2>3
<1>4. ASSUME gen.pc \in {"hash_ledger", "hash_artifacts", "write"}
      PROVE  Covered(gen.record)' /\ (gen.since = writes' => gen.record = record')
  <2>1. PICK r : r = gen.record
    OBVIOUS
  <2>2. Covered(r)
    BY <1>4, <2>1 DEF GenOK
  <2>3. Covered(r)'
    BY <2>2, CoveredKept
  <2>4. r = gen'.record
    BY <2>1
  <2>5. Covered(gen.record)'
    BY <2>3, <2>4
  <2>6. gen.since \in 0..writes /\ (gen.since = writes => gen.record = record)
    BY <1>4 DEF GenOK
  <2>7. gen.since = writes' => writes' = writes
    BY <1>1, <2>6
  <2>8. gen.since = writes' => record' = record
    BY <1>1, <2>7 DEF store
  <2> QED
    BY <2>5, <2>6, <2>7, <2>8
<1>5. ASSUME gen.pc \in {"hash_artifacts", "write"}
      PROVE  /\ {"record", "log", "todo", "hashes"} \subseteq DOMAIN gen
             /\ Begins(gen.log)' /\ gen.record.covers <= Len(gen.log)
             /\ gen.todo \subseteq gen.record.outputs
             /\ \A entry \in gen.hashes :
                  entry[1] \in gen.record.outputs /\ entry[2] \in Versions
             /\ gen.since = writes' => gen.log = ledger' /\ Hashed(gen.hashes)'
  <2>0. PICK s, h : s = gen.log /\ h = gen.hashes
    OBVIOUS
  <2>1. /\ {"record", "log", "todo", "hashes"} \subseteq DOMAIN gen
        /\ Begins(gen.log) /\ gen.record.covers <= Len(gen.log)
        /\ gen.todo \subseteq gen.record.outputs
        /\ \A entry \in gen.hashes :
             entry[1] \in gen.record.outputs /\ entry[2] \in Versions
        /\ gen.since = writes => gen.log = ledger /\ Hashed(gen.hashes)
        /\ gen.since \in 0..writes
    BY <1>5 DEF GenOK
  <2>2. Begins(s)
    BY <2>0, <2>1
  <2>3. Begins(s)'
    BY <2>2, BeginsKept
  <2>4. Begins(gen.log)'
    <3>1. s = gen'.log
      BY <2>0
    <3> QED
      BY <2>3, <3>1
  <2>5. ASSUME gen.since = writes' PROVE gen.log = ledger' /\ Hashed(gen.hashes)'
    <3>1. gen.since = writes /\ writes' = writes
      BY <1>1, <2>1, <2>5
    <3>2. UNCHANGED store
      BY <1>1, <3>1
    <3>3. Hashed(h)
      BY <2>0, <2>1, <3>1
    <3>4. Hashed(h)'
      BY <3>2, <3>3, HashedKept
    <3>5. h = gen'.hashes
      BY <2>0
    <3>6. Hashed(gen.hashes)'
      BY <3>4, <3>5
    <3>7. gen.log = ledger'
      BY <2>1, <3>1, <3>2 DEF store
    <3> QED
      BY <3>6, <3>7
  <2> QED
    BY <2>1, <2>4, <2>5
<1> QED
  BY <1>2, <1>3, <1>4, <1>5 DEF GenOK

LEMMA MakerKept ==
  ASSUME StoreOK, Moves, MakerOK, UNCHANGED maker
  PROVE  MakerOK'
<1>1. ASSUME maker.pc \in {"hash_ledger", "hash_trace", "open", "write"}
      PROVE  Covered(maker.record)'
  <2>1. PICK r : r = maker.record
    OBVIOUS
  <2>2. Covered(r)
    BY <1>1, <2>1 DEF MakerOK
  <2>3. Covered(r)'
    BY <2>2, CoveredKept
  <2>4. r = maker'.record
    BY <2>1
  <2> QED
    BY <2>3, <2>4
<1> QED
  BY <1>1 DEF MakerOK

LEMMA StrictKept ==
  ASSUME StoreOK, Moves, StrictOK, UNCHANGED strict
  PROVE  StrictOK'
<1>1. ASSUME strict.pc \in {"hash_record", "hash_ledger", "hash_artifacts"}
      PROVE  Good(strict.packet)'
  <2>1. PICK packet : packet = strict.packet
    OBVIOUS
  <2>2. Good(packet)
    BY <1>1, <2>1 DEF StrictOK
  <2>3. Good(packet)'
    BY <2>2, GoodKept
  <2>4. packet = strict'.packet
    BY <2>1
  <2> QED
    BY <2>3, <2>4
<1>2. ASSUME strict.pc \in {"hash_ledger", "hash_artifacts"},
             Portable(strict.packet)', UpToDate(strict.packet)'
      PROVE  strict.failures = {}
  <2>1. strict.packet.since \in 0..writes /\ strict.packet.since = writes'
    BY <1>2 DEF StrictOK, Good, UpToDate
  <2>2. writes = writes' /\ layout = layout'
    BY <2>1, MovesForward
  <2>3. Portable(strict.packet) /\ UpToDate(strict.packet)
    BY <1>2, <2>2 DEF Portable, UpToDate
  <2> QED
    BY <1>2, <2>3 DEF StrictOK
<1>3. ASSUME strict.pc = "hash_ledger" PROVE Then(strict.then, strict.packet)'
  <2>1. Then(strict.then, strict.packet)
    BY <1>3 DEF StrictOK
  <2>2. layout' = layout
    BY MovesForward
  <2>3. CASE strict.packet.log_ref # layout.ledger /\ strict.then = {}
    BY <2>2, <2>3 DEF Then
  <2>4. ASSUME strict.packet.log_ref = layout.ledger, NEW s \in Seq(Lines), Begins(s),
               Len(strict.packet.log_hash) <= Len(s),
               strict.then = IF s = << >> THEN {} ELSE {s}
        PROVE  Then(strict.then, strict.packet)'
    <3>1. Begins(s)'
      BY <2>4, BeginsKept
    <3> QED
      BY <2>2, <2>4, <3>1 DEF Then
  <2> QED
    BY <2>1, <2>3, <2>4 DEF Then
<1>4. (strict.pc \in {"validate", "load", "hash_record", "hash_ledger", "hash_artifacts"} =>
       /\ {"pc", "paths", "failed"} \subseteq DOMAIN strict
       /\ strict.paths \in Seq(PacketFiles) \ {<< >>})'
  BY DEF StrictOK
<1>5. (strict.pc \in {"hash_ledger", "hash_artifacts"} =>
       /\ {"packet", "then", "todo", "failures"} \subseteq DOMAIN strict
       /\ strict.todo \subseteq strict.packet.artifact_hashes)'
  BY DEF StrictOK
<1>6. (strict.pc = "hash_artifacts" =>
       ("event_log" \notin strict.failures => strict.then = {strict.packet.log_hash}))'
  BY DEF StrictOK
<1> QED
  BY <1>1, <1>2, <1>3, <1>4, <1>5, <1>6 DEF StrictOK

-----------------------------------------------------------------------------
(* The commands, step by step.                                             *)

\* Opening a packet file does no harm, and neither does writing a good packet.
LEMMA WriteKept ==
  ASSUME PacketsOK, UNCHANGED <<store, generated>>, NEW f \in PacketFiles, NEW p,
         Whole(p) => Good(p)',
         packets' = [packets EXCEPT ![f] = p]
  PROVE  PacketsOK'
<1>1. DOMAIN packets' = PacketFiles /\ generated' \in 0..MaxPackets
  BY DEF PacketsOK
<1>2. ASSUME NEW g \in PacketFiles, Whole(packets'[g]) PROVE Good(packets[g])'
  <2>1. CASE g = f
    <3>1. p = packets'[g] /\ Whole(p)
      BY <1>2, <2>1 DEF PacketsOK, Whole
    <3> QED
      BY <3>1
  <2>2. CASE g # f
    <3>1. packets'[g] = packets[g] /\ Whole(packets[g])
      BY <1>2, <2>2 DEF PacketsOK, Whole
    <3>2. PICK packet : packet = packets[g]
      OBVIOUS
    <3>3. Good(packet)
      BY <3>1, <3>2 DEF PacketsOK
    <3>4. Good(packet)'
      <4>1. packet.since = writes' => Matches(packet)'
        <5>1. packet.since = writes => Matches(packet)
          BY <3>3 DEF Good
        <5>2. writes' = writes /\ UNCHANGED store
          BY DEF store
        <5> QED
          BY <5>1, <5>2, MatchesKept
      <4> QED
        BY <3>3, <4>1 DEF Good, PacketOK, Begins, store
    <3>5. packet = packets'[g]
      BY <3>1, <3>2
    <3> QED
      BY <3>4, <3>5
  <2> QED
    BY <2>1, <2>2
<1> QED
  BY <1>1, <1>2 DEF PacketsOK

LEMMA HashArtifactKept ==
  ASSUME StoreOK, GenOK, HashArtifact, UNCHANGED store
  PROVE  GenOK'
<1>1. PICK ref \in gen.todo :
        gen' = [gen EXCEPT !.todo = @ \ {ref},
                           !.hashes = @ \cup ({ref} \X At(ResolveForPacket(ref)))]
  BY DEF HashArtifact
<1>2. /\ gen.pc = "hash_artifacts"
      /\ {"pc", "out", "since"} \subseteq DOMAIN gen
      /\ gen.out \in PacketFiles /\ gen.since \in 0..writes
      /\ ledger # << >> /\ Covered(gen.record) /\ (gen.since = writes => gen.record = record)
      /\ {"record", "log", "todo", "hashes"} \subseteq DOMAIN gen
      /\ Begins(gen.log) /\ gen.record.covers <= Len(gen.log)
      /\ gen.todo \subseteq gen.record.outputs
      /\ \A entry \in gen.hashes :
            entry[1] \in gen.record.outputs /\ entry[2] \in Versions
      /\ gen.since = writes => gen.log = ledger /\ Hashed(gen.hashes)
  BY DEF GenOK, HashArtifact
<1>3. /\ gen'.pc = "hash_artifacts" /\ gen'.out = gen.out /\ gen'.since = gen.since
      /\ gen'.record = gen.record /\ gen'.log = gen.log /\ DOMAIN gen' = DOMAIN gen
      /\ gen'.todo = gen.todo \ {ref}
      /\ gen'.hashes = gen.hashes \cup ({ref} \X At(ResolveForPacket(ref)))
  BY <1>1, <1>2
<1>4. gen.record.outputs \in SUBSET Refs
  BY <1>2, RecordFields DEF Covered
<1>5. ref \in Refs /\ ref \in gen.record.outputs
  BY <1>2, <1>4
<1>6. \A version \in At(ResolveForPacket(ref)) :
        version \in Versions /\ At(ResolveForPacket(ref)) = {version}
  BY <1>5, FoundThere
<1>7. ASSUME NEW entry \in gen'.hashes
      PROVE  \/ entry \in gen.hashes
             \/ entry[1] = ref /\ entry[2] \in Versions /\ At(ResolveForPacket(ref)) = {entry[2]}
  BY <1>3, <1>6
<1>8. \A entry \in gen'.hashes : entry[1] \in gen'.record.outputs /\ entry[2] \in Versions
  BY <1>2, <1>3, <1>5, <1>7
<1>9. ASSUME gen'.since = writes' PROVE gen'.log = ledger' /\ Hashed(gen.hashes)'
  <2>1. gen.log = ledger /\ Hashed(gen.hashes) /\ gen'.log = ledger'
    BY <1>2, <1>3, <1>9 DEF store
  <2>2. PICK h : h = gen'.hashes
    OBVIOUS
  <2>3. Hashed(h)
    BY <1>7, <2>1, <2>2 DEF Hashed
  <2>4. Hashed(h)'
    BY <2>3, HashedKept
  <2>5. Hashed(gen.hashes)'
    BY <2>2, <2>4
  <2> QED
    BY <2>1, <2>5
<1>10. Covered(gen.record)' /\ Begins(gen.log)'
  BY <1>2, <1>3 DEF Covered, Begins, store
<1>11. writes' = writes /\ ledger' = ledger /\ record' = record
  BY DEF store
<1> QED
  BY <1>2, <1>3, <1>8, <1>9, <1>10, <1>11 DEF GenOK

LEMMA WritePacketKept ==
  ASSUME StoreOK, PacketsOK, GenOK, WritePacket, UNCHANGED store
  PROVE  PacketsOK'
<1>1. /\ gen.pc = "write" /\ gen.out \in PacketFiles /\ gen.since \in 0..writes
      /\ ledger # << >> /\ Covered(gen.record) /\ (gen.since = writes => gen.record = record)
      /\ Begins(gen.log) /\ gen.record.covers <= Len(gen.log)
      /\ \A entry \in gen.hashes :
            entry[1] \in gen.record.outputs /\ entry[2] \in Versions
      /\ gen.since = writes => gen.log = ledger /\ Hashed(gen.hashes)
  BY DEF GenOK, WritePacket
<1>2. PICK p : p = Packet
  OBVIOUS
<1>3. /\ p.record_ref = (IF gen.record.sandbox THEN "ops/run-records" ELSE layout.record)
      /\ p.log_ref = (IF gen.record.sandbox THEN "ops/event-ledger" ELSE layout.ledger)
      /\ p.record_hash = Canonical(gen.record) /\ p.log_hash = gen.log
      /\ p.artifact_refs = gen.record.outputs /\ p.artifact_hashes = gen.hashes
      /\ p.since = gen.since
  BY <1>2 DEF Packet
<1>4. layout.record \in RecordPlaces /\ layout.ledger \in LedgerPlaces
  BY StoreAssumption DEF StoreOK, Layout
<1>5. PacketOK(p)
  <2>1. p.record_ref \in RecordPlaces /\ p.log_ref \in LedgerPlaces
    BY <1>3, <1>4 DEF RecordPlaces, LedgerPlaces
  <2>2. p.log_hash \in Seq(Lines)
    BY <1>1, <1>3 DEF Begins
  <2> QED
    BY <1>1, <1>3, <2>1, <2>2 DEF PacketOK
<1>6. p.record_hash.covers <= Len(p.log_hash)
  BY <1>1, <1>3 DEF Canonical
<1>7. ASSUME p.since = writes PROVE Matches(p)
  <2>1. record # Missing
    BY <1>1, <1>3, <1>7, StoreAssumption DEF Covered
  <2> QED
    BY <1>1, <1>3, <1>7, <2>1 DEF Matches
<1>8. Good(p)'
  <2>1. writes' = writes /\ ledger' = ledger
    BY DEF store
  <2>2. p.since = writes' => Matches(p)'
    BY <1>7, <2>1, MatchesKept
  <2>3. PacketOK(p)'
    BY <1>5 DEF PacketOK
  <2>4. Begins(p.log_hash)'
    BY <1>1, <1>3, <2>1 DEF Begins
  <2> QED
    BY <1>1, <1>3, <1>6, <2>1, <2>2, <2>3, <2>4 DEF Good
<1>9. packets' = [packets EXCEPT ![gen.out] = p] /\ UNCHANGED <<store, generated>>
  BY <1>2 DEF WritePacket
<1>10. PICK f : f = gen.out
  OBVIOUS
<1> QED
  BY <1>1, <1>8, <1>9, <1>10, WriteKept

LEMMA GenerateKept ==
  ASSUME StoreOK, PacketsOK, GenOK, GenerateStep, UNCHANGED store
  PROVE  GenOK' /\ PacketsOK'
<1>1. /\ writes' = writes /\ ledger' = ledger /\ record' = record
      /\ layout' = layout /\ artifacts' = artifacts /\ StoreOK' /\ Moves
      /\ writes \in Nat /\ ledger \in Seq(Lines) /\ record \in Record \cup {Missing}
      /\ (record # Missing => record.covers <= Len(ledger))
      /\ MaxPackets \in Nat
  BY StoreAssumption DEF store, StoreOK, Moves
<1>2. ASSUME UNCHANGED <<packets, generated>> PROVE PacketsOK'
  BY <1>1, <1>2, PacketsKept
<1>3. ASSUME gen' = NoRun PROVE GenOK'
  BY <1>3 DEF GenOK, NoRun
<1>4. ASSUME NEW out \in PacketFiles, Generate(out) PROVE GenOK' /\ PacketsOK'
  <2>1. gen' = [pc |-> "parse", out |-> out, since |-> writes]
    BY <1>4 DEF Generate
  <2>2. GenOK'
    BY <1>1, <2>1 DEF GenOK
  <2>3. generated' \in 0..MaxPackets /\ packets' = packets
    BY <1>1, <1>4 DEF Generate, PacketsOK
  <2>4. ASSUME NEW f \in PacketFiles, Whole(packets[f]) PROVE Good(packets[f])'
    <3>1. PICK packet : packet = packets[f]
      OBVIOUS
    <3>2. Good(packet)
      BY <2>4, <3>1 DEF PacketsOK
    <3>3. Good(packet)'
      BY <1>1, <3>2, GoodKept
    <3>4. packet = packets'[f]
      BY <2>3, <3>1
    <3> QED
      BY <3>3, <3>4
  <2> QED
    BY <2>2, <2>3, <2>4 DEF PacketsOK, Whole
<1>5. ASSUME Parse PROVE GenOK' /\ PacketsOK'
  <2>1. CASE gen' = NoRun
    BY <1>2, <1>3, <1>5, <2>1 DEF Parse
  <2>2. CASE /\ ledger # << >>
             /\ gen' = [pc |-> "load_record", out |-> gen.out, since |-> gen.since, events |-> ledger]
    BY <1>1, <1>2, <1>5, <2>2 DEF Parse, GenOK
  <2> QED
    BY <1>5, <2>1, <2>2 DEF Parse
<1>6. ASSUME LoadRecord PROVE GenOK' /\ PacketsOK'
  <2>1. CASE gen' = NoRun
    BY <1>2, <1>3, <1>6, <2>1 DEF LoadRecord
  <2>2. CASE /\ record # Missing
             /\ gen' = [pc |-> "hash_ledger", out |-> gen.out, since |-> gen.since,
                        events |-> gen.events, record |-> record]
    BY <1>1, <1>2, <1>6, <2>2 DEF LoadRecord, GenOK, Covered
  <2> QED
    BY <1>6, <2>1, <2>2 DEF LoadRecord
<1>7. ASSUME HashLedger PROVE GenOK' /\ PacketsOK'
  <2>1. /\ gen.pc = "hash_ledger"
        /\ gen' = [pc |-> "hash_artifacts", out |-> gen.out, since |-> gen.since,
                   events |-> gen.events, record |-> gen.record, log |-> ledger,
                   todo |-> gen.record.outputs, hashes |-> {}]
    BY <1>7 DEF HashLedger
  <2>2. /\ gen.out \in PacketFiles /\ gen.since \in 0..writes /\ ledger # << >>
        /\ Covered(gen.record) /\ (gen.since = writes => gen.record = record)
    BY <2>1 DEF GenOK
  <2>3. Covered(gen.record)' /\ Begins(gen.log)' /\ Hashed(gen.hashes)'
    BY <1>1, <2>1, <2>2 DEF Covered, Begins, Hashed
  <2>4. gen.record.covers <= Len(ledger)
    BY <2>2 DEF Covered
  <2> QED
    BY <1>1, <1>2, <1>7, <2>1, <2>2, <2>3, <2>4 DEF HashLedger, GenOK
<1>8. ASSUME HashArtifact PROVE GenOK' /\ PacketsOK'
  BY <1>2, <1>8, HashArtifactKept DEF HashArtifact
<1>9. ASSUME OpenPacket PROVE GenOK' /\ PacketsOK'
  <2>1. /\ gen.pc = "hash_artifacts" /\ gen' = [gen EXCEPT !.pc = "write"]
        /\ packets' = [packets EXCEPT ![gen.out] = Torn] /\ generated' = generated
    BY <1>9 DEF OpenPacket
  <2>2. /\ {"pc", "out", "since"} \subseteq DOMAIN gen
        /\ gen.out \in PacketFiles /\ gen.since \in 0..writes
        /\ {"record", "log", "todo", "hashes"} \subseteq DOMAIN gen
    BY <2>1 DEF GenOK
  <2>3. /\ gen'.pc = "write" /\ gen'.out = gen.out /\ gen'.since = gen.since
        /\ gen'.record = gen.record /\ gen'.log = gen.log /\ DOMAIN gen' = DOMAIN gen
        /\ gen'.todo = gen.todo /\ gen'.hashes = gen.hashes
    BY <2>1, <2>2
  <2>4. GenOK'
    <3>1. /\ gen'.out \in PacketFiles /\ gen'.since \in 0..writes' /\ ledger' # << >>
          /\ {"pc", "out", "since"} \subseteq DOMAIN gen'
          /\ {"record", "log", "todo", "hashes"} \subseteq DOMAIN gen'
      BY <1>1, <2>1, <2>2, <2>3 DEF GenOK
    <3>2. Covered(gen.record)' /\ (gen'.since = writes' => gen'.record = record')
      BY <1>1, <2>1, <2>3 DEF GenOK, Covered
    <3>3. /\ Begins(gen.log)' /\ gen'.record.covers <= Len(gen'.log)
          /\ gen'.todo \subseteq gen'.record.outputs
          /\ \A entry \in gen'.hashes :
               entry[1] \in gen'.record.outputs /\ entry[2] \in Versions
      BY <1>1, <2>1, <2>3 DEF GenOK, Begins
    <3>4. ASSUME gen'.since = writes' PROVE gen'.log = ledger' /\ Hashed(gen.hashes)'
      <4>1. gen.log = ledger /\ Hashed(gen.hashes)
        BY <1>1, <2>1, <2>3, <3>4 DEF GenOK
      <4>2. PICK h : h = gen.hashes
        OBVIOUS
      <4>3. Hashed(h)
        BY <4>1, <4>2
      <4>4. Hashed(h)'
        BY <4>3, HashedKept
      <4>5. h = gen'.hashes
        BY <2>3, <4>2
      <4>6. Hashed(gen.hashes)'
        BY <4>4, <4>5
      <4> QED
        BY <1>1, <2>3, <4>1, <4>6
    <3> QED
      BY <2>3, <3>1, <3>2, <3>3, <3>4 DEF GenOK
  <2>5. PICK f : f = gen.out
    OBVIOUS
  <2>6. PacketsOK'
    BY <2>1, <2>2, <2>5, ~Whole(Torn), WriteKept DEF Whole
  <2> QED
    BY <2>4, <2>6
<1>10. ASSUME WritePacket PROVE GenOK' /\ PacketsOK'
  BY <1>3, <1>10, WritePacketKept DEF WritePacket
<1>11. ASSUME KillGenerator PROVE GenOK' /\ PacketsOK'
  BY <1>2, <1>3, <1>11 DEF KillGenerator
<1> QED
  BY <1>4, <1>5, <1>6, <1>7, <1>8, <1>9, <1>10, <1>11 DEF GenerateStep

LEMMA StrictStepKept ==
  ASSUME StoreOK, PacketsOK, StrictOK, StrictStep, UNCHANGED <<store, packets>>
  PROVE  StrictOK'
<1>1. /\ writes' = writes /\ ledger' = ledger /\ record' = record
      /\ layout' = layout /\ artifacts' = artifacts /\ packets' = packets
      /\ UNCHANGED store /\ StoreOK' /\ Moves /\ ledger \in Seq(Lines)
  BY DEF store, StoreOK, Moves
<1>2. ASSUME strict.pc \in {"validate", "load", "hash_record", "hash_ledger", "hash_artifacts"}
      PROVE  /\ {"pc", "paths", "failed"} \subseteq DOMAIN strict
             /\ strict.paths \in Seq(PacketFiles) /\ Head(strict.paths) \in PacketFiles
             /\ Len(strict.paths) # 1 => Tail(strict.paths) \in Seq(PacketFiles) \ {<< >>}
  <2>1. /\ {"pc", "paths", "failed"} \subseteq DOMAIN strict
        /\ strict.paths \in Seq(PacketFiles) /\ strict.paths # << >>
    BY <1>2 DEF StrictOK
  <2>2. Len(strict.paths) \in Nat /\ Len(strict.paths) # 0 /\ Head(strict.paths) \in PacketFiles
    BY <2>1
  <2>3. Tail(strict.paths) \in Seq(PacketFiles) /\ Len(Tail(strict.paths)) = Len(strict.paths) - 1
    BY <2>1
  <2>4. Len(strict.paths) # 1 => Tail(strict.paths) # << >>
    <3>1. Len(strict.paths) # 1 => Len(Tail(strict.paths)) # 0
      BY <2>2, <2>3
    <3> QED
      BY <3>1
  <2> QED
    BY <2>1, <2>2, <2>3, <2>4
<1>3. ASSUME NEW failed, strict' = Proceed(failed),
             strict.pc \in {"validate", "load", "hash_record", "hash_ledger", "hash_artifacts"}
      PROVE  StrictOK'
  <2>1. CASE strict' = [pc |-> "exit", failed |-> failed]
    BY <2>1 DEF StrictOK
  <2>2. CASE /\ Len(strict.paths) # 1
             /\ strict' = [pc |-> "validate", paths |-> Tail(strict.paths), failed |-> failed]
    BY <1>2, <1>3, <2>2 DEF StrictOK
  <2> QED
    BY <1>3, <2>1, <2>2 DEF Proceed
<1>4. ASSUME NEW paths \in Checks, StartStrict(paths) PROVE StrictOK'
  BY <1>4, StrictAssumption DEF StartStrict, StrictOK
<1>5. ASSUME ValidatePacket PROVE StrictOK'
  <2>1. CASE strict' = [strict EXCEPT !.pc = "load"]
    <3>1. strict.pc = "validate" /\ {"pc", "paths", "failed"} \subseteq DOMAIN strict
          /\ strict.paths \in Seq(PacketFiles) \ {<< >>}
      BY <1>5 DEF ValidatePacket, StrictOK
    <3>2. strict'.pc = "load" /\ strict'.paths = strict.paths /\ DOMAIN strict' = DOMAIN strict
      BY <2>1, <3>1
    <3> QED
      BY <3>1, <3>2 DEF StrictOK
  <2>2. CASE strict' = Proceed(TRUE)
    BY <1>3, <1>5, <2>2 DEF ValidatePacket
  <2> QED
    BY <1>5, <2>1, <2>2 DEF ValidatePacket
<1>6. ASSUME Load PROVE StrictOK'
  <2>1. CASE strict' = [pc |-> "uncaught"]
    BY <2>1 DEF StrictOK
  <2>2. CASE /\ Whole(packets[Head(strict.paths)])
             /\ strict' = [pc |-> "hash_record", paths |-> strict.paths, failed |-> strict.failed,
                           packet |-> packets[Head(strict.paths)], failures |-> {}]
    <3>1. strict.pc = "load" /\ strict.paths \in Seq(PacketFiles) \ {<< >>}
          /\ Head(strict.paths) \in PacketFiles
      BY <1>2, <1>6 DEF Load, StrictOK
    <3>2. PICK packet : packet = packets[Head(strict.paths)]
      OBVIOUS
    <3>3. Good(packet)
      BY <2>2, <3>1, <3>2 DEF PacketsOK
    <3>4. Good(packet)'
      BY <1>1, <3>3, GoodKept
    <3>5. packet = strict'.packet
      BY <2>2, <3>2
    <3>6. Good(strict.packet)'
      BY <3>4, <3>5
    <3> QED
      BY <2>2, <3>1, <3>6 DEF StrictOK
  <2> QED
    BY <1>6, <2>1, <2>2 DEF Load
<1>7. ASSUME HashRecord PROVE StrictOK'
  <2>0. PICK packet : packet = strict.packet
    OBVIOUS
  <2>1. /\ strict.pc = "hash_record" /\ strict.paths \in Seq(PacketFiles) \ {<< >>} /\ Good(packet)
    BY <1>7, <2>0 DEF HashRecord, StrictOK
  <2>2. /\ strict'.pc = "hash_ledger" /\ strict'.paths = strict.paths
        /\ {"pc", "paths", "failed", "packet", "then", "todo", "failures"} \subseteq DOMAIN strict'
        /\ strict'.packet = packet /\ strict'.then = LedgerAt(packet.log_ref)
        /\ strict'.todo = packet.artifact_hashes
        /\ strict'.failures =
             IF {Canonical(r) : r \in RecordAt(packet.record_ref)} = {packet.record_hash}
             THEN {} ELSE {"run_record"}
    BY <1>7, <2>0 DEF HashRecord
  <2>3. Good(packet)'
    BY <1>1, <2>1, GoodKept
  <2>4. ASSUME Portable(packet), UpToDate(packet) PROVE strict'.failures = {}
    <3>1. Matches(packet) /\ packet.record_ref = layout.record
      BY <2>1, <2>4 DEF Good, UpToDate, Portable
    <3>2. RecordAt(packet.record_ref) = {record} /\ packet.record_hash = Canonical(record)
      BY <3>1 DEF Matches, RecordAt
    <3> QED
      BY <2>2, <3>2
  <2>5. Then(strict'.then, packet)
    <3>1. CASE packet.log_ref # layout.ledger
      BY <2>2, <3>1 DEF Then, LedgerAt
    <3>2. CASE packet.log_ref = layout.ledger
      <4>1. Begins(ledger) /\ Len(packet.log_hash) <= Len(ledger)
        BY <1>1, <2>1 DEF Good, Begins
      <4>2. strict'.then = IF ledger = << >> THEN {} ELSE {ledger}
        BY <2>2, <3>2 DEF LedgerAt
      <4> QED
        BY <1>1, <3>2, <4>1, <4>2 DEF Then
    <3> QED
      BY <3>1, <3>2
  <2>6. Portable(strict.packet)' /\ UpToDate(strict.packet)' => strict'.failures = {}
    BY <1>1, <2>2, <2>4 DEF Portable, UpToDate
  <2>7. Then(strict.then, strict.packet)'
    BY <1>1, <2>2, <2>5 DEF Then, Begins
  <2>8. Good(strict.packet)'
    <3>1. packet = strict'.packet
      BY <2>2
    <3> QED
      BY <2>3, <3>1
  <2> QED
    BY <2>1, <2>2, <2>6, <2>7, <2>8 DEF StrictOK
<1>8. ASSUME RehashLedger PROVE StrictOK'
  <2>0. PICK packet : packet = strict.packet
    OBVIOUS
  <2>1. /\ strict.pc = "hash_ledger" /\ Good(packet) /\ Then(strict.then, packet)
        /\ {"pc", "paths", "failed", "packet", "then", "todo", "failures"} \subseteq DOMAIN strict
        /\ strict.paths \in Seq(PacketFiles) \ {<< >>}
        /\ strict.todo \subseteq packet.artifact_hashes
        /\ (Portable(packet) /\ UpToDate(packet) => strict.failures = {})
    BY <1>8, <2>0 DEF RehashLedger, StrictOK
  <2>2. /\ strict'.pc = "hash_artifacts" /\ strict'.paths = strict.paths
        /\ DOMAIN strict' = DOMAIN strict /\ strict'.packet = packet
        /\ strict'.then = strict.then /\ strict'.todo = strict.todo
        /\ strict'.failures = strict.failures \cup
             IF LedgerAt(packet.log_ref) = {packet.log_hash} THEN {} ELSE {"event_log"}
    BY <1>8, <2>0, <2>1 DEF RehashLedger
  <2>3. Good(packet)'
    BY <1>1, <2>1, GoodKept
  <2>4. Good(strict.packet)'
    <3>1. packet = strict'.packet
      BY <2>2
    <3> QED
      BY <2>3, <3>1
  <2>5. ASSUME Portable(packet), UpToDate(packet) PROVE strict'.failures = {}
    <3>1. Matches(packet) /\ packet.log_ref = layout.ledger
      BY <2>1, <2>5 DEF Good, UpToDate, Portable
    <3>2. LedgerAt(packet.log_ref) = {packet.log_hash}
      BY <3>1 DEF Matches, LedgerAt
    <3> QED
      BY <2>1, <2>2, <2>5, <3>2
  <2>6. ASSUME "event_log" \notin strict'.failures PROVE strict'.then = {packet.log_hash}
    <3>1. LedgerAt(packet.log_ref) = {packet.log_hash}
      BY <2>2, <2>6
    <3>2. packet.log_ref = layout.ledger /\ ledger # << >> /\ ledger = packet.log_hash
      BY <3>1 DEF LedgerAt
    <3>3. PICK s \in Seq(Lines) :
            /\ Begins(s) /\ Len(packet.log_hash) <= Len(s)
            /\ strict.then = IF s = << >> THEN {} ELSE {s}
      BY <2>1, <3>2 DEF Then
    <3>4. Len(s) \in Nat /\ Len(ledger) \in Nat /\ Len(s) = Len(ledger)
      BY <1>1, <3>2, <3>3 DEF Begins
    <3>5. \A i \in 1..Len(s) : s[i] = ledger[i]
      BY <3>3 DEF Begins
    <3>6. s = ledger
      BY <1>1, <3>4, <3>5, SeqEqual
    <3> QED
      BY <2>2, <3>2, <3>3, <3>6
  <2>7. Portable(strict.packet)' /\ UpToDate(strict.packet)' => strict'.failures = {}
    BY <1>1, <2>2, <2>5 DEF Portable, UpToDate
  <2> QED
    BY <2>1, <2>2, <2>4, <2>6, <2>7 DEF StrictOK
<1>9. ASSUME RehashArtifact PROVE StrictOK'
  <2>0. PICK packet : packet = strict.packet
    OBVIOUS
  <2>1. PICK entry \in strict.todo :
          strict' = [strict EXCEPT !.todo = @ \ {entry},
                       !.failures = @ \cup
                         IF At(Resolve(entry[1])) = {entry[2]} THEN {} ELSE {"artifact"}]
    BY <1>9 DEF RehashArtifact
  <2>2. /\ strict.pc = "hash_artifacts" /\ Good(packet)
        /\ {"pc", "paths", "failed", "packet", "then", "todo", "failures"} \subseteq DOMAIN strict
        /\ strict.paths \in Seq(PacketFiles) \ {<< >>}
        /\ strict.todo \subseteq packet.artifact_hashes
        /\ (Portable(packet) /\ UpToDate(packet) => strict.failures = {})
        /\ ("event_log" \notin strict.failures => strict.then = {packet.log_hash})
    BY <1>9, <2>0 DEF RehashArtifact, StrictOK
  <2>3. /\ strict'.pc = "hash_artifacts" /\ strict'.paths = strict.paths
        /\ DOMAIN strict' = DOMAIN strict /\ strict'.packet = packet
        /\ strict'.then = strict.then /\ strict'.todo = strict.todo \ {entry}
        /\ strict'.failures = strict.failures \cup
             IF At(Resolve(entry[1])) = {entry[2]} THEN {} ELSE {"artifact"}
    BY <2>0, <2>1, <2>2
  <2>4. Good(packet)'
    BY <1>1, <2>2, GoodKept
  <2>5. Good(strict.packet)'
    <3>1. packet = strict'.packet
      BY <2>3
    <3> QED
      BY <2>4, <3>1
  <2>6. ASSUME Portable(packet), UpToDate(packet) PROVE strict'.failures = {}
    <3>1. entry \in packet.artifact_hashes /\ Hashed(packet.artifact_hashes)
      BY <2>1, <2>2, <2>6 DEF Good, UpToDate, Matches
    <3>2. At(ResolveForPacket(entry[1])) = {entry[2]} /\ entry[1].scheme # "relative"
      BY <2>6, <3>1 DEF Hashed, Portable
    <3>3. At(Resolve(entry[1])) = {entry[2]}
      BY <3>2 DEF ResolveForPacket
    <3> QED
      BY <2>2, <2>3, <2>6, <3>3
  <2>7. Portable(strict.packet)' /\ UpToDate(strict.packet)' => strict'.failures = {}
    BY <1>1, <2>3, <2>6 DEF Portable, UpToDate
  <2> QED
    BY <2>2, <2>3, <2>5, <2>7 DEF StrictOK
<1>10. ASSUME Answer PROVE StrictOK'
  BY <1>3, <1>10 DEF Answer
<1>11. ASSUME EndStrict PROVE StrictOK'
  BY <1>11 DEF EndStrict, Idle, StrictOK
<1> QED
  BY <1>4, <1>5, <1>6, <1>7, <1>8, <1>9, <1>10, <1>11 DEF StrictStep

LEMMA BundleStepKept ==
  ASSUME StoreOK, BundlesOK, MakerOK, BundleStep, UNCHANGED store
  PROVE  BundlesOK' /\ MakerOK'
<1>1. /\ ledger' = ledger /\ ledger \in Seq(Lines) /\ record \in Record \cup {Missing}
      /\ (record # Missing => record.covers <= Len(ledger))
  BY DEF store, StoreOK
<1>2. ASSUME maker' = NoMaker PROVE MakerOK'
  BY <1>2 DEF MakerOK, NoMaker
<1>3. ASSUME UNCHANGED bundles PROVE BundlesOK'
  BY <1>3 DEF BundlesOK, Whole
<1>4. ASSUME NEW b \in Bundles, NEW order \in Orders, Create(b, order) PROVE BundlesOK' /\ MakerOK'
  <2>1. CASE maker' = [pc |-> "hash_record", out |-> b, order |-> order]
    BY <1>3, <1>4, <2>1 DEF Create, MakerOK
  <2> QED
    BY <1>2, <1>3, <1>4, <2>1 DEF Create
<1>5. ASSUME BundleRecord PROVE BundlesOK' /\ MakerOK'
  <2>1. CASE /\ record # Missing
             /\ maker' = [pc |-> "hash_ledger", out |-> maker.out, order |-> maker.order,
                          record |-> record]
    BY <1>1, <1>3, <1>5, <2>1 DEF BundleRecord, MakerOK, Covered
  <2> QED
    BY <1>2, <1>3, <1>5, <2>1 DEF BundleRecord
<1>6. ASSUME BundleLedger PROVE BundlesOK' /\ MakerOK'
  <2>1. CASE /\ ledger # << >>
             /\ maker' = [pc |-> "hash_trace", out |-> maker.out, order |-> maker.order,
                          record |-> maker.record, log |-> ledger]
    <3>1. Covered(maker.record)
      BY <1>6 DEF BundleLedger, MakerOK
    <3>2. Covered(maker.record)'
      BY <1>1, <2>1, <3>1 DEF Covered
    <3>3. maker'.log \in Seq(Lines) \ {<< >>} /\ maker'.record.covers <= Len(maker'.log)
      BY <1>1, <2>1, <3>1 DEF Covered
    <3> QED
      BY <1>3, <1>6, <2>1, <3>2, <3>3 DEF BundleLedger, MakerOK
  <2> QED
    BY <1>2, <1>3, <1>6, <2>1 DEF BundleLedger
<1>7. ASSUME BundleTrace PROVE BundlesOK' /\ MakerOK'
  <2>1. ASSUME NEW hash,
               maker' = [pc |-> "open", out |-> maker.out, order |-> maker.order,
                         record |-> maker.record, log |-> maker.log, trace_hash |-> hash]
        PROVE  MakerOK'
    <3>1. /\ Covered(maker.record) /\ maker.log \in Seq(Lines) \ {<< >>}
          /\ maker.record.covers <= Len(maker.log)
      BY <1>7 DEF BundleTrace, MakerOK
    <3>2. Covered(maker.record)'
      BY <1>1, <2>1, <3>1 DEF Covered
    <3> QED
      BY <2>1, <3>1, <3>2 DEF MakerOK
  <2> QED
    BY <1>2, <1>3, <1>7, <2>1 DEF BundleTrace
<1>8. ASSUME OpenBundle PROVE BundlesOK' /\ MakerOK'
  <2>1. /\ maker.pc = "open" /\ maker' = [maker EXCEPT !.pc = "write"]
        /\ "pc" \in DOMAIN maker /\ {"record", "log"} \subseteq DOMAIN maker
        /\ Covered(maker.record) /\ maker.log \in Seq(Lines) \ {<< >>}
        /\ maker.record.covers <= Len(maker.log)
    BY <1>8 DEF OpenBundle, MakerOK
  <2>2. /\ maker'.pc = "write" /\ maker'.record = maker.record /\ maker'.log = maker.log
        /\ DOMAIN maker' = DOMAIN maker
    BY <2>1
  <2>3. Covered(maker.record)'
    BY <1>1, <2>1, <2>2 DEF Covered
  <2>4. MakerOK'
    BY <2>1, <2>2, <2>3 DEF MakerOK
  <2>5. bundles' = [bundles EXCEPT ![maker.out] = Torn]
    BY <1>8 DEF OpenBundle
  <2>6. BundlesOK'
    BY <2>5 DEF BundlesOK, Whole
  <2> QED
    BY <2>4, <2>6
<1>9. ASSUME WriteBundle PROVE BundlesOK' /\ MakerOK'
  <2>1. /\ Covered(maker.record) /\ maker.log \in Seq(Lines) \ {<< >>}
        /\ maker.record.covers <= Len(maker.log)
    BY <1>9 DEF WriteBundle, MakerOK
  <2>2. bundles' = [bundles EXCEPT ![maker.out] =
          [bundle_id |-> maker.order.identity, run_record_hash |-> maker.record,
           event_ledger_hash |-> maker.log, trace_hash |-> maker.trace_hash,
           artifacts |-> maker.order.artifacts]]
    BY <1>9 DEF WriteBundle
  <2>3. BundlesOK'
    BY <2>1, <2>2 DEF BundlesOK, Whole, Covered
  <2> QED
    BY <1>2, <1>9, <2>3 DEF WriteBundle
<1>10. ASSUME KillMaker PROVE BundlesOK' /\ MakerOK'
  BY <1>2, <1>3, <1>10 DEF KillMaker
<1>11. ASSUME NEW left \in Bundles, NEW right \in Bundles, Compare(left, right)
       PROVE  BundlesOK' /\ MakerOK'
  BY <1>1, <1>3, <1>11 DEF Compare, MakerOK, Covered
<1> QED
  BY <1>4, <1>5, <1>6, <1>7, <1>8, <1>9, <1>10, <1>11 DEF BundleStep

-----------------------------------------------------------------------------
(* The invariant holds, and so do the properties.                          *)

LEMMA InvariantBegins == Init => IInv
<1> SUFFICES ASSUME Init PROVE IInv
  OBVIOUS
<1>1. /\ layout \in Layouts /\ artifacts \in Stocks
      /\ ledger = << >> /\ record = Missing /\ writes = 0
      /\ DOMAIN packets = PacketFiles /\ \A p \in PacketFiles : packets[p] \in {Missing, Foreign}
      /\ generated = 0 /\ gen = NoRun
      /\ strict = Idle /\ bundles = [b \in Bundles |-> Missing] /\ maker = NoMaker
  BY DEF Init, StoreInit, BundleInit
<1>2. StoreOK
  BY <1>1, StoreAssumption DEF StoreOK
<1>3. PacketsOK
  BY <1>1, StoreAssumption DEF PacketsOK, Whole
<1>4. GenOK
  BY <1>1 DEF GenOK, NoRun
<1>5. BundlesOK
  BY <1>1 DEF BundlesOK, Whole
<1>6. MakerOK
  BY <1>1 DEF MakerOK, NoMaker
<1>7. StrictOK
  BY <1>1 DEF StrictOK, Idle
<1> QED
  BY <1>2, <1>3, <1>4, <1>5, <1>6, <1>7 DEF IInv

LEMMA InvariantKept == IInv /\ [Next]_vars => IInv'
<1> SUFFICES ASSUME IInv, [Next]_vars PROVE IInv'
  OBVIOUS
<1> USE DEF IInv
<1>1. CASE UNCHANGED vars
  <2>1. /\ UNCHANGED store /\ UNCHANGED <<packets, generated>> /\ UNCHANGED gen
        /\ UNCHANGED strict /\ UNCHANGED bundles /\ UNCHANGED maker
    BY <1>1 DEF vars, generator
  <2>2. Moves /\ StoreOK'
    BY <2>1, MovesForward DEF Moves
  <2>3. BundlesOK'
    BY <2>1 DEF BundlesOK, Whole
  <2> QED
    BY <2>1, <2>2, <2>3, PacketsKept, GenKept, MakerKept, StrictKept
<1>2. CASE Produce /\ UNCHANGED <<generator, strict, bundles, maker, compared, board>>
  <2>1. /\ UNCHANGED <<packets, generated>> /\ UNCHANGED gen
        /\ UNCHANGED strict /\ UNCHANGED bundles /\ UNCHANGED maker
    BY <1>2 DEF generator
  <2>2. Moves
    BY <1>2 DEF Moves
  <2>3. BundlesOK' /\ StoreOK'
    BY <2>1, <2>2, MovesForward DEF BundlesOK, Whole
  <2> QED
    BY <2>1, <2>2, <2>3, PacketsKept, GenKept, MakerKept, StrictKept
<1>3. CASE GenerateStep /\ UNCHANGED <<store, strict, bundles, maker, compared, board>>
  <2>1. UNCHANGED store /\ UNCHANGED strict /\ UNCHANGED bundles /\ UNCHANGED maker
    BY <1>3
  <2>2. Moves /\ StoreOK'
    BY <2>1, MovesForward DEF Moves
  <2>3. BundlesOK'
    BY <2>1 DEF BundlesOK, Whole
  <2> QED
    BY <1>3, <2>1, <2>2, <2>3, GenerateKept, MakerKept, StrictKept
<1>4. CASE StrictStep /\ UNCHANGED <<store, generator, bundles, maker, compared, board>>
  <2>1. /\ UNCHANGED store /\ UNCHANGED <<packets, generated>> /\ UNCHANGED gen
        /\ UNCHANGED bundles /\ UNCHANGED maker /\ UNCHANGED <<store, packets>>
    BY <1>4 DEF generator
  <2>2. Moves /\ StoreOK'
    BY <2>1, MovesForward DEF Moves
  <2>3. BundlesOK'
    BY <2>1 DEF BundlesOK, Whole
  <2> QED
    BY <1>4, <2>1, <2>2, <2>3, PacketsKept, GenKept, MakerKept, StrictStepKept
<1>5. CASE BundleStep /\ UNCHANGED <<store, generator, strict, board>>
  <2>1. /\ UNCHANGED store /\ UNCHANGED <<packets, generated>> /\ UNCHANGED gen
        /\ UNCHANGED strict
    BY <1>5 DEF generator
  <2>2. Moves /\ StoreOK'
    BY <2>1, MovesForward DEF Moves
  <2> QED
    BY <1>5, <2>1, <2>2, PacketsKept, GenKept, BundleStepKept, StrictKept
<1>6. CASE BoardStep /\ UNCHANGED <<store, generator, strict, bundles, maker, compared>>
  <2>1. /\ UNCHANGED store /\ UNCHANGED <<packets, generated>> /\ UNCHANGED gen
        /\ UNCHANGED strict /\ UNCHANGED bundles /\ UNCHANGED maker
    BY <1>6 DEF generator
  <2>2. Moves /\ StoreOK'
    BY <2>1, MovesForward DEF Moves
  <2>3. BundlesOK'
    BY <2>1 DEF BundlesOK, Whole
  <2> QED
    BY <2>1, <2>2, <2>3, PacketsKept, GenKept, MakerKept, StrictKept
<1> QED
  BY <1>1, <1>2, <1>3, <1>4, <1>5, <1>6 DEF Next

LEMMA Invariant == Spec => []IInv
<1> QED
  BY InvariantBegins, InvariantKept, PTL DEF Spec

\* Every packet and every bundle on disk is whole and of its type or known to
\* be half-written, and so is the packet strict validation holds
\* (run_evidence.py:649-706, cli.py:83-84, 752-800).
THEOREM TypeCorrect == Spec => []TypeOK
<1>1. IInv => TypeOK
  <2> SUFFICES ASSUME IInv PROVE TypeOK
    OBVIOUS
  <2>1. ASSUME NEW packet \in WholePackets \cup HeldPackets PROVE PacketOK(packet)
    <3>1. CASE packet \in WholePackets
      BY <3>1 DEF WholePackets, IInv, PacketsOK, Good
    <3>2. CASE packet \in HeldPackets
      BY <3>2 DEF HeldPackets, IInv, StrictOK, Good
    <3> QED
      BY <3>1, <3>2
  <2>2. ASSUME NEW bundle \in WholeBundles
        PROVE  bundle.run_record_hash \in Record /\ bundle.event_ledger_hash \in Seq(Lines) \ {<< >>}
    BY DEF WholeBundles, IInv, BundlesOK
  <2> QED
    BY <2>1, <2>2 DEF TypeOK, IInv, StoreOK, PacketsOK, BundlesOK
<1> QED
  BY <1>1, Invariant, PTL

\* Packets and bundles hash the Run record before the ledger, so a hashed
\* ledger has all the lines the hashed record sums up, however many lines and
\* records are written in between (run_evidence.py:634-639, cli.py:759-760).
THEOREM LedgerAlwaysCovers == Spec => []LedgerCoversRecord
<1>1. IInv => LedgerCoversRecord
  BY DEF IInv, LedgerCoversRecord, WholePackets, WholeBundles, PacketsOK, BundlesOK, Good
<1> QED
  BY <1>1, Invariant, PTL

\* "re-hash matches" tells of one moment although the files are opened one
\* after the other: the ledger only grows, so one that is the hashed one now
\* and had all its lines when the record was hashed was the same then
\* (cli.py:80-118).
THEOREM StrictOkAlwaysCoexisted == Spec => []StrictOkMeansCoexisted
<1>1. IInv => StrictOkMeansCoexisted
  BY DEF IInv, StrictOK, StrictOkMeansCoexisted, Compared
<1> QED
  BY <1>1, Invariant, PTL

\* Generator and validator agree about what they hash for every layout,
\* record and set of artifacts, as long as the refs are of the kinds both
\* resolve alike (run_evidence.py:550-568, 603, 638-639, uri.py:60-76,
\* cli.py:40-59).
THEOREM PortableFreshAlwaysPass == Spec => []PortableFreshPasses
<1>1. IInv => PortableFreshPasses
  BY DEF IInv, StrictOK, PortableFreshPasses, Compared
<1> QED
  BY <1>1, Invariant, PTL

-----------------------------------------------------------------------------
(* Counting.                                                               *)

\* A set of numbers has a least, and a bounded one has a greatest.
LEMMA LeastExists ==
  ASSUME NEW S \in SUBSET Nat, S # {}
  PROVE  \E m \in S : \A y \in S : m <= y
<1> DEFINE Less == OpToRel(<, Nat)
<1>1. IsWellFoundedOn(Less, Nat)
  BY NatLessThanWellFounded
<1>2. \A a, b \in Nat : a < b => <<a, b>> \in Less
  BY DEF OpToRel
<1> HIDE DEF Less
<1>3. PICK m \in S : \A y \in S : <<y, m>> \notin Less
  BY <1>1, WFMin
<1>4. ASSUME NEW y \in S PROVE m <= y
  <2>1. m \in Nat /\ y \in Nat /\ ~(y < m)
    BY <1>2, <1>3
  <2> QED
    BY <2>1
<1> QED
  BY <1>4

LEMMA GreatestExists ==
  ASSUME NEW S \in SUBSET Nat, S # {}, NEW bound \in Nat, \A y \in S : y <= bound
  PROVE  \E m \in S : \A y \in S : y <= m
<1> DEFINE Below == {bound - y : y \in S}
<1>1. Below \in SUBSET Nat /\ Below # {}
  <2>1. \A y \in S : bound - y \in Nat
    OBVIOUS
  <2> QED
    BY <2>1
<1> HIDE DEF Below
<1>2. PICK least \in Below : \A d \in Below : least <= d
  BY <1>1, LeastExists
<1>3. PICK m \in S : least = bound - m
  BY DEF Below
<1>4. ASSUME NEW y \in S PROVE y <= m
  <2>1. bound - m <= bound - y
    BY <1>2, <1>3 DEF Below
  <2>2. m \in Nat /\ y \in Nat
    OBVIOUS
  <2> QED
    BY <2>1, <2>2
<1> QED
  BY <1>4

\* A list with one entry for each member of a set tells its size.
LEMMA SameNumber ==
  ASSUME NEW S, NEW T, IsFiniteSet(S), NEW f \in [S -> T],
         \A x, y \in S : f[x] = f[y] => x = y,
         \A t \in T : \E x \in S : f[x] = t
  PROVE  IsFiniteSet(T) /\ Cardinality(T) = Cardinality(S)
<1>1. f \in Bijection(S, T)
  BY DEF Bijection, Injection, Surjection, IsInjective
<1> QED
  BY <1>1, FS_Bijection DEF ExistsBijection

LEMMA PlacesFinite ==
  ASSUME NEW n \in Nat, NEW N \in SUBSET (1..n)
  PROVE  IsFiniteSet(N) /\ Cardinality(N) \in 0..n
<1>1. IsFiniteSet(1..n) /\ Cardinality(1..n) = n
  BY FS_Interval
<1>2. IsFiniteSet(N) /\ Cardinality(N) <= n /\ Cardinality(N) \in Nat
  BY <1>1, FS_Subset, FS_CardinalityType
<1> QED
  BY <1>2

\* Ranks number the members of a set of places without gaps.
LEMMA Ranks ==
  ASSUME NEW n \in Nat, NEW kept \in SUBSET (1..n)
  PROVE  /\ Cardinality(kept) \in Nat
         /\ \A m \in 1..Cardinality(kept) :
              \E i \in kept : Cardinality({j \in kept : j <= i}) = m
         /\ \A i \in kept : Cardinality({j \in kept : j <= i}) \in 1..Cardinality(kept)
         /\ \A i, k \in kept : Cardinality({j \in kept : j <= i})
                                 = Cardinality({j \in kept : j <= k}) => i = k
<1> DEFINE upto(i) == {j \in kept : j <= i}
           rank == [i \in kept |-> Cardinality(upto(i))]
           size == Cardinality(kept)
<1>1. IsFiniteSet(kept) /\ size \in Nat
  BY PlacesFinite
<1>2. ASSUME NEW i \in kept
      PROVE  IsFiniteSet(upto(i)) /\ Cardinality(upto(i)) \in 1..size
  <2>1. upto(i) \in SUBSET kept /\ i \in upto(i)
    OBVIOUS
  <2>2. IsFiniteSet(upto(i)) /\ Cardinality(upto(i)) <= size
    BY <1>1, <2>1, FS_Subset
  <2>3. Cardinality(upto(i)) \in Nat /\ Cardinality(upto(i)) # 0
    BY <2>1, <2>2, FS_CardinalityType, FS_EmptySet
  <2> HIDE DEF upto, size
  <2> QED
    BY <1>1, <2>2, <2>3
<1>3. ASSUME NEW i \in kept, NEW j \in kept, i < j
      PROVE  Cardinality(upto(i)) < Cardinality(upto(j))
  <2>0. i \in Nat /\ j \in Nat /\ \A k \in kept : k \in Nat
    OBVIOUS
  <2>1. upto(i) \in SUBSET (upto(j) \ {j}) /\ j \in upto(j)
    <3>1. ASSUME NEW k \in upto(i) PROVE k \in kept /\ k <= j /\ k # j
      <4>1. k \in kept /\ k <= i /\ k \in Nat
        BY <2>0
      <4> QED
        BY <1>3, <2>0, <4>1
    <3>2. j <= j
      BY <2>0
    <3> QED
      BY <3>1, <3>2
  <2>2. IsFiniteSet(upto(j)) /\ IsFiniteSet(upto(j) \ {j})
        /\ Cardinality(upto(j) \ {j}) = Cardinality(upto(j)) - 1
    BY <1>2, <2>1, FS_RemoveElement
  <2>3. Cardinality(upto(i)) <= Cardinality(upto(j) \ {j})
    BY <2>1, <2>2, FS_Subset
  <2>4. Cardinality(upto(i)) \in Nat /\ Cardinality(upto(j)) \in Nat
    BY <1>2, FS_CardinalityType
  <2> HIDE DEF upto
  <2> QED
    BY <2>2, <2>3, <2>4
<1> HIDE DEF upto, size
<1>4. rank \in Injection(kept, 1..size)
  <2>1. rank \in [kept -> 1..size]
    BY <1>2
  <2>2. ASSUME NEW i \in kept, NEW j \in kept, rank[i] = rank[j] PROVE i = j
    <3>1. Cardinality(upto(i)) = Cardinality(upto(j))
      BY <2>2
    <3>2. Cardinality(upto(i)) \in Nat /\ i \in Nat /\ j \in Nat
      BY <1>2
    <3>3. ~(i < j) /\ ~(j < i)
      BY <1>3, <3>1, <3>2
    <3> QED
      BY <3>2, <3>3
  <2> HIDE DEF rank
  <2> QED
    BY <2>1, <2>2 DEF Injection, IsInjective
<1>5. rank \in Surjection(kept, 1..size)
  <2>1. IsFiniteSet(1..size) /\ Cardinality(1..size) = size
    BY <1>1, FS_Interval
  <2> HIDE DEF rank
  <2> QED
    BY <1>4, <2>1, FS_Injection DEF size
<1>6. \A m \in 1..size : \E i \in kept : Cardinality(upto(i)) = m
  <2> TAKE m \in 1..size
  <2>1. PICK i \in kept : rank[i] = m
    <3> HIDE DEF rank
    <3> QED
      BY <1>5, Zenon DEF Surjection
  <2> QED
    BY <2>1
<1>7. \A i, k \in kept : Cardinality(upto(i)) = Cardinality(upto(k)) => i = k
  <2>1. rank \in [kept -> 1..size] /\ \A i, k \in kept : rank[i] = rank[k] => i = k
    <3> HIDE DEF rank
    <3> QED
      BY <1>4 DEF Injection, IsInjective
  <2> QED
    BY <2>1
<1> QED
  BY <1>1, <1>2, <1>6, <1>7 DEF upto, size

Arguments == PacketFiles \cup {Directory}
Members(s) == {s[i] : i \in DOMAIN s}
Once(s) == \A i, j \in DOMAIN s : s[i] = s[j] => i = j

\* Leaving out repeated arguments leaves each of them once.
LEMMA DedupedPaths ==
  ASSUME NEW paths \in Seq(Arguments)
  PROVE  /\ Deduped(paths) \in Seq(Arguments)
         /\ Once(Deduped(paths)) /\ Members(Deduped(paths)) = Members(paths)
<1> DEFINE kept == {i \in DOMAIN paths : \A j \in 1..(i - 1) : paths[j] # paths[i]}
           upto(i) == {j \in kept : j <= i}
           size == Cardinality(kept)
           nth(m) == CHOOSE i \in kept : Cardinality(upto(i)) = m
<1>1. Len(paths) \in Nat /\ DOMAIN paths = 1..Len(paths) /\ kept \in SUBSET (1..Len(paths))
  OBVIOUS
<1>2. Deduped(paths) = [m \in 1..size |-> paths[nth(m)]]
  BY DEF Deduped
<1>3. \A i \in kept, j \in kept : paths[i] = paths[j] => i = j
  <2> SUFFICES ASSUME NEW i \in kept, NEW j \in kept, paths[i] = paths[j], i < j PROVE FALSE
    BY <1>1
  <2>1. i \in 1..(j - 1)
    BY <1>1
  <2> QED
    BY <2>1
<1>4. \A k \in DOMAIN paths : \E i \in kept : paths[i] = paths[k]
  <2> TAKE k \in DOMAIN paths
  <2> DEFINE Same == {i \in DOMAIN paths : paths[i] = paths[k]}
  <2>1. Same \in SUBSET Nat /\ Same # {}
    BY <1>1
  <2>2. PICK i \in Same : \A y \in Same : i <= y
    BY <2>1, LeastExists
  <2>3. ASSUME NEW j \in 1..(i - 1) PROVE paths[j] # paths[i]
    <3>1. j \in DOMAIN paths /\ ~(i <= j)
      BY <1>1
    <3> QED
      BY <2>2, <3>1
  <2> QED
    BY <2>2, <2>3
<1> HIDE DEF kept
<1>5. /\ size \in Nat
      /\ \A m \in 1..size : \E i \in kept : Cardinality(upto(i)) = m
      /\ \A i \in kept : Cardinality(upto(i)) \in 1..size
      /\ \A i, k \in kept : Cardinality(upto(i)) = Cardinality(upto(k)) => i = k
  BY <1>1, Ranks
<1> HIDE DEF upto, size
<1>6. \A m \in 1..size : nth(m) \in kept /\ Cardinality(upto(nth(m))) = m
  BY <1>5
<1>7. \A i \in kept : nth(Cardinality(upto(i))) = i
  BY <1>5, <1>6
<1> HIDE DEF nth
<1>8. \A m \in 1..size : paths[nth(m)] \in Arguments
  <2>1. \A i \in DOMAIN paths : paths[i] \in Arguments
    <3> HIDE DEF Arguments
    <3> QED
      OBVIOUS
  <2>2. kept \subseteq DOMAIN paths
    BY <1>1
  <2> QED
    BY <1>6, <2>1, <2>2
<1> DEFINE d == Deduped(paths)
<1>9. /\ d \in Seq(Arguments) /\ DOMAIN d = 1..size /\ \A m \in 1..size : d[m] = paths[nth(m)]
  BY <1>2, <1>5, <1>8
<1> HIDE DEF d
<1>10. Once(d)
  <2> SUFFICES ASSUME NEW m \in 1..size, NEW l \in 1..size, d[m] = d[l] PROVE m = l
    BY <1>9 DEF Once
  <2>1. nth(m) = nth(l)
    BY <1>3, <1>6, <1>9
  <2> QED
    BY <1>6, <2>1
<1>11. Members(d) \subseteq Members(paths)
  BY <1>1, <1>6, <1>9 DEF Members
<1>12. Members(paths) \subseteq Members(d)
  <2> SUFFICES ASSUME NEW k \in DOMAIN paths PROVE \E m \in 1..size : d[m] = paths[k]
    BY <1>9 DEF Members
  <2>1. PICK i \in kept : paths[i] = paths[k]
    BY <1>4
  <2> QED
    BY <1>5, <1>7, <1>9, <2>1
<1> QED
  BY <1>9, <1>10, <1>11, <1>12 DEF d

-----------------------------------------------------------------------------
(* The page.                                                               *)

\* What the page needs to know of a packet.
Countable(packet) ==
  /\ packet.generated_at \in 0..Len(ledger)
  /\ IsFiniteSet(packet.gate_results)
  /\ \A result \in packet.gate_results : result[2] \in AllStatuses

\* The packets, by the paths that lead to them, that are due on the page.
Due(given) ==
  {v \in Arguments \X PacketFiles :
     v[1] \in Members(given) /\ v[1] \in {v[2], Directory} /\ Whole(packets[v[2]])}

\* Every packet of S was read once.
ReadOnce(h, seen, S) ==
  /\ seen \in Seq({packets[f] : f \in PacketFiles})
  /\ h \in [DOMAIN seen -> S]
  /\ \A i, j \in DOMAIN seen : h[i] = h[j] => i = j
  /\ \A v \in S : \E i \in DOMAIN seen : h[i] = v
  /\ \A i \in DOMAIN seen : seen[i] = packets[h[i][2]]

DueOf(S, repo) == {v \in S : repo \in ProducersOf(packets[v[2]])}

LEMMA PacketsCounted ==
  ASSUME NEW h, NEW seen, NEW S, ReadOnce(h, seen, S), NEW repo
  PROVE  /\ IsFiniteSet(Of(seen, repo))
         /\ Cardinality(Of(seen, repo)) = Cardinality(DueOf(S, repo))
<1> DEFINE N == Of(seen, repo)
           f == [i \in N |-> h[i]]
<1>1. /\ DOMAIN seen = 1..Len(seen) /\ Len(seen) \in Nat
      /\ h \in [DOMAIN seen -> S]
      /\ \A i, j \in DOMAIN seen : h[i] = h[j] => i = j
      /\ \A v \in S : \E i \in DOMAIN seen : h[i] = v
      /\ \A i \in DOMAIN seen : seen[i] = packets[h[i][2]]
  BY DEF ReadOnce
<1>2. N \in SUBSET (1..Len(seen)) /\ \A i \in DOMAIN seen : i \in N <=> h[i] \in DueOf(S, repo)
  BY <1>1 DEF Of, DueOf
<1>3. IsFiniteSet(N)
  BY <1>1, <1>2, PlacesFinite
<1> HIDE DEF N
<1>4. /\ f \in [N -> DueOf(S, repo)]
      /\ \A x, y \in N : f[x] = f[y] => x = y
  BY <1>1, <1>2
<1>5. \A t \in DueOf(S, repo) : \E x \in N : f[x] = t
  <2> TAKE t \in DueOf(S, repo)
  <2>1. PICK x \in DOMAIN seen : h[x] = t
    BY <1>1 DEF DueOf
  <2> QED
    BY <1>2, <2>1
<1> HIDE DEF f
<1>6. Cardinality(DueOf(S, repo)) = Cardinality(N)
  BY <1>3, <1>4, <1>5, SameNumber
<1> QED
  BY <1>3, <1>6 DEF N

\* All gate results of some of the packets that were read.
Results(seen, N) == UNION {{i} \X seen[i].gate_results : i \in N}

LEMMA ResultsOf ==
  ASSUME NEW seen, NEW N, NEW x
  PROVE  x \in Results(seen, N) <=>
           \E i \in N : \E g \in seen[i].gate_results : x = <<i, g>>
BY DEF Results

LEMMA ResultsFinite ==
  ASSUME NEW seen, NEW N, IsFiniteSet(N), \A i \in N : IsFiniteSet(seen[i].gate_results)
  PROVE  IsFiniteSet(Results(seen, N))
<1> DEFINE of(i) == {i} \X seen[i].gate_results
           all == {of(i) : i \in N}
           f == [i \in N |-> of(i)]
<1>1. \A i \in N : IsFiniteSet(of(i))
  <2> TAKE i \in N
  <2>1. IsFiniteSet({i})
    BY FS_Singleton
  <2> QED
    BY <2>1, FS_Product
<1> HIDE DEF of
<1>2. f \in Surjection(N, all)
  BY DEF Surjection
<1>3. IsFiniteSet(all)
  BY <1>2, FS_Surjection
<1>4. IsFiniteSet(UNION all)
  BY <1>1, <1>3, FS_UNION
<1> QED
  BY <1>4 DEF Results, of

LEMMA GateColumns ==
  ASSUME NEW seen, NEW N, IsFiniteSet(N),
         \A i \in N : /\ IsFiniteSet(seen[i].gate_results)
                      /\ \A g \in seen[i].gate_results : g[2] \in AllStatuses
  PROVE  /\ IsFiniteSet(Results(seen, N)) /\ Cardinality(Results(seen, N)) \in Nat
         /\ Gates(seen, N, AllStatuses) = Results(seen, N)
         /\ Cardinality(Gates(seen, N, PassWords)) \in Nat
         /\ Cardinality(Gates(seen, N, FailWords)) \in Nat
<1>1. IsFiniteSet(Results(seen, N))
  BY ResultsFinite
<1>2. \A statuses : Gates(seen, N, statuses) \in SUBSET Results(seen, N)
  BY DEF Gates, Results
<1>3. Results(seen, N) \subseteq Gates(seen, N, AllStatuses)
  <2>1. ASSUME NEW x \in Results(seen, N) PROVE x[2][2] \in AllStatuses
    <3>1. PICK i \in N : \E g \in seen[i].gate_results : x = <<i, g>>
      BY ResultsOf
    <3> QED
      BY <3>1
  <2> QED
    BY <2>1 DEF Gates, Results
<1> HIDE DEF Results
<1>4. Gates(seen, N, AllStatuses) = Results(seen, N)
  BY <1>2, <1>3
<1>5. /\ IsFiniteSet(Gates(seen, N, PassWords)) /\ IsFiniteSet(Gates(seen, N, FailWords))
  BY <1>1, <1>2, FS_Subset
<1> QED
  BY <1>1, <1>4, <1>5, FS_CardinalityType

LEMMA ResultsCounted ==
  ASSUME NEW h, NEW seen, NEW S, ReadOnce(h, seen, S), NEW repo,
         IsFiniteSet(Results(seen, Of(seen, repo)))
  PROVE  Cardinality(Results(seen, Of(seen, repo)))
           = Cardinality(UNION {{v} \X packets[v[2]].gate_results : v \in DueOf(S, repo)})
<1> DEFINE N == Of(seen, repo)
           T == UNION {{v} \X packets[v[2]].gate_results : v \in DueOf(S, repo)}
           f == [x \in Results(seen, N) |-> <<h[x[1]], x[2]>>]
<1>1. /\ h \in [DOMAIN seen -> S]
      /\ \A i, j \in DOMAIN seen : h[i] = h[j] => i = j
      /\ \A v \in S : \E i \in DOMAIN seen : h[i] = v
      /\ \A i \in DOMAIN seen : seen[i] = packets[h[i][2]]
  BY DEF ReadOnce
<1>2. N \subseteq DOMAIN seen /\ \A i \in DOMAIN seen : i \in N <=> h[i] \in DueOf(S, repo)
  BY <1>1 DEF Of, DueOf
<1>3. \A t : t \in T <=>
        \E v \in DueOf(S, repo) : \E g \in packets[v[2]].gate_results : t = <<v, g>>
  OBVIOUS
<1> HIDE DEF N, T
<1>4. \A x \in Results(seen, N) : \E i \in N : \E g \in seen[i].gate_results : x = <<i, g>>
  BY ResultsOf
<1>5. f \in [Results(seen, N) -> T]
  <2> SUFFICES ASSUME NEW x \in Results(seen, N) PROVE <<h[x[1]], x[2]>> \in T
    OBVIOUS
  <2>1. PICK i \in N : \E g \in seen[i].gate_results : x = <<i, g>>
    BY <1>4
  <2>4. PICK g \in seen[i].gate_results : x = <<i, g>>
    BY <2>1
  <2>2. h[i] \in DueOf(S, repo) /\ seen[i] = packets[h[i][2]]
    BY <1>1, <1>2
  <2>3. g \in packets[h[i][2]].gate_results /\ x[1] = i /\ x[2] = g
    BY <2>2, <2>4
  <2> QED
    BY <1>3, <2>2, <2>3
<1>6. ASSUME NEW x \in Results(seen, N), NEW y \in Results(seen, N), f[x] = f[y]
      PROVE  x = y
  <2>1. PICK i \in N : \E g \in seen[i].gate_results : x = <<i, g>>
    BY <1>4
  <2>2. PICK j \in N : \E k \in seen[j].gate_results : y = <<j, k>>
    BY <1>4
  <2>3. PICK g : x = <<i, g>>
    BY <2>1
  <2>4. PICK k : y = <<j, k>>
    BY <2>2
  <2>5. h[i] = h[j] /\ g = k
    BY <1>6, <2>3, <2>4
  <2> QED
    BY <1>1, <1>2, <2>3, <2>4, <2>5
<1>7. ASSUME NEW t \in T PROVE \E x \in Results(seen, N) : f[x] = t
  <2>1. PICK v \in DueOf(S, repo) : \E g \in packets[v[2]].gate_results : t = <<v, g>>
    BY <1>3
  <2>6. PICK g \in packets[v[2]].gate_results : t = <<v, g>>
    BY <2>1
  <2>2. PICK i \in DOMAIN seen : h[i] = v
    BY <1>1, <2>1 DEF DueOf
  <2>3. i \in N /\ g \in seen[i].gate_results
    BY <1>1, <1>2, <2>1, <2>2
  <2>4. <<i, g>> \in Results(seen, N)
    BY <2>3, ResultsOf
  <2>5. f[<<i, g>>] = t
    BY <2>2, <2>4, <2>6
  <2> QED
    BY <2>4, <2>5
<1> HIDE DEF f
<1>8. Cardinality(T) = Cardinality(Results(seen, N))
  <2>1. IsFiniteSet(Results(seen, N))
    BY DEF N
  <2> QED
    BY <1>5, <1>6, <1>7, <2>1, SameNumber
<1> QED
  BY <1>8 DEF N, T

LEMMA LatestShown ==
  ASSUME NEW seen, NEW N, N # {}, NEW bound \in Nat,
         \A i \in N : seen[i].generated_at \in 0..bound
  PROVE  /\ \E i \in N : seen[i].generated_at = Latest(seen, N)
         /\ \A i \in N : seen[i].generated_at <= Latest(seen, N)
<1> DEFINE dates == {seen[i].generated_at : i \in N}
<1>1. dates \in SUBSET Nat /\ dates # {} /\ \A d \in dates : d <= bound
  OBVIOUS
<1>2. \E m \in dates : \A d \in dates : d <= m
  BY <1>1, GreatestExists
<1>3. \E m \in dates : \A i \in N : seen[i].generated_at <= m
  BY <1>2
<1>4. Latest(seen, N) \in dates /\ \A i \in N : seen[i].generated_at <= Latest(seen, N)
  BY <1>3 DEF Latest
<1> QED
  BY <1>4

\* The page made of what was read.
PageOf(seen) ==
  [repo \in UNION {ProducersOf(seen[i]) : i \in DOMAIN seen} |-> Summary(seen, repo)]

LEMMA ExpectedIsDue ==
  ASSUME NEW repo
  PROVE  /\ Expected(repo) = DueOf(Due(board.given), repo)
         /\ \A f \in PacketFiles : Whole(packets[f]) =>
              (PathsTo(f) # {} <=> \E v \in Due(board.given) : v[2] = f)
<1>1. \A f : \A p : p \in PathsTo(f) <=> p \in {f, Directory} /\ p \in Members(board.given)
  BY DEF PathsTo, Members
<1>2. \A v : v \in Expected(repo) <=>
        \E f \in PacketFiles : \E p \in PathsTo(f) :
          v = <<p, f>> /\ Whole(packets[f]) /\ repo \in ProducersOf(packets[f])
  BY DEF Expected
<1>3. \A v : v \in DueOf(Due(board.given), repo) <=>
        \E f \in PacketFiles : \E p \in PathsTo(f) :
          v = <<p, f>> /\ Whole(packets[f]) /\ repo \in ProducersOf(packets[f])
  BY <1>1 DEF Due, DueOf, Arguments
<1>4. Expected(repo) = DueOf(Due(board.given), repo)
  BY <1>2, <1>3
<1>5. ASSUME NEW f \in PacketFiles, Whole(packets[f])
      PROVE  PathsTo(f) # {} <=> \E v \in Due(board.given) : v[2] = f
  <2>1. ASSUME NEW p \in PathsTo(f) PROVE <<p, f>> \in Due(board.given)
    BY <1>1, <1>5, <2>1 DEF Due, Arguments
  <2>2. ASSUME NEW v \in Due(board.given), v[2] = f PROVE v[1] \in PathsTo(f)
    BY <1>1, <2>2 DEF Due
  <2> QED
    BY <2>1, <2>2
<1> QED
  BY <1>4, <1>5

LEMMA PageShows ==
  ASSUME NEW h, NEW seen, ReadOnce(h, seen, Due(board.given)), NEW bound \in Nat,
         \A f \in PacketFiles : Whole(packets[f]) =>
           /\ packets[f].generated_at \in 0..bound
           /\ IsFiniteSet(packets[f].gate_results)
           /\ \A g \in packets[f].gate_results : g[2] \in AllStatuses,
         board.page = PageOf(seen)
  PROVE  PageComplete
<1> DEFINE D == Due(board.given)
           named == UNION {ProducersOf(p) : p \in
                     {packets[f] : f \in {g \in PacketFiles : Whole(packets[g]) /\ PathsTo(g) # {}}}}
<1>1. /\ h \in [DOMAIN seen -> D] /\ \A v \in D : \E i \in DOMAIN seen : h[i] = v
      /\ \A i \in DOMAIN seen : seen[i] = packets[h[i][2]]
  BY DEF ReadOnce
<1>2. \A v \in D : v[2] \in PacketFiles /\ Whole(packets[v[2]])
  BY DEF Due
<1>3. \A f \in PacketFiles : Whole(packets[f]) => (PathsTo(f) # {} <=> \E v \in D : v[2] = f)
  BY ExpectedIsDue
<1> HIDE DEF D
<1>4. ASSUME NEW i \in DOMAIN seen
      PROVE  /\ seen[i].generated_at \in 0..bound
             /\ IsFiniteSet(seen[i].gate_results)
             /\ \A g \in seen[i].gate_results : g[2] \in AllStatuses
  <2>1. h[i] \in D /\ seen[i] = packets[h[i][2]]
    BY <1>1
  <2> QED
    BY <1>2, <2>1
<1>5. DOMAIN board.page = UNION {ProducersOf(seen[i]) : i \in DOMAIN seen}
  BY DEF PageOf
<1>6. \A repo : repo \in DOMAIN board.page <=> \E i \in DOMAIN seen : repo \in ProducersOf(seen[i])
  BY <1>5
<1>7. \A repo : repo \in named <=> \E v \in D : repo \in ProducersOf(packets[v[2]])
  <2>1. \A repo : repo \in named <=> \E f \in PacketFiles :
          Whole(packets[f]) /\ PathsTo(f) # {} /\ repo \in ProducersOf(packets[f])
    OBVIOUS
  <2> HIDE DEF named
  <2> QED
    BY <1>2, <1>3, <2>1
<1> HIDE DEF named
<1>8. DOMAIN board.page = named
  <2>1. \A repo : repo \in DOMAIN board.page <=> repo \in named
    BY <1>1, <1>6, <1>7
  <2> QED
    BY <2>1, <1>5
<1>9. ASSUME NEW repo \in named
      PROVE  LET line == board.page[repo]
                 due == Expected(repo)
             IN  /\ line.packet_count = Cardinality(due)
                 /\ line.pass + line.fail + line.other
                      = Cardinality(UNION {{v} \X packets[v[2]].gate_results : v \in due})
                 /\ \E v \in due : packets[v[2]].generated_at = line.latest_generated_at
                 /\ \A v \in due : packets[v[2]].generated_at <= line.latest_generated_at
  <2> DEFINE N == Of(seen, repo)
  <2>1. Expected(repo) = DueOf(D, repo)
    BY ExpectedIsDue DEF D
  <2>2. board.page[repo] = Summary(seen, repo)
    BY <1>5, <1>8 DEF PageOf
  <2>3. IsFiniteSet(N) /\ Cardinality(N) = Cardinality(DueOf(D, repo))
    BY PacketsCounted DEF D
  <2>4. N \subseteq DOMAIN seen /\ \A i \in DOMAIN seen : i \in N <=> h[i] \in DueOf(D, repo)
    BY <1>1 DEF Of, DueOf
  <2>5. /\ IsFiniteSet(Results(seen, N)) /\ Cardinality(Results(seen, N)) \in Nat
        /\ Gates(seen, N, AllStatuses) = Results(seen, N)
        /\ Cardinality(Gates(seen, N, PassWords)) \in Nat
        /\ Cardinality(Gates(seen, N, FailWords)) \in Nat
    <3>1. \A i \in N : /\ IsFiniteSet(seen[i].gate_results)
                       /\ \A g \in seen[i].gate_results : g[2] \in AllStatuses
      BY <1>4, <2>4
    <3> HIDE DEF N
    <3> QED
      BY <2>3, <3>1, GateColumns
  <2>6. Cardinality(Results(seen, N))
          = Cardinality(UNION {{v} \X packets[v[2]].gate_results : v \in DueOf(D, repo)})
    BY <2>5, ResultsCounted DEF D
  <2>7. N # {}
    <3>1. PICK v \in D : repo \in ProducersOf(packets[v[2]])
      BY <1>7
    <3>2. PICK i \in DOMAIN seen : h[i] = v
      BY <1>1
    <3> QED
      BY <2>4, <3>1, <3>2 DEF DueOf
  <2>8. /\ \E i \in N : seen[i].generated_at = Latest(seen, N)
        /\ \A i \in N : seen[i].generated_at <= Latest(seen, N)
    <3>1. \A i \in N : seen[i].generated_at \in 0..bound
      BY <1>4, <2>4
    <3> HIDE DEF N
    <3> QED
      BY <2>7, <3>1, LatestShown
  <2>9. /\ Summary(seen, repo).packet_count = Cardinality(N)
        /\ Summary(seen, repo).latest_generated_at = Latest(seen, N)
        /\ Summary(seen, repo).pass = Cardinality(Gates(seen, N, PassWords))
        /\ Summary(seen, repo).fail = Cardinality(Gates(seen, N, FailWords))
        /\ Summary(seen, repo).other = Cardinality(Gates(seen, N, AllStatuses))
             - Cardinality(Gates(seen, N, PassWords)) - Cardinality(Gates(seen, N, FailWords))
    BY DEF Summary
  <2> HIDE DEF N
  <2>10. \E v \in DueOf(D, repo) : packets[v[2]].generated_at = Latest(seen, N)
    <3>1. PICK i \in N : seen[i].generated_at = Latest(seen, N)
      BY <2>8
    <3> QED
      BY <1>1, <2>4, <3>1
  <2>11. \A v \in DueOf(D, repo) : packets[v[2]].generated_at <= Latest(seen, N)
    <3> TAKE v \in DueOf(D, repo)
    <3>1. PICK i \in DOMAIN seen : h[i] = v
      BY <1>1 DEF DueOf
    <3> QED
      BY <1>1, <2>4, <2>8, <3>1
  <2>12. Summary(seen, repo).pass + Summary(seen, repo).fail + Summary(seen, repo).other
           = Cardinality(Results(seen, N))
    BY <2>5, <2>9
  <2> QED
    BY <2>1, <2>2, <2>3, <2>6, <2>9, <2>10, <2>11, <2>12
<1> QED
  BY <1>8, <1>9 DEF PageComplete, named

-----------------------------------------------------------------------------
(* What the page counts is countable.                                      *)

CountOK ==
  /\ gen.pc \in {"load_record", "hash_ledger", "hash_artifacts", "write"} =>
       "events" \in DOMAIN gen /\ Begins(gen.events)
  /\ \A f \in PacketFiles : Whole(packets[f]) => Countable(packets[f])

LEMMA StatusIsKnown ==
  ASSUME NEW line \in Lines
  PROVE  StatusOf(line) \in AllStatuses
<1>1. line.status \in Words /\ line.type \in Words \ {"skipped"}
  BY StoreAssumption DEF Line
<1> QED
  BY <1>1 DEF StatusOf, AllStatuses, Words

LEMMA ResultsCountable ==
  ASSUME NEW s \in Seq(Lines)
  PROVE  /\ IsFiniteSet(GateResults(s))
         /\ \A result \in GateResults(s) : result[2] \in AllStatuses
<1> DEFINE gates == {j \in DOMAIN s : s[j].gate}
           f == [i \in gates |-> <<s[i], StatusOf(s[i])>>]
<1>1. Len(s) \in Nat /\ DOMAIN s = 1..Len(s) /\ \A i \in DOMAIN s : s[i] \in Lines
  OBVIOUS
<1>2. IsFiniteSet(gates)
  BY <1>1, PlacesFinite
<1>3. \A x : x \in GateResults(s) <=> \E i \in gates : x = <<s[i], StatusOf(s[i])>>
  BY DEF GateResults
<1>4. f \in Surjection(gates, GateResults(s))
  <2>1. f \in [gates -> GateResults(s)] /\ \A x \in GateResults(s) : \E i \in gates : f[i] = x
    BY <1>3
  <2> QED
    BY <2>1 DEF Surjection
<1>5. IsFiniteSet(GateResults(s))
  BY <1>2, <1>4, FS_Surjection
<1>6. \A x \in GateResults(s) : x[2] \in AllStatuses
  BY <1>1, <1>3, StatusIsKnown
<1> QED
  BY <1>5, <1>6

LEMMA CountKept ==
  ASSUME StoreOK, Moves, CountOK, UNCHANGED <<packets, gen>>
  PROVE  CountOK'
<1>1. ASSUME gen.pc \in {"load_record", "hash_ledger", "hash_artifacts", "write"}
      PROVE  "events" \in DOMAIN gen /\ Begins(gen.events)'
  <2>1. PICK s : s = gen.events
    OBVIOUS
  <2>2. Begins(s) /\ "events" \in DOMAIN gen
    BY <1>1, <2>1 DEF CountOK
  <2>3. Begins(s)'
    BY <2>2, BeginsKept
  <2>4. s = gen'.events
    BY <2>1
  <2> QED
    BY <2>2, <2>3, <2>4
<1>2. ASSUME NEW f \in PacketFiles, Whole(packets[f]) PROVE Countable(packets[f])'
  <2>1. Countable(packets[f]) /\ packets'[f] = packets[f]
    BY <1>2 DEF CountOK
  <2>2. Len(ledger) <= Len(ledger') /\ Len(ledger) \in Nat /\ Len(ledger') \in Nat
    BY MovesForward
  <2> QED
    BY <2>1, <2>2 DEF Countable
<1> QED
  BY <1>1, <1>2 DEF CountOK, Whole

LEMMA CountGenerated ==
  ASSUME StoreOK, PacketsOK, GenOK, CountOK, GenerateStep, UNCHANGED store
  PROVE  CountOK'
<1>1. ledger' = ledger /\ ledger \in Seq(Lines) /\ Len(ledger) \in Nat
  BY DEF store, StoreOK
<1>2. \A s : Begins(s) => Begins(s)'
  BY <1>1 DEF Begins
<1>3. \A p : Countable(p) => Countable(p)'
  BY <1>1 DEF Countable
<1>4. ASSUME UNCHANGED packets, NEW f \in PacketFiles, Whole(packets[f])'
      PROVE  Countable(packets[f])'
  <2>1. PICK p : p = packets[f]
    OBVIOUS
  <2>2. Countable(p)
    BY <1>4, <2>1 DEF CountOK, Whole
  <2>3. Countable(p)' /\ p = packets'[f]
    BY <1>3, <1>4, <2>1, <2>2
  <2> QED
    BY <2>3
<1>5. ASSUME gen'.pc \notin {"load_record", "hash_ledger", "hash_artifacts", "write"},
             UNCHANGED packets
      PROVE  CountOK'
  BY <1>4, <1>5 DEF CountOK
<1>6. ASSUME gen.pc \in {"load_record", "hash_ledger", "hash_artifacts", "write"},
             "events" \in DOMAIN gen' /\ gen'.events = gen.events
      PROVE  "events" \in DOMAIN gen' /\ Begins(gen.events)'
  <2>1. PICK s : s = gen.events
    OBVIOUS
  <2>2. Begins(s)
    BY <1>6, <2>1 DEF CountOK
  <2>3. Begins(s)' /\ s = gen'.events
    BY <1>2, <1>6, <2>1, <2>2
  <2> QED
    BY <1>6, <2>3
<1>7. ASSUME NEW out \in PacketFiles, Generate(out) PROVE CountOK'
  BY <1>5, <1>7 DEF Generate
<1>8. CASE KillGenerator
  BY <1>5, <1>8 DEF KillGenerator, NoRun
<1>9. CASE Parse
  <2>1. CASE gen' = NoRun
    BY <1>5, <1>9, <2>1 DEF Parse, NoRun
  <2>2. CASE gen' = [pc |-> "load_record", out |-> gen.out, since |-> gen.since, events |-> ledger]
    <3>1. Begins(ledger)'
      BY <1>1 DEF Begins
    <3>2. gen'.events = ledger' /\ "events" \in DOMAIN gen'
      BY <1>1, <2>2
    <3>3. Begins(gen.events)'
      BY <3>1, <3>2
    <3>4. UNCHANGED packets
      BY <1>9 DEF Parse
    <3> QED
      BY <1>4, <3>2, <3>3, <3>4 DEF CountOK
  <2> QED
    BY <1>9, <2>1, <2>2 DEF Parse
<1>10. CASE LoadRecord
  <2>1. CASE gen' = NoRun
    BY <1>5, <1>10, <2>1 DEF LoadRecord, NoRun
  <2>2. CASE gen' # NoRun
    <3>1. /\ gen.pc = "load_record" /\ UNCHANGED packets
          /\ "events" \in DOMAIN gen' /\ gen'.events = gen.events
      BY <1>10, <2>2 DEF LoadRecord
    <3> QED
      BY <1>4, <1>6, <3>1 DEF CountOK
  <2> QED
    BY <2>1, <2>2
<1>11. CASE HashLedger
  <2>1. /\ gen.pc = "hash_ledger" /\ UNCHANGED packets
        /\ "events" \in DOMAIN gen' /\ gen'.events = gen.events
    BY <1>11 DEF HashLedger
  <2> QED
    BY <1>4, <1>6, <2>1 DEF CountOK
<1>12. CASE HashArtifact
  <2>1. gen.pc = "hash_artifacts" /\ UNCHANGED packets /\ "events" \in DOMAIN gen
    BY <1>12 DEF HashArtifact, CountOK
  <2>2. "events" \in DOMAIN gen' /\ gen'.events = gen.events
    BY <1>12, <2>1 DEF HashArtifact
  <2> QED
    BY <1>4, <1>6, <2>1, <2>2 DEF CountOK
<1>13. CASE OpenPacket
  <2>1. gen.pc = "hash_artifacts" /\ "events" \in DOMAIN gen
    BY <1>13 DEF OpenPacket, CountOK
  <2>2. "events" \in DOMAIN gen' /\ gen'.events = gen.events
    BY <1>13, <2>1 DEF OpenPacket
  <2>3. ASSUME NEW f \in PacketFiles, Whole(packets[f])' PROVE Countable(packets[f])'
    <3>1. packets'[f] = packets[f] /\ Whole(packets[f])
      BY <1>13, <2>3 DEF OpenPacket, Whole, PacketsOK
    <3>2. PICK p : p = packets[f]
      OBVIOUS
    <3>3. Countable(p)
      BY <3>1, <3>2 DEF CountOK
    <3>4. Countable(p)' /\ p = packets'[f]
      BY <1>3, <3>1, <3>2, <3>3
    <3> QED
      BY <3>4
  <2> QED
    BY <1>6, <2>1, <2>2, <2>3 DEF CountOK
<1>14. CASE WritePacket
  <2>1. gen.pc = "write" /\ packets' = [packets EXCEPT ![gen.out] = Packet] /\ gen' = NoRun
    BY <1>14 DEF WritePacket
  <2>2. Begins(gen.events)
    BY <2>1 DEF CountOK
  <2>3. PICK s : s = gen.events
    OBVIOUS
  <2>4. s \in Seq(Lines) /\ Len(s) <= Len(ledger) /\ Len(s) \in Nat
    BY <2>2, <2>3 DEF Begins
  <2>5. PICK p : p = Packet
    OBVIOUS
  <2>6. p.generated_at = Len(s) /\ p.gate_results = GateResults(s)
    BY <2>3, <2>5 DEF Packet
  <2>7. Countable(p)
    BY <1>1, <2>4, <2>6, ResultsCountable DEF Countable
  <2>8. ASSUME NEW f \in PacketFiles, Whole(packets[f])' PROVE Countable(packets[f])'
    <3>1. CASE f = gen.out
      <4>1. packets'[f] = p /\ Countable(p)'
        BY <1>3, <2>1, <2>5, <2>7, <3>1 DEF PacketsOK
      <4> QED
        BY <4>1
    <3>2. CASE f # gen.out
      <4>1. packets'[f] = packets[f] /\ Whole(packets[f])
        BY <2>1, <2>8, <3>2 DEF Whole, PacketsOK
      <4>2. PICK q : q = packets[f]
        OBVIOUS
      <4>3. Countable(q)
        BY <4>1, <4>2 DEF CountOK
      <4>4. Countable(q)' /\ q = packets'[f]
        BY <1>3, <4>1, <4>2, <4>3
      <4> QED
        BY <4>4
    <3> QED
      BY <3>1, <3>2
  <2>9. gen'.pc = "idle"
    BY <2>1 DEF NoRun
  <2> QED
    BY <2>8, <2>9 DEF CountOK
<1> QED
  BY <1>7, <1>8, <1>9, <1>10, <1>11, <1>12, <1>13, <1>14 DEF GenerateStep

-----------------------------------------------------------------------------
(* The tour of the dashboard.                                              *)

\* No evidence command ran when the dashboard began, and none has begun since.
Still == board.quiet /\ board.begun = generated

\* The packets of the paths to come and of the path the dashboard is at.
Left(path) ==
  {v \in Due(board.given) :
     v[1] \in Members(board.paths) \/ (v[1] = path /\ v[2] \in board.files)}

\* All other packets that are due were read once.
Touring(h, path) ==
  /\ board.paths \in Seq(Arguments) /\ Once(board.paths)
  /\ Members(board.paths) \subseteq Members(board.given)
  /\ board.files \subseteq {f \in PacketFiles : path \in {f, Directory}}
  /\ board.files # {} => path \in Members(board.given) \ Members(board.paths)
  /\ ReadOnce(h, board.seen, Due(board.given) \ Left(path))

BoardOK ==
  /\ board.pc \in {"read", "printed"} =>
       /\ board.begun \in 0..generated
       /\ Still => gen.pc = "idle"
  /\ board.pc = "read" =>
       /\ {"pc", "paths", "files", "seen", "given", "quiet", "begun"} \subseteq DOMAIN board
       /\ Still => \E h, path : Touring(h, path)
  /\ board.pc = "printed" =>
       (Still => \E h : /\ ReadOnce(h, board.seen, Due(board.given))
                        /\ board.page = PageOf(board.seen))

LEMMA BoardKept ==
  ASSUME BoardOK, UNCHANGED <<packets, generated, gen, board>>
  PROVE  BoardOK'
<1>1. \A given : Due(given)' = Due(given)
  BY DEF Due, Whole
<1>2. \A h, seen, S : ReadOnce(h, seen, S)' <=> ReadOnce(h, seen, S)
  BY DEF ReadOnce
<1>3. \A h, path : Touring(h, path) => Touring(h, path)'
  BY DEF Touring, ReadOnce, Left, Due, Whole
<1>4. ASSUME board.pc = "printed", Still'
      PROVE  (\E h : /\ ReadOnce(h, board.seen, Due(board.given))
                     /\ board.page = PageOf(board.seen))'
  <2>1. PICK h : ReadOnce(h, board.seen, Due(board.given)) /\ board.page = PageOf(board.seen)
    BY <1>4 DEF BoardOK, Still
  <2>2. ReadOnce(h, board.seen, Due(board.given))'
    BY <2>1 DEF ReadOnce, Due, Whole
  <2>3. board'.page = PageOf(board'.seen)
    BY <2>1 DEF PageOf
  <2> QED
    BY <2>2, <2>3
<1>5. ASSUME board.pc = "read", Still' PROVE (\E h, path : Touring(h, path))'
  <2>1. PICK h, path : Touring(h, path)
    BY <1>5 DEF BoardOK, Still
  <2> QED
    BY <1>3, <2>1
<1>6. board.pc \in {"read", "printed"} => board.begun \in 0..generated' /\ (Still' => gen'.pc = "idle")
  BY DEF BoardOK, Still
<1> QED
  BY <1>4, <1>5, <1>6 DEF BoardOK

\* An evidence command that begins ends the stillness; none can be running before.
LEMMA BoardDisturbed ==
  ASSUME PacketsOK, BoardOK, GenerateStep, UNCHANGED board
  PROVE  BoardOK'
<1>1. generated' \in {generated, generated + 1}
  BY DEF GenerateStep, Generate, Parse, LoadRecord, HashLedger, HashArtifact,
     OpenPacket, WritePacket, KillGenerator
<1>2. gen.pc = "idle" => generated' = generated + 1
  BY DEF GenerateStep, Generate, Parse, LoadRecord, HashLedger, HashArtifact,
     OpenPacket, WritePacket, KillGenerator
<1>4. generated \in Nat
  BY StoreAssumption DEF PacketsOK
<1>3. board.pc \in {"read", "printed"} => board.begun \in 0..generated' /\ ~Still'
  BY <1>1, <1>2, <1>4 DEF BoardOK, Still
<1> QED
  BY <1>3 DEF BoardOK

LEMMA BoardBegins ==
  ASSUME PacketsOK, NEW paths \in Walks, StartBoard(paths), UNCHANGED <<packets, generated, gen>>
  PROVE  BoardOK'
<1>1. paths \in Seq(Arguments)
  BY WalksAssumption DEF Arguments
<1>2. /\ board'.pc = "read" /\ board'.paths = Deduped(paths) /\ board'.files = {}
      /\ board'.seen = << >> /\ board'.given = paths /\ board'.quiet = (gen.pc = "idle")
      /\ board'.begun = generated
      /\ {"pc", "paths", "files", "seen", "given", "quiet", "begun"} \subseteq DOMAIN board'
  BY DEF StartBoard
<1>3. /\ Deduped(paths) \in Seq(Arguments) /\ Once(Deduped(paths))
      /\ Members(Deduped(paths)) = Members(paths)
  BY <1>1, DedupedPaths
<1>4. generated \in Nat
  BY DEF PacketsOK
<1> DEFINE h == << >>
<1>5. ReadOnce(h, << >>, {})'
  <2>1. h \in [DOMAIN << >> -> {}] /\ DOMAIN << >> = {}
    OBVIOUS
  <2> QED
    BY <2>1 DEF ReadOnce
<1>6. (Due(board.given) \ Left(Directory))' = {}
  BY <1>2, <1>3 DEF Due, Left
<1> HIDE DEF h
<1>7. ReadOnce(h, board.seen, Due(board.given) \ Left(Directory))'
  BY <1>2, <1>5, <1>6 DEF ReadOnce
<1>8. Touring(h, Directory)'
  BY <1>2, <1>3, <1>7 DEF Touring
<1>9. (\E g, path : Touring(g, path))'
  BY <1>8
<1>10. Still' => gen'.pc = "idle"
  BY <1>2 DEF Still
<1>11. board'.begun \in 0..generated'
  BY <1>2, <1>4
<1> QED
  BY <1>2, <1>9, <1>10, <1>11 DEF BoardOK

\* A path that is visited gives the files it leads to.
LEMMA VisitTours ==
  ASSUME Visit, BoardOK, UNCHANGED packets, NEW h, NEW path, Touring(h, path),
         NEW next, next = Head(board.paths)
  PROVE  Touring(h, next)'
<1>1. /\ board.pc = "read" /\ board.files = {} /\ board.paths # << >>
      /\ board'.paths = Tail(board.paths)
      /\ board'.files = {f \in PacketFiles : next \in {f, Directory} /\ packets[f] # Missing}
      /\ board'.seen = board.seen /\ board'.given = board.given
  BY DEF Visit, BoardOK
<1>2. /\ board.paths \in Seq(Arguments) /\ Once(board.paths)
      /\ Members(board.paths) \subseteq Members(board.given)
      /\ ReadOnce(h, board.seen, Due(board.given) \ Left(path))
  BY DEF Touring
<1>3. /\ board'.paths \in Seq(Arguments) /\ Once(board'.paths)
      /\ Members(board.paths) = Members(board'.paths) \cup {next}
      /\ next \notin Members(board'.paths)
  <2>1. \A s \in Seq(Arguments) : s # << >> =>
          /\ Tail(s) \in Seq(Arguments) /\ DOMAIN s = 1..Len(s) /\ Len(s) \in Nat \ {0}
          /\ Head(s) = s[1] /\ DOMAIN Tail(s) = 1..(Len(s) - 1)
          /\ \A i \in 1..(Len(s) - 1) : Tail(s)[i] = s[i + 1]
    <3> HIDE DEF Arguments
    <3> QED
      OBVIOUS
  <2> DEFINE s == board.paths
             n == Len(s)
  <2>2. /\ Tail(s) \in Seq(Arguments) /\ DOMAIN s = 1..n /\ n \in Nat \ {0}
        /\ next = s[1] /\ DOMAIN Tail(s) = 1..(n - 1)
        /\ \A i \in 1..(n - 1) : Tail(s)[i] = s[i + 1]
    BY <1>1, <1>2, <2>1
  <2>3. \A i, j \in 1..n : s[i] = s[j] => i = j
    BY <1>2, <2>2 DEF Once
  <2> HIDE DEF n
  <2>4. \A i \in 1..(n - 1) : i + 1 \in 1..n /\ i + 1 # 1
    BY <2>2
  <2>5. \A i \in 1..n : i = 1 \/ (i - 1 \in 1..(n - 1) /\ (i - 1) + 1 = i)
    BY <2>2
  <2>6. 1 \in 1..n
    BY <2>2
  <2>7. Once(Tail(s))
    <3> SUFFICES ASSUME NEW i \in 1..(n - 1), NEW j \in 1..(n - 1), Tail(s)[i] = Tail(s)[j]
                 PROVE  i = j
      BY <2>2 DEF Once
    <3>1. i + 1 = j + 1
      BY <2>2, <2>3, <2>4
    <3> QED
      BY <2>2, <3>1
  <2>8. next \notin Members(Tail(s))
    BY <2>2, <2>3, <2>4, <2>6 DEF Members
  <2>9. Members(s) = Members(Tail(s)) \cup {next}
    <3>1. \A x \in Members(s) : x \in Members(Tail(s)) \cup {next}
      <4> SUFFICES ASSUME NEW i \in 1..n PROVE s[i] \in Members(Tail(s)) \cup {next}
        BY <2>2 DEF Members
      <4>1. CASE i = 1
        BY <2>2, <4>1
      <4>2. CASE i # 1
        <5>1. i - 1 \in DOMAIN Tail(s) /\ Tail(s)[i - 1] = s[i]
          BY <2>2, <2>5, <4>2
        <5> QED
          BY <5>1 DEF Members
      <4> QED
        BY <4>1, <4>2
    <3>2. \A x \in Members(Tail(s)) \cup {next} : x \in Members(s)
      BY <2>2, <2>4, <2>6 DEF Members
    <3> QED
      BY <3>1, <3>2
  <2> QED
    BY <1>1, <2>2, <2>7, <2>8, <2>9
<1>4. next \in Members(board.given)
  BY <1>2, <1>3
<1>5. Due(board.given)' = Due(board.given)
  BY <1>1 DEF Due, Whole
<1>6. \A v \in Due(board.given) : v[1] = next => v[2] \in board'.files
  BY <1>1 DEF Due, Whole
<1>7. Left(next)' = Left(path)
  <2>1. \A v \in Due(board.given) :
          (v[1] \in Members(board'.paths) \/ (v[1] = next /\ v[2] \in board'.files))
            <=> (v[1] \in Members(board.paths) \/ (v[1] = path /\ v[2] \in board.files))
    BY <1>1, <1>3, <1>6
  <2>2. board'.given = board.given
    BY <1>1
  <2>3. Left(next)' = {v \in Due(board.given)' :
                         v[1] \in Members(board'.paths) \/ (v[1] = next /\ v[2] \in board'.files)}
    BY <2>2 DEF Left
  <2> QED
    BY <1>5, <2>1, <2>3 DEF Left
<1>8. ReadOnce(h, board.seen, Due(board.given) \ Left(next))'
  BY <1>1, <1>2, <1>5, <1>7 DEF ReadOnce
<1>9. Touring(h, next)'
  <2>1. board'.files \subseteq {f \in PacketFiles : next \in {f, Directory}}
    BY <1>1
  <2>2. Members(board'.paths) \subseteq Members(board'.given)
    BY <1>1, <1>2, <1>3
  <2>3. next \in Members(board'.given) \ Members(board'.paths)
    BY <1>1, <1>3, <1>4
  <2> QED
    BY <1>3, <1>8, <2>1, <2>2, <2>3 DEF Touring
<1> QED
  BY <1>9

\* One packet more is read.
LEMMA OneMore ==
  ASSUME NEW h, NEW seen, NEW S, ReadOnce(h, seen, S), NEW v, v \notin S, v[2] \in PacketFiles
  PROVE  \E g : ReadOnce(g, Append(seen, packets[v[2]]), S \cup {v})
<1> DEFINE n == Len(seen)
           longer == Append(seen, packets[v[2]])
           g == [i \in 1..(n + 1) |-> IF i = n + 1 THEN v ELSE h[i]]
           X == {packets[f] : f \in PacketFiles}
<1>1. /\ seen \in Seq(X) /\ h \in [DOMAIN seen -> S]
      /\ \A i, j \in DOMAIN seen : h[i] = h[j] => i = j
      /\ \A w \in S : \E i \in DOMAIN seen : h[i] = w
      /\ \A i \in DOMAIN seen : seen[i] = packets[h[i][2]]
  BY DEF ReadOnce
<1>2. packets[v[2]] \in X
  OBVIOUS
<1> HIDE DEF X
<1>3. /\ longer \in Seq(X) /\ DOMAIN longer = 1..(n + 1) /\ n \in Nat /\ DOMAIN seen = 1..n
      /\ longer[n + 1] = packets[v[2]] /\ \A i \in 1..n : longer[i] = seen[i]
  BY <1>1, <1>2
<1>4. \A i \in 1..(n + 1) : i = n + 1 \/ (i \in 1..n /\ i # n + 1)
  BY <1>3
<1>5. /\ n + 1 \in 1..(n + 1) /\ g[n + 1] = v
      /\ \A i \in 1..n : i \in 1..(n + 1) /\ g[i] = h[i] /\ h[i] \in S
  BY <1>1, <1>3
<1>6. g \in [1..(n + 1) -> S \cup {v}]
  BY <1>1, <1>3, <1>4
<1> HIDE DEF g, longer, n
<1>7. \A i, j \in 1..(n + 1) : g[i] = g[j] => i = j
  <2> SUFFICES ASSUME NEW i \in 1..(n + 1), NEW j \in 1..(n + 1), g[i] = g[j] PROVE i = j
    OBVIOUS
  <2>1. CASE i = n + 1 /\ j = n + 1
    BY <2>1
  <2>2. CASE i = n + 1 /\ j \in 1..n
    BY <1>5, <2>2
  <2>3. CASE i \in 1..n /\ j = n + 1
    BY <1>5, <2>3
  <2>4. CASE i \in 1..n /\ j \in 1..n
    BY <1>1, <1>3, <1>5, <2>4
  <2> QED
    BY <1>4, <2>1, <2>2, <2>3, <2>4
<1>8. \A w \in S \cup {v} : \E i \in 1..(n + 1) : g[i] = w
  BY <1>1, <1>3, <1>5
<1>9. \A i \in 1..(n + 1) : longer[i] = packets[g[i][2]]
  BY <1>1, <1>3, <1>4, <1>5
<1>10. ReadOnce(g, longer, S \cup {v})
  BY <1>3, <1>6, <1>7, <1>8, <1>9 DEF ReadOnce, X
<1> QED
  BY <1>10 DEF longer

\* A file that is read leaves the others.
LEMMA ReadTours ==
  ASSUME ReadPacket, BoardOK, UNCHANGED packets, NEW h, NEW path, Touring(h, path)
  PROVE  \E g : Touring(g, path)'
<1>1. PICK f \in board.files :
         board' = [board EXCEPT !.files = @ \ {f},
                     !.seen = IF Whole(packets[f]) THEN Append(@, packets[f]) ELSE @]
  BY DEF ReadPacket
<1>2. /\ board.pc = "read"
      /\ {"pc", "paths", "files", "seen", "given", "quiet", "begun"} \subseteq DOMAIN board
  BY DEF ReadPacket, BoardOK
<1>3. /\ board'.files = board.files \ {f}
      /\ board'.seen = IF Whole(packets[f]) THEN Append(board.seen, packets[f]) ELSE board.seen
      /\ board'.paths = board.paths /\ board'.given = board.given
  BY <1>1, <1>2
<1>4. /\ board.paths \in Seq(Arguments) /\ Once(board.paths)
      /\ Members(board.paths) \subseteq Members(board.given)
      /\ board.files \subseteq {k \in PacketFiles : path \in {k, Directory}}
      /\ path \in Members(board.given) \ Members(board.paths)
      /\ ReadOnce(h, board.seen, Due(board.given) \ Left(path))
  BY <1>1 DEF Touring
<1>5. f \in PacketFiles /\ path \in {f, Directory} /\ path \in Arguments
  BY <1>4 DEF Arguments
<1>6. Due(board.given)' = Due(board.given)
  BY <1>3 DEF Due, Whole
<1>7. PICK v : v = <<path, f>>
  OBVIOUS
<1>8. v \in Due(board.given) <=> Whole(packets[f])
  BY <1>4, <1>5, <1>7 DEF Due
<1>9. Left(path)' = Left(path) \ {v}
  <2>1. \A w \in Due(board.given) :
          (w[1] \in Members(board'.paths) \/ (w[1] = path /\ w[2] \in board'.files))
            <=> /\ w[1] \in Members(board.paths) \/ (w[1] = path /\ w[2] \in board.files)
                /\ w # v
    <3> TAKE w \in Due(board.given)
    <3>1. w = <<w[1], w[2]>>
      BY DEF Due
    <3> QED
      BY <1>3, <1>4, <1>7, <3>1
  <2>2. Left(path)' = {w \in Due(board.given)' :
                         w[1] \in Members(board'.paths) \/ (w[1] = path /\ w[2] \in board'.files)}
    BY <1>3 DEF Left
  <2> QED
    BY <1>6, <2>1, <2>2 DEF Left
<1>10. v \in Due(board.given) => v \in Left(path)
  BY <1>7 DEF Left
<1>11. PICK rest : rest = Due(board.given) \ Left(path)
  OBVIOUS
<1>12. PICK more : more = (Due(board.given) \ Left(path))'
  OBVIOUS
<1>13. PICK read : read = board'.seen
  OBVIOUS
<1>14. \E g : ReadOnce(g, read, more)
  <2>1. CASE Whole(packets[f])
    <3>1. more = rest \cup {v} /\ v \notin rest
      BY <1>6, <1>8, <1>9, <1>10, <1>11, <1>12, <2>1 DEF Left
    <3>2. v[2] = f /\ v[2] \in PacketFiles
      BY <1>5, <1>7
    <3>3. read = Append(board.seen, packets[v[2]])
      BY <1>3, <1>13, <2>1, <3>2
    <3>4. ReadOnce(h, board.seen, rest)
      BY <1>4, <1>11
    <3> QED
      BY <3>1, <3>2, <3>3, <3>4, OneMore
  <2>2. CASE ~Whole(packets[f])
    <3>1. more = rest /\ read = board.seen
      BY <1>3, <1>6, <1>8, <1>9, <1>11, <1>12, <1>13, <2>2
    <3> QED
      BY <1>4, <1>11, <3>1
  <2> QED
    BY <2>1, <2>2
<1>15. PICK g : ReadOnce(g, read, more)
  BY <1>14
<1>16. ReadOnce(g, board.seen, Due(board.given) \ Left(path))'
  BY <1>12, <1>13, <1>15 DEF ReadOnce
<1>17. Touring(g, path)'
  <2>1. board'.files \subseteq {k \in PacketFiles : path \in {k, Directory}}
    BY <1>3, <1>4
  <2>2. board'.paths \in Seq(Arguments)
    BY <1>3, <1>4 DEF Arguments
  <2> QED
    BY <1>3, <1>4, <1>16, <2>1, <2>2 DEF Touring
<1> QED
  BY <1>17

\* When nothing is left, the page shows what is due.
LEMMA RenderShows ==
  ASSUME Render, UNCHANGED packets, NEW h, NEW path, Touring(h, path)
  PROVE  /\ ReadOnce(h, board.seen, Due(board.given))'
         /\ (board.page = PageOf(board.seen))'
<1>1. /\ board.paths = << >> /\ board.files = {}
      /\ board'.seen = board.seen /\ board'.given = board.given
      /\ board'.page = [repo \in UNION {ProducersOf(board.seen[i]) : i \in DOMAIN board.seen} |->
                          Summary(board.seen, repo)]
  BY DEF Render
<1>2. Left(path) = {}
  BY <1>1 DEF Left, Members
<1>3. ReadOnce(h, board.seen, Due(board.given))
  BY <1>2 DEF Touring
<1>4. Due(board.given)' = Due(board.given)
  BY <1>1 DEF Due, Whole
<1>5. ReadOnce(h, board.seen, Due(board.given))'
  BY <1>1, <1>3, <1>4 DEF ReadOnce
<1> QED
  BY <1>1, <1>5 DEF PageOf

\* The dashboard keeps its invariant.
LEMMA BoardStepKept ==
  ASSUME PacketsOK, BoardOK, BoardStep, UNCHANGED <<packets, generated, gen>>
  PROVE  BoardOK'
<1>1. ASSUME NEW paths \in Walks, StartBoard(paths) PROVE BoardOK'
  BY <1>1, BoardBegins
<1>2. ASSUME Visit PROVE BoardOK'
  <2>1. /\ board.pc = "read"
        /\ {"pc", "paths", "files", "seen", "given", "quiet", "begun"} \subseteq DOMAIN board
        /\ board.begun \in 0..generated /\ (Still => gen.pc = "idle")
    BY <1>2 DEF Visit, BoardOK
  <2>2. /\ board'.pc = "read" /\ DOMAIN board' = DOMAIN board
        /\ board'.begun = board.begun /\ board'.quiet = board.quiet
    BY <1>2, <2>1 DEF Visit
  <2>3. Still' <=> Still
    BY <2>2 DEF Still
  <2>4. ASSUME Still PROVE (\E h, path : Touring(h, path))'
    <3>1. PICK h, path : Touring(h, path)
      BY <2>1, <2>4 DEF BoardOK
    <3>2. PICK next : next = Head(board.paths)
      OBVIOUS
    <3>3. Touring(h, next)'
      BY <1>2, <3>1, <3>2, VisitTours
    <3> QED
      BY <3>3
  <2> QED
    BY <2>1, <2>2, <2>3, <2>4 DEF BoardOK
<1>3. ASSUME ReadPacket PROVE BoardOK'
  <2>1. /\ board.pc = "read"
        /\ {"pc", "paths", "files", "seen", "given", "quiet", "begun"} \subseteq DOMAIN board
        /\ board.begun \in 0..generated /\ (Still => gen.pc = "idle")
    BY <1>3 DEF ReadPacket, BoardOK
  <2>2. /\ board'.pc = "read" /\ DOMAIN board' = DOMAIN board
        /\ board'.begun = board.begun /\ board'.quiet = board.quiet
    BY <1>3, <2>1 DEF ReadPacket
  <2>3. Still' <=> Still
    BY <2>2 DEF Still
  <2>4. ASSUME Still PROVE (\E h, path : Touring(h, path))'
    <3>1. PICK h, path : Touring(h, path)
      BY <2>1, <2>4 DEF BoardOK
    <3>2. PICK g : Touring(g, path)'
      BY <1>3, <3>1, ReadTours
    <3> QED
      BY <3>2
  <2> QED
    BY <2>1, <2>2, <2>3, <2>4 DEF BoardOK
<1>4. ASSUME Render PROVE BoardOK'
  <2>1. board.pc = "read" /\ board.begun \in 0..generated /\ (Still => gen.pc = "idle")
    BY <1>4 DEF Render, BoardOK
  <2>2. board'.pc = "printed" /\ board'.begun = board.begun /\ board'.quiet = board.quiet
    BY <1>4 DEF Render
  <2>3. Still' <=> Still
    BY <2>2 DEF Still
  <2>4. ASSUME Still
        PROVE  (\E h : /\ ReadOnce(h, board.seen, Due(board.given))
                       /\ board.page = PageOf(board.seen))'
    <3>1. PICK h, path : Touring(h, path)
      BY <2>1, <2>4 DEF BoardOK
    <3>2. /\ ReadOnce(h, board.seen, Due(board.given))'
          /\ (board.page = PageOf(board.seen))'
      BY <1>4, <3>1, RenderShows
    <3> QED
      BY <3>2
  <2> QED
    BY <2>1, <2>2, <2>3, <2>4 DEF BoardOK
<1>5. ASSUME EndBoard \/ StopAtForeign PROVE BoardOK'
  BY <1>5 DEF EndBoard, StopAtForeign, NoBoard, BoardOK
<1> QED
  BY <1>1, <1>2, <1>3, <1>4, <1>5 DEF BoardStep

-----------------------------------------------------------------------------
(* The page is complete.                                                   *)

PageInv == IInv /\ CountOK /\ BoardOK

LEMMA PageInvBegins == Init => PageInv
<1> SUFFICES ASSUME Init PROVE PageInv
  OBVIOUS
<1>1. IInv
  BY InvariantBegins
<1>2. gen.pc = "idle" /\ board.pc = "idle"
  BY DEF Init, StoreInit, NoRun, NoBoard
<1>3. \A f \in PacketFiles : ~Whole(packets[f])
  BY DEF Init, StoreInit, Whole
<1> QED
  BY <1>1, <1>2, <1>3 DEF PageInv, CountOK, BoardOK

LEMMA PageInvKept == PageInv /\ [Next]_vars => PageInv'
<1> SUFFICES ASSUME PageInv, [Next]_vars PROVE PageInv'
  OBVIOUS
<1>1. /\ IInv /\ CountOK /\ BoardOK
      /\ StoreOK /\ PacketsOK /\ GenOK
  BY DEF PageInv, IInv
<1>2. IInv'
  BY <1>1, InvariantKept
<1>3. CASE UNCHANGED <<store, generator, board>>
  <2>1. Moves /\ UNCHANGED <<packets, gen>> /\ UNCHANGED <<packets, generated, gen, board>>
    BY <1>3 DEF generator, Moves
  <2> QED
    BY <1>1, <1>2, <2>1, CountKept, BoardKept DEF PageInv
<1>4. CASE Produce /\ UNCHANGED <<generator, board>>
  <2>1. Moves /\ UNCHANGED <<packets, gen>> /\ UNCHANGED <<packets, generated, gen, board>>
    BY <1>4 DEF generator, Moves
  <2> QED
    BY <1>1, <1>2, <2>1, CountKept, BoardKept DEF PageInv
<1>5. CASE GenerateStep /\ UNCHANGED <<store, board>>
  BY <1>1, <1>2, <1>5, CountGenerated, BoardDisturbed DEF PageInv
<1>6. CASE BoardStep /\ UNCHANGED <<store, generator>>
  <2>1. Moves /\ UNCHANGED <<packets, gen>> /\ UNCHANGED <<packets, generated, gen>>
    BY <1>6 DEF generator, Moves
  <2> QED
    BY <1>1, <1>2, <1>6, <2>1, CountKept, BoardStepKept DEF PageInv
<1>7. UNCHANGED vars => UNCHANGED <<store, generator, board>>
  BY DEF vars
<1> QED
  BY <1>3, <1>4, <1>5, <1>6, <1>7 DEF Next

LEMMA PageInvImplies == PageInv => PageComplete
<1> SUFFICES ASSUME PageInv, board.pc = "printed", Still PROVE PageComplete
  BY DEF PageComplete, Still
<1>1. PICK h : ReadOnce(h, board.seen, Due(board.given)) /\ board.page = PageOf(board.seen)
  BY DEF PageInv, BoardOK
<1>2. Len(ledger) \in Nat
  BY DEF PageInv, IInv, StoreOK
<1>3. \A f \in PacketFiles : Whole(packets[f]) =>
        /\ packets[f].generated_at \in 0..Len(ledger)
        /\ IsFiniteSet(packets[f].gate_results)
        /\ \A g \in packets[f].gate_results : g[2] \in AllStatuses
  BY DEF PageInv, CountOK, Countable
<1>4. PICK seen : seen = board.seen
  OBVIOUS
<1>5. PICK bound : bound = Len(ledger)
  OBVIOUS
<1> QED
  BY <1>1, <1>2, <1>3, <1>4, <1>5, PageShows

\* A dashboard that no evidence command disturbs shows every packet of every
\* repository, its gate results under one of the three columns and the latest
\* date, whatever arguments are given, however often, and whichever packet
\* files an earlier kill left half-written: what was read and what is due are
\* related one to one (dashboard.py:58-91, 125-137).
THEOREM PageAlwaysComplete == Spec => []PageComplete
<1>1. Spec => []PageInv
  BY PageInvBegins, PageInvKept, PTL DEF Spec
<1> QED
  BY <1>1, PageInvImplies, PTL

-----------------------------------------------------------------------------
(* The columns.                                                            *)

Known(p) == \A result \in p.gate_results : result[2] \in AllStatuses

\* What was read came from the generator, and the page is made of it.
SeenOK ==
  /\ board.pc = "read" =>
       /\ {"pc", "paths", "files", "seen", "given", "quiet", "begun"} \subseteq DOMAIN board
       /\ board.files \subseteq PacketFiles
  /\ board.pc \in {"read", "printed"} => \E X : board.seen \in Seq(X) /\ \A p \in X : Known(p)
  /\ board.pc = "printed" => board.page = PageOf(board.seen)

LEMMA SeenKept ==
  ASSUME SeenOK, UNCHANGED board
  PROVE  SeenOK'
BY DEF SeenOK, Known, PageOf

LEMMA SeenStepKept ==
  ASSUME SeenOK, CountOK, BoardStep
  PROVE  SeenOK'
<1>1. ASSUME NEW paths \in Walks, StartBoard(paths) PROVE SeenOK'
  <2>1. /\ board'.pc = "read" /\ board'.seen = << >> /\ board'.files = {}
        /\ {"pc", "paths", "files", "seen", "given", "quiet", "begun"} \subseteq DOMAIN board'
    BY <1>1 DEF StartBoard
  <2>2. board'.seen \in Seq({}) /\ \A p \in {} : Known(p)
    BY <2>1
  <2> QED
    BY <2>1, <2>2 DEF SeenOK
<1>2. ASSUME Visit PROVE SeenOK'
  <2>1. /\ board.pc = "read" /\ board'.pc = "read" /\ DOMAIN board' = DOMAIN board
        /\ board'.seen = board.seen /\ board'.files \subseteq PacketFiles
    BY <1>2 DEF Visit, SeenOK
  <2>2. PICK X : board.seen \in Seq(X) /\ \A p \in X : Known(p)
    BY <2>1 DEF SeenOK
  <2>3. board'.seen \in Seq(X) /\ \A p \in X : Known(p)'
    BY <2>1, <2>2 DEF Known
  <2> QED
    BY <2>1, <2>3 DEF SeenOK
<1>3. ASSUME ReadPacket PROVE SeenOK'
  <2>1. PICK f \in board.files :
          board' = [board EXCEPT !.files = @ \ {f},
                      !.seen = IF Whole(packets[f]) THEN Append(@, packets[f]) ELSE @]
    BY <1>3 DEF ReadPacket
  <2>2. /\ board.pc = "read" /\ board'.pc = "read" /\ DOMAIN board' = DOMAIN board
        /\ f \in PacketFiles /\ board'.files \subseteq PacketFiles
        /\ board'.seen = IF Whole(packets[f]) THEN Append(board.seen, packets[f]) ELSE board.seen
    BY <1>3, <2>1 DEF ReadPacket, SeenOK
  <2>3. PICK X : board.seen \in Seq(X) /\ \A p \in X : Known(p)
    BY <2>2 DEF SeenOK
  <2>4. CASE ~Whole(packets[f])
    BY <2>2, <2>3, <2>4 DEF SeenOK, Known
  <2>5. CASE Whole(packets[f])
    <3>1. Known(packets[f])
      BY <2>2, <2>5 DEF CountOK, Countable, Known
    <3>2. PICK Y : Y = X \cup {packets[f]}
      OBVIOUS
    <3>3. \A p \in Y : Known(p)
      BY <2>3, <3>1, <3>2
    <3>4. board'.seen \in Seq(Y)
      <4>1. board.seen \in Seq(Y) /\ packets[f] \in Y
        BY <2>3, <3>2
      <4> QED
        BY <2>2, <2>5, <4>1
    <3> QED
      BY <2>2, <3>3, <3>4 DEF SeenOK, Known
  <2> QED
    BY <2>4, <2>5
<1>4. ASSUME Render PROVE SeenOK'
  BY <1>4 DEF Render, SeenOK, Known, PageOf
<1>5. ASSUME EndBoard \/ StopAtForeign PROVE SeenOK'
  BY <1>5 DEF EndBoard, StopAtForeign, NoBoard, SeenOK
<1> QED
  BY <1>1, <1>2, <1>3, <1>4, <1>5 DEF BoardStep

\* No gate result counts as passed or failed: the words the page looks for are none that
\* the generator writes, so the Other column has them all, disturbed or not
\* (dashboard.py:134-136, run_evidence.py:139-156).
NothingPassesOrFails ==
  board.pc = "printed" =>
    \A repo \in DOMAIN board.page : board.page[repo].pass = 0 /\ board.page[repo].fail = 0

LEMMA ColumnsEmpty ==
  ASSUME NEW seen, NEW X, seen \in Seq(X), \A p \in X : Known(p), NEW repo
  PROVE  Summary(seen, repo).pass = 0 /\ Summary(seen, repo).fail = 0
<1> DEFINE N == Of(seen, repo)
<1>1. N \subseteq DOMAIN seen /\ \A i \in DOMAIN seen : seen[i] \in X
  BY DEF Of
<1>2. \A statuses : statuses \cap AllStatuses = {} => Gates(seen, N, statuses) = {}
  <2> SUFFICES ASSUME NEW statuses, statuses \cap AllStatuses = {}, NEW v \in Gates(seen, N, statuses)
               PROVE  FALSE
    OBVIOUS
  <2>1. v \in Results(seen, N) /\ v[2][2] \in statuses
    BY DEF Gates, Results
  <2>2. PICK i \in N : \E g \in seen[i].gate_results : v = <<i, g>>
    BY <2>1, ResultsOf
  <2>3. PICK g \in seen[i].gate_results : v = <<i, g>>
    BY <2>2
  <2>4. Known(seen[i])
    BY <1>1
  <2>5. g[2] \in AllStatuses
    BY <2>3, <2>4 DEF Known
  <2> QED
    BY <2>1, <2>3, <2>5
<1>3. PassWords \cap AllStatuses = {} /\ FailWords \cap AllStatuses = {}
  BY DEF PassWords, FailWords, AllStatuses
<1>4. Cardinality(Gates(seen, N, PassWords)) = 0 /\ Cardinality(Gates(seen, N, FailWords)) = 0
  BY <1>2, <1>3, FS_EmptySet
<1> QED
  BY <1>4 DEF Summary

\* A page never has anything in its Pass or Fail columns.
THEOREM ColumnsAlwaysEmpty == Spec => []NothingPassesOrFails
<1>1. Init => SeenOK
  BY DEF Init, NoBoard, SeenOK
<1>2. PageInv /\ SeenOK /\ [Next]_vars => SeenOK'
  <2> SUFFICES ASSUME PageInv, SeenOK, [Next]_vars PROVE SeenOK'
    OBVIOUS
  <2>1. CASE BoardStep
    BY <2>1, SeenStepKept DEF PageInv
  <2>2. CASE UNCHANGED board
    BY <2>2, SeenKept
  <2> QED
    BY <2>1, <2>2 DEF Next, vars
<1>3. SeenOK => NothingPassesOrFails
  <2> SUFFICES ASSUME SeenOK, board.pc = "printed", NEW repo \in DOMAIN board.page
               PROVE  board.page[repo].pass = 0 /\ board.page[repo].fail = 0
    BY DEF NothingPassesOrFails
  <2>1. PICK X : board.seen \in Seq(X) /\ \A p \in X : Known(p)
    BY DEF SeenOK
  <2>2. board.page[repo] = Summary(board.seen, repo)
    BY DEF SeenOK, PageOf
  <2> QED
    BY <2>1, <2>2, ColumnsEmpty
<1> QED
  BY <1>1, <1>2, <1>3, PageInvBegins, PageInvKept, PTL DEF Spec
=============================================================================
