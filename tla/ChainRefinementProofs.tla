------------------------ MODULE ChainRefinementProofs ------------------------
(***************************************************************************)
(* Proof that EvidenceChain implements AtomicChain, as far as safety goes: *)
(* with quiet producers, a command on one ledger file answers ok exactly   *)
(* if the ledger and the Run record are acceptable when it ends, whatever  *)
(* lines, records and command lines there are.                             *)
(***************************************************************************)
EXTENDS ChainRefinement, EvidenceChainProofs, SequenceTheorems

\* The world the promise is made for.
Assumed == ~Concurrent /\ \A c \in Commands : c.target \in Files

-----------------------------------------------------------------------------
(* How far a command on one file has come.                                 *)

\* The files the generator lists, opens and has opened.
OneFile ==
  /\ pc \in {"gen_list", "gen_read", "gen_hash"} \cup Generated => files = {cmd.target}
  /\ pc = "gen_read" => todo = {cmd.target} /\ DOMAIN parsed = {}
  /\ pc \in {"gen_hash"} \cup Generated => DOMAIN parsed = {cmd.target} /\ Decodes(cmd.target)

LEMMA OneFileStep ==
  ASSUME Assumed, TypeOK, Control, Order, OneFile, [Next]_vars
  PROVE  OneFile'
<1> USE DEF Goto, End, reads, results, store, Generated
<1>0. pc # "idle" => cmd.target \in Files /\ cmd.name \in {"evidence", "chain"}
  BY CommandFields DEF TypeOK, Assumed
<1>1. ASSUME pc' \notin {"gen_list", "gen_read", "gen_hash"} \cup Generated PROVE OneFile'
  BY <1>1 DEF OneFile
<1>2. ASSUME UNCHANGED <<ledger, cmd, files, todo, parsed>>,
             pc' = pc \/ (pc \in {"gen_hash"} \cup Generated /\ pc' \in Generated)
      PROVE  OneFile'
  BY <1>2 DEF OneFile, Decodes
<1>3. ASSUME NEW c \in Commands, Start(c) PROVE OneFile'
  BY <1>1, <1>3 DEF Start
<1>4. CASE Produce \/ UNCHANGED vars
  <2>1. CASE Produce
    BY <1>1, <2>1 DEF Produce, AppendLine, WriteRecord, MayWrite, Assumed
  <2>2. CASE UNCHANGED vars
    BY <1>2, <2>2 DEF vars
  <2> QED
    BY <1>4, <2>1, <2>2
<1>5. CASE Discover \/ List \/ Read \/ Check \/ Exit \/ Interrupt \/ CrossCheck
  BY <1>1, <1>5 DEF Discover, List, Read, Check, Exit, Interrupt, CrossCheck
<1>6. ASSUME pc \in {"gen_discover", "gen_list"} PROVE Discovered(Source) = {cmd.target}
  <2>1. Source = cmd.target
    BY <1>0, <1>6 DEF Source, Control
  <2> QED
    BY <1>0, <1>6, <2>1, DiscoveredFiles
<1>7. CASE GenDiscover
  BY <1>1, <1>6, <1>7 DEF GenDiscover, OneFile
<1>8. CASE GenList
  <2>1. DOMAIN parsed = {}
    BY <1>8 DEF GenList, Order
  <2> QED
    BY <1>6, <1>8, <2>1 DEF GenList, OneFile
<1>9. CASE GenRead
  <2>1. /\ pc = "gen_read" /\ todo = {cmd.target} /\ files = {cmd.target}
        /\ DOMAIN parsed = {} /\ cmd.target \in Files
    BY <1>0, <1>9 DEF GenRead, OneFile
  <2>2. First(todo) = cmd.target
    BY <2>1, FirstIsMember
  <2>3. CASE Decodes(First(todo))
    <3>1. DOMAIN parsed' = {cmd.target} /\ Decodes(cmd.target)'
      BY <1>9, <2>1, <2>2, <2>3 DEF GenRead, Extend, Decodes
    <3> QED
      BY <1>9, <2>1, <2>2, <2>3, <3>1 DEF GenRead, OneFile
  <2>4. CASE ~Decodes(First(todo))
    BY <1>1, <1>9, <2>4 DEF GenRead, GenRaise
  <2> QED
    BY <2>3, <2>4
<1>10. CASE GenHashInput
  BY <1>10 DEF GenHashInput, OneFile, Decodes
<1>11. CASE LoadRecord
  BY <1>1, <1>2, <1>11 DEF LoadRecord, GenRaise
<1>12. CASE HashLog \/ OpenOut \/ WritePacket
  BY <1>2, <1>12 DEF HashLog, PrimaryBytes, OpenOut, WritePacket
<1>13. CASE ValidatePacket
  BY <1>1, <1>2, <1>13 DEF ValidatePacket, GenRaise
<1> QED
  BY <1>3, <1>4, <1>5, <1>7, <1>8, <1>9, <1>10, <1>11, <1>12, <1>13 DEF Next, Step

\* The record that was loaded is still acceptable.
Loaded ==
  pc \in {"hash_log", "open", "write", "validate", "cross_check"} =>
    AcceptsRecord /\ record = records[RecordSlot]

LEMMA LoadedStep ==
  ASSUME Assumed, TypeOK, Loaded, [Next]_vars
  PROVE  Loaded'
<1> USE DEF Goto, End, reads, results, store
<1>1. ASSUME pc' \notin {"hash_log", "open", "write", "validate", "cross_check"} PROVE Loaded'
  BY <1>1 DEF Loaded
<1>2. ASSUME UNCHANGED <<records, cmd, parsed, record>>,
             pc \in {"hash_log", "open", "write", "validate", "cross_check"}
      PROVE  Loaded'
  BY <1>2 DEF Loaded, AcceptsRecord, LocatesRecord, RecordSlot
<1>3. CASE LoadRecord
  BY <1>3 DEF LoadRecord, GenRaise, Loaded, AcceptsRecord, LocatesRecord, RecordSlot
<1>4. CASE HashLog \/ OpenOut \/ WritePacket \/ ValidatePacket
  BY <1>1, <1>2, <1>4 DEF HashLog, PrimaryBytes, OpenOut, WritePacket, ValidatePacket, GenRaise
<1>5. CASE UNCHANGED vars
  BY <1>1, <1>2, <1>5 DEF vars
<1>6. CASE Produce
  BY <1>1, <1>6 DEF Produce, AppendLine, WriteRecord, MayWrite, Assumed
<1>7. ASSUME Next, ~LoadRecord, ~HashLog, ~OpenOut, ~WritePacket, ~ValidatePacket,
             ~Produce
      PROVE  pc' \notin {"hash_log", "open", "write", "validate", "cross_check"}
  BY <1>7 DEF Next, Step, Start, Discover, List, Read, Check, GenDiscover, GenList, GenRead,
     GenHashInput, GenRaise, CrossCheck, Exit, Interrupt
<1> QED
  BY <1>1, <1>3, <1>4, <1>5, <1>6, <1>7

-----------------------------------------------------------------------------
(* The ledger as it was read and as it is.                                 *)

LEMMA LinesOfOne ==
  ASSUME NEW v, NEW f, DOMAIN v = {f}, v[f] = ledger[f]
  PROVE  LinesOf(v) = {ledger[f][i] : i \in 1..Len(ledger[f])}
<1>1. {{v[g][i] : i \in 1..Len(v[g])} : g \in DOMAIN v} = {{ledger[f][i] : i \in 1..Len(ledger[f])}}
  OBVIOUS
<1> QED
  BY <1>1 DEF LinesOf

LEMMA LedgerLines ==
  ASSUME NEW f \in Files, TypeOK, NEW l \in {ledger[f][i] : i \in 1..Len(ledger[f])}
  PROVE  /\ l \in Lines
         /\ l.run_id \in RunIds \cup {None} /\ l.payload_run_id \in RunIds \cup {None}
         /\ Promise!RunOf(l) \in RunIds \cup {None}
<1>1. ledger[f] \in Seq(Lines)
  BY DEF TypeOK
<1>2. l \in Lines
  BY <1>1
<1> QED
  BY <1>2, ConstantsAssumption DEF Promise!RunOf

\* What the generator has read of a ledger nobody writes to.
LEMMA ReadAsIs ==
  ASSUME NEW v, DOMAIN v = {cmd.target}, v[cmd.target] = ledger[cmd.target]
  PROVE  /\ LinesOf(v) = Promise!LogLines(cmd)
         /\ Events(v) = {l \in Promise!LogLines(cmd) : l.json}
         /\ EventIds(v) = {Promise!RunOf(l) : l \in {k \in Promise!LogLines(cmd) : k.json}} \ {None}
<1>1. LinesOf(v) = Promise!LogLines(cmd)
  BY LinesOfOne DEF Promise!LogLines, Promise!Log
<1>2. Events(v) = {l \in Promise!LogLines(cmd) : l.json}
  BY <1>1 DEF Events
<1>3. \A l \in Events(v) :
        (IF l.run_id # None THEN l.run_id ELSE l.payload_run_id) = Promise!RunOf(l)
  BY DEF Promise!RunOf
<1>4. EventIds(v) = {Promise!RunOf(l) : l \in Events(v)} \ {None}
  BY <1>3 DEF EventIds
<1> QED
  BY <1>1, <1>2, <1>4

LEMMA LogLinesTyped ==
  ASSUME TypeOK, cmd.target \in Files, NEW l \in Promise!LogLines(cmd)
  PROVE  /\ l.run_id \in RunIds \cup {None}
         /\ Promise!RunOf(l) \in RunIds \cup {None}
BY LedgerLines DEF Promise!LogLines, Promise!Log

-----------------------------------------------------------------------------
(* The generator decides by what EvidenceAcceptable says.                  *)

\* The generator has read the ledger as it is.
ReadHere ==
  /\ cmd \in Commands /\ cmd.target \in Files
  /\ DOMAIN parsed = {cmd.target} /\ parsed[cmd.target] = ledger[cmd.target]

LEMMA TheIdIn ==
  ASSUME NEW ids, NEW id \in RunIds, id \in ids
  PROVE  TheId(ids) \in RunIds /\ TheId(ids) \in ids
BY DEF TheId

\* Why the generator accepts what is acceptable ...
LEMMA Accepted ==
  ASSUME TypeOK, ReadHere, Promise!EvidenceAcceptable(cmd)
  PROVE  AcceptsRecord /\ records[RecordSlot].conforms /\ \A l \in Events(parsed) : l.conforms
<1> DEFINE E == {l \in Promise!LogLines(cmd) : l.json}
<1>1. Events(parsed) = E /\ EventIds(parsed) = {Promise!RunOf(l) : l \in E} \ {None}
  BY ReadAsIs DEF ReadHere
<1>2. PICK id \in RunIds :
        /\ cmd.run_record = None => \E l \in E : Promise!RunOf(l) = id
        /\ Promise!Packable(Promise!RecordOf(cmd, id), E)
  BY Zenon DEF Promise!EvidenceAcceptable
<1>3. cmd.run_record # BadRef
  BY Zenon DEF Promise!EvidenceAcceptable
<1> HIDE DEF E
<1>4. PICK r : r = Promise!RecordOf(cmd, id)
  OBVIOUS
<1>5. r \in Records /\ r.id # None /\ r.conforms
      /\ \A l \in E : l.conforms /\ Promise!RunOf(l) \in {r.id, None}
  BY <1>2, <1>4 DEF Promise!Packable
<1>6. EventIds(parsed) \subseteq {r.id}
  BY <1>1, <1>5
<1>7. ~Conflicting(EventIds(parsed))
  BY <1>6 DEF Conflicting
<1>8. ASSUME cmd.run_record = None PROVE EventIds(parsed) = {id} /\ RecordSlot = id
  <2>1. id \in EventIds(parsed) /\ id \in RunIds
    BY <1>1, <1>2, <1>8, ConstantsAssumption
  <2>2. EventIds(parsed) = {id}
    BY <1>6, <2>1
  <2>3. TheId(EventIds(parsed)) = id
    BY <2>1, <2>2, TheIdIn
  <2> QED
    BY <1>8, <2>2, <2>3 DEF RecordSlot
<1>9. records[RecordSlot] = r
  BY <1>4, <1>8 DEF Promise!RecordOf, RecordSlot
<1>10. LocatesRecord
  BY <1>3, <1>7, <1>8 DEF LocatesRecord
<1> QED
  BY <1>1, <1>5, <1>6, <1>9, <1>10 DEF AcceptsRecord

\* ... and nothing else.
LEMMA NothingElseAccepted ==
  ASSUME TypeOK, ReadHere, Exists(cmd.target), Decodes(cmd.target),
         AcceptsRecord, records[RecordSlot].conforms, \A l \in Events(parsed) : l.conforms
  PROVE  Promise!EvidenceAcceptable(cmd)
<1> DEFINE E == {l \in Promise!LogLines(cmd) : l.json}
<1>1. Events(parsed) = E /\ EventIds(parsed) = {Promise!RunOf(l) : l \in E} \ {None}
  BY ReadAsIs DEF ReadHere
<1>2. \A l \in E : Promise!RunOf(l) \in RunIds \cup {None}
  BY LogLinesTyped DEF ReadHere
<1> HIDE DEF E
<1>3. /\ cmd.run_record # BadRef
      /\ cmd.run_record = None => EventIds(parsed) # {}
      /\ records[RecordSlot] \in Records /\ records[RecordSlot].id # None
      /\ EventIds(parsed) \subseteq {records[RecordSlot].id}
  BY DEF AcceptsRecord, LocatesRecord
<1>4. cmd.run_record \in RunIds \cup {None, BadRef}
  BY ConstantsAssumption DEF ReadHere, CommandType
<1>5. RecordSlot \in RunIds /\ (cmd.run_record = None => RecordSlot \in EventIds(parsed))
  <2>1. CASE cmd.run_record # None
    BY <1>3, <1>4, <2>1 DEF RecordSlot
  <2>2. CASE cmd.run_record = None
    <3>1. PICK id : id \in EventIds(parsed)
      BY <1>3, <2>2
    <3>2. id \in RunIds
      BY <1>1, <1>2, <3>1
    <3> QED
      BY <2>2, <3>1, <3>2, TheIdIn DEF RecordSlot
  <2> QED
    BY <2>1, <2>2
<1>6. Promise!RecordOf(cmd, RecordSlot) = records[RecordSlot]
  BY DEF Promise!RecordOf, RecordSlot
<1>7. cmd.run_record = None => \E l \in E : Promise!RunOf(l) = RecordSlot
  BY <1>1, <1>5
<1>8. \A l \in E : Promise!RunOf(l) \in {records[RecordSlot].id, None}
  BY <1>1, <1>3
<1>9. Promise!Packable(Promise!RecordOf(cmd, RecordSlot), E)
  BY <1>1, <1>3, <1>6, <1>8 DEF Promise!Packable
<1>10. Promise!Log(cmd) # <<>>
  BY DEF Promise!Log, Exists
<1>11. \A l \in Promise!LogLines(cmd) : l.utf8
  BY DEF Decodes, Promise!LogLines, Promise!Log
<1> QED
  BY <1>3, <1>5, <1>7, <1>9, <1>10, <1>11, Zenon DEF Promise!EvidenceAcceptable, E

-----------------------------------------------------------------------------
(* The cross-checks decide by what ChainAcceptable says.                   *)

LEMMA LeastNat ==
  ASSUME NEW S \in SUBSET Nat, S # {}
  PROVE  \E k \in S : \A j \in S : k <= j
<1> DEFINE Less == OpToRel(<, Nat)
<1>1. IsWellFoundedOn(Less, Nat)
  BY NatLessThanWellFounded
<1>2. \A a, b \in Nat : a < b => <<a, b>> \in Less
  BY DEF OpToRel
<1> HIDE DEF Less
<1>3. PICK m \in S : \A y \in S : <<y, m>> \notin Less
  BY <1>1, WFMin
<1>4. \A y \in S : ~(y < m)
  BY <1>2, <1>3
<1> QED
  BY <1>3, <1>4

\* The index of the first pipeline.start event of a sequence of lines.
IsFirstStart(s, k) ==
  /\ k \in 1..Len(s) /\ s[k].type = "pipeline.start"
  /\ \A j \in 1..(k - 1) : s[j].type # "pipeline.start"

\* With one file the first pair is that of the least index.
LEMMA FirstStartFound ==
  ASSUME NEW v, NEW f \in Files, DOMAIN v = {f}, v[f] \in Seq(Lines)
  PROVE  /\ Starts(v) = {} => ~\E k : IsFirstStart(v[f], k)
         /\ Starts(v) # {} => \E k : IsFirstStart(v[f], k) /\ FirstStart(v) = v[f][k]
         /\ \A k, j : IsFirstStart(v[f], k) /\ IsFirstStart(v[f], j) => k = j
<1> DEFINE K == {j \in 1..Len(v[f]) : v[f][j].type = "pipeline.start"}
<1>1. Starts(v) = {<<f, i>> : i \in K}
  <2>1. {{<<g, i>> : i \in {j \in 1..Len(v[g]) : v[g][j].type = "pipeline.start"}} : g \in DOMAIN v}
        = {{<<f, i>> : i \in K}}
    OBVIOUS
  <2> QED
    BY <2>1 DEF Starts
<1>2. K \in SUBSET Nat /\ f \in Nat /\ Len(v[f]) \in Nat
  BY DEF Files
<1>3. ASSUME NEW k, IsFirstStart(v[f], k) PROVE k \in K /\ \A j \in K : k <= j
  BY <1>2, <1>3 DEF IsFirstStart
<1>4. Starts(v) = {} => ~\E k : IsFirstStart(v[f], k)
  BY <1>1, <1>3
<1>5. \A k, j : IsFirstStart(v[f], k) /\ IsFirstStart(v[f], j) => k = j
  <2> SUFFICES ASSUME NEW k, NEW j, IsFirstStart(v[f], k), IsFirstStart(v[f], j) PROVE k = j
    OBVIOUS
  <2>1. k \in K /\ j \in K /\ k <= j /\ j <= k
    BY <1>3
  <2> QED
    BY <1>2, <2>1
<1>6. ASSUME Starts(v) # {} PROVE \E k : IsFirstStart(v[f], k) /\ FirstStart(v) = v[f][k]
  <2>1. K # {}
    BY <1>1, <1>6
  <2>2. PICK k \in K : \A j \in K : k <= j
    BY <1>2, <2>1, LeastNat
  <2>3. IsFirstStart(v[f], k)
    <3>1. k \in 1..Len(v[f]) /\ v[f][k].type = "pipeline.start"
      OBVIOUS
    <3>2. ASSUME NEW j \in 1..(k - 1) PROVE v[f][j].type # "pipeline.start"
      <4>1. j \in 1..Len(v[f]) /\ ~(k <= j)
        BY <1>2, <3>1
      <4> QED
        BY <2>2, <4>1
    <3> QED
      BY <3>1, <3>2 DEF IsFirstStart
  <2> HIDE DEF K
  <2>4. PICK p : p = CHOOSE o \in Starts(v) : \A q \in Starts(v) :
                       o[1] < q[1] \/ (o[1] = q[1] /\ o[2] <= q[2])
    OBVIOUS
  <2>5. <<f, k>> \in Starts(v) /\ \A q \in Starts(v) : f < q[1] \/ (f = q[1] /\ k <= q[2])
    BY <1>1, <2>2
  <2>6. p \in Starts(v) /\ \A q \in Starts(v) : p[1] < q[1] \/ (p[1] = q[1] /\ p[2] <= q[2])
    BY <2>4, <2>5
  <2>7. PICK i \in K : p = <<f, i>>
    BY <1>1, <2>6
  <2>8. i <= k /\ k <= i
    BY <1>2, <2>2, <2>5, <2>6, <2>7
  <2>9. p[1] = f /\ p[2] = k
    BY <1>2, <2>7, <2>8
  <2> QED
    BY <2>3, <2>4, <2>9, Zenon DEF FirstStart
<1> QED
  BY <1>4, <1>5, <1>6

\* The validator has read the ledger as it is, and the generator has loaded r.
CheckedHere ==
  /\ ReadHere /\ record \in Records
  /\ DOMAIN validated = {cmd.target} /\ validated[cmd.target] = ledger[cmd.target]

ReplayHashes == {"prompt_snapshot_hash", "tool_schemas_snapshot_hash"}

LEMMA HashDecided ==
  ASSUME TypeOK, CheckedHere, NEW field \in ReplayHashes
  PROVE  HashesAgree(record, field) <=>
           /\ record[field] # ""
           /\ \A i : IsFirstStart(Promise!Log(cmd), i) => Promise!Log(cmd)[i][field] = record[field]
<1>1. Packet[field] = PassThrough(record[field])
  BY DEF Packet, ReplayHashes
<1>2. Packet[field] = record[field] <=> record[field] # ""
  BY <1>1, ConstantsAssumption DEF PassThrough
<1>3. PICK log : log = ledger[cmd.target]
  OBVIOUS
<1>4. log \in Seq(Lines) /\ log = Promise!Log(cmd) /\ log = validated[cmd.target]
  BY <1>3 DEF TypeOK, CheckedHere, ReadHere, Promise!Log
<1>5. /\ Starts(validated) = {} => ~\E k : IsFirstStart(log, k)
      /\ Starts(validated) # {} => \E k : IsFirstStart(log, k) /\ FirstStart(validated) = log[k]
      /\ \A k, j : IsFirstStart(log, k) /\ IsFirstStart(log, j) => k = j
  <2>1. /\ cmd.target \in Files /\ DOMAIN validated = {cmd.target}
        /\ validated[cmd.target] \in Seq(Lines)
    BY <1>4 DEF CheckedHere, ReadHere
  <2>2. /\ Starts(validated) = {} => ~\E k : IsFirstStart(validated[cmd.target], k)
        /\ Starts(validated) # {} =>
             \E k : /\ IsFirstStart(validated[cmd.target], k)
                    /\ FirstStart(validated) = validated[cmd.target][k]
        /\ \A k, j : IsFirstStart(validated[cmd.target], k) /\ IsFirstStart(validated[cmd.target], j)
                     => k = j
    BY <2>1, FirstStartFound
  <2>3. validated[cmd.target] = log
    BY <1>4
  <2> QED
    BY <2>2, <2>3, Zenon
<1>6. (Starts(validated) # {} => FirstStart(validated)[field] = record[field])
      <=> \A i : IsFirstStart(log, i) => log[i][field] = record[field]
  BY <1>5, Zenon
<1> QED
  BY <1>2, <1>4, <1>6, Zenon DEF HashesAgree

LEMMA StartDecided ==
  ASSUME TypeOK, CheckedHere
  PROVE  Promise!StartAgrees(cmd, record) <=> \A field \in ReplayHashes : HashesAgree(record, field)
<1>1. PICK log : log = Promise!Log(cmd)
  OBVIOUS
<1>2. Promise!StartAgrees(cmd, record) <=>
        \A field \in ReplayHashes :
          /\ record[field] # ""
          /\ \A i \in 1..Len(log) :
               /\ log[i].type = "pipeline.start"
               /\ \A j \in 1..(i - 1) : log[j].type # "pipeline.start"
               => log[i][field] = record[field]
  BY <1>1, Zenon DEF Promise!StartAgrees, ReplayHashes
<1>3. ASSUME NEW field \in ReplayHashes
      PROVE  (\A i \in 1..Len(log) :
               /\ log[i].type = "pipeline.start"
               /\ \A j \in 1..(i - 1) : log[j].type # "pipeline.start"
               => log[i][field] = record[field])
             <=> \A i : IsFirstStart(log, i) => log[i][field] = record[field]
  BY Zenon DEF IsFirstStart
<1> QED
  BY <1>1, <1>2, <1>3, HashDecided

LEMMA SummaryDecided ==
  ASSUME CheckedHere
  PROVE  Promise!GatesAgree(cmd, record) <=> SummaryBacked(record, validated)
<1>1. LinesOf(validated) = Promise!LogLines(cmd)
  BY ReadAsIs DEF CheckedHere
<1>2. \A type : LedgerGates(validated, type)
        = {l.gate_name : l \in {k \in Promise!LogLines(cmd) : k.type = type}} \ {None}
  BY <1>1 DEF LedgerGates, Typed
<1>3. PICK passed : passed = LedgerGates(validated, "gate.check.passed")
  OBVIOUS
<1>4. PICK failed : failed = LedgerGates(validated, "gate.check.failed")
  OBVIOUS
<1>5. Promise!GatesAgree(cmd, record) <=>
        /\ record.summary_is_object
        /\ \/ passed = {} /\ failed = {}
           \/ record.gates_passed \subseteq passed /\ record.gates_failed \subseteq failed
  BY <1>2, <1>3, <1>4, Zenon DEF Promise!GatesAgree
<1>6. SummaryBacked(record, validated) <=>
        /\ record.summary_is_object
        /\ passed \cup failed # {} =>
             record.gates_passed \subseteq passed /\ record.gates_failed \subseteq failed
  BY <1>3, <1>4, Zenon DEF SummaryBacked
<1> QED
  BY <1>5, <1>6

\* A declared gate_results_summary is carried: the line that declares it is one
\* of the packet's gate results.
LEMMA FieldsDecided ==
  ASSUME CheckedHere, ~Malformed(validated), \A field \in ReplayHashes : record[field] # ""
  PROVE  Promise!DeclaredPresent(cmd, record) <=> \A field \in Declared : Carries(field)
<1>1. /\ LinesOf(validated) = Promise!LogLines(cmd)
      /\ Events(parsed) = {l \in Promise!LogLines(cmd) : l.json}
      /\ \A l \in Promise!LogLines(cmd) : l.json
  BY ReadAsIs DEF CheckedHere, ReadHere, Malformed
<1> DEFINE R == {l \in Promise!LogLines(cmd) : l.type = "gate.run.evidence_recorded"}
<1>2. Declared = UNION {l.fields_populated : l \in R}
  BY <1>1 DEF Declared, Typed
<1>3. R # {} => Packet.gate_results # {}
  <2>1. \A l \in R : l \in Events(parsed) /\ IsGate(l)
    BY <1>1 DEF IsGate, GateTypes
  <2>2. Packet.gate_results = {l \in Events(parsed) : IsGate(l)}
    BY DEF Packet
  <2> QED
    BY <2>1, <2>2
<1>4. /\ Packet["prompt_snapshot_hash"] # None <=> record.prompt_snapshot_hash # None
      /\ Packet["tool_schemas_snapshot_hash"] # None <=> record.tool_schemas_snapshot_hash # None
      /\ Packet.sandbox_image_ref = record.sandbox_image_ref
  BY DEF Packet, PassThrough, ReplayHashes
<1>5. /\ Carries("prompt_snapshot_hash") <=> record.prompt_snapshot_hash # None
      /\ Carries("tool_schemas_snapshot_hash") <=> record.tool_schemas_snapshot_hash # None
      /\ Carries("sandbox_image_ref") <=> record.sandbox_image_ref
      /\ Carries("gate_results_summary") <=> Packet.gate_results # {}
  BY <1>4 DEF Carries
<1>6. \A field : field \notin {"prompt_snapshot_hash", "tool_schemas_snapshot_hash",
                             "sandbox_image_ref", "gate_results_summary"} => Carries(field)
  BY DEF Carries
<1>7. Promise!DeclaredPresent(cmd, record) <=> \A l \in R :
        /\ "prompt_snapshot_hash" \in l.fields_populated => record.prompt_snapshot_hash # None
        /\ "tool_schemas_snapshot_hash" \in l.fields_populated =>
             record.tool_schemas_snapshot_hash # None
        /\ "sandbox_image_ref" \in l.fields_populated => record.sandbox_image_ref
  BY DEF Promise!DeclaredPresent
<1> HIDE DEF R
<1> QED
  BY <1>2, <1>3, <1>5, <1>6, <1>7

LEMMA ChecksDecided ==
  ASSUME TypeOK, CheckedHere, ~Malformed(validated)
  PROVE  Failures(record) = {} <=>
           /\ Promise!StartAgrees(cmd, record)
           /\ Promise!GatesAgree(cmd, record)
           /\ Promise!DeclaredPresent(cmd, record)
<1>1. DOMAIN CrossChecks = 1..4
  BY DEF CrossChecks
<1>2. Failures(record) = {} <=>
        /\ Passes(CrossChecks[1], record) /\ Passes(CrossChecks[2], record)
        /\ Passes(CrossChecks[3], record) /\ Passes(CrossChecks[4], record)
  BY <1>1 DEF Failures
<1>3. /\ Passes(CrossChecks[1], record) <=> HashesAgree(record, "prompt_snapshot_hash")
      /\ Passes(CrossChecks[2], record) <=> HashesAgree(record, "tool_schemas_snapshot_hash")
      /\ Passes(CrossChecks[3], record) <=> SummaryBacked(record, validated)
      /\ Passes(CrossChecks[4], record) <=> \A field \in Declared : Carries(field)
  BY DEF Passes, CrossChecks
<1>4. Failures(record) = {} <=>
        /\ \A field \in ReplayHashes : HashesAgree(record, field)
        /\ SummaryBacked(record, validated)
        /\ \A field \in Declared : Carries(field)
  BY <1>2, <1>3 DEF ReplayHashes
<1>5. (\A field \in ReplayHashes : HashesAgree(record, field))
      => \A field \in ReplayHashes : record[field] # ""
  BY HashDecided
<1> QED
  BY <1>4, <1>5, StartDecided, SummaryDecided, FieldsDecided

\* With one run id in the envelopes, TheId is that id.
LEMMA TheIdFound ==
  ASSUME TypeOK, EnvelopeIds(validated) # {}
  PROVE  TheId(EnvelopeIds(validated)) \in RunIds
<1>1. PICK l \in Events(validated) : l.run_id # None
  BY DEF EnvelopeIds
<1>2. PICK f \in DOMAIN validated : \E i \in 1..Len(validated[f]) : l = validated[f][i]
  BY DEF Events, LinesOf
<1>3. validated[f] \in Seq(Lines)
  BY DEF TypeOK, IsView
<1>4. l \in Lines
  BY <1>2, <1>3
<1>5. l.run_id \in RunIds /\ l.run_id \in EnvelopeIds(validated)
  BY <1>1, <1>4, ConstantsAssumption DEF EnvelopeIds
<1> QED
  BY <1>5 DEF TheId

\* By their two rules validator and generator find one run id, and one record.
LEMMA OneRecord ==
  ASSUME TypeOK, Earlier(validated, parsed), CheckedHere,
         EnvelopeIds(validated) # {}, AcceptsRecord, record = records[RecordSlot]
  PROVE  /\ record.id \in RunIds
         /\ EnvelopeIds(validated) = {record.id} /\ EventIds(parsed) = {record.id}
         /\ ReloadSlot = RecordSlot
         /\ Promise!RecordOf(cmd, record.id) = record
<1>1. EnvelopeIds(validated) \subseteq EventIds(parsed)
  BY EnvelopeIdsSeen DEF CheckedHere, ReadHere
<1>2. EventIds(parsed) \subseteq {record.id}
  BY DEF AcceptsRecord
<1>3. EnvelopeIds(validated) = {record.id} /\ EventIds(parsed) = {record.id}
  BY <1>1, <1>2
<1>4. record.id \in RunIds
  <2>1. TheId(EnvelopeIds(validated)) \in RunIds
    BY TheIdFound
  <2>2. PICK l \in Events(validated) : l.run_id = record.id /\ record.id # None
    BY <1>3 DEF EnvelopeIds
  <2>3. l \in Promise!LogLines(cmd)
    BY <2>2, ReadAsIs DEF CheckedHere, ReadHere, Events
  <2> QED
    BY <2>2, <2>3, LogLinesTyped DEF CheckedHere, ReadHere
<1>5. TheId(EventIds(parsed)) = record.id
  BY <1>3, <1>4, TheIdIn
<1> QED
  BY <1>3, <1>4, <1>5 DEF ReloadSlot, RecordSlot, Promise!RecordOf

\* The cross-checks pass exactly if ledger and record are acceptable.
LEMMA ChainDecided ==
  ASSUME TypeOK, Earlier(validated, parsed), CheckedHere, Exists(cmd.target), Decodes(cmd.target),
         ~Malformed(validated), ~Nonconforming(validated), EnvelopeIds(validated) # {},
         AcceptsRecord, record = records[RecordSlot], Packet.conforms
  PROVE  Failures(record) = {} <=> Promise!ChainAcceptable(cmd)
<1>1. record.conforms /\ \A l \in Events(parsed) : l.conforms
  BY DEF Packet
<1>2. Promise!EvidenceAcceptable(cmd)
  BY <1>1, NothingElseAccepted DEF CheckedHere
<1>3. PICK id : id = record.id
  OBVIOUS
<1>4. /\ id \in RunIds /\ EnvelopeIds(validated) = {id} /\ EventIds(parsed) = {id}
      /\ Promise!RecordOf(cmd, id) = record
  BY <1>3, OneRecord
<1>5. /\ LinesOf(validated) = Promise!LogLines(cmd)
      /\ \A l \in Promise!LogLines(cmd) : l.json /\ l.valid
  BY ReadAsIs DEF CheckedHere, ReadHere, Malformed, Nonconforming
<1>6. /\ EnvelopeIds(validated) = {l.run_id : l \in Promise!LogLines(cmd)} \ {None}
      /\ EventIds(parsed) = {Promise!RunOf(l) : l \in Promise!LogLines(cmd)} \ {None}
  <2>1. {l \in Promise!LogLines(cmd) : l.json} = Promise!LogLines(cmd)
    BY <1>5
  <2>2. EventIds(parsed) = {Promise!RunOf(l) : l \in Promise!LogLines(cmd)} \ {None}
    BY <2>1, ReadAsIs DEF CheckedHere, ReadHere
  <2>3. Events(validated) = Promise!LogLines(cmd)
    BY <1>5, <2>1 DEF Events
  <2> QED
    BY <2>2, <2>3 DEF EnvelopeIds
<1>7. id # None
  BY <1>4, ConstantsAssumption
<1>8. \A other \in RunIds : (\E l \in Promise!LogLines(cmd) : l.run_id = other) <=> other = id
  BY <1>4, <1>6, ConstantsAssumption
<1>9. \A l \in Promise!LogLines(cmd) : Promise!RunOf(l) \in {id, None}
  BY <1>4, <1>6
<1>10. Promise!ChainAcceptable(cmd) <=>
         \E other \in RunIds :
           /\ \E l \in Promise!LogLines(cmd) : l.run_id = other
           /\ \A l \in Promise!LogLines(cmd) : Promise!RunOf(l) \in {other, None}
           /\ Promise!RecordOf(cmd, other).id = other
           /\ Promise!StartAgrees(cmd, Promise!RecordOf(cmd, other))
           /\ Promise!GatesAgree(cmd, Promise!RecordOf(cmd, other))
           /\ Promise!DeclaredPresent(cmd, Promise!RecordOf(cmd, other))
  BY <1>2, <1>5, Zenon DEF Promise!ChainAcceptable
<1>11. Promise!ChainAcceptable(cmd) <=>
         /\ Promise!StartAgrees(cmd, record) /\ Promise!GatesAgree(cmd, record)
         /\ Promise!DeclaredPresent(cmd, record)
  BY <1>3, <1>4, <1>8, <1>9, <1>10, Zenon
<1> QED
  BY <1>11, ChecksDecided

-----------------------------------------------------------------------------
(* The verdict.                                                            *)

\* The command that ends has the verdict its ledger and record deserve.
Deserved == pc = "exit" => (verdict = "ok" <=> Promise!Acceptable(cmd))

LEMMA SameStore ==
  ASSUME UNCHANGED <<ledger, records, cmd>>
  PROVE  Promise!Acceptable(cmd)' <=> Promise!Acceptable(cmd)
BY DEF Promise!Acceptable, Promise!ChainAcceptable, Promise!EvidenceAcceptable,
   Promise!StartAgrees, Promise!GatesAgree, Promise!DeclaredPresent, Promise!Packable,
   Promise!RecordOf, Promise!RunOf, Promise!LogLines, Promise!Log

LEMMA AcceptableIsEvident ==
  ASSUME Promise!Acceptable(cmd)
  PROVE  Promise!EvidenceAcceptable(cmd)
BY Zenon DEF Promise!Acceptable, Promise!ChainAcceptable

LEMMA EmptyRefused ==
  ASSUME ~Exists(cmd.target)
  PROVE  ~Promise!Acceptable(cmd)
<1>1. Promise!Log(cmd) = <<>>
  BY DEF Promise!Log, Exists
<1> QED
  BY <1>1, AcceptableIsEvident, Zenon DEF Promise!EvidenceAcceptable

\* Nor is a file accepted that cannot be decoded.
LEMMA GarbledRefused ==
  ASSUME ~Decodes(cmd.target)
  PROVE  ~Promise!Acceptable(cmd)
<1>1. \E l \in Promise!LogLines(cmd) : ~l.utf8
  BY DEF Decodes, Promise!LogLines, Promise!Log
<1> QED
  BY <1>1, AcceptableIsEvident, Zenon DEF Promise!EvidenceAcceptable

\* Nobody writes while the command runs.
World == Assumed /\ IInv /\ Hashing /\ Quiet /\ Established /\ OneFile /\ Loaded

LEMMA Target ==
  ASSUME World, pc # "idle"
  PROVE  cmd \in Commands /\ cmd.target \in Files /\ cmd.name \in {"evidence", "chain"}
BY CommandFields DEF World, Assumed, IInv, TypeOK

LEMMA HaveRead ==
  ASSUME World, pc \in Generated
  PROVE  ReadHere /\ Exists(cmd.target) /\ Decodes(cmd.target)
<1>1. pc # "idle" /\ ~Concurrent
  BY DEF Generated, World, Assumed
<1>2. cmd \in Commands /\ cmd.target \in Files
  BY <1>1, Target
<1>3. files = {cmd.target} /\ DOMAIN parsed = {cmd.target} /\ Decodes(cmd.target)
  BY DEF World, OneFile
<1>4. Exists(cmd.target)
  BY <1>3 DEF World, IInv, Control
<1>5. parsed[cmd.target] = ledger[cmd.target]
  BY <1>1, <1>3 DEF World, Quiet
<1> QED
  BY <1>2, <1>3, <1>4, <1>5 DEF ReadHere

LEMMA HaveChecked ==
  ASSUME World, cmd.name = "chain", pc \in {"check"} \cup Generated
  PROVE  DOMAIN validated = {cmd.target} /\ validated[cmd.target] = ledger[cmd.target]
<1>1. pc # "idle" /\ pc \notin {"idle", "discover", "exit"} /\ ~Concurrent
  BY DEF Generated, World, Assumed
<1>2. cmd.target \in Files
  BY <1>1, Target
<1>3. primary = cmd.target
  BY <1>1, <1>2 DEF World, IInv, Control
<1>4. DOMAIN validated = {cmd.target}
  BY <1>1, <1>2, <1>3 DEF World, IInv, Identity, Hashing
<1> QED
  BY <1>1, <1>4 DEF World, Quiet

LEMMA CheckDecides ==
  ASSUME World, pc = "check",
         Malformed(validated) \/ Nonconforming(validated) \/ ~OneRun(validated)
  PROVE  ~Promise!Acceptable(cmd)
<1>1. cmd.name = "chain" /\ pc # "idle"
  BY DEF World, IInv, Control
<1>2. cmd.target \in Files
  BY <1>1, Target
<1>3. LinesOf(validated) = Promise!LogLines(cmd)
  BY <1>1, HaveChecked, ReadAsIs
<1> SUFFICES ASSUME Promise!ChainAcceptable(cmd) PROVE FALSE
  BY <1>1, Zenon DEF Promise!Acceptable
<1>4. \A l \in LinesOf(validated) : l.json /\ l.valid
  BY <1>3, Zenon DEF Promise!ChainAcceptable
<1>5. PICK id \in RunIds :
        /\ \E l \in Promise!LogLines(cmd) : l.run_id = id
        /\ \A l \in Promise!LogLines(cmd) : Promise!RunOf(l) \in {id, None}
  BY Zenon DEF Promise!ChainAcceptable
<1>6. \A l \in LinesOf(validated) : l.run_id \in {id, None}
  BY <1>3, <1>5 DEF Promise!RunOf
<1>7. id \in EnvelopeIds(validated)
  BY <1>3, <1>4, <1>5, ConstantsAssumption DEF EnvelopeIds, Events
<1>8. EnvelopeIds(validated) \subseteq {id}
  BY <1>6 DEF EnvelopeIds, Events
<1>9. OneRun(validated)
  BY <1>7, <1>8 DEF OneRun, Conflicting
<1>10. ~Malformed(validated) /\ ~Nonconforming(validated)
  BY <1>4 DEF Malformed, Nonconforming
<1> QED
  BY <1>9, <1>10

LEMMA DeservedStep ==
  ASSUME World, Deserved, [Next]_vars
  PROVE  Deserved'
<1> USE DEF Goto, End, reads, results, store
<1>1. ASSUME pc' # "exit" PROVE Deserved'
  BY <1>1 DEF Deserved
<1>2. ASSUME UNCHANGED <<ledger, records, cmd>>, verdict' = "ok" <=> Promise!Acceptable(cmd)
      PROVE  Deserved'
  BY <1>2, SameStore DEF Deserved
<1>3. CASE Discover
  <2>1. pc = "discover" /\ cmd.name = "chain" /\ pc # "idle"
    BY <1>3 DEF Discover, World, IInv, Control
  <2>2. cmd.target \in Files
    BY <2>1, Target
  <2>3. Discovered(cmd.target) = {cmd.target}
    BY <2>2, DiscoveredFiles
  <2>4. ASSUME pc' = "exit" PROVE ~Exists(cmd.target) /\ verdict' # "ok"
    BY <1>3, <2>3, <2>4 DEF Discover
  <2>5. UNCHANGED <<ledger, records, cmd>>
    BY <1>3 DEF Discover
  <2> QED
    BY <1>1, <1>2, <2>4, <2>5, EmptyRefused
<1>4. CASE Check
  <2>1. pc = "check" /\ UNCHANGED <<ledger, records, cmd>>
    BY <1>4 DEF Check
  <2>2. ASSUME pc' = "exit"
        PROVE  /\ verdict' # "ok"
               /\ Malformed(validated) \/ Nonconforming(validated) \/ ~OneRun(validated)
    BY <1>4, <2>2 DEF Check
  <2> QED
    BY <1>1, <1>2, <2>1, <2>2, CheckDecides
<1>5. CASE GenDiscover
  <2>1. pc = "gen_discover" /\ pc # "idle" /\ UNCHANGED <<ledger, records, cmd>>
    BY <1>5 DEF GenDiscover
  <2>2. cmd.target \in Files /\ cmd.name \in {"evidence", "chain"}
    BY <2>1, Target
  <2>3. Source = cmd.target
    BY <2>1, <2>2 DEF Source, World, IInv, Control
  <2>4. Discovered(Source) = {cmd.target}
    BY <2>2, <2>3, DiscoveredFiles
  <2>5. ASSUME pc' = "exit" PROVE ~Exists(cmd.target) /\ verdict' # "ok"
    BY <1>5, <2>4, <2>5 DEF GenDiscover
  <2> QED
    BY <1>1, <1>2, <2>1, <2>5, EmptyRefused
<1>6. CASE LoadRecord
  <2>1. pc = "load_record" /\ pc \in Generated /\ UNCHANGED <<ledger, records, cmd>>
    BY <1>6 DEF LoadRecord, Generated
  <2>2. ReadHere /\ TypeOK
    BY <2>1, HaveRead DEF World, IInv
  <2>3. ASSUME pc' = "exit" PROVE ~AcceptsRecord /\ verdict' # "ok"
    BY <1>6, <2>3 DEF LoadRecord, GenRaise
  <2> QED
    BY <1>1, <1>2, <2>1, <2>2, <2>3, Accepted, AcceptableIsEvident
<1>7. CASE ValidatePacket
  <2>1. pc = "validate" /\ pc \in Generated /\ pc # "idle" /\ UNCHANGED <<ledger, records, cmd>>
    BY <1>7 DEF ValidatePacket, Generated
  <2>2. ReadHere /\ Exists(cmd.target) /\ Decodes(cmd.target) /\ TypeOK
    BY <2>1, HaveRead DEF World, IInv
  <2>3. AcceptsRecord /\ record = records[RecordSlot]
    BY <2>1 DEF World, Loaded
  <2>4. PacketPasses <=> /\ records[RecordSlot].conforms
                         /\ \A l \in Events(parsed) : l.conforms
    BY <2>3 DEF PacketPasses, Packet
  <2>5. PacketPasses <=> Promise!EvidenceAcceptable(cmd)
    BY <2>2, <2>3, <2>4, Accepted, NothingElseAccepted
  <2>6. ASSUME pc' = "exit"
        PROVE  \/ ~PacketPasses /\ verdict' # "ok"
               \/ PacketPasses /\ cmd.name = "evidence" /\ verdict' = "ok"
    BY <1>7, <2>6 DEF ValidatePacket, GenRaise
  <2>7. cmd.name = "evidence" => (Promise!Acceptable(cmd) <=> Promise!EvidenceAcceptable(cmd))
    BY Zenon DEF Promise!Acceptable
  <2>8. ASSUME pc' = "exit" PROVE verdict' = "ok" <=> Promise!Acceptable(cmd)
    BY <2>5, <2>6, <2>7, <2>8, AcceptableIsEvident
  <2> QED
    BY <1>1, <1>2, <2>1, <2>8
<1>8. CASE CrossCheck
  <2>1. /\ pc = "cross_check" /\ pc \in Generated /\ cmd.name = "chain"
        /\ UNCHANGED <<ledger, records, cmd>>
    BY <1>8 DEF CrossCheck, Generated, World, IInv, Control
  <2>2. /\ ReadHere /\ Exists(cmd.target) /\ Decodes(cmd.target) /\ TypeOK
        /\ Earlier(validated, parsed)
    BY <2>1, HaveRead DEF World, IInv, Order
  <2>3. AcceptsRecord /\ record = records[RecordSlot] /\ record \in Records
    BY <2>1 DEF World, Loaded, IInv, Identity
  <2>4. CheckedHere
    BY <2>1, <2>2, <2>3, HaveChecked DEF CheckedHere
  <2>5. /\ ~Malformed(validated) /\ ~Nonconforming(validated) /\ Packet.conforms
        /\ EnvelopeIds(validated) # {}
    BY <2>1 DEF World, Established, IInv, Identity
  <2>6. ReloadSlot = RecordSlot
    BY <2>2, <2>3, <2>4, <2>5, OneRecord
  <2>7. Failures(record) = {} <=> Promise!Acceptable(cmd)
    <3>1. Promise!Acceptable(cmd) <=> Promise!ChainAcceptable(cmd)
      BY <2>1, Zenon DEF Promise!Acceptable
    <3> QED
      BY <2>2, <2>3, <2>4, <2>5, <3>1, ChainDecided
  <2>8. /\ checked' = record
        /\ verdict' = IF Failures(record) = {} THEN "ok" ELSE CrossChecks[First(Failures(record))]
    BY <1>8, <2>3, <2>6 DEF CrossCheck
  <2>9. Failures(record) # {} => verdict' # "ok"
    <3>1. "ok" \notin Stages
      BY DEF Stages
    <3> QED
      BY <2>8, <3>1, FailingStage
  <2> QED
    BY <1>2, <2>1, <2>7, <2>8, <2>9
<1>9. CASE UNCHANGED vars
  <2>1. UNCHANGED <<ledger, records, cmd, pc, verdict>>
    BY <1>9 DEF vars
  <2> QED
    BY <1>1, <1>2, <2>1 DEF Deserved
<1>10. CASE Produce
  BY <1>1, <1>10 DEF Produce, AppendLine, WriteRecord, MayWrite, World, Assumed
<1>11. ASSUME Next, ~Discover, ~Read, ~Check, ~GenDiscover, ~GenRead, ~LoadRecord,
              ~ValidatePacket, ~CrossCheck, ~Produce
       PROVE  pc' # "exit"
  BY <1>11 DEF Next, Step, Start, List, GenList, GenHashInput, HashLog, OpenOut, WritePacket, Exit, Interrupt
<1>12. CASE Read \/ GenRead
  <2>1. /\ pc \in {"read", "gen_read"} /\ pc # "idle" /\ UNCHANGED <<ledger, records, cmd>>
        /\ pc' = "exit" => ~Decodes(First(todo)) /\ verdict' # "ok"
    BY <1>12 DEF Read, GenRead, GenRaise
  <2>2. cmd.target \in Files /\ todo = {cmd.target}
    BY <2>1, Target DEF World, IInv, Control, OneFile
  <2>3. First(todo) = cmd.target
    BY <2>2, FirstIsMember
  <2> QED
    BY <1>1, <1>2, <2>1, <2>3, GarbledRefused
<1> QED
  BY <1>1, <1>3, <1>4, <1>5, <1>6, <1>7, <1>8, <1>9, <1>10, <1>11, <1>12

LEMMA WorldHolds == Assumed => (Spec => [](World /\ Deserved /\ Outcomes /\ Leaving))
<1> SUFFICES ASSUME Assumed PROVE Spec => [](World /\ Deserved /\ Outcomes /\ Leaving)
  OBVIOUS
<1>1. Init => OneFile /\ Loaded /\ Deserved
  BY DEF Init, OneFile, Loaded, Deserved, Generated
<1>2. IInv /\ OneFile /\ [Next]_vars => OneFile'
  BY OneFileStep DEF IInv
<1>3. IInv /\ Loaded /\ [Next]_vars => Loaded'
  BY LoadedStep DEF IInv
<1>4. World /\ Deserved /\ [Next]_vars => Deserved'
  BY DeservedStep
<1>5. IInv /\ Hashing /\ Quiet /\ Established /\ OneFile /\ Loaded => World
  BY DEF World
<1> QED
  BY <1>1, <1>2, <1>3, <1>4, <1>5, VouchingHolds, LeavingHolds, PTL DEF Spec

-----------------------------------------------------------------------------
(* Every step is one of the promise's, or none.                            *)

\* What the promise sees of the commands that ended.
Seen(ended) ==
  [i \in 1..Len(ended) |-> [cmd |-> ended[i].cmd, how |-> Outcome(ended[i].verdict)]]

Running == IF pc = "idle" THEN None ELSE cmd

LEMMA SeenOneMore ==
  ASSUME NEW ended \in Seq(Ending), NEW h \in Ending
  PROVE  Seen(Append(ended, h)) = Append(Seen(ended), [cmd |-> h.cmd, how |-> Outcome(h.verdict)])
<1>1. PICK e : e = [cmd |-> h.cmd, how |-> Outcome(h.verdict)]
  OBVIOUS
<1>2. PICK more \in Seq(Ending) : more = Append(ended, h)
  <2>1. Append(ended, h) \in Seq(Ending)
    OBVIOUS
  <2> QED
    BY <2>1, Zenon
<1>3. /\ Len(more) = Len(ended) + 1 /\ more[Len(more)] = h /\ Len(ended) \in Nat
      /\ \A i \in 1..Len(ended) : more[i] = ended[i]
  BY <1>2
<1>4. PICK r : r = Seen(ended)
  OBVIOUS
<1>5. /\ DOMAIN r = 1..Len(ended)
      /\ \A i \in 1..Len(ended) : r[i] = [cmd |-> ended[i].cmd, how |-> Outcome(ended[i].verdict)]
      /\ r = [i \in 1..Len(ended) |-> r[i]]
  BY <1>4 DEF Seen
<1>6. \E S : r \in Seq(S) /\ e \in S
  <2>1. r \in Seq({r[i] : i \in 1..Len(ended)} \cup {e})
    BY <1>3, <1>5
  <2> QED
    BY <2>1
<1>7. PICK S : r \in Seq(S) /\ e \in S
  BY <1>6
<1>8. Len(r) = Len(ended)
  BY <1>3, <1>5, <1>7
<1>9. PICK both \in Seq(S) : both = Append(r, e)
  <2>1. Append(r, e) \in Seq(S)
    BY <1>7
  <2> QED
    BY <2>1, Zenon
<1>10. /\ both = [i \in 1..Len(more) |-> both[i]]
       /\ both[Len(more)] = e /\ \A i \in 1..Len(ended) : both[i] = r[i]
  <2>1. /\ Len(both) = Len(r) + 1 /\ both[Len(r) + 1] = e
        /\ \A i \in 1..Len(r) : both[i] = r[i]
    BY <1>7, <1>9
  <2>2. both = [i \in 1..Len(both) |-> both[i]]
    <3>1. both \in [1..Len(both) -> S]
      BY LenProperties
    <3> QED
      BY <3>1
  <2>3. Len(both) = Len(more)
    BY <1>3, <1>8, <2>1
  <2> QED
    BY <1>3, <1>8, <2>1, <2>2, <2>3
<1>11. \A i \in 1..Len(more) : both[i] = [cmd |-> more[i].cmd, how |-> Outcome(more[i].verdict)]
  <2> TAKE i \in 1..Len(more)
  <2>1. i \in 1..Len(ended) \/ i = Len(more)
    BY <1>3
  <2>2. CASE i = Len(more)
    BY <1>1, <1>3, <1>10, <2>2
  <2>3. CASE i \in 1..Len(ended)
    BY <1>3, <1>5, <1>10, <2>3
  <2> QED
    BY <2>1, <2>2, <2>3
<1>12. Seen(more) = [i \in 1..Len(more) |-> both[i]]
  BY <1>11 DEF Seen
<1> QED
  BY <1>1, <1>2, <1>4, <1>9, <1>10, <1>12

LEMMA NothingSeen == Seen(<<>>) = <<>>
<1>1. PICK r : r = Seen(<<>>)
  OBVIOUS
<1>2. r = [i \in 1..0 |-> r[i]]
  BY <1>1 DEF Seen
<1>3. r \in Seq({}) /\ Len(r) = 0
  BY <1>2
<1> QED
  BY <1>1, <1>3, EmptySeq

\* The promise's variables, by the names they have here.
LEMMA PromiseVars ==
  /\ Promise!vars = <<ledger, records, Running, Seen(history)>>
  /\ \A how : Promise!Finish(how) <=>
       /\ Running # None /\ Running' = None
       /\ Seen(history)' = Append(Seen(history), [cmd |-> Running, how |-> how])
       /\ UNCHANGED <<ledger, records>>
  /\ \A c : Promise!Issue(c) <=>
       /\ Running = None /\ Running' = c /\ UNCHANGED <<ledger, records, Seen(history)>>
  /\ Promise!Produce <=> Running = None /\ UNCHANGED <<Running, Seen(history)>>
  /\ Promise!Decide <=>
       /\ Running # None
       /\ Promise!Acceptable(Running) => Promise!Finish("accepted")
       /\ ~Promise!Acceptable(Running) => Promise!Finish("rejected")
BY DEF Promise!vars, Promise!Finish, Promise!Issue, Promise!Produce, Promise!Decide, Seen, Running

LEMMA Ended ==
  ASSUME Leaving, NEW h \in Ending, history' = Append(history, h), cmd \in Commands, h.cmd = cmd,
         pc # "idle", pc' = "idle", UNCHANGED <<ledger, records>>
  PROVE  Promise!Finish(Outcome(h.verdict))
<1>1. Running = cmd /\ Running' = None /\ cmd # None
  BY ConstantsAssumption DEF Running
<1>2. PICK old \in Seq(Ending) : old = history
  BY DEF Leaving
<1>3. PICK new : new = history'
  OBVIOUS
<1>4. Seen(new) = Append(Seen(old), [cmd |-> h.cmd, how |-> Outcome(h.verdict)])
  BY <1>2, <1>3, SeenOneMore
<1>5. Seen(history) = Seen(old) /\ Seen(history)' = Seen(new)
  BY <1>2, <1>3 DEF Seen
<1> QED
  BY <1>1, <1>4, <1>5, PromiseVars

LEMMA StepKeepsPromise ==
  ASSUME World, Deserved, Outcomes, Leaving, [Next]_vars
  PROVE  [Promise!Next]_(Promise!vars)
<1> USE DEF Goto, End, reads, results, store
<1>1. pc # "idle" => cmd \in Commands
  BY DEF World, IInv, TypeOK
<1>2. ASSUME UNCHANGED <<ledger, records, cmd, history>>, pc # "idle", pc' # "idle"
      PROVE  UNCHANGED Promise!vars
  <2>1. Running' = Running /\ Seen(history)' = Seen(history)
    BY <1>2 DEF Running, Seen
  <2> QED
    BY <1>2, <2>1 DEF Promise!vars, Running, Seen
<1>3. CASE UNCHANGED vars
  <2>1. UNCHANGED <<ledger, records, cmd, history, pc>>
    BY <1>3 DEF vars
  <2>2. Running' = Running /\ Seen(history)' = Seen(history)
    BY <2>1 DEF Running, Seen
  <2> QED
    BY <2>1, <2>2 DEF Promise!vars, Running, Seen
<1>4. CASE Produce
  <2>1. pc = "idle" /\ UNCHANGED <<pc, history>>
    BY <1>4 DEF Produce, AppendLine, WriteRecord, MayWrite, World, Assumed
  <2>2. Running = None /\ Running' = None /\ Seen(history)' = Seen(history)
    BY <2>1 DEF Running, Seen
  <2>3. Promise!Produce
    BY <2>2, PromiseVars
  <2> QED
    BY <2>3 DEF Promise!Next
<1>5. ASSUME NEW c \in Commands, Start(c) PROVE Promise!Next
  <2>1. pc = "idle" /\ pc' # "idle" /\ cmd' = c /\ UNCHANGED <<ledger, records, history>>
    BY <1>5 DEF Start
  <2>2. Running = None /\ Running' = c /\ Seen(history)' = Seen(history)
    BY <2>1 DEF Running, Seen
  <2>3. Promise!Issue(c)
    BY <2>1, <2>2, PromiseVars
  <2> QED
    BY <2>3 DEF Promise!Next
<1>6. CASE Interrupt
  <2>1. /\ pc # "idle" /\ pc' = "idle" /\ UNCHANGED <<ledger, records>>
        /\ history' = Append(history, EndedAs("killed", FALSE))
    BY <1>6 DEF Interrupt
  <2>2. PICK h \in Ending : h = EndedAs("killed", FALSE)
    BY <1>1, <2>1, EndedAsType
  <2>3. h.cmd = cmd /\ h.verdict = "killed"
    BY <1>1, <2>1, <2>2, EndedAsType
  <2>4. Promise!Finish(Outcome(h.verdict))
    BY <1>1, <2>1, <2>2, <2>3, Ended
  <2>5. Outcome(h.verdict) = "abandoned"
    BY <2>3 DEF Outcome
  <2> QED
    BY <2>4, <2>5 DEF Promise!Next
<1>7. CASE Exit
  <2>1. /\ pc = "exit" /\ pc' = "idle" /\ pc # "idle" /\ UNCHANGED <<ledger, records>>
        /\ \E raised \in BOOLEAN : history' = Append(history, EndedAs(verdict, raised))
    BY <1>7 DEF Exit
  <2>2. verdict \in Stages \cup {"ok", "uncaught"} /\ "killed" \notin Stages /\ "ok" \notin Stages
    BY <2>1 DEF Outcomes, Stages
  <2>3. PICK raised \in BOOLEAN : history' = Append(history, EndedAs(verdict, raised))
    BY <2>1
  <2>4. PICK h \in Ending : /\ h = EndedAs(verdict, raised)
                           /\ h.cmd = cmd /\ h.verdict = verdict
    BY <1>1, <2>1, <2>2, EndedAsType
  <2>5. Promise!Finish(Outcome(h.verdict))
    BY <1>1, <2>1, <2>3, <2>4, Ended
  <2>6. Running = cmd /\ Running # None
    BY <1>1, <2>1, ConstantsAssumption DEF Running
  <2>7. Outcome(h.verdict) = IF verdict = "ok" THEN "accepted" ELSE "rejected"
    BY <2>2, <2>4 DEF Outcome
  <2>8. verdict = "ok" <=> Promise!Acceptable(Running)
    BY <2>1, <2>6, Zenon DEF Deserved
  <2>9. Promise!Decide
    <3>1. CASE verdict = "ok"
      BY <2>5, <2>6, <2>7, <2>8, <3>1, PromiseVars
    <3>2. CASE verdict # "ok"
      BY <2>5, <2>6, <2>7, <2>8, <3>2, PromiseVars
    <3> QED
      BY <3>1, <3>2
  <2> QED
    BY <2>9 DEF Promise!Next
<1>8. ASSUME Step, ~Exit
      PROVE  UNCHANGED <<ledger, records, cmd, history>> /\ pc # "idle" /\ pc' # "idle"
  BY <1>8 DEF Step, Discover, List, Read, Check, GenDiscover, GenList, GenRead, GenHashInput,
     LoadRecord, GenRaise, HashLog, OpenOut, WritePacket, ValidatePacket, CrossCheck
<1> QED
  BY <1>2, <1>3, <1>4, <1>5, <1>6, <1>7, <1>8 DEF Next

\* With quiet producers, the commands on one ledger file do what AtomicChain
\* says: each answers, in one step at its end, ok if and only if the ledger and
\* the Run record are acceptable (validate_chain.py:321-410,
\* run_evidence.py:610-749), and a kill leaves it without an answer.
THEOREM CommandsAreAtomic ==
  Assumed => (Spec => Promise!Init /\ [][Promise!Next]_(Promise!vars))
<1>1. Init => Promise!Init
  <2> SUFFICES ASSUME Init PROVE Promise!Init
    OBVIOUS
  <2>1. Running = None /\ Seen(history) = <<>>
    BY NothingSeen DEF Init, Running
  <2> QED
    BY <2>1 DEF Promise!Init, Running, Seen
<1>2. World /\ Deserved /\ Outcomes /\ Leaving /\ [Next]_vars => [Promise!Next]_(Promise!vars)
  BY StepKeepsPromise
<1> QED
  BY <1>1, <1>2, WorldHolds, PTL DEF Spec

=============================================================================
