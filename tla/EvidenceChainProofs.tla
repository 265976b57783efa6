------------------------- MODULE EvidenceChainProofs -------------------------
(***************************************************************************)
(* Proofs about EvidenceChain, for every set of ledger lines, Run records, *)
(* command lines and ledger files, and every interleaving of producers.    *)
(***************************************************************************)
EXTENDS EvidenceChain, TLAPS, WellFoundedInduction, FiniteSetTheorems

-----------------------------------------------------------------------------
(* Lemmas about the operators.                                             *)

\* The loops over discovered files open one of the files left to open.
LEMMA FirstIsMember ==
  ASSUME NEW S \in SUBSET Files, S # {}
  PROVE  First(S) \in S
<1> DEFINE Less == OpToRel(<, Nat)
<1>1. IsWellFoundedOn(Less, Nat)
  BY NatLessThanWellFounded
<1>2. \A a, b \in Nat : a < b => <<a, b>> \in Less
  BY DEF OpToRel
<1>3. S \subseteq Nat
  BY DEF Files
<1> HIDE DEF Less
<1>4. PICK m \in S : \A y \in S : <<y, m>> \notin Less
  BY <1>1, <1>3, WFMin
<1>5. ASSUME NEW y \in S PROVE m <= y
  <2>1. m \in Nat /\ y \in Nat
    BY <1>3
  <2>2. ~(y < m)
    BY <1>2, <1>4, <2>1
  <2> QED
    BY <2>1, <2>2
<1> QED
  BY <1>5 DEF First

\* A snapshot of a snapshot of a ledger file is a snapshot of it.
LEMMA PrefixTransitive ==
  ASSUME NEW r \in Seq(Lines), NEW s \in Seq(Lines), NEW t \in Seq(Lines),
         Prefix(r, s), Prefix(s, t)
  PROVE  Prefix(r, t)
BY DEF Prefix

LEMMA PrefixReflexive ==
  ASSUME NEW s \in Seq(Lines)
  PROVE  Prefix(s, s)
BY DEF Prefix

\* Ledgers are append-only: whatever step is taken, every file keeps its lines.
LEMMA LedgerGrows ==
  ASSUME TypeOK, [Next]_vars
  PROVE  /\ ledger' \in [Files -> Seq(Lines)]
         /\ \A f \in Files : Prefix(ledger[f], ledger'[f])
         /\ \A f \in Files : ledger[f] # <<>> => ledger'[f] # <<>>
<1>1. CASE UNCHANGED ledger
  BY <1>1 DEF TypeOK, Prefix
<1>2. ASSUME NEW g \in Files, NEW l \in Lines, AppendLine(g, l)
      PROVE  /\ ledger' \in [Files -> Seq(Lines)]
             /\ \A f \in Files : Prefix(ledger[f], ledger'[f])
             /\ \A f \in Files : ledger[f] # <<>> => ledger'[f] # <<>>
  <2>1. ledger' = [ledger EXCEPT ![g] = Append(@, l)]
    BY <1>2 DEF AppendLine
  <2>2. ledger' \in [Files -> Seq(Lines)]
    BY <2>1 DEF TypeOK
  <2>3. \A f \in Files : Prefix(ledger[f], ledger'[f])
    BY <2>1 DEF TypeOK, Prefix
  <2>4. \A f \in Files : ledger[f] # <<>> => ledger'[f] # <<>>
    <3> SUFFICES ASSUME NEW f \in Files, ledger[f] # <<>> PROVE ledger'[f] # <<>>
      OBVIOUS
    <3> QED
      BY <2>1 DEF TypeOK
  <2> QED
    BY <2>2, <2>3, <2>4
<1>3. UNCHANGED ledger \/ \E g \in Files, l \in Lines : AppendLine(g, l)
  BY DEF Next, Produce, WriteRecord, Start, Step, Discover, List, Read, Check, GenDiscover,
     GenList, GenRead, GenHashInput, LoadRecord, HashLog, PrimaryBytes, OpenOut, WritePacket,
     ValidatePacket,
     CrossCheck, Exit, Interrupt, vars, store
<1> QED
  BY <1>1, <1>2, <1>3

LEMMA CommandFields ==
  ASSUME NEW c \in Commands
  PROVE  c.name \in {"evidence", "chain"} /\ c.target \in Files \cup {Dir}
BY ConstantsAssumption DEF CommandType

\* A cross-check that fails names its stage.
LEMMA FailingStage ==
  ASSUME NEW rec, Failures(rec) # {}
  PROVE  CrossChecks[First(Failures(rec))] \in Stages
<1>1. Failures(rec) \subseteq 1..4
  BY DEF Failures, CrossChecks
<1>2. First(Failures(rec)) \in 1..4
  BY <1>1 DEF First
<1>3. \A i \in 1..4 : CrossChecks[i] \in Stages
  BY DEF CrossChecks, Stages
<1> QED
  BY <1>2, <1>3

\* A discovered file is one of the directory's.
LEMMA DiscoveredFiles ==
  ASSUME NEW t \in Files \cup {Dir}
  PROVE  /\ Discovered(t) \subseteq Files
         /\ t \in Files => Discovered(t) = {t}
         /\ \A f \in Files : t = Dir /\ Exists(f) => f \in Discovered(t)
BY DEF Discovered, Dir, Files

\* Opening one more file gives a view again, of the ledger as it is now.
LEMMA ExtendView ==
  ASSUME NEW view, IsView(view), NEW f \in Files, ledger \in [Files -> Seq(Lines)]
  PROVE  /\ IsView(Extend(view, f))
         /\ DOMAIN Extend(view, f) = DOMAIN view \cup {f}
         /\ Extend(view, f)[f] = ledger[f]
         /\ \A g \in DOMAIN view : g # f => Extend(view, f)[g] = view[g]
BY DEF IsView, Extend

-----------------------------------------------------------------------------
(* Type correctness.                                                       *)

LEMMA TypeInit == Init => TypeOK
<1> SUFFICES ASSUME Init PROVE TypeOK
  OBVIOUS
<1>1. IsView(EmptyView)
  BY DEF IsView, EmptyView
<1>2. ledger \in [Files -> Seq(Lines)]
  BY DEF Init
<1> QED
  BY <1>1, <1>2 DEF Init, TypeOK, Labels, Contents

LEMMA TypeStep ==
  ASSUME TypeOK, Control, [Next]_vars
  PROVE  TypeOK'
<1> USE DEF TypeOK, Goto, End, Labels, reads, results, store
<1>1. ledger' \in [Files -> Seq(Lines)]
  BY LedgerGrows
<1>2. IsView(EmptyView)
  BY DEF IsView, EmptyView
<1>3. ASSUME NEW f \in Files, NEW l \in Lines, AppendLine(f, l) PROVE TypeOK'
  BY <1>1, <1>3 DEF AppendLine, IsView
<1>4. ASSUME NEW id \in ActiveRuns, NEW content \in Contents,
             WriteRecord(id, content)
      PROVE  TypeOK'
  BY <1>4 DEF WriteRecord, IsView
<1>5. ASSUME NEW c \in Commands, Start(c) PROVE TypeOK'
  BY <1>2, <1>5 DEF Start
<1>6. CASE Discover
  <2>1. cmd.target \in Files \cup {Dir}
    BY <1>6, CommandFields DEF Discover
  <2>2. primary' \in Files \cup {0}
    BY <1>6, <2>1, DiscoveredFiles, FirstIsMember DEF Discover
  <2> QED
    BY <1>6, <2>2 DEF Discover, IsView, Stages
<1>7. CASE List
  BY <1>7, CommandFields, DiscoveredFiles DEF List, IsView
<1>8. CASE Read
  <2>1. First(todo) \in Files
    BY <1>8, FirstIsMember DEF Read, Control
  <2>2. IsView(validated)'
    BY <1>8, <2>1, ExtendView DEF Read, IsView
  <2> QED
    BY <1>8, <2>2 DEF Read, IsView
<1>9. CASE Check
  BY <1>9 DEF Check, IsView, Stages
<1>10. CASE GenDiscover
  <2>1. Source \in Files \cup {Dir}
    BY <1>10, CommandFields DEF GenDiscover, Source, Dir
  <2> QED
    BY <1>10, <2>1, DiscoveredFiles DEF GenDiscover, IsView
<1>11. CASE GenList
  <2>1. Source \in Files \cup {Dir}
    BY <1>11, CommandFields DEF GenList, Source, Dir
  <2> QED
    BY <1>11, <2>1, DiscoveredFiles DEF GenList, IsView
<1>12. CASE GenRead
  <2>1. First(todo) \in Files
    BY <1>12, FirstIsMember DEF GenRead, Control
  <2>2. IsView(parsed)'
    BY <1>12, <2>1, ExtendView DEF GenRead, IsView
  <2> QED
    BY <1>12, <2>2 DEF GenRead, GenRaise, IsView, Stages
<1>13. CASE GenHashInput
  <2>1. First(todo) \in Files
    BY <1>13, FirstIsMember DEF GenHashInput, Control
  <2>2. IsView(inputs)'
    BY <1>13, <2>1, ExtendView DEF GenHashInput, IsView
  <2> QED
    BY <1>13, <2>2 DEF GenHashInput, IsView
<1>14. CASE LoadRecord
  BY <1>14 DEF LoadRecord, AcceptsRecord, GenRaise, IsView, Stages
<1>15. CASE HashLog
  <2>1. First(files) \in Files
    BY <1>15, FirstIsMember DEF HashLog, PrimaryBytes, Control, Generated
  <2> QED
    BY <1>15, <2>1 DEF HashLog, PrimaryBytes, IsView
<1>16. CASE OpenOut \/ WritePacket
  BY <1>16 DEF OpenOut, WritePacket, IsView
<1>17. CASE ValidatePacket
  BY <1>17 DEF ValidatePacket, GenRaise, IsView, Stages
<1>18. CASE CrossCheck
  <2>1. verdict' \in Stages \cup {"ok", "uncaught"}
    BY <1>18, FailingStage DEF CrossCheck
  <2> QED
    BY <1>18, <2>1 DEF CrossCheck, IsView
<1>19. CASE Exit
  BY <1>19 DEF Exit, IsView
<1>20. CASE Interrupt
  BY <1>20 DEF Interrupt, IsView
<1>21. CASE UNCHANGED vars
  BY <1>21 DEF vars, IsView
<1> QED
  BY <1>3, <1>4, <1>5, <1>6, <1>7, <1>8, <1>9, <1>10, <1>11, <1>12, <1>13, <1>14, <1>15,
     <1>16, <1>17, <1>18, <1>19, <1>20, <1>21 DEF Next, Produce, Step

-----------------------------------------------------------------------------
(* The control state of a command.                                         *)

LEMMA ControlStep ==
  ASSUME TypeOK, Control, [Next]_vars
  PROVE  Control'
<1> USE DEF Goto, End, reads, results, store, Generated, Answered
<1>1. /\ TypeOK'
      /\ \A f \in Files : ledger[f] # <<>> => ledger'[f] # <<>>
  BY TypeStep, LedgerGrows
<1>2. pc # "idle" => cmd.name \in {"evidence", "chain"} /\ cmd.target \in Files \cup {Dir}
  BY CommandFields DEF TypeOK
<1>3. ASSUME NEW f \in Files, NEW l \in Lines, AppendLine(f, l) PROVE Control'
  BY <1>1, <1>3 DEF AppendLine, Control, TypeOK, Exists
<1>4. ASSUME NEW id \in ActiveRuns, NEW content \in Contents,
             WriteRecord(id, content)
      PROVE  Control'
  BY <1>4 DEF WriteRecord, Control, Exists
<1>5. ASSUME NEW c \in Commands, Start(c) PROVE Control'
  BY <1>5, CommandFields DEF Start, Control
<1>6. CASE Discover
  <2> DEFINE D == Discovered(cmd.target)
  <2>1. D \subseteq Files /\ (cmd.target \in Files => D = {cmd.target})
    BY <1>2, <1>6, DiscoveredFiles DEF Discover
  <2>2. D # {} => First(D) \in D
    BY <2>1, FirstIsMember
  <2> HIDE DEF D
  <2>3. D = Discovered(cmd.target)
    BY DEF D
  <2> QED
    BY <1>6, <2>1, <2>2, <2>3 DEF Discover, Control, Exists
<1>7. CASE List
  <2>1. cmd.name = "chain" /\ primary \in Files /\ Exists(primary)
    BY <1>7 DEF List, Control
  <2>2. Discovered(cmd.target) # {}
    BY <1>2, <1>7, <2>1, DiscoveredFiles DEF List, TypeOK
  <2> QED
    BY <1>2, <1>7, <2>2, DiscoveredFiles DEF List, Control, Exists, TypeOK
<1>8. CASE Read
  BY <1>8 DEF Read, Control, Exists
<1>9. CASE Check
  BY <1>9 DEF Check, Control, Exists
<1>10. CASE GenDiscover
  <2>1. Source \in Files \cup {Dir}
    BY <1>2, <1>10 DEF GenDiscover, Source, TypeOK, Dir
  <2>2. Source \in Files => Discovered(Source) = {Source}
    BY <2>1, DiscoveredFiles
  <2>3. Source = Dir => \A f \in Discovered(Source) : Exists(f)
    BY DEF Discovered
  <2> QED
    BY <1>10, <2>1, <2>2, <2>3 DEF GenDiscover, Control, Exists
<1>11. CASE GenList
  <2>1. Source \in Files \cup {Dir} /\ (cmd.name = "chain" => Source = primary)
    BY <1>2, <1>11 DEF GenList, Source, TypeOK, Dir
  <2>2. PICK f \in files : Exists(f)
    BY <1>11 DEF GenList, Control
  <2>3. Discovered(Source) # {}
    BY <2>1, <2>2, DiscoveredFiles DEF TypeOK
  <2>4. cmd.name = "chain" => Discovered(Source) = {primary}
    BY <1>11, <2>1, DiscoveredFiles DEF GenList, Control
  <2> QED
    BY <1>11, <2>3, <2>4 DEF GenList, Control, Exists
<1>12. CASE GenRead
  BY <1>12 DEF GenRead, GenRaise, Control, Exists
<1>13. CASE GenHashInput
  BY <1>13 DEF GenHashInput, Control, Exists
<1>14. CASE LoadRecord
  BY <1>14 DEF LoadRecord, GenRaise, Control, Exists
<1>15. CASE HashLog
  BY <1>15 DEF HashLog, PrimaryBytes, Control, Exists
<1>16. CASE OpenOut \/ WritePacket
  BY <1>16 DEF OpenOut, WritePacket, Control, Exists
<1>17. CASE ValidatePacket
  BY <1>17 DEF ValidatePacket, GenRaise, Control, Exists
<1>18. CASE CrossCheck
  BY <1>18 DEF CrossCheck, Control, Exists
<1>19. CASE Exit
  BY <1>19 DEF Exit, Control
<1>20. CASE Interrupt
  BY <1>20 DEF Interrupt, Control
<1>21. CASE UNCHANGED vars
  BY <1>21 DEF vars, Control, Exists
<1> QED
  BY <1>3, <1>4, <1>5, <1>6, <1>7, <1>8, <1>9, <1>10, <1>11, <1>12, <1>13, <1>14, <1>15,
     <1>16, <1>17, <1>18, <1>19, <1>20, <1>21 DEF Next, Produce, Step

-----------------------------------------------------------------------------
(* The order of the snapshots.                                             *)

\* A snapshot stays one while the producers write on.
LEMMA SnapshotStays ==
  ASSUME TypeOK, [Next]_vars, NEW view, IsView(view), Earlier(view, ledger)
  PROVE  Earlier(view, ledger')
<1>1. DOMAIN ledger = Files /\ DOMAIN ledger' = Files
  BY LedgerGrows DEF TypeOK
<1> SUFFICES ASSUME NEW f \in DOMAIN view PROVE Prefix(view[f], ledger'[f])
  BY DEF Earlier
<1>2. f \in Files /\ view[f] \in Seq(Lines) /\ ledger[f] \in Seq(Lines)
      /\ ledger'[f] \in Seq(Lines)
  BY LedgerGrows DEF IsView, TypeOK
<1>3. Prefix(view[f], ledger[f]) /\ Prefix(ledger[f], ledger'[f])
  BY <1>1, <1>2, LedgerGrows DEF Earlier
<1> QED
  BY <1>2, <1>3, PrefixTransitive

\* A file opened now is no older than any snapshot taken of it before.
LEMMA ExtendIsLatest ==
  ASSUME ledger \in [Files -> Seq(Lines)], NEW f \in Files,
         NEW old, IsView(old), Earlier(old, ledger),
         NEW view, IsView(view), Earlier(old, view)
  PROVE  Earlier(old, Extend(view, f))
<1> SUFFICES ASSUME NEW g \in DOMAIN old \cap DOMAIN Extend(view, f)
             PROVE  Prefix(old[g], Extend(view, f)[g])
  BY DEF Earlier
<1>1. CASE g = f
  BY <1>1, ExtendView DEF Earlier
<1>2. CASE g # f
  <2>1. g \in DOMAIN view /\ Extend(view, f)[g] = view[g]
    BY <1>2 DEF Extend
  <2> QED
    BY <2>1 DEF Earlier
<1> QED
  BY <1>1, <1>2

LEMMA ExtendIsSnapshot ==
  ASSUME ledger \in [Files -> Seq(Lines)], NEW f \in Files,
         NEW view, IsView(view), Earlier(view, ledger)
  PROVE  Earlier(Extend(view, f), ledger)
<1> SUFFICES ASSUME NEW g \in DOMAIN Extend(view, f), g \in Files
             PROVE  Prefix(Extend(view, f)[g], ledger[g])
  BY DEF Earlier
<1>1. CASE g = f
  BY <1>1, ExtendView, PrefixReflexive
<1>2. CASE g # f
  <2>1. g \in DOMAIN view /\ Extend(view, f)[g] = view[g]
    BY <1>2 DEF Extend
  <2> QED
    BY <2>1 DEF Earlier
<1> QED
  BY <1>1, <1>2

LEMMA OrderInit == Init => Order
BY DEF Init, Order, Earlier, EmptyView, Generated

LEMMA OrderStep ==
  ASSUME TypeOK, Control, Order, [Next]_vars
  PROVE  Order'
<1> USE DEF Goto, End, reads, results, store, Generated
<1> DEFINE Hashed(l) == /\ Prefix(inputs[First(files)], logHash)
                        /\ Prefix(logHash, l[First(files)])
<1>1. /\ Earlier(validated, ledger') /\ Earlier(parsed, ledger') /\ Earlier(inputs, ledger')
  BY SnapshotStays DEF TypeOK, Order
<1>2. ASSUME pc \in {"open", "write", "validate", "cross_check"} PROVE Hashed(ledger')
  <2>1. First(files) \in Files
    BY <1>2, FirstIsMember DEF Control, TypeOK
  <2>2. Prefix(ledger[First(files)], ledger'[First(files)])
    BY <2>1, LedgerGrows
  <2> QED
    BY <1>2, <2>1, <2>2, LedgerGrows, PrefixTransitive DEF Order, TypeOK
<1>3. ASSUME UNCHANGED <<validated, parsed, inputs, logHash, files, todo>>,
             \/ pc' = pc
             \/ pc' \in {"idle", "exit"}
             \/ pc = "discover" /\ pc' = "list"
             \/ pc = "check" /\ pc' = "gen_discover"
             \/ pc = "gen_discover" /\ pc' = "gen_list"
             \/ pc = "load_record" /\ pc' = "hash_log"
             \/ pc = "open" /\ pc' = "write"
             \/ pc = "write" /\ pc' = "validate"
             \/ pc = "validate" /\ pc' = "cross_check"
      PROVE  Order'
  BY <1>1, <1>2, <1>3 DEF Order
<1>4. ASSUME NEW c \in Commands, Start(c) PROVE Order'
  BY <1>4 DEF Start, Order, Earlier, EmptyView
<1>5. CASE List
  BY <1>1, <1>5 DEF List, Order
<1>6. CASE Read
  <2>1. CASE Decodes(First(todo))
    <3>1. First(todo) \in Files
      BY <1>6, FirstIsMember DEF Read, Control, TypeOK
    <3>2. Earlier(validated', ledger)
      BY <1>6, <2>1, <3>1, ExtendIsSnapshot DEF Read, Order, TypeOK
    <3>3. DOMAIN parsed = {} /\ UNCHANGED <<ledger, parsed, inputs>>
      BY <1>6 DEF Read, Order
    <3>4. Earlier(validated', parsed')
      BY <3>3 DEF Earlier
    <3> QED
      BY <1>6, <2>1, <3>2, <3>3, <3>4 DEF Read, Order
  <2>2. CASE ~Decodes(First(todo))
    BY <1>3, <1>6, <2>2 DEF Read
  <2> QED
    BY <2>1, <2>2
<1>7. CASE GenDiscover
  BY <1>1, <1>7 DEF GenDiscover, Order
<1>8. CASE GenList
  BY <1>1, <1>8 DEF GenList, Order
<1>9. CASE GenRead
  <2>1. CASE Decodes(First(todo))
    <3>1. First(todo) \in Files
      BY <1>9, FirstIsMember DEF GenRead, Control, TypeOK
    <3>2. UNCHANGED <<ledger, validated, inputs, files>> /\ parsed' = Extend(parsed, First(todo))
      BY <1>9, <2>1 DEF GenRead
    <3>3. Earlier(parsed', ledger)
      BY <3>1, <3>2, ExtendIsSnapshot DEF Order, TypeOK
    <3>4. Earlier(validated, parsed')
      BY <3>1, <3>2, ExtendIsLatest DEF Order, TypeOK
    <3>5. DOMAIN inputs = {}
      BY <1>9 DEF GenRead, Order
    <3>6. Earlier(parsed', inputs)
      BY <3>5 DEF Earlier
    <3> QED
      BY <1>9, <2>1, <3>2, <3>3, <3>4, <3>5, <3>6 DEF GenRead, Order
  <2>2. CASE ~Decodes(First(todo))
    BY <1>3, <1>9, <2>2 DEF GenRead, GenRaise
  <2> QED
    BY <2>1, <2>2
<1>10. CASE GenHashInput
  <2>1. First(todo) \in Files
    BY <1>10, FirstIsMember DEF GenHashInput, Control, TypeOK
  <2>2. /\ UNCHANGED <<ledger, validated, parsed, files>>
        /\ inputs' = Extend(inputs, First(todo))
        /\ todo' = todo \ {First(todo)}
    BY <1>10 DEF GenHashInput
  <2>3. Earlier(inputs', ledger)
    BY <2>1, <2>2, ExtendIsSnapshot DEF Order, TypeOK
  <2>4. Earlier(parsed, inputs')
    BY <2>1, <2>2, ExtendIsLatest DEF Order, TypeOK
  <2>5. DOMAIN inputs' = DOMAIN inputs \cup {First(todo)}
    BY <2>1, <2>2, ExtendView DEF TypeOK
  <2>6. files \subseteq todo' \cup DOMAIN inputs'
    BY <1>10, <2>2, <2>5 DEF GenHashInput, Order
  <2> QED
    BY <1>10, <2>2, <2>3, <2>4, <2>6 DEF GenHashInput, Order
<1>11. CASE HashLog
  <2>1. First(files) \in files
    BY <1>11, FirstIsMember DEF HashLog, PrimaryBytes, Control, TypeOK
  <2>2. First(files) \in Files /\ First(files) \in DOMAIN inputs
    BY <1>11, <2>1 DEF HashLog, PrimaryBytes, Order, TypeOK
  <2>3. Prefix(inputs[First(files)], ledger[First(files)])
    BY <2>2 DEF Order, Earlier, TypeOK
  <2>4. Prefix(ledger[First(files)], ledger[First(files)])
    BY <2>2, PrefixReflexive DEF TypeOK
  <2> QED
    BY <1>11, <2>3, <2>4 DEF HashLog, PrimaryBytes, Order
<1>12. CASE Discover
  BY <1>3, <1>12 DEF Discover
<1>13. CASE Check
  BY <1>3, <1>13 DEF Check
<1>14. CASE LoadRecord
  BY <1>3, <1>14 DEF LoadRecord, GenRaise
<1>15. CASE OpenOut \/ WritePacket
  BY <1>3, <1>15 DEF OpenOut, WritePacket
<1>16. CASE ValidatePacket
  BY <1>3, <1>16 DEF ValidatePacket, GenRaise
<1>17. CASE CrossCheck
  BY <1>3, <1>17 DEF CrossCheck
<1>18. CASE Exit \/ Interrupt \/ UNCHANGED vars \/ Produce
  BY <1>3, <1>18 DEF Exit, Interrupt, vars, Produce, AppendLine, WriteRecord
<1> QED
  BY <1>4, <1>5, <1>6, <1>7, <1>8, <1>9, <1>10, <1>11, <1>12, <1>13, <1>14, <1>15, <1>16,
     <1>17, <1>18 DEF Next, Step

-----------------------------------------------------------------------------
(* Run ids.                                                                *)

LEMMA ControlInit == Init => Control
BY DEF Init, Control, Answered, Generated

LEMMA IdentityInit == Init => Identity
BY DEF Init, Identity, Answered, Generated

LEMMA IdentityStep ==
  ASSUME TypeOK, Control, Identity, [Next]_vars
  PROVE  Identity'
<1> USE DEF Goto, End, reads, results, store, Generated, Answered
<1>1. ASSUME UNCHANGED <<cmd, primary, validated, parsed, record>>,
             pc' = "idle" \/ pc # "idle",
             \/ pc' = pc /\ verdict' = verdict
             \/ pc' \in {"idle", "discover", "list", "read", "check"}
             \/ pc' = "exit" /\ verdict' # "ok"
             \/ pc' = "gen_list" /\ pc = "gen_discover"
             \/ pc' = "gen_read" /\ pc = "gen_list"
             \/ pc' \in {"gen_hash", "load_record"} /\ pc = "gen_hash"
             \/ pc' = "open" /\ pc = "hash_log"
             \/ pc' = "write" /\ pc = "open"
             \/ pc' = "validate" /\ pc = "write"
             \/ pc' \in {"cross_check", "exit"} /\ pc = "validate"
             \/ pc' = "exit" /\ pc = "cross_check"
      PROVE  Identity'
  BY <1>1 DEF Identity
<1>2. ASSUME NEW c \in Commands, Start(c) PROVE Identity'
  <2>1. DOMAIN validated' = {}
    BY <1>2 DEF Start, EmptyView
  <2> QED
    BY <1>2, <2>1 DEF Start, Identity
<1>3. CASE Read
  <2>1. CASE Decodes(First(todo))
    <3>1. /\ pc = "read" /\ pc' \in {"read", "check"} /\ UNCHANGED <<cmd, primary>>
          /\ validated' = Extend(validated, First(todo))
      BY <1>3, <2>1 DEF Read
    <3>2. First(todo) \in todo
      BY <3>1, FirstIsMember DEF Control, TypeOK
    <3>3. cmd.target \in Files => First(todo) = cmd.target
      BY <3>1, <3>2 DEF Control
    <3>4. DOMAIN validated' = DOMAIN validated \cup {First(todo)}
      BY <3>1 DEF Extend
    <3> QED
      BY <3>1, <3>3, <3>4 DEF Identity
  <2>2. CASE ~Decodes(First(todo))
    BY <1>1, <1>3, <2>2 DEF Read
  <2> QED
    BY <2>1, <2>2
<1>4. CASE Check
  BY <1>1, <1>4 DEF Check, OneRun, Identity, Stages
<1>5. CASE GenRead
  <2>1. CASE Decodes(First(todo))
    <3>1. /\ pc = "gen_read" /\ pc' \in {"gen_read", "gen_hash"}
          /\ UNCHANGED <<cmd, primary, validated, record>>
          /\ parsed' = Extend(parsed, First(todo))
      BY <1>5, <2>1 DEF GenRead
    <3>2. First(todo) \in todo
      BY <3>1, FirstIsMember DEF Control, TypeOK
    <3>3. cmd.name = "chain" => First(todo) = primary
      BY <3>1, <3>2 DEF Control
    <3>4. First(todo) \in DOMAIN parsed'
      BY <3>1 DEF Extend
    <3> QED
      BY <3>1, <3>3, <3>4 DEF Identity
  <2>2. CASE ~Decodes(First(todo))
    BY <1>1, <1>5, <2>2 DEF GenRead, GenRaise
  <2> QED
    BY <2>1, <2>2
<1>6. CASE LoadRecord
  <2>1. CASE AcceptsRecord
    BY <1>6, <2>1 DEF LoadRecord, GenRaise, AcceptsRecord, Identity
  <2>2. CASE ~AcceptsRecord
    BY <1>1, <1>6, <2>2 DEF LoadRecord, GenRaise
  <2> QED
    BY <2>1, <2>2
<1>7. CASE Discover
  BY <1>7 DEF Discover, Identity
<1>8. CASE List
  BY <1>1, <1>8 DEF List
<1>9. CASE GenDiscover
  BY <1>1, <1>9 DEF GenDiscover
<1>10. CASE GenList
  BY <1>1, <1>10 DEF GenList
<1>11. CASE GenHashInput
  BY <1>1, <1>11 DEF GenHashInput
<1>12. CASE HashLog
  BY <1>1, <1>12 DEF HashLog, PrimaryBytes
<1>13. CASE OpenOut \/ WritePacket
  BY <1>1, <1>13 DEF OpenOut, WritePacket
<1>14. CASE ValidatePacket
  BY <1>1, <1>14 DEF ValidatePacket, GenRaise
<1>15. CASE CrossCheck
  BY <1>1, <1>15 DEF CrossCheck
<1>16. CASE Exit \/ Interrupt \/ UNCHANGED vars \/ Produce
  BY <1>1, <1>16 DEF Exit, Interrupt, vars, Produce, AppendLine, WriteRecord
<1> QED
  BY <1>2, <1>3, <1>4, <1>5, <1>6, <1>7, <1>8, <1>9, <1>10, <1>11, <1>12, <1>13, <1>14, <1>15,
     <1>16 DEF Next, Step

\* Where the validator and the generator read the same ledger file, every run
\* id the validator finds in an envelope is one the generator finds.
LEMMA EnvelopeIdsSeen ==
  ASSUME TypeOK, Earlier(validated, parsed), DOMAIN validated \subseteq DOMAIN parsed
  PROVE  EnvelopeIds(validated) \subseteq EventIds(parsed)
<1> SUFFICES ASSUME NEW id \in EnvelopeIds(validated) PROVE id \in EventIds(parsed)
  OBVIOUS
<1>1. PICK l \in Events(validated) : l.run_id = id /\ id # None
  BY DEF EnvelopeIds
<1>2. PICK f \in DOMAIN validated : \E i \in 1..Len(validated[f]) : l = validated[f][i]
  BY <1>1 DEF Events, LinesOf
<1>3. PICK i \in 1..Len(validated[f]) : l = validated[f][i]
  BY <1>2
<1>4. f \in DOMAIN parsed /\ Prefix(validated[f], parsed[f])
  BY DEF Earlier
<1>5. validated[f] \in Seq(Lines) /\ parsed[f] \in Seq(Lines)
  BY <1>4 DEF TypeOK, IsView
<1>6. i \in 1..Len(parsed[f]) /\ l = parsed[f][i]
  BY <1>3, <1>4, <1>5 DEF Prefix
<1>7. l \in LinesOf(parsed)
  BY <1>4, <1>6 DEF LinesOf
<1>8. l \in Events(parsed)
  BY <1>1, <1>7 DEF Events
<1> QED
  BY <1>1, <1>8 DEF EventIds

-----------------------------------------------------------------------------
(* The theorems.                                                           *)

LEMMA InductiveInvariant == Spec => []IInv
<1>1. Init => IInv
  BY TypeInit, ControlInit, OrderInit, IdentityInit DEF IInv
<1>2. IInv /\ [Next]_vars => IInv'
  BY TypeStep, ControlStep, OrderStep, IdentityStep DEF IInv
<1> QED
  BY <1>1, <1>2, PTL DEF Spec

\* Every variable keeps its type, whatever producers write and whenever.
THEOREM TypeCorrect == Spec => []TypeOK
<1>1. IInv => TypeOK
  BY DEF IInv
<1> QED
  BY <1>1, InductiveInvariant, PTL

\* The four reads of a ledger file are ordered (cdcp_events.py:110-148,
\* run_evidence.py:618-639): what the packet reports is in the bytes it hashes.
THEOREM SnapshotsAlwaysOrdered == Spec => []SnapshotsOrdered
<1>1. IInv => SnapshotsOrdered
  <2> SUFFICES ASSUME IInv PROVE SnapshotsOrdered
    OBVIOUS
  <2>1. ASSUME pc \in {"open", "write", "validate", "cross_check"}
        PROVE  First(files) \in DOMAIN inputs
    BY <2>1, FirstIsMember DEF IInv, TypeOK, Control, Order, Generated
  <2> QED
    BY <2>1 DEF IInv, Order, SnapshotsOrdered
<1> QED
  BY <1>1, InductiveInvariant, PTL

\* The run id that validate-chain reports for a ledger file (validate_chain.py:355,
\* 406) is the run id of the packet (run_evidence.py:647), for every interleaving
\* with the producers of the ledger and of the Run record.
THEOREM RunIdentityHolds == Spec => []RunIdentity
<1>1. IInv => RunIdentity
  <2> SUFFICES ASSUME IInv, Passed("chain"), cmd.target \in Files
               PROVE  EnvelopeIds(validated) = {Packet.run_id}
    BY DEF RunIdentity
  <2> USE DEF Passed, IInv
  <2>1. Answered /\ cmd.name = "chain"
    BY DEF Answered
  <2>2. DOMAIN validated \subseteq DOMAIN parsed
    BY <2>1 DEF Identity, Control
  <2>3. EnvelopeIds(validated) \subseteq EventIds(parsed)
    BY <2>2, EnvelopeIdsSeen DEF Order
  <2>4. EventIds(parsed) \subseteq {record.id} /\ EnvelopeIds(validated) # {}
    BY <2>1 DEF Identity
  <2>5. Packet.run_id = record.id
    BY DEF Packet
  <2> QED
    BY <2>3, <2>4, <2>5
<1> QED
  BY <1>1, InductiveInvariant, PTL

\* On one ledger file the cross-checks read the Run record the generator read, as
\* validate_chain.py:391-397 has it, whatever is appended between the reads: the ids the
\* validator finds are among the generator's, which are the record's one id.  In a directory
\* they need not.
THEOREM SameRecordOnOneFile ==
  Spec => [](pc = "cross_check" /\ cmd.target \in Files => ReloadSlot = RecordSlot)
<1>1. IInv => (pc = "cross_check" /\ cmd.target \in Files => ReloadSlot = RecordSlot)
  <2> SUFFICES ASSUME IInv, cmd.target \in Files, pc = "cross_check"
               PROVE  ReloadSlot = RecordSlot
    OBVIOUS
  <2>1. cmd.name = "chain" /\ primary = cmd.target
    BY DEF IInv, Control
  <2>2. /\ DOMAIN validated \subseteq {cmd.target} /\ primary \in DOMAIN parsed
        /\ EnvelopeIds(validated) # {} /\ EventIds(parsed) \subseteq {record.id}
    BY <2>1 DEF IInv, Identity, Generated
  <2>3. EnvelopeIds(validated) \subseteq EventIds(parsed)
    BY <2>1, <2>2, EnvelopeIdsSeen DEF IInv, Order
  <2>4. EnvelopeIds(validated) = EventIds(parsed)
    BY <2>2, <2>3
  <2> QED
    BY <2>4 DEF ReloadSlot, RecordSlot
<1> QED
  BY <1>1, InductiveInvariant, PTL

-----------------------------------------------------------------------------
(* Replay hashes.                                                          *)

LEMMA AllPass ==
  ASSUME NEW rec, Failures(rec) = {}, NEW check \in Stages,
         check \in {"cross-check.prompt_snapshot_hash", "cross-check.tool_schemas_snapshot_hash"}
  PROVE  Passes(check, rec)
<1>1. PICK i \in 1..2 : i \in DOMAIN CrossChecks /\ CrossChecks[i] = check
  BY DEF CrossChecks
<1> QED
  BY <1>1 DEF Failures

\* HashesAgree is what ReplayHashesAgree asks of the record checked.
LEMMA HashesCompared ==
  ASSUME NEW rec, Failures(rec) = {},
         NEW field \in {"prompt_snapshot_hash", "tool_schemas_snapshot_hash"}
  PROVE  /\ PassThrough(record[field]) = rec[field]
         /\ Starts(validated) # {} => FirstStart(validated)[field] = PassThrough(record[field])
<1>1. Packet[field] = PassThrough(record[field])
  BY DEF Packet
<1>2. HashesAgree(rec, field)
  <2>1. CASE field = "prompt_snapshot_hash"
    BY <2>1, AllPass DEF Passes, Stages
  <2>2. CASE field = "tool_schemas_snapshot_hash"
    BY <2>2, AllPass DEF Passes, Stages
  <2> QED
    BY <2>1, <2>2
<1> QED
  BY <1>1, <1>2 DEF HashesAgree

LEMMA HashesStep ==
  ASSUME TypeOK, Control, ReplayHashesAgree, [Next]_vars
  PROVE  ReplayHashesAgree'
<1> USE DEF Goto, End, reads, results, store, Passed
<1> SUFFICES ASSUME Passed("chain")'
             PROVE  \A field \in {"prompt_snapshot_hash", "tool_schemas_snapshot_hash"} :
                      /\ PassThrough(record'[field]) = checked'[field]
                      /\ Starts(validated') # {} =>
                           FirstStart(validated')[field] = PassThrough(record'[field])
  BY DEF ReplayHashesAgree
<1>1. CASE CrossCheck
  <2>1. checked' = records[ReloadSlot] /\ Failures(checked') = {}
    BY <1>1, FailingStage DEF CrossCheck, Stages
  <2>2. UNCHANGED <<record, validated>>
    BY <1>1 DEF CrossCheck
  <2> QED
    BY <2>1, <2>2, HashesCompared
<1>2. CASE UNCHANGED vars \/ Produce
  BY <1>2 DEF ReplayHashesAgree, vars, Produce, AppendLine, WriteRecord
<1>3. ASSUME Next, ~CrossCheck, ~Produce PROVE FALSE
  BY <1>3 DEF Next, Step, Start, Discover, List, Read, Check, GenDiscover, GenList, GenRead,
     GenHashInput, LoadRecord, GenRaise, HashLog, PrimaryBytes, OpenOut, WritePacket, ValidatePacket,
     Exit, Interrupt, Stages
<1> QED
  BY <1>1, <1>2, <1>3

\* An OK of validate-chain means that the record whose hash is in the packet
\* (run_evidence.py:625-629), the record re-read for the cross-checks
\* (validate_chain.py:393-396) and the first pipeline.start event carry the same
\* replay hashes, even if the record was rewritten in between.
THEOREM ReplayHashesAlwaysAgree == Spec => []ReplayHashesAgree
<1>1. Init => ReplayHashesAgree
  BY DEF Init, ReplayHashesAgree, Passed
<1>2. IInv /\ ReplayHashesAgree /\ [Next]_vars => ReplayHashesAgree'
  BY HashesStep DEF IInv
<1> QED
  BY <1>1, <1>2, InductiveInvariant, PTL DEF Spec

-----------------------------------------------------------------------------
(* What validate-chain has read when it hashes the ledger.                 *)

\* The primary file is validated before it is hashed, and nothing else is.
Hashing ==
  /\ pc = "read" => primary \in todo \cup DOMAIN validated
  /\ \/ pc \in {"check", "gen_discover", "gen_list", "gen_read", "gen_hash"} \cup Generated
     \/ Answered
     => (cmd.name = "chain" => primary \in DOMAIN validated)
  /\ pc \in {"gen_list", "gen_read", "gen_hash"} \cup Generated \/ Answered =>
       (cmd.name = "chain" => files = {primary})
  /\ pc \in {"gen_read", "gen_hash"} \cup Generated \/ Answered =>
       (cmd.name = "chain" => DOMAIN parsed \subseteq {primary})
  /\ pc \in {"open", "write", "validate", "cross_check"} \/ Answered =>
       (cmd.name = "chain" => Prefix(validated[primary], logHash))

LEMMA HashingStep ==
  ASSUME TypeOK, Control, Order, Hashing, [Next]_vars
  PROVE  Hashing'
<1> USE DEF Goto, End, reads, results, store, Generated, Answered
<1>1. ASSUME UNCHANGED <<cmd, primary, files, validated, parsed, logHash>>,
             \/ pc' = pc /\ verdict' = verdict /\ todo' = todo
             \/ pc' \in {"idle", "discover", "list"}
             \/ pc' = "exit" /\ verdict' # "ok"
             \/ pc' = "gen_discover" /\ pc = "check"
             \/ pc' \in {"gen_hash", "load_record"} /\ pc = "gen_hash"
             \/ pc' = "hash_log" /\ pc = "load_record"
             \/ pc' = "write" /\ pc = "open"
             \/ pc' = "validate" /\ pc = "write"
             \/ pc' \in {"cross_check", "exit"} /\ pc = "validate"
             \/ pc' = "exit" /\ pc = "cross_check"
      PROVE  Hashing'
  BY <1>1 DEF Hashing
<1>2. ASSUME NEW c \in Commands, Start(c) PROVE Hashing'
  BY <1>2, CommandFields DEF Start, Hashing
<1>3. CASE Discover
  BY <1>3 DEF Discover, Hashing
<1>4. CASE List
  <2>1. primary \in Files /\ Exists(primary) /\ cmd \in Commands
        /\ (cmd.target \in Files => primary = cmd.target)
    BY <1>4 DEF List, Control, TypeOK
  <2>2. primary \in Discovered(cmd.target)
    BY <2>1, CommandFields, DiscoveredFiles
  <2> QED
    BY <1>4, <2>2 DEF List, Hashing
<1>5. CASE Read
  <2>1. CASE Decodes(First(todo))
    <3>1. /\ pc = "read" /\ pc' = (IF todo' = {} THEN "check" ELSE "read")
          /\ validated' = Extend(validated, First(todo)) /\ todo' = todo \ {First(todo)}
          /\ primary' = primary
      BY <1>5, <2>1 DEF Read
    <3>2. DOMAIN validated' = DOMAIN validated \cup {First(todo)}
      BY <3>1 DEF Extend
    <3> QED
      BY <3>1, <3>2 DEF Hashing
  <2>2. CASE ~Decodes(First(todo))
    BY <1>1, <1>5, <2>2 DEF Read
  <2> QED
    BY <2>1, <2>2
<1>6. CASE Check
  BY <1>1, <1>6 DEF Check, Stages
<1>7. CASE GenDiscover
  <2>1. CASE cmd.name = "chain"
    <3>1. Discovered(Source) = {primary}
      BY <1>7, <2>1, DiscoveredFiles DEF GenDiscover, Control, Source
    <3> QED
      BY <1>7, <2>1, <3>1 DEF GenDiscover, Hashing
  <2>2. CASE cmd.name # "chain"
    BY <1>7, <2>2 DEF GenDiscover, Hashing
  <2> QED
    BY <2>1, <2>2
<1>8. CASE GenList
  <2>1. DOMAIN parsed = {}
    BY <1>8 DEF GenList, Order
  <2> QED
    BY <1>8, <2>1 DEF GenList, Hashing
<1>9. CASE GenRead
  <2>1. CASE Decodes(First(todo))
    <3>1. /\ pc = "gen_read" /\ pc' \in {"gen_read", "gen_hash"}
          /\ UNCHANGED <<cmd, primary, files, validated>>
          /\ parsed' = Extend(parsed, First(todo))
      BY <1>9, <2>1 DEF GenRead
    <3>2. First(todo) \in todo
      BY <3>1, FirstIsMember DEF Control, TypeOK
    <3>3. cmd.name = "chain" => First(todo) = primary
      BY <3>1, <3>2 DEF Control
    <3>4. DOMAIN parsed' = DOMAIN parsed \cup {First(todo)}
      BY <3>1 DEF Extend
    <3> QED
      BY <3>1, <3>3, <3>4 DEF Hashing
  <2>2. CASE ~Decodes(First(todo))
    BY <1>1, <1>9, <2>2 DEF GenRead, GenRaise, Stages
  <2> QED
    BY <2>1, <2>2
<1>10. CASE GenHashInput
  BY <1>1, <1>10 DEF GenHashInput
<1>11. CASE LoadRecord
  BY <1>1, <1>11 DEF LoadRecord, GenRaise, Stages
<1>12. CASE HashLog
  <2>1. /\ pc = "hash_log" /\ pc' = "open" /\ logHash' = ledger[First(files)]
        /\ UNCHANGED <<cmd, primary, files, validated, parsed>>
    BY <1>12 DEF HashLog, PrimaryBytes
  <2>2. ASSUME cmd.name = "chain" PROVE Prefix(validated[primary], logHash')
    <3>1. files = {primary} /\ primary \in DOMAIN validated /\ primary \in Files
      BY <2>1, <2>2 DEF Hashing, Control
    <3>2. First(files) = primary
      BY <3>1, FirstIsMember
    <3>3. Prefix(validated[primary], ledger[primary])
      BY <3>1 DEF Order, Earlier, TypeOK
    <3> QED
      BY <2>1, <3>2, <3>3
  <2> QED
    BY <2>1, <2>2 DEF Hashing
<1>13. CASE OpenOut \/ WritePacket
  BY <1>1, <1>13 DEF OpenOut, WritePacket
<1>14. CASE ValidatePacket
  BY <1>1, <1>14 DEF ValidatePacket, GenRaise
<1>15. CASE CrossCheck
  BY <1>1, <1>15 DEF CrossCheck
<1>16. CASE Exit \/ Interrupt \/ UNCHANGED vars \/ Produce
  BY <1>1, <1>16 DEF Exit, Interrupt, vars, Produce, AppendLine, WriteRecord
<1> QED
  BY <1>2, <1>3, <1>4, <1>5, <1>6, <1>7, <1>8, <1>9, <1>10, <1>11, <1>12, <1>13, <1>14, <1>15,
     <1>16 DEF Next, Step

LEMMA HashingHolds == Spec => [](IInv /\ Hashing)
<1>1. Init => Hashing
  BY DEF Init, Hashing, Answered, Generated
<1>2. IInv /\ Hashing /\ [Next]_vars => Hashing'
  BY HashingStep DEF IInv
<1> QED
  BY <1>1, <1>2, InductiveInvariant, PTL DEF Spec

\* What validate-chain hashes is one file, it has validated that file, and a
\* producer can only have appended to it since (validate_chain.py:344-360,
\* run_evidence.py:639).
THEOREM HashedAlwaysValidated == Spec => []HashedLedgerWasValidated
<1>1. IInv /\ Hashing => HashedLedgerWasValidated
  BY DEF HashedLedgerWasValidated, Hashing, Passed, Answered
<1> QED
  BY <1>1, HashingHolds, PTL

-----------------------------------------------------------------------------
(* What an OK of validate-chain vouches for.                               *)

\* While producers are quiet, what was read is what is there.
Quiet ==
  ~Concurrent /\ pc # "idle" =>
    /\ \A f \in DOMAIN validated : validated[f] = ledger[f]
    /\ \A f \in DOMAIN parsed : parsed[f] = ledger[f]
    /\ pc \in {"open", "write", "validate", "cross_check"} \/ Answered => logHash = ledger[First(files)]
    /\ pc \in {"hash_log", "open", "write", "validate", "cross_check"} \/ Answered =>
         record = records[RecordSlot]
    /\ Answered /\ cmd.name = "chain" => checked = records[ReloadSlot]

\* The checks that were passed.
Established ==
  /\ /\ pc \in {"gen_discover", "gen_list", "gen_read", "gen_hash"} \cup Generated \/ Answered
     /\ cmd.name = "chain"
     => ~Malformed(validated) /\ ~Nonconforming(validated)
  /\ pc = "cross_check" \/ Answered => Packet.conforms
  /\ Answered /\ cmd.name = "chain" => Failures(checked) = {}

LEMMA QuietStep ==
  ASSUME TypeOK, Control, Order, Quiet, [Next]_vars
  PROVE  Quiet'
<1> USE DEF Goto, End, reads, results, store, Generated, Answered
<1> SUFFICES ASSUME ~Concurrent PROVE Quiet'
  BY DEF Quiet
<1>1. ASSUME UNCHANGED <<store, cmd, files, validated, parsed, logHash, record, checked>>,
             \/ pc' = pc /\ verdict' = verdict
             \/ pc' \in {"list", "read", "check", "gen_discover", "gen_list", "gen_read",
                         "gen_hash", "load_record"} /\ pc # "idle"
             \/ pc' = "exit" /\ verdict' # "ok" /\ pc # "idle"
             \/ pc' = "write" /\ pc = "open"
             \/ pc' = "validate" /\ pc = "write"
             \/ pc' \in {"cross_check", "exit"} /\ pc = "validate" /\ (pc' = "exit" => cmd.name # "chain")
      PROVE  Quiet'
  BY <1>1 DEF Quiet, RecordSlot, ReloadSlot
<1>2. ASSUME NEW c \in Commands, Start(c) PROVE Quiet'
  BY <1>2 DEF Start, Quiet, EmptyView
<1>3. CASE Produce
  BY <1>3 DEF Produce, AppendLine, WriteRecord, MayWrite, Quiet
<1>4. CASE Exit \/ Interrupt
  BY <1>4 DEF Exit, Interrupt, Quiet
<1>5. CASE UNCHANGED vars
  BY <1>1, <1>5 DEF vars
<1>6. CASE Discover
  BY <1>1, <1>6 DEF Discover
<1>7. CASE List
  BY <1>1, <1>7 DEF List
<1>8. CASE Read
  <2>1. First(todo) \in Files
    BY <1>8, FirstIsMember DEF Read, Control, TypeOK
  <2>2. \A f \in DOMAIN validated' : validated'[f] = ledger[f]
    BY <1>8 DEF Read, Extend, Quiet
  <2> QED
    BY <1>8, <2>2 DEF Read, Quiet
<1>9. CASE Check
  BY <1>1, <1>9 DEF Check, Stages
<1>10. CASE GenDiscover
  BY <1>10 DEF GenDiscover, Quiet
<1>11. CASE GenList
  BY <1>1, <1>11 DEF GenList
<1>12. CASE GenRead
  <2>1. \A f \in DOMAIN parsed' : parsed'[f] = ledger[f]
    BY <1>12 DEF GenRead, Extend, Quiet
  <2> QED
    BY <1>12, <2>1 DEF GenRead, GenRaise, Quiet, Stages
<1>13. CASE GenHashInput
  BY <1>1, <1>13 DEF GenHashInput
<1>14. CASE LoadRecord
  <2>1. CASE ~AcceptsRecord
    BY <1>1, <1>14, <2>1 DEF LoadRecord, GenRaise, Stages
  <2>2. CASE AcceptsRecord
    BY <1>14, <2>2 DEF LoadRecord, GenRaise, RecordSlot, Quiet
  <2> QED
    BY <2>1, <2>2
<1>15. CASE HashLog
  BY <1>15 DEF HashLog, PrimaryBytes, RecordSlot, Quiet
<1>16. CASE OpenOut \/ WritePacket
  BY <1>1, <1>16 DEF OpenOut, WritePacket
<1>17. CASE ValidatePacket
  BY <1>1, <1>17 DEF ValidatePacket, GenRaise, Stages
<1>18. CASE CrossCheck
  <2>1. /\ pc = "cross_check" /\ pc' = "exit"
        /\ UNCHANGED <<store, cmd, files, validated, parsed, logHash, record>>
    BY <1>18 DEF CrossCheck
  <2>2. verdict' = "ok" => checked' = records[ReloadSlot]
    BY <1>18 DEF CrossCheck
  <2> QED
    BY <2>1, <2>2 DEF Quiet, RecordSlot, ReloadSlot
<1> QED
  BY <1>2, <1>3, <1>4, <1>5, <1>6, <1>7, <1>8, <1>9, <1>10, <1>11, <1>12, <1>13, <1>14, <1>15,
     <1>16, <1>17, <1>18 DEF Next, Step

LEMMA EstablishedStep ==
  ASSUME TypeOK, Control, Order, Established, [Next]_vars
  PROVE  Established'
<1> USE DEF Goto, End, reads, results, store, Generated, Answered
<1>1. ASSUME UNCHANGED <<cmd, validated>>,
             \/ pc' = "exit" /\ verdict' # "ok"
             \/ pc' \in {"idle", "discover", "list", "read", "check"}
      PROVE  Established'
  BY <1>1 DEF Established
<1>2. ASSUME UNCHANGED <<cmd, validated>>,
             pc \in {"gen_discover", "gen_list", "gen_read", "gen_hash"} \cup Generated,
             pc' \in {"gen_list", "gen_read", "gen_hash", "load_record", "hash_log",
                    "open", "write", "validate"}
      PROVE  Established'
  BY <1>2 DEF Established, Malformed, Nonconforming
<1>3. ASSUME UNCHANGED <<cmd, reads>>, pc' = pc, verdict' = verdict PROVE Established'
  BY <1>3 DEF Established, Malformed, Nonconforming, Packet, Failures, Passes, HashesAgree,
     SummaryBacked, Declared, Carries
<1>4. ASSUME NEW c \in Commands, Start(c) PROVE Established'
  BY <1>4 DEF Start, Established
<1>5. CASE Produce \/ UNCHANGED vars
  BY <1>3, <1>5 DEF Produce, AppendLine, WriteRecord, vars
<1>6. CASE Exit \/ Interrupt
  BY <1>6 DEF Exit, Interrupt, Established
<1>7. CASE Discover
  BY <1>7 DEF Discover, Established
<1>8. CASE List
  BY <1>1, <1>8 DEF List
<1>9. CASE Read
  BY <1>9 DEF Read, Established
<1>10. CASE Check
  BY <1>10 DEF Check, Stages, Established, Malformed, Nonconforming
<1>11. CASE GenDiscover
  BY <1>1, <1>2, <1>11 DEF GenDiscover
<1>12. CASE GenList
  BY <1>2, <1>12 DEF GenList
<1>13. CASE GenRead
  BY <1>1, <1>2, <1>13 DEF GenRead, GenRaise, Stages
<1>14. CASE GenHashInput
  BY <1>2, <1>14 DEF GenHashInput
<1>15. CASE LoadRecord
  BY <1>1, <1>2, <1>15 DEF LoadRecord, GenRaise, Stages
<1>16. CASE HashLog
  BY <1>2, <1>16 DEF HashLog, PrimaryBytes
<1>17. CASE OpenOut \/ WritePacket
  BY <1>2, <1>17 DEF OpenOut, WritePacket
<1>18. CASE ValidatePacket
  <2>1. CASE PacketPasses
    <3>1. Packet' = Packet
      BY <1>18 DEF ValidatePacket, Packet
    <3>2. Packet.conforms /\ Packet'.conforms
      BY <2>1, <3>1 DEF PacketPasses
    <3> QED
      BY <1>18, <2>1, <3>2 DEF ValidatePacket, Established, Malformed, Nonconforming
  <2>2. CASE ~PacketPasses
    BY <1>1, <1>18, <2>2 DEF ValidatePacket, GenRaise, Stages
  <2> QED
    BY <2>1, <2>2
<1>19. CASE CrossCheck
  <2>1. /\ pc = "cross_check" /\ pc' = "exit"
        /\ UNCHANGED <<cmd, primary, validated, parsed, inputs, record, logHash>>
    BY <1>19 DEF CrossCheck
  <2>2. verdict' = "ok" => Failures(checked') = {}
    BY <1>19, FailingStage DEF CrossCheck, Stages
  <2>3. Packet' = Packet
    BY <2>1 DEF Packet
  <2>4. PICK rec : rec = checked'
    OBVIOUS
  <2>5. Failures(rec)' = Failures(rec)
    BY <2>1, <2>3 DEF Failures, Passes, HashesAgree, SummaryBacked, Declared, Carries
  <2>6. verdict' = "ok" => Failures(checked)' = {}
    BY <2>2, <2>4, <2>5
  <2> QED
    BY <2>1, <2>3, <2>6 DEF Established, Malformed, Nonconforming
<1> QED
  BY <1>4, <1>5, <1>6, <1>7, <1>8, <1>9, <1>10, <1>11, <1>12, <1>13, <1>14, <1>15,
     <1>16, <1>17, <1>18, <1>19 DEF Next, Step

LEMMA VouchingHolds == Spec => [](IInv /\ Hashing /\ Quiet /\ Established)
<1>1. Init => Quiet /\ Established
  BY DEF Init, Quiet, Established, Answered, Generated
<1>2. IInv /\ Quiet /\ [Next]_vars => Quiet'
  BY QuietStep DEF IInv
<1>3. IInv /\ Established /\ [Next]_vars => Established'
  BY EstablishedStep DEF IInv
<1> QED
  BY <1>1, <1>2, <1>3, HashingHolds, PTL DEF Spec

\* Views of the same files with the same contents have the same lines.
LEMMA SameLines ==
  ASSUME NEW v, NEW w, DOMAIN v = DOMAIN w, \A f \in DOMAIN v : v[f] = w[f]
  PROVE  LinesOf(v) = LinesOf(w)
BY DEF LinesOf

\* The record hashed is the one checked: generator and validator find the same
\* run id by their two rules.
LEMMA SameSlot ==
  ASSUME IInv, Answered, cmd.name = "chain", DOMAIN validated \subseteq DOMAIN parsed
  PROVE  ReloadSlot = RecordSlot /\ EventIds(parsed) = {record.id}
<1>1. EnvelopeIds(validated) \subseteq EventIds(parsed)
  BY EnvelopeIdsSeen DEF IInv, Order
<1>2. EventIds(parsed) \subseteq {record.id} /\ EnvelopeIds(validated) # {}
  BY DEF IInv, Identity
<1>3. EnvelopeIds(validated) = EventIds(parsed)
  BY <1>1, <1>2
<1> QED
  BY <1>1, <1>2, <1>3 DEF ReloadSlot, RecordSlot

\* An OK for one ledger file, from a validator that reads the ledger four times
\* and the Run record twice, vouches for the bytes whose hashes it reports, as
\* long as nothing is written meanwhile (validate_chain.py:344-406,
\* run_evidence.py:610-730).
THEOREM OkAlwaysVouches == Spec => []OkVouchesForPacket
<1>1. IInv /\ Hashing /\ Quiet /\ Established => OkVouchesForPacket
  <2> DEFINE log == [f \in {primary} |-> Packet.event_log_hash]
  <2> SUFFICES ASSUME IInv, Hashing, Quiet, Established,
                      Passed("chain"), cmd.target \in Files, ~Concurrent
               PROVE  /\ \A l \in LinesOf(log) : l.json /\ l.valid /\ l.conforms
                      /\ EventIds(log) = {Packet.run_id}
                      /\ SummaryBacked(Packet.run_record_hash, log)
                      /\ Packet.gate_results = {l \in Events(log) : IsGate(l)}
    BY DEF OkVouchesForPacket
  <2>1. Answered /\ cmd.name = "chain" /\ pc # "idle"
    BY DEF Passed, Answered
  <2>2. /\ primary \in DOMAIN validated /\ files = {primary} /\ DOMAIN parsed \subseteq {primary}
    BY <2>1 DEF Hashing
  <2>3. DOMAIN validated = {primary} /\ DOMAIN parsed = {primary} /\ primary \in Files
    BY <2>1, <2>2 DEF IInv, Identity, Control
  <2>4. /\ validated[primary] = ledger[primary] /\ parsed[primary] = ledger[primary]
        /\ logHash = ledger[First(files)] /\ record = records[RecordSlot]
        /\ checked = records[ReloadSlot]
    BY <2>1, <2>3 DEF Quiet
  <2>5. First(files) = primary
    BY <2>2, <2>3, FirstIsMember
  <2>6. DOMAIN log = {primary} /\ log[primary] = ledger[primary]
    BY <2>4, <2>5 DEF Packet
  <2> HIDE DEF log
  <2>7. LinesOf(log) = LinesOf(validated) /\ LinesOf(log) = LinesOf(parsed)
    BY <2>3, <2>4, <2>6, SameLines
  <2>8. Events(log) = Events(parsed)
    BY <2>7 DEF Events
  <2>9. checked = record /\ EventIds(parsed) = {record.id}
    BY <2>1, <2>3, <2>4, SameSlot
  <2>10. \A l \in LinesOf(log) : l.json /\ l.valid
    BY <2>1, <2>7 DEF Established, Malformed, Nonconforming
  <2>11. \A l \in LinesOf(log) : l.conforms
    BY <2>1, <2>8, <2>10 DEF Established, Packet, Events
  <2>12. EventIds(log) = {Packet.run_id}
    BY <2>8, <2>9 DEF EventIds, Packet
  <2>13. SummaryBacked(record, log)
    <3>1. SummaryBacked(record, validated)
      <4>1. Failures(record) = {}
        BY <2>1, <2>9 DEF Established
      <4>2. 3 \in DOMAIN CrossChecks /\ CrossChecks[3] = "cross-check.gate_results_summary"
        BY DEF CrossChecks
      <4>3. Passes("cross-check.gate_results_summary", record)
        BY <4>1, <4>2 DEF Failures
      <4> QED
        BY <4>3 DEF Passes
    <3> QED
      BY <2>7, <3>1 DEF SummaryBacked, LedgerGates, Typed
  <2>14. Packet.run_record_hash = record
         /\ Packet.gate_results = {l \in Events(parsed) : IsGate(l)}
    BY DEF Packet
  <2> QED
    BY <2>8, <2>10, <2>11, <2>12, <2>13, <2>14
<1> QED
  BY <1>1, VouchingHolds, PTL

-----------------------------------------------------------------------------
(* What the commands leave behind.                                         *)

\* How commands end, and what an evidence command may end with.
Outcomes ==
  /\ pc = "exit" => verdict \in Stages \cup {"ok", "uncaught"}
  /\ pc = "exit" /\ cmd.name = "evidence" => verdict \in {"ok", "uncaught"}

Ending == [cmd : Commands, verdict : Stages \cup {"ok", "uncaught", "killed"}, raised : BOOLEAN]

LEMMA OutcomesStep ==
  ASSUME TypeOK, Control, Outcomes, [Next]_vars
  PROVE  Outcomes'
<1> USE DEF Goto, End, reads, results, store, Generated, Answered, Outcomes
<1>1. ASSUME NEW c \in Commands, Start(c) PROVE Outcomes'
  BY <1>1 DEF Start
<1>2. CASE Produce \/ UNCHANGED vars \/ Exit \/ Interrupt
  BY <1>2 DEF Produce, AppendLine, WriteRecord, vars, Exit, Interrupt
<1>3. CASE Discover \/ List \/ Read
  BY <1>3 DEF Discover, List, Read, Control, Stages
<1>4. CASE Check
  BY <1>4 DEF Check, Control, Stages
<1>5. CASE GenDiscover \/ GenList \/ GenRead \/ GenHashInput
  BY <1>5, CommandFields DEF GenDiscover, GenList, GenRead, GenRaise, GenHashInput, Stages, TypeOK
<1>6. CASE LoadRecord
  BY <1>6, CommandFields DEF LoadRecord, GenRaise, AcceptsRecord, Stages, TypeOK
<1>7. CASE HashLog \/ OpenOut \/ WritePacket
  BY <1>7 DEF HashLog, PrimaryBytes, OpenOut, WritePacket
<1>8. CASE ValidatePacket
  BY <1>8, CommandFields DEF ValidatePacket, GenRaise, Stages, TypeOK
<1>9. CASE CrossCheck
  <2>1. verdict' \in Stages \cup {"ok", "uncaught"}
    BY <1>9, FailingStage DEF CrossCheck
  <2> QED
    BY <1>9, <2>1 DEF CrossCheck, Control
<1> QED
  BY <1>1, <1>2, <1>3, <1>4, <1>5, <1>6, <1>7, <1>8, <1>9 DEF Next, Step

\* Has an evidence command failed, with no success since?
Failed(h) == h.cmd.name = "evidence" /\ h.verdict \in {"uncaught", "killed"}
Succeeded(h) == h.cmd.name = "evidence" /\ h.verdict = "ok"
FailedSince(ended) ==
  \E i \in 1..Len(ended) : Failed(ended[i]) /\ \A j \in i..Len(ended) : ~Succeeded(ended[j])

LEMMA OneMoreEnded ==
  ASSUME NEW ended \in Seq(Ending), NEW h \in Ending
  PROVE  /\ Append(ended, h) \in Seq(Ending)
         /\ Failed(h) => FailedSince(Append(ended, h))
         /\ FailedSince(ended) /\ ~Succeeded(h) => FailedSince(Append(ended, h))
<1> DEFINE more == Append(ended, h)
<1>1. /\ more \in Seq(Ending) /\ Len(more) = Len(ended) + 1 /\ Len(ended) \in Nat
      /\ more[Len(ended) + 1] = h /\ \A i \in 1..Len(ended) : more[i] = ended[i]
  OBVIOUS
<1> HIDE DEF more
<1>2. ASSUME Failed(h) PROVE FailedSince(more)
  <2>1. Len(ended) + 1 \in 1..Len(more) /\ \A j \in (Len(ended) + 1)..Len(more) : j = Len(ended) + 1
    BY <1>1
  <2>2. ~Succeeded(h)
    BY <1>2 DEF Failed, Succeeded
  <2> QED
    BY <1>1, <1>2, <2>1, <2>2 DEF FailedSince
<1>3. ASSUME FailedSince(ended), ~Succeeded(h) PROVE FailedSince(more)
  <2>1. PICK i \in 1..Len(ended) :
          Failed(ended[i]) /\ \A j \in i..Len(ended) : ~Succeeded(ended[j])
    BY <1>3 DEF FailedSince
  <2>2. i \in 1..Len(more) /\ Failed(more[i])
    BY <1>1, <2>1
  <2>3. ASSUME NEW j \in i..Len(more) PROVE ~Succeeded(more[j])
    <3>1. (j \in i..Len(ended) /\ j \in 1..Len(ended)) \/ j = Len(ended) + 1
      BY <1>1, <2>1
    <3> QED
      BY <1>1, <1>3, <2>1, <3>1
  <2> QED
    BY <2>2, <2>3 DEF FailedSince
<1> QED
  BY <1>1, <1>2, <1>3 DEF more

\* The packet at OUT on its way.
Leaving ==
  /\ history \in Seq(Ending)
  /\ pc = "validate" /\ cmd.name = "evidence" => out = Packet
  /\ Answered /\ cmd.name = "evidence" => out = Packet /\ out.conforms
  /\ out # None /\ ~out.conforms =>
       \/ FailedSince(history)
       \/ /\ cmd.name = "evidence"
          /\ pc \in {"write", "validate"} \/ (pc = "exit" /\ verdict = "uncaught")

LEMMA EndedAsType ==
  ASSUME cmd \in Commands, NEW how \in Stages \cup {"ok", "uncaught", "killed"}, NEW raised \in BOOLEAN
  PROVE  /\ EndedAs(how, raised) \in Ending
         /\ EndedAs(how, raised).cmd = cmd /\ EndedAs(how, raised).verdict = how
         /\ EndedAs(how, raised).raised = raised
BY DEF EndedAs, Ending

\* The command that runs leaves OUT as it is when it ends.
LEMMA LeavingAtEnd ==
  ASSUME TypeOK, Outcomes, Leaving, pc # "idle", pc' = "idle", UNCHANGED <<cmd, out>>,
         NEW how \in Stages \cup {"ok", "uncaught", "killed"}, NEW raised \in BOOLEAN,
         how = "killed" \/ (pc = "exit" /\ how = verdict),
         history' = Append(history, EndedAs(how, raised))
  PROVE  Leaving'
<1>1. PICK h \in Ending : h = EndedAs(how, raised)
  BY EndedAsType DEF TypeOK
<1>2. history' = Append(history, h) /\ h.cmd = cmd /\ h.verdict = how
  BY <1>1, EndedAsType DEF TypeOK
<1>3. /\ history' \in Seq(Ending)
      /\ Failed(h) => FailedSince(history')
      /\ FailedSince(history) /\ ~Succeeded(h) => FailedSince(history')
  BY <1>2, OneMoreEnded DEF Leaving
<1>4. ASSUME out # None, ~out.conforms PROVE FailedSince(history')
  <2>1. ~Succeeded(h)
    BY <1>2, <1>4 DEF Leaving, Succeeded, Answered
  <2>2. FailedSince(history) \/ Failed(h)
    BY <1>2, <1>4 DEF Leaving, Failed
  <2> QED
    BY <1>3, <2>1, <2>2
<1> QED
  BY <1>3, <1>4 DEF Leaving, Answered

LEMMA LeavingStep ==
  ASSUME TypeOK, Control, Outcomes, Leaving, [Next]_vars
  PROVE  Leaving'
<1> USE DEF Goto, End, reads, results, store, Answered
<1>1. ASSUME UNCHANGED <<cmd, out, history>>, pc \notin {"write", "validate", "exit"},
             pc' \notin {"write", "validate"}, ~(pc' = "exit" /\ verdict' = "ok")
      PROVE  Leaving'
  BY <1>1 DEF Leaving
<1>2. ASSUME UNCHANGED <<cmd, reads, pc, verdict, out, history>> PROVE Leaving'
  <2>1. Packet' = Packet
    BY <1>2 DEF Packet
  <2> QED
    BY <1>2, <2>1 DEF Leaving
<1>3. ASSUME NEW c \in Commands, Start(c) PROVE Leaving'
  BY <1>3 DEF Start, Leaving
<1>4. CASE Produce \/ UNCHANGED vars
  BY <1>2, <1>4 DEF Produce, AppendLine, WriteRecord, vars
<1>5. CASE Exit
  <2>1. /\ pc = "exit" /\ pc' = "idle" /\ UNCHANGED <<cmd, out>>
        /\ verdict \in Stages \cup {"ok", "uncaught", "killed"}
        /\ \E raised \in BOOLEAN : history' = Append(history, EndedAs(verdict, raised))
    BY <1>5 DEF Exit, Outcomes
  <2> QED
    BY <2>1, LeavingAtEnd
<1>6. CASE Interrupt
  <2>1. /\ pc # "idle" /\ pc' = "idle" /\ UNCHANGED <<cmd, out>>
        /\ history' = Append(history, EndedAs("killed", FALSE))
    BY <1>6 DEF Interrupt
  <2> QED
    BY <2>1, LeavingAtEnd
<1>7. CASE Discover \/ List \/ Read \/ Check
  BY <1>1, <1>7 DEF Discover, List, Read, Check, Stages
<1>8. CASE GenDiscover \/ GenList \/ GenRead \/ GenHashInput
  BY <1>1, <1>8 DEF GenDiscover, GenList, GenRead, GenRaise, GenHashInput, Stages
<1>9. CASE LoadRecord \/ HashLog
  BY <1>1, <1>9 DEF LoadRecord, GenRaise, HashLog, PrimaryBytes, Stages
<1>10. CASE OpenOut
  BY <1>10 DEF OpenOut, Leaving
<1>11. CASE WritePacket
  <2>1. Packet' = Packet /\ pc = "write" /\ pc' = "validate" /\ cmd' = cmd /\ history' = history
    BY <1>11 DEF WritePacket, Packet
  <2>2. out' = IF cmd.name = "evidence" THEN Packet ELSE out
    BY <1>11 DEF WritePacket
  <2> QED
    BY <2>1, <2>2 DEF Leaving
<1>12. CASE ValidatePacket
  <2>1. Packet' = Packet
    BY <1>12 DEF ValidatePacket, Packet
  <2> QED
    BY <1>12, <2>1, CommandFields DEF ValidatePacket, PacketPasses, GenRaise, Leaving, Stages, TypeOK
<1>13. CASE CrossCheck
  BY <1>13 DEF CrossCheck, Control, Leaving
<1> QED
  BY <1>3, <1>4, <1>5, <1>6, <1>7, <1>8, <1>9, <1>10, <1>11, <1>12, <1>13 DEF Next, Step

LEMMA LeavingHolds == Spec => [](IInv /\ Outcomes /\ Leaving)
<1>1. Init => Outcomes /\ Leaving
  BY DEF Init, Outcomes, Leaving, Answered
<1>2. IInv /\ Outcomes /\ [Next]_vars => Outcomes'
  BY OutcomesStep DEF IInv
<1>3. IInv /\ Outcomes /\ Leaving /\ [Next]_vars => Leaving'
  BY LeavingStep DEF IInv
<1> QED
  BY <1>1, <1>2, <1>3, InductiveInvariant, PTL DEF Spec

\* The packet is written before it is validated (run_evidence.py:736-749), yet
\* one that the schema refuses is there only after a failed or killed evidence
\* command.
THEOREM BadPacketsTellOfFailure == Spec => []BadPacketOnlyAfterFailure
<1>1. Leaving => BadPacketOnlyAfterFailure
  BY DEF Leaving, BadPacketOnlyAfterFailure, FailedSince, Failed, Succeeded
<1> QED
  BY <1>1, LeavingHolds, PTL

-----------------------------------------------------------------------------
(* The audit log.                                                          *)

\* The k-th entry of log is the last of an evidence command, and names packet.
LastTold(log, k, path, packet) ==
  /\ log[k].command = "evidence" /\ log[k].run_id = packet.run_id /\ log[k].ledger_path = path
  /\ \A m \in (k + 1)..Len(log) : log[m].command # "evidence"

\* LogTellsOfPacket, for as long as no evidence command is at work.
Telling ==
  /\ \E S : audit \in Seq(S)
  /\ pc = "idle" \/ cmd.name # "evidence" =>
       \A i \in 1..Len(history) :
         LastWriter(i) /\ history[i].verdict = "ok" /\ ~history[i].raised =>
           out.conforms /\ \E k \in 1..Len(audit) : LastTold(audit, k, history[i].cmd.target, out)

\* An entry of another command, or half of one, changes nothing.
LEMMA StillTold ==
  ASSUME NEW S, NEW log \in Seq(S), NEW entry, entry.command # "evidence", NEW path, NEW packet,
         NEW k \in 1..Len(log), LastTold(log, k, path, packet)
  PROVE  k \in 1..Len(Append(log, entry)) /\ LastTold(Append(log, entry), k, path, packet)
<1>1. log \in Seq(S \cup {entry}) /\ entry \in S \cup {entry}
  OBVIOUS
<1>2. /\ Len(Append(log, entry)) = Len(log) + 1 /\ Len(log) \in Nat
      /\ Append(log, entry)[Len(log) + 1] = entry
      /\ \A i \in 1..Len(log) : Append(log, entry)[i] = log[i]
  BY <1>1
<1>3. PICK longer : longer = Append(log, entry)
  OBVIOUS
<1>4. /\ Len(longer) = Len(log) + 1 /\ longer[Len(log) + 1] = entry
      /\ \A i \in 1..Len(log) : longer[i] = log[i]
  BY <1>2, <1>3
<1>5. ASSUME NEW m \in (k + 1)..Len(longer) PROVE longer[m].command # "evidence"
  <2>1. (m \in (k + 1)..Len(log) /\ m \in 1..Len(log)) \/ m = Len(log) + 1
    BY <1>2, <1>4
  <2> QED
    BY <1>4, <2>1 DEF LastTold
<1>6. k \in 1..Len(longer) /\ LastTold(longer, k, path, packet)
  BY <1>2, <1>4, <1>5 DEF LastTold
<1> QED
  BY <1>3, <1>6

\* A command that is not "evidence" ends: OUT is whose it was, and the log says so.
LEMMA TellingStays ==
  ASSUME IInv, Leaving, Telling, pc # "idle", cmd.name # "evidence",
         NEW h \in Ending, h.cmd = cmd, history' = Append(history, h), out' = out,
         \/ audit' = audit
         \/ \E entry : entry.command # "evidence" /\ audit' = Append(audit, entry)
  PROVE  Telling'
<1>1. /\ history \in Seq(Ending) /\ Len(history') = Len(history) + 1 /\ Len(history) \in Nat
      /\ history'[Len(history) + 1] = h
      /\ \A i \in 1..Len(history) : history'[i] = history[i]
  BY DEF Leaving
<1>2. PICK S : audit \in Seq(S)
  BY DEF Telling
<1>3. \E T : audit' \in Seq(T)
  <2>1. CASE audit' = audit
    BY <1>2, <2>1
  <2>2. CASE \E entry : entry.command # "evidence" /\ audit' = Append(audit, entry)
    <3>1. PICK entry : audit' = Append(audit, entry)
      BY <2>2
    <3>2. audit \in Seq(S \cup {entry})
      BY <1>2
    <3>3. Append(audit, entry) \in Seq(S \cup {entry})
      BY <3>2
    <3> QED
      BY <3>1, <3>3
  <2> QED
    BY <2>1, <2>2
<1>4. ASSUME NEW i \in 1..Len(history'), LastWriter(i)', history'[i].verdict = "ok", ~history'[i].raised
      PROVE  /\ out'.conforms
             /\ \E k \in 1..Len(audit') : LastTold(audit', k, history'[i].cmd.target, out')
  <2>1. i \in 1..Len(history) /\ history'[i] = history[i]
    BY <1>1, <1>4 DEF LastWriter
  <2>2. LastWriter(i)
    <3>1. ASSUME NEW j \in (i + 1)..Len(history) PROVE history[j].cmd.name # "evidence"
      <4>1. j \in (i + 1)..Len(history') /\ history'[j] = history[j]
        BY <1>1, <2>1
      <4> QED
        BY <1>4, <4>1 DEF LastWriter
    <3> QED
      BY <1>4, <2>1, <3>1 DEF LastWriter
  <2>3. PICK k \in 1..Len(audit) : out.conforms /\ LastTold(audit, k, history[i].cmd.target, out)
    BY <1>4, <2>1, <2>2 DEF Telling
  <2>4. CASE audit' = audit
    BY <2>1, <2>3, <2>4
  <2>5. CASE \E entry : entry.command # "evidence" /\ audit' = Append(audit, entry)
    <3>1. PICK entry : entry.command # "evidence" /\ audit' = Append(audit, entry)
      BY <2>5
    <3>2. k \in 1..Len(audit') /\ LastTold(audit', k, history[i].cmd.target, out)
      BY <1>2, <2>3, <3>1, StillTold
    <3> QED
      BY <2>1, <2>3, <3>2
  <2> QED
    BY <2>4, <2>5
<1> QED
  BY <1>3, <1>4 DEF Telling

\* An evidence command ends with no success, or could not log it: nothing is promised.
LEMMA TellingNothing ==
  ASSUME IInv, Leaving, Telling, pc # "idle", cmd.name = "evidence",
         NEW h \in Ending, h.cmd = cmd, h.verdict # "ok" \/ h.raised,
         history' = Append(history, h), \E T : audit' \in Seq(T)
  PROVE  Telling'
<1>1. /\ history \in Seq(Ending) /\ Len(history') = Len(history) + 1 /\ Len(history) \in Nat
      /\ history'[Len(history) + 1] = h
  BY DEF Leaving
<1>2. ASSUME NEW i \in 1..Len(history'), LastWriter(i)', history'[i].verdict = "ok", ~history'[i].raised
      PROVE  FALSE
  <2>1. CASE i = Len(history) + 1
    BY <1>1, <1>2, <2>1
  <2>2. CASE i # Len(history) + 1
    <3>1. Len(history) + 1 \in (i + 1)..Len(history')
      BY <1>1, <1>2, <2>2
    <3> QED
      BY <1>1, <1>2, <3>1 DEF LastWriter
  <2> QED
    BY <2>1, <2>2
<1> QED
  BY <1>2 DEF Telling

\* An evidence command succeeds and logs it.
LEMMA TellingOfSuccess ==
  ASSUME IInv, Leaving, Telling, pc = "exit", verdict = "ok", cmd.name = "evidence",
         NEW h \in Ending, h.cmd = cmd, history' = Append(history, h), out' = out,
         audit' = Append(audit, Entry)
  PROVE  Telling'
<1>1. /\ history \in Seq(Ending) /\ Len(history') = Len(history) + 1 /\ Len(history) \in Nat
      /\ history'[Len(history) + 1] = h
  BY DEF Leaving
<1>2. PICK entry : entry = Entry
  OBVIOUS
<1>3. /\ entry.command = cmd.name /\ entry.ledger_path = cmd.target
      /\ entry.run_id = (IF verdict # "ok" THEN None
                         ELSE IF cmd.name = "chain" THEN TheId(EnvelopeIds(validated))
                         ELSE Packet.run_id)
  BY <1>2, Zenon DEF Entry
<1>4. entry.command = "evidence" /\ entry.run_id = out.run_id /\ out.conforms
  BY <1>3 DEF Leaving, Answered
<1>5. PICK S : audit \in Seq(S)
  BY DEF Telling
<1>6. audit \in Seq(S \cup {entry}) /\ audit' = Append(audit, entry)
  BY <1>2, <1>5
<1>7. /\ audit' \in Seq(S \cup {entry}) /\ Len(audit') = Len(audit) + 1 /\ Len(audit) \in Nat
      /\ audit'[Len(audit) + 1] = entry
  BY <1>6
<1>8. ASSUME NEW i \in 1..Len(history'), LastWriter(i)'
      PROVE  \E k \in 1..Len(audit') : LastTold(audit', k, history'[i].cmd.target, out')
  <2>1. i = Len(history) + 1
    <3>1. i # Len(history) + 1 => Len(history) + 1 \in (i + 1)..Len(history')
      BY <1>1
    <3> QED
      BY <1>1, <1>8, <3>1 DEF LastWriter
  <2>2. history'[i].cmd.target = entry.ledger_path
    BY <1>1, <1>3, <2>1
  <2>3. Len(audit') \in 1..Len(audit') /\ (Len(audit') + 1)..Len(audit') = {}
    BY <1>7
  <2>4. LastTold(audit', Len(audit'), history'[i].cmd.target, out')
    BY <1>4, <1>7, <2>2, <2>3 DEF LastTold
  <2> QED
    BY <2>3, <2>4
<1> QED
  BY <1>4, <1>7, <1>8 DEF Telling

LEMMA TellingStep ==
  ASSUME IInv, Outcomes, Leaving, Telling, [Next]_vars
  PROVE  Telling'
<1> USE DEF Goto, End, reads, results, store
<1>1. ASSUME UNCHANGED <<audit, history, out>>, pc # "idle" => cmd' = cmd, pc' = "idle" => pc = "idle"
      PROVE  Telling'
  <2>1. \A i \in 1..Len(history) : LastWriter(i)' = LastWriter(i)
    BY <1>1 DEF LastWriter
  <2> QED
    BY <1>1, <2>1 DEF Telling
<1>2. CASE Interrupt
  <2>1. /\ pc # "idle" /\ cmd \in Commands /\ UNCHANGED <<audit, out>>
        /\ history' = Append(history, EndedAs("killed", FALSE))
    BY <1>2 DEF Interrupt, IInv, TypeOK
  <2>2. PICK h \in Ending : h = EndedAs("killed", FALSE)
    BY <2>1, EndedAsType
  <2>3. history' = Append(history, h) /\ h.cmd = cmd /\ h.verdict = "killed"
    BY <2>1, <2>2, EndedAsType
  <2>4. \E T : audit' \in Seq(T)
    BY <2>1 DEF Telling
  <2> QED
    BY <2>1, <2>3, <2>4, TellingStays, TellingNothing
<1>3. CASE Exit
  <2>1. /\ pc = "exit" /\ cmd \in Commands /\ out' = out
        /\ verdict \in Stages \cup {"ok", "uncaught", "killed"}
    BY <1>3 DEF Exit, IInv, TypeOK, Outcomes
  <2>2. Entry.command = cmd.name
    BY Zenon DEF Entry
  <2>3. Cut.command # "evidence"
    BY DEF Cut
  <2>4. PICK raised \in BOOLEAN :
          /\ history' = Append(history, EndedAs(verdict, raised))
          /\ ~raised => audit' = IF Audited THEN Append(audit, Entry) ELSE audit
          /\ audit' \in {audit, Append(audit, Entry), Append(audit, Cut)}
    BY <1>3 DEF Exit
  <2>5. PICK h \in Ending : h = EndedAs(verdict, raised)
    BY <2>1, EndedAsType
  <2>6. history' = Append(history, h) /\ h.cmd = cmd /\ h.verdict = verdict /\ h.raised = raised
    BY <2>1, <2>4, <2>5, EndedAsType
  <2>7. CASE cmd.name # "evidence"
    <3>1. \/ audit' = audit
          \/ \E entry : entry.command # "evidence" /\ audit' = Append(audit, entry)
      BY <2>2, <2>3, <2>4, <2>7
    <3> QED
      BY <2>1, <2>6, <2>7, <3>1, TellingStays
  <2>8. CASE cmd.name = "evidence" /\ verdict = "ok" /\ ~raised
    <3>1. audit' = Append(audit, Entry)
      BY <2>4, <2>8 DEF Audited
    <3> QED
      BY <2>1, <2>6, <2>8, <3>1, TellingOfSuccess
  <2>9. CASE cmd.name = "evidence" /\ (verdict # "ok" \/ raised)
    <3>1. \E T : audit' \in Seq(T)
      <4>1. PICK S : audit \in Seq(S)
        BY DEF Telling
      <4>2. ASSUME NEW entry PROVE Append(audit, entry) \in Seq(S \cup {entry})
        <5>1. audit \in Seq(S \cup {entry})
          BY <4>1
        <5> QED
          BY <5>1
      <4> QED
        BY <2>4, <4>1, <4>2
    <3> QED
      BY <2>1, <2>6, <2>9, <3>1, TellingNothing
  <2> QED
    BY <2>7, <2>8, <2>9
<1>4. CASE UNCHANGED vars \/ Produce
  BY <1>1, <1>4 DEF vars, Produce, AppendLine, WriteRecord
<1>5. ASSUME NEW c \in Commands, Start(c) PROVE Telling'
  BY <1>1, <1>5 DEF Start
<1>6. CASE OpenOut \/ WritePacket
  <2>1. /\ UNCHANGED <<audit, history, cmd>> /\ pc # "idle" /\ pc' # "idle"
        /\ cmd.name # "evidence" => out' = out
    BY <1>6 DEF OpenOut, WritePacket
  <2>2. cmd.name # "evidence" => Telling'
    BY <1>1, <2>1
  <2>3. cmd.name = "evidence" => Telling'
    BY <2>1 DEF Telling
  <2> QED
    BY <2>2, <2>3
<1>7. CASE Discover \/ List \/ Read \/ Check \/ GenDiscover \/ GenList \/ GenRead \/ GenHashInput
  BY <1>1, <1>7 DEF Discover, List, Read, Check, GenDiscover, GenList, GenRead, GenRaise, GenHashInput
<1>8. CASE LoadRecord \/ HashLog \/ ValidatePacket \/ CrossCheck
  BY <1>1, <1>8 DEF LoadRecord, GenRaise, HashLog, ValidatePacket, CrossCheck
<1> QED
  BY <1>2, <1>3, <1>4, <1>5, <1>6, <1>7, <1>8 DEF Next, Step

\* What an evidence command wrote to OUT (run_evidence.py:736-743) and the last entry of
\* such a command in the audit log (cli.py:500-507) are of one run, however validate-chain
\* commands, kills and failed appends come in between.
THEOREM LogAlwaysTells == Spec => []LogTellsOfPacket
<1>1. Init => Telling
  <2> SUFFICES ASSUME Init PROVE Telling
    OBVIOUS
  <2>1. history = <<>> /\ audit \in Seq({})
    BY DEF Init
  <2> QED
    BY <2>1 DEF Telling
<1>2. IInv /\ Outcomes /\ Leaving /\ Telling /\ [Next]_vars => Telling'
  BY TellingStep
<1>3. Telling => LogTellsOfPacket
  BY DEF Telling, LastTold, LogTellsOfPacket
<1> QED
  BY <1>1, <1>2, <1>3, LeavingHolds, PTL DEF Spec

-----------------------------------------------------------------------------
(* How long a command may take.                                            *)

\* An upper bound of the steps the running command has left.
StepsLeft ==
  CASE pc = "idle"         -> 0
    [] pc = "exit"         -> 1
    [] pc = "cross_check"  -> 2
    [] pc = "validate"     -> 3
    [] pc = "write"        -> 4
    [] pc = "open"         -> 5
    [] pc = "hash_log"     -> 6
    [] pc = "load_record"  -> 7
    [] pc = "gen_hash"     -> 7 + Cardinality(todo)
    [] pc = "gen_read"     -> 7 + NFiles + Cardinality(todo)
    [] pc = "gen_list"     -> 8 + 2 * NFiles
    [] pc = "gen_discover" -> 9 + 2 * NFiles
    [] pc = "check"        -> 10 + 2 * NFiles
    [] pc = "read"         -> 10 + 2 * NFiles + Cardinality(todo)
    [] pc = "list"         -> 11 + 3 * NFiles
    [] pc = "discover"     -> 12 + 3 * NFiles

LEMMA FilesLeft ==
  ASSUME NEW S \in SUBSET Files
  PROVE  /\ IsFiniteSet(S) /\ Cardinality(S) \in Nat /\ Cardinality(S) <= NFiles
         /\ \A f \in S : Cardinality(S \ {f}) = Cardinality(S) - 1 /\ Cardinality(S) > 0
<1>1. IsFiniteSet(Files) /\ Cardinality(Files) = NFiles
  <2>0. NFiles \in Nat \ {0}
    BY ConstantsAssumption
  <2>1. 1 \in Int /\ NFiles \in Int /\ ~(1 > NFiles)
    BY <2>0
  <2>2. IsFiniteSet(1..NFiles) /\ Cardinality(1..NFiles) = NFiles - 1 + 1
    BY <2>1, FS_Interval
  <2> QED
    BY <2>1, <2>2 DEF Files
<1>2. IsFiniteSet(S) /\ Cardinality(S) <= NFiles /\ Cardinality(S) \in Nat
  BY <1>1, FS_Subset, FS_CardinalityType
<1>3. ASSUME NEW f \in S PROVE Cardinality(S \ {f}) = Cardinality(S) - 1 /\ Cardinality(S) > 0
  <2>1. IsFiniteSet(S \ {f}) /\ Cardinality(S \ {f}) = Cardinality(S) - 1
    BY <1>2, FS_RemoveElement
  <2>2. Cardinality(S \ {f}) \in Nat
    BY <2>1, FS_CardinalityType
  <2> QED
    BY <1>2, <2>1, <2>2
<1> QED
  BY <1>2, <1>3

LEMMA StepsLeftCounts ==
  IInv => StepsLeft \in 0..(12 + 3 * NFiles) /\ (StepsLeft = 0 <=> pc = "idle")
<1> SUFFICES ASSUME IInv
             PROVE  StepsLeft \in 0..(12 + 3 * NFiles) /\ (StepsLeft = 0 <=> pc = "idle")
  OBVIOUS
<1>1. pc \in Labels /\ todo \in SUBSET Files /\ NFiles \in Nat
  BY ConstantsAssumption DEF IInv, TypeOK
<1>2. Cardinality(todo) \in Nat /\ Cardinality(todo) <= NFiles
  BY <1>1, FilesLeft
<1>3. CASE pc \in {"idle", "exit", "cross_check", "validate", "write", "open",
                  "hash_log", "load_record"}
  <2>1. /\ pc = "idle" => StepsLeft = 0
        /\ pc # "idle" => StepsLeft \in {1, 2, 3, 4, 5, 6, 7}
    BY <1>3 DEF StepsLeft
  <2> QED
    BY <1>1, <2>1
<1>4. CASE pc \in {"gen_list", "gen_discover", "check", "list", "discover"}
  <2>1. StepsLeft \in {8 + 2 * NFiles, 9 + 2 * NFiles, 10 + 2 * NFiles, 11 + 3 * NFiles, 12 + 3 * NFiles}
    BY <1>4 DEF StepsLeft
  <2>2. pc # "idle"
    BY <1>4
  <2> QED
    BY <1>1, <2>1, <2>2
<1>5. CASE pc \in {"gen_hash", "gen_read", "read"}
  <2>1. StepsLeft \in {7 + Cardinality(todo), 7 + NFiles + Cardinality(todo),
                       10 + 2 * NFiles + Cardinality(todo)}
    BY <1>5 DEF StepsLeft
  <2>2. pc # "idle"
    BY <1>5
  <2> QED
    BY <1>1, <1>2, <2>1, <2>2
<1> QED
  BY <1>1, <1>3, <1>4, <1>5 DEF Labels

LEMMA StepsCountDown ==
  ASSUME IInv, TypeOK', Step
  PROVE  StepsLeft' < StepsLeft
<1>1. todo \in SUBSET Files /\ files \in SUBSET Files /\ NFiles \in Nat
  BY ConstantsAssumption DEF IInv, TypeOK
<1>2. \A S \in SUBSET Files : Cardinality(S) \in Nat /\ Cardinality(S) <= NFiles
  BY FilesLeft
<1>3. /\ Cardinality(todo) \in Nat /\ Cardinality(todo) <= NFiles
      /\ Cardinality(files) \in Nat /\ Cardinality(files) <= NFiles
      /\ Cardinality(todo') \in Nat /\ Cardinality(todo') <= NFiles
  <2>1. todo' \in SUBSET Files
    BY DEF TypeOK
  <2> QED
    BY <1>1, <1>2, <2>1
<1>4. pc \in {"read", "gen_read", "gen_hash"} =>
        /\ First(todo) \in todo
        /\ Cardinality(todo \ {First(todo)}) = Cardinality(todo) - 1 /\ Cardinality(todo) > 0
  <2> SUFFICES ASSUME pc \in {"read", "gen_read", "gen_hash"}
               PROVE  /\ First(todo) \in todo
                      /\ Cardinality(todo \ {First(todo)}) = Cardinality(todo) - 1
                      /\ Cardinality(todo) > 0
    OBVIOUS
  <2>1. First(todo) \in todo
    BY <1>1, FirstIsMember DEF IInv, Control
  <2> QED
    BY <1>1, <2>1, FilesLeft
<1>5. CASE Discover
  <2>1. pc = "discover" /\ pc' \in {"exit", "list"}
    BY <1>5 DEF Discover, Goto, End
  <2> QED
    BY <1>1, <2>1 DEF StepsLeft
<1>6. CASE List
  <2>1. pc = "list" /\ pc' = "read"
    BY <1>6 DEF List, Goto
  <2> QED
    BY <1>1, <1>3, <2>1 DEF StepsLeft
<1>7. CASE Read
  <2>1. /\ pc = "read"
        /\ \/ pc' = "exit"
           \/ pc' \in {"read", "check"} /\ todo' = todo \ {First(todo)}
    BY <1>7 DEF Read, Goto, End
  <2> QED
    BY <1>1, <1>3, <1>4, <2>1 DEF StepsLeft
<1>8. CASE Check
  <2>1. pc = "check" /\ pc' \in {"exit", "gen_discover"}
    BY <1>8 DEF Check, Goto, End
  <2> QED
    BY <1>1, <2>1 DEF StepsLeft
<1>9. CASE GenDiscover
  <2>1. pc = "gen_discover" /\ pc' \in {"exit", "gen_list"}
    BY <1>9 DEF GenDiscover, Goto, End
  <2> QED
    BY <1>1, <2>1 DEF StepsLeft
<1>10. CASE GenList
  <2>1. pc = "gen_list" /\ pc' = "gen_read"
    BY <1>10 DEF GenList, Goto
  <2> QED
    BY <1>1, <1>3, <2>1 DEF StepsLeft
<1>11. CASE GenRead
  <2>1. /\ pc = "gen_read"
        /\ \/ pc' = "gen_hash" /\ todo' = files
           \/ pc' = "gen_read" /\ todo' = todo \ {First(todo)}
           \/ pc' = "exit"
    BY <1>11 DEF GenRead, GenRaise, Goto, End
  <2>2. CASE pc' = "exit"
    BY <1>1, <1>3, <2>1, <2>2 DEF StepsLeft
  <2>3. CASE pc' = "gen_hash" /\ todo' = files
    <3>1. StepsLeft' = 7 + Cardinality(files) /\ StepsLeft = 7 + NFiles + Cardinality(todo)
      BY <2>1, <2>3 DEF StepsLeft
    <3> QED
      BY <1>1, <1>3, <1>4, <2>1, <3>1
  <2>4. CASE pc' = "gen_read" /\ todo' = todo \ {First(todo)}
    <3>1. /\ StepsLeft' = 7 + NFiles + Cardinality(todo \ {First(todo)})
          /\ StepsLeft = 7 + NFiles + Cardinality(todo)
      BY <2>1, <2>4 DEF StepsLeft
    <3> QED
      BY <1>1, <1>3, <1>4, <2>1, <3>1
  <2> QED
    BY <2>1, <2>2, <2>3, <2>4
<1>12. CASE GenHashInput
  <2>1. pc = "gen_hash" /\ pc' \in {"load_record", "gen_hash"} /\ todo' = todo \ {First(todo)}
    BY <1>12 DEF GenHashInput, Goto
  <2> QED
    BY <1>1, <1>3, <1>4, <2>1 DEF StepsLeft
<1>13. CASE LoadRecord \/ HashLog \/ OpenOut \/ WritePacket
  <2>1. \/ pc = "load_record" /\ pc' \in {"hash_log", "exit"}
        \/ pc = "hash_log" /\ pc' = "open"
        \/ pc = "open" /\ pc' = "write"
        \/ pc = "write" /\ pc' = "validate"
    BY <1>13 DEF LoadRecord, HashLog, OpenOut, WritePacket, GenRaise, Goto, End
  <2> QED
    BY <2>1 DEF StepsLeft
<1>14. CASE ValidatePacket \/ CrossCheck \/ Exit
  <2>1. \/ pc = "validate" /\ pc' \in {"cross_check", "exit"}
        \/ pc = "cross_check" /\ pc' = "exit"
        \/ pc = "exit" /\ pc' = "idle"
    BY <1>14 DEF ValidatePacket, CrossCheck, Exit, GenRaise, Goto, End
  <2> QED
    BY <2>1 DEF StepsLeft
<1> QED
  BY <1>5, <1>6, <1>7, <1>8, <1>9, <1>10, <1>11, <1>12, <1>13, <1>14 DEF Step

\* Every step of a command leaves it fewer steps, so a command takes 12 steps and 3 for
\* every ledger file at most, whatever the producers append meanwhile: no loop opens a file
\* twice, and a producer cannot keep a command at work (validate_chain.py:338-406,
\* run_evidence.py:610-743).
THEOREM CommandsRunOutOfSteps ==
  Spec => /\ [](StepsLeft \in 0..(12 + 3 * NFiles) /\ (StepsLeft = 0 <=> pc = "idle"))
          /\ [][ /\ Step => StepsLeft' < StepsLeft
                 /\ Produce => StepsLeft' = StepsLeft ]_vars
<1> DEFINE Counted == StepsLeft \in 0..(12 + 3 * NFiles) /\ (StepsLeft = 0 <=> pc = "idle")
           Down == /\ Step => StepsLeft' < StepsLeft
                   /\ Produce => StepsLeft' = StepsLeft
<1>1. IInv => Counted
  BY StepsLeftCounts
<1>2. Produce => StepsLeft' = StepsLeft
  BY DEF Produce, AppendLine, WriteRecord, StepsLeft, reads
<1>3. IInv /\ TypeOK' /\ [Next]_vars => [Down]_vars
  BY <1>2, StepsCountDown
<1>4. IInv => TypeOK
  BY DEF IInv
<1> QED
  BY <1>1, <1>3, <1>4, InductiveInvariant, PTL DEF Spec

=============================================================================
