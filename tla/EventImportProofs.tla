-------------------------- MODULE EventImportProofs --------------------------
(***************************************************************************)
(* Proofs about EventImport, for every number of ledger files, every set   *)
(* of lines and any number of imports that producers and kills interrupt.  *)
(***************************************************************************)
EXTENDS EventImport, TLAPS, WellFoundedInduction, FiniteSetTheorems

-----------------------------------------------------------------------------
(* The inductive invariant.                                                *)

\* What was read of a file is what the file began with.
Snapshot == \A f \in Files : Len(ledger[f]) <= MaxLines /\ Prefix(read[f], ledger[f])

\* The loops go over exactly the lines read, in the order of the files and lines.
Queue ==
  pc \in {"read", "name", "rename", "write"} =>
    /\ \A k, l \in 1..Len(events) : k < l => Before(events[k], events[l])
    /\ \A f \in Files : \A i \in 1..Len(read[f]) : \E k \in 1..Len(events) : events[k] = <<f, i>>
    /\ \A k \in 1..Len(events) : events[k][2] <= Len(read[events[k][1]])

\* The files still to open come after those that were read.
Ahead ==
  /\ pc \in {"discover", "read"} => next = 1 /\ cases = <<>> /\ seen = {}
  /\ pc = "discover" => events = <<>> /\ \A f \in Files : read[f] = <<>>
  /\ pc = "read" =>
       /\ todo # {}
       /\ \A g \in todo : read[g] = <<>> /\ \A k \in 1..Len(events) : events[k][1] < g

\* The ids given are the ids seen; the drafts are those of the events before next.
NamedSoFar ==
  /\ seen = {cases[i].id : i \in 1..Len(cases)}
  /\ DistinctIds(cases)
  /\ \A i \in 1..Len(cases) : \E k \in 1..(next - 1) : cases[i].from = events[k] /\ MakesCase(Event(events[k]))
  /\ \A k \in 1..(next - 1) : MakesCase(Event(events[k])) => \E i \in 1..Len(cases) : cases[i].from = events[k]
  /\ \A i, j \in 1..Len(cases) : i < j => Before(cases[i].from, cases[j].from)

Naming ==
  pc \in {"name", "rename", "write"} =>
    /\ NamedSoFar
    /\ pc = "rename" => next <= Len(events) /\ MakesCase(Current)
    /\ pc = "write" => next = Len(events) + 1

\* Every draft has checks that the schema accepts, in memory and in the file.
Conforms(drafts) == \A i \in 1..Len(drafts) : SchemaAccepts(drafts[i].checks)

Conforming ==
  /\ pc \in {"name", "rename", "write"} => Conforms(cases)
  /\ pc = "validate" => Conforms(out.cases)

\* The ids an event may get, in the order in which they are tried.
Try(p, view, k) ==
  LET base == BaseId(view[p[1]][p[2]])
  IN  IF k = 0 THEN base ELSE IF k = 1 THEN LineId(base, p[2]) ELSE CountedId(base, p[2], k)

IdsBefore(drafts, i) == {drafts[m].id : m \in 1..(i - 1)}

\* The k-th id is the first that is free.
FreeAt(k, p, view, taken) ==
  Try(p, view, k) \notin taken /\ \A m \in 0..(k - 1) : Try(p, view, m) \in taken

\* Every draft has the first id that no earlier draft has.
FirstFree(drafts, view) ==
  \A i \in 1..Len(drafts) : \E k \in Nat :
    /\ FreeAt(k, drafts[i].from, view, IdsBefore(drafts, i))
    /\ drafts[i].id = Try(drafts[i].from, view, k)

\* The while loop has found every id taken that it has tried.
Trying ==
  pc = "rename" =>
    /\ trial.counter \in Nat \ {0, 1}
    /\ trial.id = Try(events[next], read, trial.counter - 1)
    /\ \A m \in 0..(trial.counter - 2) : Try(events[next], read, m) \in seen

\* Each draft, in memory and in the file, has the first id that no draft before it has.
Choosing ==
  /\ pc \in {"name", "rename", "write"} => FirstFree(cases, read)
  /\ Written => FirstFree(out.cases, out.read)
  /\ Trying

IInv ==
  /\ TypeOK /\ Snapshot /\ Queue /\ Ahead /\ Naming /\ Conforming /\ Choosing
  /\ IdsUnique /\ EveryCandidateDrafted /\ DraftsConform

-----------------------------------------------------------------------------
(* Lemmas about the operators.                                             *)

\* A set of numbers has a least: induction over lists is done from a least exception.
LEMMA LeastExists ==
  ASSUME NEW S \in SUBSET Nat, S # {}
  PROVE  \E m \in S : \A y \in S : m <= y
<1> DEFINE Less == OpToRel(<, Nat)
<1>1. IsWellFoundedOn(Less, Nat)
  BY NatLessThanWellFounded
<1>2. \A a, b \in Nat : a < b => <<a, b>> \in Less
  BY DEF OpToRel
<1> HIDE DEF Less
<1>3. PICK m \in S : \A y \in S : <<y, m>> \notin Less
  BY <1>1, WFMin
<1>4. ASSUME NEW y \in S PROVE m <= y
  <2>1. m \in Nat /\ y \in Nat /\ ~(y < m)
    BY <1>2, <1>3
  <2> QED
    BY <2>1
<1> QED
  BY <1>4

\* The loop over discovered files opens the least of the files left to open.
LEMMA FirstIsLeast ==
  ASSUME NEW S \in SUBSET Files, S # {}
  PROVE  First(S) \in S /\ \A g \in S : First(S) <= g
<1>1. S \in SUBSET Nat
  BY DEF Files
<1>2. \E m \in S : \A g \in S : m <= g
  BY <1>1, LeastExists
<1> QED
  BY <1>2 DEF First

LEMMA SomeWords == "line" \in Words /\ "_" \in Words /\ "1" \in Words
BY ConstantsAssumption

LEMMA Singleton ==
  ASSUME NEW w \in Words
  PROVE  <<w>> \in Seq(Words)
OBVIOUS

LEMMA Joined ==
  ASSUME NEW s \in Seq(Words), NEW t \in Seq(Words)
  PROVE  s \o t \in Seq(Words)
OBVIOUS

\* The ids the program gives are ids.
LEMMA NumeralIsId ==
  ASSUME NEW n \in Nat
  PROVE  Numeral(n) \in Seq(Words)
<1>1. "1" \in Words
  BY SomeWords
<1>2. [i \in 1..n |-> "1"] \in Seq(Words)
  BY <1>1
<1> QED
  BY <1>2 DEF Numeral

LEMMA LineIdIsId ==
  ASSUME NEW base \in Seq(Words), NEW n \in Nat
  PROVE  LineId(base, n) \in Seq(Words)
<1>1. Numeral(n) \in Seq(Words)
  BY NumeralIsId
<1>2. <<"line">> \in Seq(Words)
  BY SomeWords, Singleton, Zenon
<1> HIDE DEF Numeral
<1> QED
  BY <1>1, <1>2 DEF LineId

LEMMA CountedIdIsId ==
  ASSUME NEW base \in Seq(Words), NEW n \in Nat, NEW k \in Nat
  PROVE  CountedId(base, n, k) \in Seq(Words)
<1>1. Numeral(k) \in Seq(Words) /\ LineId(base, n) \in Seq(Words)
  BY NumeralIsId, LineIdIsId
<1>2. <<"_">> \in Seq(Words)
  BY SomeWords, Singleton, Zenon
<1>3. LineId(base, n) \o <<"_">> \in Seq(Words)
  BY <1>1, <1>2, Joined, Zenon
<1> QED
  BY <1>1, <1>3, Joined, Zenon DEF CountedId

LEMMA BaseIdIsId ==
  ASSUME NEW e \in Lines, e.trace_id # None
  PROVE  BaseId(e) \in Seq(Words)
<1>1. /\ e.candidate_id \in Seq(Words) \cup {None}
      /\ e.trace_id \in Words /\ e.about \in Words /\ e.ending \in Words /\ "draft" \in Words
  BY ConstantsAssumption DEF LineType
<1>2. <<e.trace_id, e.about, e.ending, "draft">> \in Seq(Words)
  BY <1>1
<1> QED
  BY <1>1, <1>2 DEF BaseId

LEMMA ChecksAreChecks ==
  ASSUME NEW e \in Lines
  PROVE  Checks(e) \in SUBSET CheckType
<1>1. e.checks \subseteq CheckType /\ e.expected_behavior \subseteq CheckType
  BY ConstantsAssumption DEF LineType
<1>2. Placeholder \in CheckType
  BY DEF Placeholder, CheckType
<1> QED
  BY <1>1, <1>2 DEF Checks, Explicit, Expected

-----------------------------------------------------------------------------
(* Type correctness.                                                       *)

\* Typing facts by variable, so that a step need not unfold all of TypeOK.
LEMMA Types ==
  ASSUME TypeOK
  PROVE  /\ ledger \in [Files -> Seq(Lines)] /\ read \in [Files -> Seq(Lines)]
         /\ todo \subseteq Files
         /\ events \in Seq(Files \X (1..MaxLines)) /\ next \in 1..(Len(events) + 1)
         /\ cases \in Seq(CaseType) /\ seen \subseteq Seq(Words)
         /\ trial.id \in Seq(Words) /\ trial.counter \in Nat
         /\ ignored \in Nat /\ imports \in 0..MaxImports
<1>1. trial \in [id : Seq(Words), counter : Nat]
  BY Zenon DEF TypeOK
<1>2. trial.id \in Seq(Words) /\ trial.counter \in Nat
  BY <1>1
<1> QED
  BY <1>2, Zenon DEF TypeOK

LEMMA Limits == MaxLines \in Nat /\ NFiles \in Nat /\ MaxImports \in Nat
BY ConstantsAssumption

LEMMA Advance ==
  ASSUME TypeOK, next <= Len(events)
  PROVE  next + 1 \in 1..(Len(events) + 1)
<1>1. next \in 1..(Len(events) + 1) /\ Len(events) \in Nat
  BY Types
<1> QED
  BY <1>1

\* Where the loop is at an event, the event is a line that was read.
LEMMA CurrentIsRead ==
  ASSUME TypeOK, Snapshot, Queue, pc \in {"name", "rename"}, next <= Len(events)
  PROVE  /\ events[next] \in Files \X (1..MaxLines)
         /\ events[next][2] \in 1..Len(read[events[next][1]])
         /\ Current \in Lines
<1>1. next \in 1..Len(events)
  BY Types
<1>2. events[next] \in Files \X (1..MaxLines)
  BY <1>1, Types
<1>3. events[next][2] \in 1..Len(read[events[next][1]])
  BY <1>1, <1>2 DEF Queue
<1>4. read[events[next][1]] \in Seq(Lines)
  BY <1>2, Types
<1> QED
  BY <1>2, <1>3, <1>4 DEF Current, Event

\* A draft that is kept is well typed.
LEMMA KeepType ==
  ASSUME TypeOK, Snapshot, Queue, pc \in {"name", "rename"}, next <= Len(events),
         NEW id \in Seq(Words), Keep(id)
  PROVE  /\ cases' \in Seq(CaseType) /\ seen' \subseteq Seq(Words)
         /\ next' \in 1..(Len(events) + 1)
         /\ Len(cases') = Len(cases) + 1
         /\ \A i \in 1..Len(cases) : cases'[i] = cases[i]
         /\ cases'[Len(cases) + 1] = [id |-> id, from |-> events[next], checks |-> Checks(Current)]
<1> DEFINE draft == [id |-> id, from |-> events[next], checks |-> Checks(Current)]
<1>1. Checks(Current) \in SUBSET CheckType /\ events[next] \in Files \X (1..MaxLines)
  BY CurrentIsRead, ChecksAreChecks
<1>2. draft \in CaseType
  BY <1>1 DEF CaseType
<1>3. cases' = Append(cases, draft) /\ cases \in Seq(CaseType)
  BY DEF Keep, TypeOK
<1> HIDE DEF draft
<1>4. /\ cases' \in Seq(CaseType) /\ Len(cases') = Len(cases) + 1
      /\ \A i \in 1..Len(cases) : cases'[i] = cases[i]
      /\ cases'[Len(cases) + 1] = draft
  BY <1>2, <1>3
<1>5. seen' \subseteq Seq(Words) /\ next' \in 1..(Len(events) + 1)
  BY Types, Advance DEF Keep
<1> QED
  BY <1>4, <1>5 DEF draft

LEMMA TypeInit == Init => TypeOK
<1> SUFFICES ASSUME Init PROVE TypeOK
  OBVIOUS
<1>1. <<>> \in Seq(Lines) /\ <<>> \in Seq(CaseType) /\ <<>> \in Seq(Words) /\ <<>> \in Seq(Files \X (1..MaxLines))
  OBVIOUS
<1>2. ledger \in [Files -> Seq(Lines)] /\ read \in [Files -> Seq(Lines)]
  BY <1>1 DEF Init
<1>3. next \in 1..(Len(events) + 1) /\ trial \in [id : Seq(Words), counter : Nat] /\ imports \in 0..MaxImports
  BY <1>1, Limits DEF Init
<1> QED
  BY <1>1, <1>2, <1>3 DEF Init, TypeOK

LEMMA TypeStep ==
  ASSUME TypeOK, Snapshot, Queue, Ahead, Naming, [Next]_vars
  PROVE  TypeOK'
<1>1. CASE UNCHANGED vars
  BY <1>1 DEF TypeOK, vars, loop
<1>2. CASE AppendLine
  <2>1. PICK f \in Files, l \in Lines : ledger' = [ledger EXCEPT ![f] = Append(@, l)]
    BY <1>2 DEF AppendLine
  <2>2. ledger[f] \in Seq(Lines)
    BY Types
  <2>3. Append(ledger[f], l) \in Seq(Lines)
    BY <2>2
  <2>4. ledger' \in [Files -> Seq(Lines)]
    BY <2>1, <2>3, Types
  <2> QED
    BY <1>2, <2>4 DEF AppendLine, TypeOK, loop
<1>3. CASE Start
  <2>1. <<>> \in Seq(Lines) /\ <<>> \in Seq(CaseType) /\ <<>> \in Seq(Words) /\ <<>> \in Seq(Files \X (1..MaxLines))
    OBVIOUS
  <2>2. read' \in [Files -> Seq(Lines)] /\ imports' \in 0..MaxImports
    BY <1>3, <2>1, Types, Limits DEF Start
  <2>4. target' \in Files \cup {Dir}
    BY <1>3, ConstantsAssumption DEF Start
  <2>3. next' \in 1..(Len(events') + 1) /\ ignored' \in Nat /\ trial' \in [id : Seq(Words), counter : Nat]
    BY <1>3, <2>1 DEF Start
  <2> QED
    BY <1>3, <2>1, <2>2, <2>3, <2>4 DEF Start, TypeOK, Goto
<1>4. CASE Discover
  <2>1. todo' \subseteq Files
    BY <1>4, ConstantsAssumption DEF Discover, Discovered, TypeOK
  <2> QED
    BY <1>4, <2>1 DEF Discover, TypeOK, Goto, End, loop
<1>5. CASE Read
  <2> DEFINE f == First(todo)
  <2>1. f \in todo /\ f \in Files
    BY <1>5, FirstIsLeast DEF Read, Ahead, TypeOK
  <2> HIDE DEF f
  <2>2. read' = [read EXCEPT ![f] = ledger[f]] /\ todo' = todo \ {f}
    BY <1>5 DEF Read, f
  <2>3. read' \in [Files -> Seq(Lines)] /\ todo' \subseteq Files
    BY <2>1, <2>2 DEF TypeOK
  <2>4. Numbered(f) \in Seq(Files \X (1..MaxLines))
    <3>1. Len(ledger[f]) \in Nat /\ Len(ledger[f]) <= MaxLines
      BY <2>1, Types DEF Snapshot
    <3>2. \A i \in 1..Len(ledger[f]) : <<f, i>> \in Files \X (1..MaxLines)
      BY <2>1, <3>1, Limits
    <3> QED
      BY <3>1, <3>2 DEF Numbered
  <2>5. events' \in Seq(Files \X (1..MaxLines))
    <3>1. events' = events \o Numbered(f) \/ events' = events
      BY <1>5 DEF Read, f
    <3>2. events \in Seq(Files \X (1..MaxLines))
      BY Types
    <3>3. \A s, t \in Seq(Files \X (1..MaxLines)) : s \o t \in Seq(Files \X (1..MaxLines))
      OBVIOUS
    <3> QED
      BY <2>4, <3>1, <3>2, <3>3, Zenon
  <2>6. next' \in 1..(Len(events') + 1)
    BY <1>5, <2>5 DEF Read, Ahead
  <2>7. pc' \in {"read", "name", "exit"} /\ verdict' \in {verdict, "uncaught"}
    BY <1>5 DEF Read, Goto, End
  <2> QED
    BY <1>5, <2>3, <2>5, <2>6, <2>7 DEF Read, TypeOK
<1>6. CASE Ignore
  <2>1. ignored' \in Nat /\ next' \in 1..(Len(events) + 1)
    <3>1. next' = next + 1 /\ next <= Len(events) /\ ignored' \in {ignored, ignored + 1}
      BY <1>6 DEF Ignore
    <3>2. ignored \in Nat
      BY Types
    <3> QED
      BY <3>1, <3>2, Advance
  <2> QED
    BY <1>6, <2>1 DEF Ignore, TypeOK
<1>7. CASE Take
  <2>1. Current \in Lines /\ events[next][2] \in Nat /\ Current.trace_id # None
    BY <1>7, CurrentIsRead DEF Take, MakesCase
  <2>2. BaseId(Current) \in Seq(Words)
    BY <2>1, BaseIdIsId
  <2>3. CASE BaseId(Current) \notin seen
    <3>1. Keep(BaseId(Current)) /\ UNCHANGED <<pc, trial>>
      BY <1>7, <2>3 DEF Take
    <3>2. cases' \in Seq(CaseType) /\ seen' \subseteq Seq(Words) /\ next' \in 1..(Len(events) + 1)
      BY <1>7, <2>2, <3>1, KeepType DEF Take
    <3> QED
      BY <1>7, <3>1, <3>2 DEF Take, TypeOK
  <2>4. CASE BaseId(Current) \in seen
    <3>1. trial' = [id |-> LineId(BaseId(Current), events[next][2]), counter |-> 2]
      BY <1>7, <2>4 DEF Take
    <3>2. LineId(BaseId(Current), events[next][2]) \in Seq(Words)
      BY <2>1, <2>2, LineIdIsId
    <3>3. trial' \in [id : Seq(Words), counter : Nat]
      BY <3>1, <3>2
    <3> QED
      BY <1>7, <2>4, <3>3 DEF Take, TypeOK, Goto
  <2> QED
    BY <2>3, <2>4
<1>8. CASE Rename
  <2>1. /\ next <= Len(events) /\ Current \in Lines /\ events[next][2] \in Nat
        /\ Current.trace_id # None /\ trial.counter \in Nat
    <3>1. next <= Len(events) /\ MakesCase(Current)
      BY <1>8 DEF Rename, Naming
    <3> QED
      BY <1>8, <3>1, CurrentIsRead, Types, Limits DEF Rename, MakesCase
  <2>2. CASE trial.id \in seen
    <3>1. trial' = [id |-> CountedId(BaseId(Current), events[next][2], trial.counter), counter |-> trial.counter + 1]
      BY <1>8, <2>2 DEF Rename
    <3>2. BaseId(Current) \in Seq(Words)
      BY <2>1, BaseIdIsId
    <3>3. CountedId(BaseId(Current), events[next][2], trial.counter) \in Seq(Words)
      BY <2>1, <3>2, CountedIdIsId
    <3>4. trial.counter + 1 \in Nat
      BY <2>1
    <3>5. trial' \in [id : Seq(Words), counter : Nat]
      BY <3>1, <3>3, <3>4
    <3> QED
      BY <1>8, <2>2, <3>5 DEF Rename, TypeOK
  <2>3. CASE trial.id \notin seen
    <3>1. Keep(trial.id) /\ trial.id \in Seq(Words)
      BY <1>8, <2>3 DEF Rename, TypeOK
    <3>2. cases' \in Seq(CaseType) /\ seen' \subseteq Seq(Words) /\ next' \in 1..(Len(events) + 1)
      BY <1>8, <2>1, <3>1, KeepType DEF Rename
    <3> QED
      BY <1>8, <2>3, <3>2 DEF Rename, TypeOK, Goto
  <2> QED
    BY <2>2, <2>3
<1>9. CASE Named
  BY <1>9 DEF Named, TypeOK, Goto, End, loop
<1>10. CASE Write
  <2>1. out' \in [cases : Seq(CaseType), read : [Files -> Seq(Lines)]]
    BY <1>10 DEF Write, TypeOK
  <2> QED
    BY <1>10, <2>1 DEF Write, TypeOK, Goto, loop
<1>11. CASE Validate
  BY <1>11 DEF Validate, TypeOK, Goto, End, loop
<1>12. CASE Exit
  BY <1>12 DEF Exit, TypeOK, Goto, loop
<1>13. CASE Interrupt
  <2>1. out' \in {out, Torn}
    BY <1>13 DEF Interrupt
  <2> QED
    BY <1>13, <2>1 DEF Interrupt, TypeOK, Goto, loop
<1> QED
  BY <1>1, <1>2, <1>3, <1>4, <1>5, <1>6, <1>7, <1>8, <1>9, <1>10, <1>11, <1>12, <1>13 DEF Next, Step
-----------------------------------------------------------------------------
(* Reading.                                                                *)

LEMMA AppendExtends ==
  ASSUME NEW r \in Seq(Lines), NEW s \in Seq(Lines), NEW l \in Lines, Prefix(r, s)
  PROVE  Prefix(r, Append(s, l))
<1>1. Len(Append(s, l)) = Len(s) + 1 /\ \A i \in 1..Len(s) : Append(s, l)[i] = s[i]
  OBVIOUS
<1>2. Len(r) \in Nat /\ Len(s) \in Nat
  OBVIOUS
<1> QED
  BY <1>1, <1>2 DEF Prefix

\* Ledgers are append-only: what is a snapshot of a ledger remains one.
LEMMA StaysSnapshot ==
  ASSUME TypeOK, [Next]_vars, NEW f \in Files, NEW r \in Seq(Lines), Prefix(r, ledger[f])
  PROVE  Prefix(r, ledger'[f])
<1>1. CASE UNCHANGED ledger
  BY <1>1
<1>2. CASE AppendLine
  <2>1. PICK g \in Files, l \in Lines : ledger' = [ledger EXCEPT ![g] = Append(@, l)]
    BY <1>2 DEF AppendLine
  <2>2. ledger'[f] = Append(ledger[f], l) \/ ledger'[f] = ledger[f]
    BY <2>1, Types
  <2>3. ledger[f] \in Seq(Lines)
    BY Types
  <2> QED
    BY <2>2, <2>3, AppendExtends
<1> QED
  BY <1>1, <1>2 DEF Next, Step, vars, Start, Discover, Read, Ignore, Take, Rename, Named, Write, Validate, Exit, Interrupt

LEMMA SnapshotStep ==
  ASSUME TypeOK, Snapshot, Ahead, [Next]_vars
  PROVE  Snapshot'
<1> SUFFICES ASSUME NEW f \in Files
             PROVE  Len(ledger'[f]) <= MaxLines /\ Prefix(read'[f], ledger'[f])
  BY DEF Snapshot
<1>1. Len(ledger'[f]) <= MaxLines
  <2>1. CASE UNCHANGED ledger
    BY <2>1 DEF Snapshot
  <2>2. CASE AppendLine
    <3>1. PICK g \in Files, l \in Lines : Len(ledger[g]) < MaxLines /\ ledger' = [ledger EXCEPT ![g] = Append(@, l)]
      BY <2>2 DEF AppendLine
    <3>2. CASE f # g
      BY <3>1, <3>2, Types DEF Snapshot
    <3>3. CASE f = g
      <4>1. ledger'[f] = Append(ledger[f], l) /\ ledger[f] \in Seq(Lines)
        BY <3>1, <3>3, Types
      <4>2. Len(ledger'[f]) = Len(ledger[f]) + 1 /\ Len(ledger[f]) \in Nat
        BY <4>1
      <4> QED
        BY <3>1, <3>3, <4>2, Limits
    <3> QED
      BY <3>2, <3>3
  <2> QED
    BY <2>1, <2>2 DEF Next, Step, vars, Start, Discover, Read, Ignore, Take, Rename, Named, Write, Validate, Exit, Interrupt
<1>2. Prefix(read'[f], ledger'[f])
  <2>1. CASE UNCHANGED read
    <3>1. Prefix(read[f], ledger[f]) /\ read[f] \in Seq(Lines)
      BY Types DEF Snapshot
    <3> QED
      BY <2>1, <3>1, StaysSnapshot
  <2>2. CASE Start
    <3>1. read'[f] = <<>> /\ ledger'[f] \in Seq(Lines)
      BY <2>2, Types DEF Start
    <3> QED
      BY <3>1 DEF Prefix
  <2>3. CASE Read
    <3>1. read'[f] \in {read[f], ledger[f]} /\ ledger' = ledger
      BY <2>3, Types DEF Read
    <3>2. ledger[f] \in Seq(Lines)
      BY Types
    <3>3. Prefix(ledger[f], ledger[f])
      BY <3>2 DEF Prefix
    <3> QED
      BY <3>1, <3>3 DEF Snapshot
  <2> QED
    BY <2>1, <2>2, <2>3 DEF Next, Step, vars, loop, AppendLine, Discover, Ignore, Take, Rename, Named, Write, Validate, Exit, Interrupt
<1> QED
  BY <1>1, <1>2

\* Opening the next file puts its lines behind those of the files before it.
LEMMA ReadStep ==
  ASSUME TypeOK, Snapshot, Queue, Ahead, Read
  PROVE  Queue' /\ Ahead'
<1> DEFINE f == First(todo)
           n == Len(events)
           m == Len(ledger[f])
<1>1. pc = "read" /\ f \in todo /\ f \in Files /\ \A g \in todo : f <= g
  BY FirstIsLeast, Types DEF Read, Ahead
<1> HIDE DEF f
<1>2. /\ read' = [read EXCEPT ![f] = ledger[f]] /\ todo' = todo \ {f}
      /\ UNCHANGED <<next, cases, seen>>
  BY DEF Read, f
<1>3. CASE ~Decodes(f)
  <2>1. pc' = "exit"
    BY <1>3 DEF Read, f, End, Goto
  <2> QED
    BY <2>1 DEF Queue, Ahead
<1>4. CASE Decodes(f)
  <2>1. events' = events \o Numbered(f) /\ pc' = IF todo' = {} THEN "name" ELSE "read"
    BY <1>4 DEF Read, f, Goto
  <2>2. n \in Nat /\ m \in Nat /\ ledger[f] \in Seq(Lines)
    BY <1>1, Types
  <2>3. /\ Len(events') = n + m
        /\ \A k \in 1..n : events'[k] = events[k]
        /\ \A i \in 1..m : events'[n + i] = <<f, i>>
    <3>1. Numbered(f) \in Seq(Files \X Nat) /\ Len(Numbered(f)) = m /\ \A i \in 1..m : Numbered(f)[i] = <<f, i>>
      BY <1>1, <2>2 DEF Numbered
    <3>2. events \in Seq(Files \X Nat)
      <4>1. Files \X (1..MaxLines) \subseteq Files \X Nat
        BY Limits
      <4>2. events \in Seq(Files \X (1..MaxLines))
        BY Types
      <4> QED
        BY <4>1, <4>2
    <3>3. \A s, t \in Seq(Files \X Nat) :
            /\ Len(s \o t) = Len(s) + Len(t)
            /\ \A k \in 1..Len(s) : (s \o t)[k] = s[k]
            /\ \A i \in 1..Len(t) : (s \o t)[Len(s) + i] = t[i]
      OBVIOUS
    <3> HIDE DEF Numbered
    <3>4. /\ Len(events \o Numbered(f)) = n + Len(Numbered(f))
          /\ \A k \in 1..n : (events \o Numbered(f))[k] = events[k]
          /\ \A i \in 1..Len(Numbered(f)) : (events \o Numbered(f))[n + i] = Numbered(f)[i]
      BY <3>1, <3>2, <3>3, Zenon
    <3> QED
      BY <2>1, <3>1, <3>4
  <2>4. \A k \in 1..(n + m) : k \in 1..n \/ \E i \in 1..m : k = n + i
    <3> SUFFICES ASSUME NEW k \in 1..(n + m), k \notin 1..n
                 PROVE  \E i \in 1..m : k = n + i
      OBVIOUS
    <3>1. k - n \in 1..m /\ k = n + (k - n)
      BY <2>2
    <3> QED
      BY <3>1
  <2>5. \A g \in Files : read'[g] = IF g = f THEN ledger[f] ELSE read[g]
    BY <1>1, <1>2, Types
  <2>6. \A k \in 1..n : /\ events[k] \in Files \X (1..MaxLines) /\ events[k][1] \in Files
                        /\ events[k][1] < f /\ events[k][1] # f
    <3> SUFFICES ASSUME NEW k \in 1..n
                 PROVE  /\ events[k] \in Files \X (1..MaxLines) /\ events[k][1] \in Files
                        /\ events[k][1] < f /\ events[k][1] # f
      OBVIOUS
    <3>1. events[k] \in Files \X (1..MaxLines)
      BY Types
    <3>2. events[k][1] < f
      BY <1>1 DEF Ahead
    <3> QED
      BY <1>1, <3>1, <3>2 DEF Files
  <2> HIDE DEF n, m
  <2>7. ASSUME NEW k \in 1..Len(events'), NEW l \in 1..Len(events'), k < l
        PROVE  Before(events'[k], events'[l])
    <3>1. CASE k \in 1..n /\ l \in 1..n
      BY <1>1, <2>3, <2>7, <3>1 DEF Queue, n
    <3>2. CASE k \in 1..n /\ \E i \in 1..m : l = n + i
      BY <2>3, <2>6, <3>2 DEF Before
    <3>3. CASE \E i, j \in 1..m : k = n + i /\ l = n + j
      <4>1. PICK i \in 1..m, j \in 1..m : k = n + i /\ l = n + j
        BY <3>3
      <4>2. i < j
        BY <2>2, <2>7, <4>1
      <4> QED
        BY <2>3, <4>1, <4>2 DEF Before
    <3>4. CASE l \in 1..n /\ \E i \in 1..m : k = n + i
      BY <2>2, <2>7, <3>4
    <3> QED
      BY <2>3, <2>4, <3>1, <3>2, <3>3, <3>4
  <2>8. ASSUME NEW g \in Files, NEW i \in 1..Len(read'[g])
        PROVE  \E k \in 1..Len(events') : events'[k] = <<g, i>>
    <3>1. CASE g = f
      <4>1. i \in 1..m
        BY <2>5, <2>8, <3>1 DEF m
      <4>2. n + i \in 1..(n + m)
        BY <2>2, <4>1 DEF n, m
      <4> QED
        BY <2>3, <3>1, <4>1, <4>2
    <3>2. CASE g # f
      <4>1. i \in 1..Len(read[g])
        BY <2>5, <2>8, <3>2
      <4>2. PICK k \in 1..n : events[k] = <<g, i>>
        BY <1>1, <4>1 DEF Queue, n
      <4>3. k \in 1..(n + m)
        BY <2>2 DEF n, m
      <4> QED
        BY <2>3, <4>2, <4>3
    <3> QED
      BY <3>1, <3>2
  <2>9. ASSUME NEW k \in 1..Len(events')
        PROVE  events'[k][2] <= Len(read'[events'[k][1]])
    <3>1. CASE k \in 1..n
      BY <1>1, <2>3, <2>5, <2>6, <3>1 DEF Queue, n
    <3>2. CASE \E i \in 1..m : k = n + i
      <4>1. PICK i \in 1..m : k = n + i
        BY <3>2
      <4>2. events'[k][1] = f /\ events'[k][2] = i
        BY <2>3, <4>1
      <4>3. i <= m
        BY <2>2 DEF m
      <4> QED
        BY <1>1, <2>5, <4>2, <4>3 DEF m
    <3> QED
      BY <2>3, <2>4, <3>1, <3>2
  <2>10. Queue'
    BY <2>7, <2>8, <2>9 DEF Queue
  <2>11. ASSUME NEW g \in todo'
         PROVE  read'[g] = <<>> /\ \A k \in 1..Len(events') : events'[k][1] < g
    <3>1. g \in todo /\ g # f /\ g \in Files
      BY <1>2, <2>11, Types
    <3>2. f < g
      BY <1>1, <3>1 DEF Files
    <3>3. read'[g] = <<>>
      BY <1>1, <2>5, <3>1 DEF Ahead
    <3>4. ASSUME NEW k \in 1..Len(events') PROVE events'[k][1] < g
      <4>1. CASE k \in 1..n
        BY <1>1, <2>3, <3>1, <4>1 DEF Ahead, n
      <4>2. CASE \E i \in 1..m : k = n + i
        BY <2>3, <3>2, <4>2
      <4> QED
        BY <2>3, <2>4, <4>1, <4>2
    <3> QED
      BY <3>3, <3>4
  <2>12. Ahead'
    BY <1>1, <1>2, <2>1, <2>11 DEF Ahead
  <2> QED
    BY <2>10, <2>12
<1> QED
  BY <1>3, <1>4

LEMMA QueueStep ==
  ASSUME TypeOK, Snapshot, Queue, Ahead, [Next]_vars
  PROVE  Queue'
<1>1. CASE UNCHANGED <<events, read>> /\ (pc' \in {"read", "name", "rename", "write"} => pc \in {"read", "name", "rename", "write"})
  BY <1>1 DEF Queue
<1>2. CASE Start
  BY <1>2 DEF Start, Goto, Queue
<1>3. CASE Discover
  <2>1. events' = <<>> /\ \A f \in Files : read'[f] = <<>>
    BY <1>3 DEF Discover, Ahead, loop
  <2>2. Len(events') = 0 /\ \A f \in Files : Len(read'[f]) = 0
    BY <2>1
  <2> QED
    BY <2>2 DEF Queue
<1>4. CASE Read
  BY <1>4, ReadStep
<1> QED
  BY <1>1, <1>2, <1>3, <1>4 DEF Next, Step, vars, loop, AppendLine, Ignore, Take, Rename, Named, Write,
     Validate, Exit, Interrupt, Goto, End

LEMMA AheadStep ==
  ASSUME TypeOK, Snapshot, Queue, Ahead, [Next]_vars
  PROVE  Ahead'
<1>1. CASE UNCHANGED <<pc, todo, read, loop>>
  BY <1>1 DEF Ahead, loop
<1>2. CASE pc' \notin {"discover", "read"}
  BY <1>2 DEF Ahead
<1>3. CASE Start
  BY <1>3 DEF Start, Goto, Ahead
<1>4. CASE Discover
  <2>1. /\ events' = <<>> /\ \A f \in Files : read'[f] = <<>>
        /\ next' = 1 /\ cases' = <<>> /\ seen' = {}
    BY <1>4 DEF Discover, Ahead, loop
  <2>2. pc' = "read" => todo' # {}
    BY <1>4 DEF Discover, End, Goto
  <2>3. todo' \subseteq Files /\ pc' # "discover"
    BY <1>4, ConstantsAssumption DEF Discover, Discovered, TypeOK, End, Goto
  <2>4. Len(events') = 0
    BY <2>1
  <2> QED
    BY <2>1, <2>2, <2>3, <2>4 DEF Ahead
<1>5. CASE Read
  BY <1>5, ReadStep
<1> QED
  BY <1>1, <1>2, <1>3, <1>4, <1>5 DEF Next, Step, vars, AppendLine, Ignore, Take, Rename, Named, Write,
     Validate, Exit, Interrupt, Goto, End
-----------------------------------------------------------------------------
(* Naming.                                                                 *)

\* A draft whose id has not been seen keeps the ids unique, and the drafts complete.
LEMMA KeepNaming ==
  ASSUME TypeOK, Snapshot, Queue, Naming, pc \in {"name", "rename"}, pc' = "name",
         next <= Len(events), MakesCase(Current), UNCHANGED <<events, read>>,
         NEW id \in Seq(Words), id \notin seen, Keep(id)
  PROVE  Naming'
<1> DEFINE n == Len(cases)
<1>1. /\ n \in Nat /\ Len(cases') = n + 1
      /\ \A i \in 1..n : cases'[i] = cases[i]
      /\ cases'[n + 1].id = id /\ cases'[n + 1].from = events[next]
  <2>1. cases \in Seq(CaseType)
    BY Types
  <2>2. cases'[n + 1] = [id |-> id, from |-> events[next], checks |-> Checks(Current)]
    BY KeepType
  <2> QED
    BY <2>1, <2>2, KeepType
<1>2. next \in 1..Len(events) /\ Len(events) \in Nat /\ next' = next + 1 /\ seen' = seen \cup {id}
  BY Types DEF Keep
<1>3. \A k \in 1..(next' - 1) : k \in 1..(next - 1) \/ k = next
  BY <1>2
<1>4. \A i \in 1..Len(cases') : i \in 1..n \/ i = n + 1
  BY <1>1
<1>5. \A k \in 1..Len(events) : MakesCase(Event(events[k]))' <=> MakesCase(Event(events[k]))
  BY DEF Event
<1> HIDE DEF n
<1>6. seen' = {cases'[i].id : i \in 1..Len(cases')}
  <2>1. seen = {cases[i].id : i \in 1..n}
    BY DEF Naming, NamedSoFar, n
  <2>2. ASSUME NEW x \in seen' PROVE \E i \in 1..Len(cases') : x = cases'[i].id
    <3>1. CASE x = id
      BY <1>1, <3>1
    <3>2. CASE x \in seen
      <4>1. PICK i \in 1..n : x = cases[i].id
        BY <2>1, <3>2
      <4>2. i \in 1..Len(cases') /\ cases'[i] = cases[i]
        BY <1>1, <4>1
      <4> QED
        BY <4>1, <4>2
    <3> QED
      BY <1>2, <2>2, <3>1, <3>2
  <2>3. ASSUME NEW i \in 1..Len(cases') PROVE cases'[i].id \in seen'
    <3>1. CASE i \in 1..n
      BY <1>1, <1>2, <2>1, <3>1
    <3>2. CASE i = n + 1
      BY <1>1, <1>2, <3>2
    <3> QED
      BY <1>4, <3>1, <3>2
  <2> QED
    BY <2>2, <2>3
<1>7. \A i \in 1..n : cases[i].id # id
  BY DEF Naming, NamedSoFar, n
<1>8. DistinctIds(cases)'
  <2> SUFFICES ASSUME NEW i \in 1..Len(cases'), NEW j \in 1..Len(cases'), cases'[i].id = cases'[j].id
               PROVE  i = j
    BY DEF DistinctIds
  <2>1. CASE i \in 1..n /\ j \in 1..n
    BY <1>1, <2>1 DEF Naming, NamedSoFar, DistinctIds, n
  <2>2. CASE i = n + 1 /\ j \in 1..n
    BY <1>1, <1>7, <2>2
  <2>3. CASE i \in 1..n /\ j = n + 1
    BY <1>1, <1>7, <2>3
  <2> QED
    BY <1>4, <2>1, <2>2, <2>3
<1>9. ASSUME NEW i \in 1..Len(cases')
      PROVE  \E k \in 1..(next' - 1) : cases'[i].from = events'[k] /\ MakesCase(Event(events[k]))'
  <2>1. CASE i \in 1..n
    <3>1. PICK k \in 1..(next - 1) : cases[i].from = events[k] /\ MakesCase(Event(events[k]))
      BY <2>1 DEF Naming, NamedSoFar, n
    <3>2. k \in 1..(next' - 1) /\ k \in 1..Len(events) /\ events'[k] = events[k]
      BY <1>2, <3>1
    <3> QED
      BY <1>1, <1>5, <2>1, <3>1, <3>2
  <2>2. CASE i = n + 1
    <3>1. next \in 1..(next' - 1) /\ events'[next] = events[next]
      BY <1>2
    <3>2. MakesCase(Event(events[next]))
      BY DEF Current
    <3> QED
      BY <1>1, <1>2, <1>5, <2>2, <3>1, <3>2
  <2> QED
    BY <1>4, <2>1, <2>2
<1>10. ASSUME NEW k \in 1..(next' - 1), MakesCase(Event(events[k]))'
       PROVE  \E i \in 1..Len(cases') : cases'[i].from = events'[k]
  <2>1. CASE k \in 1..(next - 1)
    <3>1. MakesCase(Event(events[k]))
      BY <1>2, <1>5, <1>10, <2>1
    <3>2. PICK i \in 1..n : cases[i].from = events[k]
      BY <2>1, <3>1 DEF Naming, NamedSoFar, n
    <3> QED
      BY <1>1, <3>2
  <2>2. CASE k = next
    BY <1>1, <2>2
  <2> QED
    BY <1>3, <2>1, <2>2
<1>11. ASSUME NEW i \in 1..Len(cases'), NEW j \in 1..Len(cases'), i < j
       PROVE  Before(cases'[i].from, cases'[j].from)
  <2>1. CASE i \in 1..n /\ j \in 1..n
    BY <1>1, <1>11, <2>1 DEF Naming, NamedSoFar, n
  <2>2. CASE i \in 1..n /\ j = n + 1
    <3>1. PICK k \in 1..(next - 1) : cases[i].from = events[k]
      BY <2>2 DEF Naming, NamedSoFar, n
    <3>2. k \in 1..Len(events) /\ k < next
      BY <1>2, <3>1
    <3>3. Before(events[k], events[next])
      BY <1>2, <3>2 DEF Queue
    <3> QED
      BY <1>1, <2>2, <3>1, <3>3
  <2>3. CASE i = n + 1
    BY <1>1, <1>11, <2>3
  <2> QED
    BY <1>4, <2>1, <2>2, <2>3
<1> QED
  BY <1>6, <1>8, <1>9, <1>10, <1>11 DEF Naming, NamedSoFar

\* Steps outside the naming loop, and its failed tests, leave what was named alone.
LEMMA NamedKept ==
  ASSUME NamedSoFar, UNCHANGED <<read, events, next, cases, seen>>
  PROVE  NamedSoFar' /\ (MakesCase(Current) => MakesCase(Current)')
<1>1. \A p : MakesCase(Event(p))' <=> MakesCase(Event(p))
  BY DEF Event
<1> QED
  BY <1>1 DEF NamedSoFar, DistinctIds, Current, Event

LEMMA NamingStep ==
  ASSUME TypeOK, Snapshot, Queue, Ahead, Naming, [Next]_vars
  PROVE  Naming'
<1>1. CASE UNCHANGED <<pc, read, loop>>
  <2>1. UNCHANGED <<pc, read, events, next, cases, seen>>
    BY <1>1 DEF loop
  <2> QED
    BY <2>1, NamedKept DEF Naming
<1>2. CASE pc' \notin {"name", "rename", "write"}
  BY <1>2 DEF Naming
<1>3. CASE Read
  <2>1. next' = 1 /\ cases' = <<>> /\ seen' = {}
    BY <1>3 DEF Read, Ahead
  <2>2. Len(cases') = 0
    BY <2>1
  <2>3. pc' \notin {"rename", "write"}
    BY <1>3 DEF Read, Goto, End
  <2>4. {cases'[i].id : i \in 1..Len(cases')} = {}
    BY <2>2
  <2>5. \A k : k \notin 1..(next' - 1)
    BY <2>1
  <2> QED
    BY <2>1, <2>2, <2>3, <2>4, <2>5 DEF Naming, NamedSoFar, DistinctIds
<1>4. CASE Ignore
  <2>1. next' = next + 1 /\ ~MakesCase(Current) /\ UNCHANGED <<pc, cases, seen, events, read>> /\ pc = "name"
    BY <1>4 DEF Ignore
  <2>2. next \in Nat /\ \A k \in 1..(next' - 1) : k \in 1..(next - 1) \/ k = next
    BY <2>1, Types
  <2>3. \A k \in 1..(next - 1) : k \in 1..(next' - 1)
    BY <2>1, <2>2
  <2>4. \A p : MakesCase(Event(p))' <=> MakesCase(Event(p))
    BY <2>1 DEF Event
  <2>5. NamedSoFar'
    BY <2>1, <2>2, <2>3, <2>4 DEF Naming, NamedSoFar, DistinctIds, Current, Event
  <2> QED
    BY <2>1, <2>5 DEF Naming
<1>5. CASE Take
  <2>1. /\ pc = "name" /\ next <= Len(events) /\ MakesCase(Current) /\ UNCHANGED <<events, read>>
    BY <1>5 DEF Take
  <2>2. CASE BaseId(Current) \notin seen
    <3>1. Keep(BaseId(Current)) /\ pc' = "name"
      BY <1>5, <2>1, <2>2 DEF Take
    <3>2. BaseId(Current) \in Seq(Words)
      BY <2>1, CurrentIsRead, BaseIdIsId DEF MakesCase
    <3> QED
      BY <2>1, <2>2, <3>1, <3>2, KeepNaming
  <2>3. CASE BaseId(Current) \in seen
    <3>1. pc' = "rename" /\ UNCHANGED <<cases, seen, next>>
      BY <1>5, <2>3 DEF Take, Goto
    <3> QED
      BY <2>1, <3>1, NamedKept DEF Naming
  <2> QED
    BY <2>2, <2>3
<1>6. CASE Rename
  <2>1. /\ pc = "rename" /\ next <= Len(events) /\ MakesCase(Current) /\ UNCHANGED <<events, read>>
    BY <1>6 DEF Rename, Naming
  <2>2. CASE trial.id \notin seen
    <3>1. Keep(trial.id) /\ pc' = "name" /\ trial.id \in Seq(Words)
      BY <1>6, <2>2, Types DEF Rename, Goto
    <3> QED
      BY <2>1, <2>2, <3>1, KeepNaming
  <2>3. CASE trial.id \in seen
    <3>1. UNCHANGED <<pc, cases, seen, next>>
      BY <1>6, <2>3 DEF Rename
    <3> QED
      BY <2>1, <3>1, NamedKept DEF Naming
  <2> QED
    BY <2>2, <2>3
<1>7. CASE Named
  <2>1. pc = "name" /\ UNCHANGED <<read, loop>> /\ pc' \in {"exit", "write"} /\ next > Len(events)
    BY <1>7 DEF Named, End, Goto
  <2>2. next = Len(events) + 1
    BY <2>1, Types
  <2> QED
    BY <2>1, <2>2, NamedKept DEF Naming, loop
<1> QED
  BY <1>1, <1>2, <1>3, <1>4, <1>5, <1>6, <1>7 DEF Next, Step, vars, AppendLine, Start, Discover, Write,
     Validate, Exit, Interrupt, Goto, End

-----------------------------------------------------------------------------
(* The draft file.                                                         *)

\* The drafts that are written are distinct, and one for each event that calls for one.
LEMMA WriteDrafts ==
  ASSUME TypeOK, Queue, Naming, Write
  PROVE  /\ DistinctIds(out'.cases)
         /\ {out'.cases[i].from : i \in 1..Len(out'.cases)} = Candidates(out'.read)
         /\ \A i, j \in 1..Len(out'.cases) : i < j => Before(out'.cases[i].from, out'.cases[j].from)
<1>1. out'.cases = cases /\ out'.read = read /\ pc = "write"
  BY DEF Write
<1>2. next = Len(events) + 1 /\ Len(events) \in Nat /\ 1..(next - 1) = 1..Len(events)
  BY <1>1, Types DEF Naming, NamedSoFar
<1>3. ASSUME NEW i \in 1..Len(cases)
      PROVE  cases[i].from \in Candidates(read)
  <2>1. PICK k \in 1..(next - 1) : cases[i].from = events[k] /\ MakesCase(Event(events[k]))
    BY <1>1 DEF Naming, NamedSoFar
  <2>2. events[k] \in Files \X (1..MaxLines) /\ events[k][2] <= Len(read[events[k][1]])
    BY <1>1, <1>2, <2>1, Types DEF Queue
  <2> QED
    BY <2>1, <2>2 DEF Candidates, Event
<1>4. ASSUME NEW p \in Candidates(read)
      PROVE  \E i \in 1..Len(cases) : cases[i].from = p
  <2>1. PICK f \in Files, i \in 1..MaxLines : p = <<f, i>>
    BY DEF Candidates
  <2>2. i <= Len(read[f]) /\ MakesCase(Event(p))
    BY <2>1 DEF Candidates, Event
  <2>3. i \in 1..Len(read[f])
    BY <2>1, <2>2, Types
  <2>4. PICK k \in 1..Len(events) : events[k] = p
    BY <1>1, <2>1, <2>3 DEF Queue
  <2> QED
    BY <1>1, <1>2, <2>2, <2>4 DEF Naming, NamedSoFar
<1>5. {cases[i].from : i \in 1..Len(cases)} = Candidates(read)
  BY <1>3, <1>4
<1> QED
  BY <1>1, <1>5 DEF Naming, NamedSoFar

LEMMA DraftsStep ==
  ASSUME IInv, [Next]_vars
  PROVE  IdsUnique' /\ EveryCandidateDrafted'
<1> USE DEF IInv
<1>1. CASE out' = out
  <2>1. IdsUnique'
    BY <1>1 DEF IdsUnique, Drafts
  <2>2. ASSUME Written, NEW f \in Files PROVE Prefix(out.read[f], ledger'[f])
    <3>1. out \in [cases : Seq(CaseType), read : [Files -> Seq(Lines)]]
      BY <2>2 DEF TypeOK, Written
    <3>2. out.read[f] \in Seq(Lines)
      BY <3>1
    <3>3. Prefix(out.read[f], ledger[f])
      BY <2>2 DEF EveryCandidateDrafted
    <3> QED
      BY <3>2, <3>3, StaysSnapshot
  <2> QED
    BY <1>1, <2>1, <2>2 DEF EveryCandidateDrafted, Written
<1>2. CASE Write
  <2>1. DistinctIds(Drafts(out'))
    <3>1. Len(<<>>) = 0
      OBVIOUS
    <3> QED
      BY <1>2, <3>1, WriteDrafts DEF Drafts, DistinctIds
  <2>2. \A f \in Files : Prefix(out'.read[f], ledger'[f])
    BY <1>2 DEF Write, Snapshot
  <2> QED
    BY <1>2, <2>1, <2>2, WriteDrafts DEF IdsUnique, EveryCandidateDrafted, Written
<1>3. CASE out' = Torn
  <2>1. Len(<<>>) = 0
    OBVIOUS
  <2> QED
    BY <1>3, <2>1 DEF IdsUnique, EveryCandidateDrafted, Written, Drafts, DistinctIds
<1> QED
  BY <1>1, <1>2, <1>3 DEF Next, Step, vars, loop, AppendLine, Start, Discover, Read, Ignore, Take, Rename,
     Named, Validate, Exit, Interrupt

-----------------------------------------------------------------------------
(* What the schema accepts.                                                *)

\* Whatever an event's checks are, those that are kept are accepted: a text check
\* that is kept has a text, and there is always at least the placeholder.
LEMMA KeptChecksAccepted ==
  ASSUME NEW e
  PROVE  SchemaAccepts(Checks(e))
<1>1. \A c \in Explicit(e) \cup Expected(e) : c.type = "text" => c.value \/ c.values # "missing"
  BY DEF Explicit, Expected, Normalizes
<1>2. CASE Explicit(e) # {}
  BY <1>1, <1>2 DEF Checks, SchemaAccepts
<1>3. CASE Explicit(e) = {} /\ Expected(e) # {}
  BY <1>1, <1>3 DEF Checks, SchemaAccepts
<1>4. CASE Explicit(e) = {} /\ Expected(e) = {}
  <2>1. Checks(e) = {Placeholder}
    BY <1>4 DEF Checks
  <2> QED
    BY <2>1 DEF SchemaAccepts, Placeholder
<1> QED
  BY <1>2, <1>3, <1>4

\* So a draft that is kept conforms.
LEMMA KeepConforms ==
  ASSUME TypeOK, Snapshot, Queue, pc \in {"name", "rename"}, next <= Len(events), Conforms(cases),
         NEW id \in Seq(Words), Keep(id)
  PROVE  Conforms(cases')
<1>1. /\ Len(cases') = Len(cases) + 1 /\ \A i \in 1..Len(cases) : cases'[i] = cases[i]
      /\ cases'[Len(cases) + 1] = [id |-> id, from |-> events[next], checks |-> Checks(Current)]
  BY KeepType
<1>2. Len(cases) \in Nat
  <2>1. cases \in Seq(CaseType)
    BY Types
  <2> QED
    BY <2>1
<1>3. SchemaAccepts(cases'[Len(cases) + 1].checks)
  <2>1. cases'[Len(cases) + 1].checks = Checks(Current)
    BY <1>1
  <2> QED
    BY <2>1, KeptChecksAccepted
<1>4. \A i \in 1..Len(cases') : i \in 1..Len(cases) \/ i = Len(cases) + 1
  BY <1>1, <1>2
<1> QED
  BY <1>1, <1>3, <1>4 DEF Conforms

LEMMA ConformingStep ==
  ASSUME TypeOK, Snapshot, Queue, Ahead, Naming, Conforming, [Next]_vars
  PROVE  Conforming'
<1>1. CASE UNCHANGED <<pc, cases, out>>
  BY <1>1 DEF Conforming
<1>2. CASE pc' \notin {"name", "rename", "write", "validate"}
  BY <1>2 DEF Conforming
<1>3. CASE Read
  <2>1. Len(cases') = 0 /\ pc' # "validate"
    BY <1>3 DEF Read, Ahead, Goto, End
  <2> QED
    BY <2>1 DEF Conforming, Conforms
<1>4. CASE Take
  <2>1. /\ pc = "name" /\ next <= Len(events) /\ MakesCase(Current) /\ Conforms(cases)
        /\ pc' \in {"name", "rename"}
    BY <1>4 DEF Take, Conforming, Goto
  <2>2. BaseId(Current) \in Seq(Words)
    BY <2>1, CurrentIsRead, BaseIdIsId DEF MakesCase
  <2>3. Keep(BaseId(Current)) \/ UNCHANGED cases
    BY <1>4 DEF Take
  <2> QED
    BY <2>1, <2>2, <2>3, KeepConforms DEF Conforming
<1>5. CASE Rename
  <2>1. /\ pc = "rename" /\ next <= Len(events) /\ Conforms(cases) /\ trial.id \in Seq(Words)
        /\ pc' \in {"name", "rename"}
    BY <1>5, Types DEF Rename, Conforming, Naming, Goto
  <2>2. Keep(trial.id) \/ UNCHANGED cases
    BY <1>5 DEF Rename
  <2> QED
    BY <2>1, <2>2, KeepConforms DEF Conforming
<1>6. CASE Ignore \/ Named
  <2>1. pc = "name" /\ UNCHANGED cases /\ pc' # "validate"
    BY <1>6 DEF Ignore, Named, loop, Goto, End
  <2> QED
    BY <2>1 DEF Conforming
<1>7. CASE Write
  <2>1. Conforms(out'.cases) /\ pc' = "validate"
    BY <1>7 DEF Write, Conforming, Goto
  <2> QED
    BY <2>1 DEF Conforming
<1> QED
  BY <1>1, <1>2, <1>3, <1>4, <1>5, <1>6, <1>7 DEF Next, Step, vars, loop, AppendLine, Start, Discover,
     Validate, Exit, Interrupt, Goto, End

LEMMA DraftsConformStep ==
  ASSUME TypeOK, Ahead, Conforming, DraftsConform, [Next]_vars
  PROVE  DraftsConform'
<1>1. CASE pc' # "exit"
  BY <1>1 DEF DraftsConform
<1>2. CASE UNCHANGED <<pc, next, verdict>>
  BY <1>2 DEF DraftsConform
<1>3. CASE Discover \/ Read
  <2>1. next' = 1
    BY <1>3 DEF Discover, Read, Ahead, loop
  <2>2. ~(next' > 1)
    BY <2>1
  <2> QED
    BY <2>2 DEF DraftsConform
<1>4. CASE Named
  <2>1. CASE cases = <<>>
    <3>1. verdict' = "no cases"
      BY <1>4, <2>1 DEF Named, End
    <3> QED
      BY <3>1 DEF DraftsConform
  <2>2. CASE cases # <<>>
    <3>1. pc' = "write"
      BY <1>4, <2>2 DEF Named, Goto
    <3> QED
      BY <3>1 DEF DraftsConform
  <2> QED
    BY <2>1, <2>2
<1>5. CASE Validate
  <2>1. \A i \in 1..Len(out.cases) : SchemaAccepts(out.cases[i].checks)
    BY <1>5 DEF Validate, Conforming, Conforms
  <2>2. verdict' = "ok"
    BY <1>5, <2>1 DEF Validate, End
  <2> QED
    BY <2>2 DEF DraftsConform
<1> QED
  BY <1>1, <1>2, <1>3, <1>4, <1>5 DEF Next, Step, vars, loop, AppendLine, Start, Ignore, Take, Rename,
     Write, Exit, Interrupt, Goto

-----------------------------------------------------------------------------
(* The ids of two imports.                                                 *)

LEMMA BeforeIsOrder ==
  ASSUME NEW p \in Files \X (1..MaxLines), NEW q \in Files \X (1..MaxLines)
  PROVE  /\ ~Before(p, p) /\ ~(Before(p, q) /\ Before(q, p))
         /\ \A r \in Files \X (1..MaxLines) : Before(p, q) /\ Before(q, r) => Before(p, r)
BY Limits DEF Before, Files

\* A list of positions in the order of the files and lines.
Ordered(a) ==
  /\ a \in Seq(Files \X (1..MaxLines))
  /\ \A k, l \in 1..Len(a) : k < l => Before(a[k], a[l])

\* The first i members of a are members of b.
Within(a, i, b) == \A k \in 1..i : \E l \in 1..Len(b) : a[k] = b[l]

\* Two ordered lists of positions that have the same members up to a common
\* one are the same up to it.
LEMMA SamePlaces ==
  ASSUME NEW a, NEW b, Ordered(a), Ordered(b),
         NEW i \in 1..Len(a), NEW j \in 1..Len(b), a[i] = b[j],
         Within(a, i, b), Within(b, j, a)
  PROVE  i = j /\ \A k \in 1..i : a[k] = b[k]
<1> /\ a \in Seq(Files \X (1..MaxLines)) /\ b \in Seq(Files \X (1..MaxLines))
    /\ \A k, l \in 1..Len(a) : k < l => Before(a[k], a[l])
    /\ \A k, l \in 1..Len(b) : k < l => Before(b[k], b[l])
    /\ \A k \in 1..i : \E l \in 1..Len(b) : a[k] = b[l]
    /\ \A l \in 1..j : \E k \in 1..Len(a) : a[k] = b[l]
  BY DEF Ordered, Within
<1> DEFINE Positions == Files \X (1..MaxLines)
<1>0. /\ \A k \in 1..Len(a) : a[k] \in Positions
      /\ \A k \in 1..Len(b) : b[k] \in Positions
      /\ Len(a) \in Nat /\ Len(b) \in Nat /\ i \in Nat /\ j \in Nat
      /\ 1..i \subseteq 1..Len(a) /\ 1..j \subseteq 1..Len(b)
      /\ 1..i \subseteq Nat /\ 1..j \subseteq Nat
  <2>1. Len(a) \in Nat /\ Len(b) \in Nat
    OBVIOUS
  <2>2. \A x, y \in Nat : \A z \in 1..y : z \in Nat /\ 1..z \subseteq 1..y /\ 1..z \subseteq Nat
    OBVIOUS
  <2>3. /\ \A k \in 1..Len(a) : a[k] \in Positions
        /\ \A k \in 1..Len(b) : b[k] \in Positions
    <3>1. a \in Seq(Positions) /\ b \in Seq(Positions)
      OBVIOUS
    <3> HIDE DEF Positions
    <3>2. \A s \in Seq(Positions) : \A k \in 1..Len(s) : s[k] \in Positions
      OBVIOUS
    <3> QED
      BY <3>1, <3>2, Zenon
  <2> HIDE DEF Positions
  <2> QED
    BY <2>1, <2>2, <2>3
<1>1. /\ \A p, q \in Positions : ~Before(p, p) /\ ~(Before(p, q) /\ Before(q, p))
      /\ \A p, q, r \in Positions : Before(p, q) /\ Before(q, r) => Before(p, r)
  BY BeforeIsOrder
<1> HIDE DEF Positions
<1>2. ASSUME NEW k \in 1..i PROVE \E l \in 1..j : a[k] = b[l]
  <2>1. PICK l \in 1..Len(b) : a[k] = b[l]
    OBVIOUS
  <2>2. CASE l <= j
    BY <2>1, <2>2
  <2>3. CASE l > j
    <3>1. Before(a[i], a[k])
      BY <2>1, <2>3
    <3>2. k \in 1..Len(a) /\ (k = i \/ k < i)
      OBVIOUS
    <3> QED
      BY <1>0, <1>1, <3>1, <3>2
  <2> QED
    BY <1>0, <2>2, <2>3
<1>3. ASSUME NEW l \in 1..j PROVE \E k \in 1..i : a[k] = b[l]
  <2>1. PICK k \in 1..Len(a) : a[k] = b[l]
    OBVIOUS
  <2>2. CASE k <= i
    BY <2>1, <2>2
  <2>3. CASE k > i
    <3>1. Before(b[j], b[l])
      BY <2>1, <2>3
    <3>2. l \in 1..Len(b) /\ (l = j \/ l < j)
      OBVIOUS
    <3> QED
      BY <1>0, <1>1, <3>1, <3>2
  <2> QED
    BY <1>0, <2>2, <2>3
<1> DEFINE Wrong == {k \in 1..i : ~(k \in 1..j /\ a[k] = b[k])}
<1>4. Wrong = {}
  <2> SUFFICES ASSUME Wrong # {} PROVE FALSE
    OBVIOUS
  <2>1. PICK m \in Wrong : \A y \in Wrong : m <= y
    <3>1. Wrong \in SUBSET Nat
      OBVIOUS
    <3> QED
      BY <3>1, LeastExists
  <2>2. m \in 1..i /\ ~(m \in 1..j /\ a[m] = b[m])
    BY <2>1
  <2>3. ASSUME NEW k \in 1..i, k < m PROVE k \in 1..j /\ a[k] = b[k]
    <3>1. k \in Nat /\ m \in Nat /\ ~(m <= k)
      BY <1>0, <2>2, <2>3
    <3> QED
      BY <2>1, <3>1
  <2>4. PICK n \in 1..j : a[m] = b[n]
    BY <1>2, <2>2
  <2>5. CASE n < m
    <3>1. n \in 1..i /\ a[n] = b[n]
      <4>1. n \in 1..i
        BY <2>2, <2>5
      <4> QED
        BY <2>3, <2>5, <4>1
    <3>2. Before(a[n], a[m])
      BY <1>0, <2>2, <2>5, <3>1
    <3> QED
      BY <1>0, <1>1, <2>2, <2>4, <3>1, <3>2
  <2>6. CASE n > m
    <3>1. m \in 1..j /\ Before(b[m], b[n])
      <4>1. m \in 1..j /\ m \in 1..Len(b) /\ n \in 1..Len(b)
        <5>1. m \in Nat /\ n \in Nat /\ j \in Nat /\ 1 <= m /\ n <= j
          BY <1>0, <2>2
        <5>2. m \in 1..j
          BY <2>6, <5>1
        <5> QED
          BY <1>0, <5>2
      <4> QED
        BY <2>6, <4>1
    <3>2. PICK l \in 1..i : a[l] = b[m]
      BY <1>3, <3>1
    <3>3. Before(a[l], a[m])
      BY <2>4, <3>1, <3>2
    <3>4. l < m
      <4>1. CASE l = m
        BY <1>0, <1>1, <2>2, <3>3, <4>1
      <4>2. CASE m < l
        <5>0. m \in 1..Len(a) /\ l \in 1..Len(a)
          BY <1>0, <2>2
        <5>1. Before(a[m], a[l])
          BY <4>2, <5>0
        <5> QED
          BY <1>0, <1>1, <2>2, <3>3, <5>1
      <4> QED
        BY <2>2, <4>1, <4>2
    <3>5. l \in 1..j /\ a[l] = b[l]
      BY <2>3, <3>4
    <3>6. Before(b[l], b[m])
      <4>1. l \in 1..Len(b) /\ m \in 1..Len(b)
        BY <1>0, <3>1, <3>5
      <4> QED
        BY <3>4, <4>1
    <3> QED
      BY <1>0, <1>1, <3>1, <3>2, <3>5, <3>6
  <2>7. CASE n = m
    BY <2>2, <2>4, <2>7
  <2> QED
    BY <2>2, <2>5, <2>6, <2>7
<1>5. \A k \in 1..i : k \in 1..j /\ a[k] = b[k]
  BY <1>4
<1>6. i = j
  <2>1. i \in 1..j /\ a[i] = b[i]
    BY <1>5
  <2>2. ~(i < j)
    <3> SUFFICES ASSUME i < j PROVE FALSE
      OBVIOUS
    <3>1. Before(b[i], b[j])
      <4>1. i \in 1..Len(b) /\ i < j
        BY <1>0, <2>1
      <4> QED
        BY <4>1
    <3> QED
      BY <1>0, <1>1, <2>1, <3>1
  <2> QED
    BY <2>1, <2>2
<1> QED
  BY <1>5, <1>6

\* The first free id of an event is determined by what was taken before.
LEMMA FreeIsUnique ==
  ASSUME NEW k \in Nat, NEW l \in Nat, NEW p, NEW u, NEW v, NEW taken,
         u[p[1]][p[2]] = v[p[1]][p[2]], FreeAt(k, p, u, taken), FreeAt(l, p, v, taken)
  PROVE  Try(p, u, k) = Try(p, v, l)
<1>1. \A n \in Nat : Try(p, u, n) = Try(p, v, n)
  BY DEF Try
<1>2. ~(k < l)
  <2> SUFFICES ASSUME k < l PROVE FALSE
    OBVIOUS
  <2>1. k \in 0..(l - 1)
    OBVIOUS
  <2> QED
    BY <1>1, <2>1 DEF FreeAt
<1>3. ~(l < k)
  <2> SUFFICES ASSUME l < k PROVE FALSE
    OBVIOUS
  <2>1. l \in 0..(k - 1)
    OBVIOUS
  <2> QED
    BY <1>1, <2>1 DEF FreeAt
<1>4. k = l
  BY <1>2, <1>3
<1> QED
  BY <1>1, <1>4

\* The first i drafts of two lists are made from the same events.
SameUpTo(i, a, b, u, v) ==
  \A k \in 1..i : /\ a[k].from = b[k].from
                  /\ u[a[k].from[1]][a[k].from[2]] = v[a[k].from[1]][a[k].from[2]]

\* Drafts of the same events at the same places have the same ids.
LEMMA SameIds ==
  ASSUME NEW a, NEW b, NEW u, NEW v, NEW i \in Nat,
         1..i \subseteq 1..Len(a), 1..i \subseteq 1..Len(b),
         SameUpTo(i, a, b, u, v), FirstFree(a, u), FirstFree(b, v)
  PROVE  \A k \in 1..i : a[k].id = b[k].id
<1> DEFINE Wrong == {k \in 1..i : a[k].id # b[k].id}
<1>1. Wrong = {}
  <2> SUFFICES ASSUME Wrong # {} PROVE FALSE
    OBVIOUS
  <2>1. PICK m \in Wrong : \A y \in Wrong : m <= y
    <3>1. Wrong \in SUBSET Nat
      OBVIOUS
    <3> QED
      BY <3>1, LeastExists
  <2>2. m \in 1..i /\ a[m].id # b[m].id
    BY <2>1
  <2>3. \A k \in 1..(m - 1) : a[k].id = b[k].id
    <3> TAKE k \in 1..(m - 1)
    <3>1. k \in 1..i /\ ~(m <= k)
      BY <2>2
    <3> QED
      BY <2>1, <3>1
  <2>4. IdsBefore(a, m) = IdsBefore(b, m)
    BY <2>3 DEF IdsBefore
  <2>5. PICK k \in Nat : /\ FreeAt(k, a[m].from, u, IdsBefore(a, m))
                         /\ a[m].id = Try(a[m].from, u, k)
    BY <2>2 DEF FirstFree
  <2>6. PICK l \in Nat : /\ FreeAt(l, b[m].from, v, IdsBefore(b, m))
                         /\ b[m].id = Try(b[m].from, v, l)
    BY <2>2 DEF FirstFree
  <2>7. /\ a[m].from = b[m].from
        /\ u[a[m].from[1]][a[m].from[2]] = v[a[m].from[1]][a[m].from[2]]
    BY <2>2 DEF SameUpTo
  <2>8. Try(a[m].from, u, k) = Try(a[m].from, v, l)
    BY <2>4, <2>5, <2>6, <2>7, FreeIsUnique
  <2> QED
    BY <2>2, <2>5, <2>6, <2>7, <2>8
<1> QED
  BY <1>1

\* A draft that is kept has the first id that is free.
LEMMA KeepFirstFree ==
  ASSUME TypeOK, Snapshot, Queue, Naming, pc \in {"name", "rename"}, next <= Len(events),
         FirstFree(cases, read), UNCHANGED read, NEW id \in Seq(Words), Keep(id), NEW k \in Nat,
         FreeAt(k, events[next], read, seen), id = Try(events[next], read, k)
  PROVE  FirstFree(cases', read')
<1> DEFINE n == Len(cases)
<1>1. /\ n \in Nat /\ Len(cases') = n + 1
      /\ \A i \in 1..n : cases'[i] = cases[i]
      /\ cases'[n + 1].id = id /\ cases'[n + 1].from = events[next]
  <2>1. cases \in Seq(CaseType)
    BY Types
  <2>2. cases'[n + 1] = [id |-> id, from |-> events[next], checks |-> Checks(Current)]
    BY KeepType
  <2> QED
    BY <2>1, <2>2, KeepType
<1>2. seen = {cases[i].id : i \in 1..n}
  BY DEF Naming, NamedSoFar
<1> HIDE DEF n
<1>3. ASSUME NEW i \in 1..n
      PROVE  \E l \in Nat : /\ FreeAt(l, cases'[i].from, read', IdsBefore(cases', i))
                            /\ cases'[i].id = Try(cases'[i].from, read', l)
  <2>1. \A m \in 1..(i - 1) : m \in 1..n /\ cases'[m] = cases[m]
    BY <1>1
  <2>2. IdsBefore(cases', i) = IdsBefore(cases, i) /\ cases'[i] = cases[i]
    BY <1>1, <2>1 DEF IdsBefore
  <2>3. PICK l \in Nat : /\ FreeAt(l, cases[i].from, read, IdsBefore(cases, i))
                         /\ cases[i].id = Try(cases[i].from, read, l)
    BY DEF FirstFree, n
  <2> QED
    BY <2>2, <2>3
<1>4. IdsBefore(cases', n + 1) = seen
  <2>1. (n + 1) - 1 = n
    BY <1>1
  <2> QED
    BY <1>1, <1>2, <2>1 DEF IdsBefore
<1>5. \A i \in 1..Len(cases') : i \in 1..n \/ i = n + 1
  BY <1>1
<1> QED
  BY <1>1, <1>3, <1>4, <1>5 DEF FirstFree

LEMMA ChoosingStep ==
  ASSUME TypeOK, Snapshot, Queue, Ahead, Naming, Choosing, [Next]_vars
  PROVE  Choosing'
<1>1. CASE UNCHANGED <<pc, read, loop, out>>
  BY <1>1 DEF Choosing, Trying, Written, loop
<1>2. CASE pc' \notin {"name", "rename", "write"} /\ out' \in {out, Torn}
  BY <1>2 DEF Choosing, Trying, Written
<1>3. CASE Read
  <2>1. Len(cases') = 0 /\ pc' # "rename" /\ UNCHANGED out
    BY <1>3 DEF Read, Ahead, Goto, End
  <2>2. FirstFree(cases', read')
    BY <2>1 DEF FirstFree
  <2> QED
    BY <2>1, <2>2 DEF Choosing, Trying, Written
<1>4. CASE Ignore \/ Named
  <2>1. pc = "name" /\ UNCHANGED <<cases, read, out>> /\ pc' # "rename"
    BY <1>4 DEF Ignore, Named, loop, Goto, End
  <2> QED
    BY <2>1 DEF Choosing, Trying, Written
<1>5. CASE Take
  <2>1. /\ pc = "name" /\ next <= Len(events) /\ MakesCase(Current)
        /\ UNCHANGED <<events, read, out>> /\ FirstFree(cases, read)
    BY <1>5 DEF Take, Choosing
  <2>2. Current = read[events[next][1]][events[next][2]]
    BY DEF Current, Event
  <2>3. Try(events[next], read, 0) = BaseId(Current)
    BY <2>2 DEF Try
  <2>4. BaseId(Current) \in Seq(Words)
    BY <2>1, CurrentIsRead, BaseIdIsId DEF MakesCase
  <2>5. CASE BaseId(Current) \notin seen
    <3>1. Keep(BaseId(Current)) /\ pc' = "name"
      BY <1>5, <2>1, <2>5 DEF Take
    <3>2. FreeAt(0, events[next], read, seen)
      BY <2>3, <2>5 DEF FreeAt
    <3>3. FirstFree(cases', read')
      BY <2>1, <2>3, <2>4, <3>1, <3>2, KeepFirstFree
    <3> QED
      BY <2>1, <3>1, <3>3 DEF Choosing, Trying, Written
  <2>6. CASE BaseId(Current) \in seen
    <3>1. /\ trial' = [id |-> LineId(BaseId(Current), events[next][2]), counter |-> 2]
          /\ pc' = "rename" /\ UNCHANGED <<cases, seen, next>>
      BY <1>5, <2>6 DEF Take, Goto
    <3>2. /\ trial'.counter = 2 /\ trial'.counter - 1 = 1 /\ trial'.counter - 2 = 0
          /\ trial'.id = LineId(BaseId(Current), events[next][2])
      BY <3>1
    <3>3. Try(events[next], read, 1) = LineId(BaseId(Current), events[next][2])
      BY <2>2 DEF Try
    <3>4. \A m \in 0..0 : Try(events[next], read, m) \in seen
      BY <2>3, <2>6
    <3>5. Trying'
      BY <2>1, <3>1, <3>2, <3>3, <3>4 DEF Trying
    <3> QED
      BY <2>1, <3>1, <3>5 DEF Choosing, Written
  <2> QED
    BY <2>5, <2>6
<1>6. CASE Rename
  <2>1. /\ pc = "rename" /\ next <= Len(events) /\ UNCHANGED <<events, read, out>>
        /\ FirstFree(cases, read) /\ trial.id \in Seq(Words)
    BY <1>6, Types DEF Rename, Naming, Choosing
  <2>2. /\ trial.counter \in Nat \ {0, 1}
        /\ trial.id = Try(events[next], read, trial.counter - 1)
        /\ \A m \in 0..(trial.counter - 2) : Try(events[next], read, m) \in seen
    BY <2>1 DEF Choosing, Trying
  <2>3. trial.counter - 1 \in Nat /\ (trial.counter - 1) - 1 = trial.counter - 2
    BY <2>2
  <2>4. CASE trial.id \notin seen
    <3>1. Keep(trial.id) /\ pc' = "name"
      BY <1>6, <2>4 DEF Rename, Goto
    <3>2. FreeAt(trial.counter - 1, events[next], read, seen)
      BY <2>2, <2>3, <2>4 DEF FreeAt
    <3>3. FirstFree(cases', read')
      <4>1. PICK k \in Nat : k = trial.counter - 1
        BY <2>3
      <4>2. FreeAt(k, events[next], read, seen) /\ trial.id = Try(events[next], read, k)
        BY <2>2, <3>2, <4>1
      <4> QED
        BY <2>1, <3>1, <4>2, KeepFirstFree
    <3> QED
      BY <2>1, <3>1, <3>3 DEF Choosing, Trying, Written
  <2>5. CASE trial.id \in seen
    <3>1. /\ trial' = [id |-> CountedId(BaseId(Current), events[next][2], trial.counter),
                       counter |-> trial.counter + 1]
          /\ UNCHANGED <<pc, cases, seen, next>>
      BY <1>6, <2>5 DEF Rename
    <3>2. /\ trial'.counter = trial.counter + 1
          /\ trial'.id = CountedId(BaseId(Current), events[next][2], trial.counter)
      BY <3>1
    <3>3. Try(events[next], read, trial.counter) = trial'.id
      BY <2>2, <3>2 DEF Try, Current, Event
    <3>4. /\ trial'.counter \in Nat \ {0, 1} /\ trial'.counter - 1 = trial.counter
          /\ trial'.counter - 2 = trial.counter - 1
      BY <2>2, <3>2
    <3>5. \A m \in 0..(trial.counter - 1) : m \in 0..(trial.counter - 2) \/ m = trial.counter - 1
      BY <2>2
    <3>6. \A m \in 0..(trial.counter - 1) : Try(events[next], read, m) \in seen
      BY <2>2, <2>5, <3>5
    <3>7. Trying'
      BY <2>1, <3>1, <3>3, <3>4, <3>6 DEF Trying
    <3> QED
      BY <2>1, <3>1, <3>7 DEF Choosing, Written
  <2> QED
    BY <2>4, <2>5
<1>7. CASE Write
  <2>1. pc = "write" /\ pc' = "validate" /\ out'.cases = cases /\ out'.read = read
    BY <1>7 DEF Write, Goto
  <2> QED
    BY <2>1 DEF Choosing, Trying, Written
<1> QED
  BY <1>1, <1>2, <1>3, <1>4, <1>5, <1>6, <1>7 DEF Next, Step, vars, loop, AppendLine, Start, Discover,
     Validate, Exit, Interrupt, Goto, End

\* A draft file: one draft for each candidate, in their order, with the first free ids.
DraftFile == [cases : Seq(CaseType), read : [Files -> Seq(Lines)]]

Faithful(file, view) ==
  /\ {file.cases[i].from : i \in 1..Len(file.cases)} = Candidates(file.read)
  /\ \A i, j \in 1..Len(file.cases) : i < j => Before(file.cases[i].from, file.cases[j].from)
  /\ \A f \in Files : Prefix(file.read[f], view[f])
  /\ FirstFree(file.cases, file.read)

\* What was read of ledgers that are now as in view.
ReadOf(u, view) == u \in [Files -> Seq(Lines)] /\ \A f \in Files : Prefix(u[f], view[f])

\* A list of the events that make a case.
Lists(a, u) == {a[k] : k \in 1..Len(a)} = Candidates(u)

\* Two prefixes of one ledger agree about an event that both have, and about those before it.
LEMMA SameEvents ==
  ASSUME NEW u, NEW v, NEW view, ReadOf(u, view), ReadOf(v, view),
         NEW p \in Candidates(u), p \in Candidates(v), \A f \in 1..(p[1] - 1) : u[f] = v[f],
         NEW q \in Candidates(u), q = p \/ Before(q, p)
  PROVE  q \in Candidates(v) /\ u[q[1]][q[2]] = v[q[1]][q[2]]
<1>1. /\ p \in Files \X (1..MaxLines) /\ q \in Files \X (1..MaxLines)
      /\ p[2] <= Len(u[p[1]]) /\ p[2] <= Len(v[p[1]]) /\ q[2] <= Len(u[q[1]])
      /\ MakesCase(u[q[1]][q[2]])
  BY DEF Candidates
<1>2. /\ p[1] \in Nat \ {0} /\ q[1] \in Nat \ {0} /\ p[2] \in Nat \ {0} /\ q[2] \in Nat \ {0}
      /\ p[1] \in Files /\ q[1] \in Files
  BY <1>1, Limits DEF Files
<1>3. CASE q[1] < p[1]
  <2>1. q[1] \in 1..(p[1] - 1)
    BY <1>2, <1>3
  <2>2. u[q[1]] = v[q[1]]
    BY <2>1
  <2> QED
    BY <1>1, <2>2 DEF Candidates
<1>4. CASE q[1] = p[1] /\ q[2] <= p[2]
  <2>1. u[q[1]] \in Seq(Lines) /\ v[q[1]] \in Seq(Lines)
    BY <1>2 DEF ReadOf
  <2>2. Len(u[q[1]]) \in Nat /\ Len(v[q[1]]) \in Nat
    BY <2>1
  <2>3. q[2] <= Len(v[q[1]])
    BY <1>1, <1>2, <1>4, <2>2
  <2>4. q[2] \in 1..Len(u[q[1]]) /\ q[2] \in 1..Len(v[q[1]])
    BY <1>1, <1>2, <2>2, <2>3
  <2>5. u[q[1]][q[2]] = view[q[1]][q[2]] /\ v[q[1]][q[2]] = view[q[1]][q[2]]
    BY <1>2, <2>4 DEF Prefix, ReadOf
  <2> QED
    BY <1>1, <2>3, <2>5 DEF Candidates
<1>5. (q[1] < p[1]) \/ (q[1] = p[1] /\ q[2] <= p[2])
  BY <1>2 DEF Before
<1> QED
  BY <1>3, <1>4, <1>5

\* The candidates of two ledgers, in their order, are the same up to an event before
\* which nothing has changed.
LEMMA SameCandidates ==
  ASSUME NEW u, NEW v, NEW view, ReadOf(u, view), ReadOf(v, view),
         NEW a, NEW b, Ordered(a), Ordered(b), Lists(a, u), Lists(b, v),
         NEW i \in 1..Len(a), NEW j \in 1..Len(b), a[i] = b[j],
         \A f \in 1..(a[i][1] - 1) : u[f] = v[f]
  PROVE  i = j /\ \A k \in 1..i : a[k] = b[k] /\ u[a[k][1]][a[k][2]] = v[a[k][1]][a[k][2]]
<1> DEFINE p == a[i]
<1>1. /\ p \in Candidates(u) /\ p \in Candidates(v) /\ b[j] = p
      /\ \A f \in 1..(p[1] - 1) : u[f] = v[f]
      /\ \A f \in 1..(p[1] - 1) : v[f] = u[f]
  BY DEF Lists
<1>2. Len(a) \in Nat /\ Len(b) \in Nat
  BY DEF Ordered
<1> HIDE DEF p
<1>3. ASSUME NEW k \in 1..i
      PROVE  (\E l \in 1..Len(b) : a[k] = b[l]) /\ u[a[k][1]][a[k][2]] = v[a[k][1]][a[k][2]]
  <2>1. k \in 1..Len(a) /\ (k = i \/ k < i)
    BY <1>2
  <2>2. a[k] \in Candidates(u) /\ (a[k] = p \/ Before(a[k], p))
    BY <2>1 DEF p, Ordered, Lists
  <2>3. a[k] \in Candidates(v) /\ u[a[k][1]][a[k][2]] = v[a[k][1]][a[k][2]]
    BY <1>1, <2>2, SameEvents
  <2> QED
    BY <2>3 DEF Lists
<1>4. ASSUME NEW l \in 1..j PROVE \E k \in 1..Len(a) : a[k] = b[l]
  <2>1. l \in 1..Len(b) /\ (l = j \/ l < j)
    BY <1>2
  <2>2. b[l] \in Candidates(v) /\ (b[l] = p \/ Before(b[l], p))
    BY <1>1, <2>1 DEF Ordered, Lists
  <2>3. b[l] \in Candidates(u)
    BY <1>1, <2>2, SameEvents
  <2> QED
    BY <2>3 DEF Lists
<1>5. i = j /\ \A k \in 1..i : a[k] = b[k]
  <2>1. Within(a, i, b)
    BY <1>3 DEF Within
  <2>2. Within(b, j, a)
    BY <1>4 DEF Within
  <2> QED
    BY <2>1, <2>2, SamePlaces
<1> QED
  BY <1>3, <1>5

\* In two draft files of ledgers that grew in between, an event before which nothing
\* has changed has the same place and the same id.
LEMMA SameDrafts ==
  ASSUME NEW d \in DraftFile, NEW e \in DraftFile, NEW view, Faithful(d, view), Faithful(e, view),
         NEW i \in 1..Len(d.cases), NEW j \in 1..Len(e.cases),
         d.cases[i].from = e.cases[j].from,
         \A f \in 1..(d.cases[i].from[1] - 1) : d.read[f] = e.read[f]
  PROVE  d.cases[i].id = e.cases[j].id
<1> DEFINE Positions == Files \X (1..MaxLines)
           a == [k \in 1..Len(d.cases) |-> d.cases[k].from]
           b == [k \in 1..Len(e.cases) |-> e.cases[k].from]
           u == d.read
           v == e.read
<1>1. /\ d.cases \in Seq(CaseType) /\ e.cases \in Seq(CaseType)
      /\ u \in [Files -> Seq(Lines)] /\ v \in [Files -> Seq(Lines)]
  BY DEF DraftFile
<1>2. Len(d.cases) \in Nat /\ Len(e.cases) \in Nat
  BY <1>1
<1>3. /\ \A k \in 1..Len(d.cases) : d.cases[k].from \in Positions
      /\ \A k \in 1..Len(e.cases) : e.cases[k].from \in Positions
  <2>1. \A s \in Seq(CaseType) : \A k \in 1..Len(s) : s[k].from \in Positions
    <3> TAKE s \in Seq(CaseType)
    <3> TAKE k \in 1..Len(s)
    <3>1. s[k] \in CaseType
      OBVIOUS
    <3> QED
      BY <3>1 DEF CaseType
  <2> QED
    BY <1>1, <2>1
<1>4. /\ a \in Seq(Positions) /\ Len(a) = Len(d.cases) /\ \A k \in 1..Len(a) : a[k] = d.cases[k].from
      /\ b \in Seq(Positions) /\ Len(b) = Len(e.cases) /\ \A k \in 1..Len(b) : b[k] = e.cases[k].from
  <2> HIDE DEF Positions
  <2> QED
    BY <1>2, <1>3
<1> HIDE DEF a, b
<1>5. /\ Ordered(a) /\ Ordered(b) /\ ReadOf(u, view) /\ ReadOf(v, view)
      /\ FirstFree(d.cases, u) /\ FirstFree(e.cases, v)
  BY <1>1, <1>4 DEF Faithful, Ordered, ReadOf
<1>6. Lists(a, u) /\ Lists(b, v)
  <2>1. /\ {a[k] : k \in 1..Len(a)} = {d.cases[k].from : k \in 1..Len(d.cases)}
        /\ {b[k] : k \in 1..Len(b)} = {e.cases[k].from : k \in 1..Len(e.cases)}
    BY <1>4
  <2> QED
    BY <2>1 DEF Faithful, Lists
<1>7. /\ i \in 1..Len(a) /\ j \in 1..Len(b) /\ a[i] = b[j]
      /\ \A f \in 1..(a[i][1] - 1) : u[f] = v[f]
  BY <1>4
<1> HIDE DEF u, v, Positions
<1>9. i = j /\ \A k \in 1..i : a[k] = b[k] /\ u[a[k][1]][a[k][2]] = v[a[k][1]][a[k][2]]
  BY <1>5, <1>6, <1>7, SameCandidates
<1>10. i \in Nat /\ 1..i \subseteq 1..Len(d.cases) /\ 1..i \subseteq 1..Len(e.cases) /\ i \in 1..i
  <2>1. \A x \in Nat : \A z \in 1..x : z \in Nat /\ 1..z \subseteq 1..x /\ z \in 1..z
    OBVIOUS
  <2> QED
    BY <1>2, <1>4, <1>9, <2>1
<1>11. SameUpTo(i, d.cases, e.cases, u, v)
  <2> SUFFICES ASSUME NEW k \in 1..i
               PROVE  /\ d.cases[k].from = e.cases[k].from
                      /\ u[d.cases[k].from[1]][d.cases[k].from[2]]
                           = v[d.cases[k].from[1]][d.cases[k].from[2]]
    BY Zenon DEF SameUpTo
  <2>1. k \in 1..Len(d.cases) /\ k \in 1..Len(e.cases)
    BY <1>10
  <2>2. a[k] = d.cases[k].from /\ b[k] = e.cases[k].from
    BY <1>4, <2>1
  <2>3. a[k] = b[k] /\ u[a[k][1]][a[k][2]] = v[a[k][1]][a[k][2]]
    BY <1>9
  <2> QED
    BY <2>2, <2>3, Zenon
<1>12. \A k \in 1..i : d.cases[k].id = e.cases[k].id
  BY <1>5, <1>10, <1>11, SameIds
<1> QED
  BY <1>9, <1>10, <1>12

\* A draft file that stays or is written is faithful to the ledgers as they are now.
LEMMA FilesFaithful ==
  ASSUME IInv, IInv', [Next]_vars, Written, Written'
  PROVE  out \in DraftFile /\ out' \in DraftFile /\ Faithful(out, ledger') /\ Faithful(out', ledger')
<1>1. out \in DraftFile /\ out' \in DraftFile
  BY DEF IInv, TypeOK, Written, DraftFile
<1>2. ASSUME NEW f \in Files PROVE Prefix(out.read[f], ledger'[f])
  <2>1. out.read[f] \in Seq(Lines)
    BY <1>1 DEF DraftFile
  <2>2. Prefix(out.read[f], ledger[f])
    BY DEF IInv, EveryCandidateDrafted
  <2> QED
    BY <2>1, <2>2, StaysSnapshot DEF IInv
<1>3. Faithful(out, ledger')
  BY <1>2 DEF IInv, EveryCandidateDrafted, Choosing, Faithful
<1>4. Faithful(out', ledger')
  BY DEF IInv, EveryCandidateDrafted, Choosing, Faithful
<1> QED
  BY <1>1, <1>3, <1>4

LEMMA KeepsIds ==
  ASSUME IInv, IInv', [Next]_vars,
         NEW i \in 1..Len(Drafts(out)), NEW j \in 1..Len(Drafts(out')),
         out.cases[i].from = out'.cases[j].from,
         \A f \in 1..(out.cases[i].from[1] - 1) : out.read[f] = out'.read[f]
  PROVE  out.cases[i].id = out'.cases[j].id
<1>1. Written /\ Written'
  <2>1. Len(<<>>) = 0
    OBVIOUS
  <2> QED
    BY <2>1 DEF Written, Drafts
<1>2. i \in 1..Len(out.cases) /\ j \in 1..Len(out'.cases)
  BY <1>1 DEF Drafts, Written
<1>3. /\ out \in DraftFile /\ out' \in DraftFile
      /\ Faithful(out, ledger') /\ Faithful(out', ledger')
  BY <1>1, FilesFaithful
<1> QED
  BY <1>2, <1>3, SameDrafts

-----------------------------------------------------------------------------
(* The theorems.                                                           *)

LEMMA InitInvariant == Init => IInv
<1> SUFFICES ASSUME Init PROVE IInv
  OBVIOUS
<1>1. TypeOK
  BY TypeInit
<1>2. \A f \in Files : ledger[f] = <<>> /\ read[f] = <<>>
  BY DEF Init
<1>3. Snapshot
  BY <1>2, Limits DEF Snapshot, Prefix
<1>4. Queue /\ Ahead /\ Naming
  BY DEF Init, Queue, Ahead, Naming, NamedSoFar
<1>5. IdsUnique /\ EveryCandidateDrafted
  BY DEF Init, IdsUnique, EveryCandidateDrafted, Written, Drafts, DistinctIds
<1>6. Conforming /\ DraftsConform
  BY DEF Init, Conforming, DraftsConform
<1>7. Choosing
  BY DEF Init, Choosing, Trying, Written
<1> QED
  BY <1>1, <1>3, <1>4, <1>5, <1>6, <1>7 DEF IInv

LEMMA InductiveInvariant == Spec => []IInv
<1>1. IInv /\ [Next]_vars => IInv'
  BY TypeStep, SnapshotStep, QueueStep, AheadStep, NamingStep, DraftsStep, ConformingStep,
     DraftsConformStep, ChoosingStep DEF IInv
<1> QED
  BY InitInvariant, <1>1, PTL DEF Spec

\* Every variable keeps its type (import_cdcp_events and its loops).
THEOREM TypeCorrect == Spec => []TypeOK
<1>1. IInv => TypeOK
  BY DEF IInv
<1> QED
  BY InductiveInvariant, <1>1, PTL

\* No import ever writes two drafts with one id, whatever ids the events ask for
\* (cases_from_cdcp_events, cdcp_events.py:384-404).
THEOREM DraftIdsUnique == Spec => []IdsUnique
<1>1. IInv => IdsUnique
  BY DEF IInv
<1> QED
  BY InductiveInvariant, <1>1, PTL

\* The draft file has exactly one draft, in order, for each event that calls for one
\* (parse_event_logs and cases_from_cdcp_events), for any ledgers and any concurrent producers.
THEOREM NoCandidateLost == Spec => []EveryCandidateDrafted
<1>1. IInv => EveryCandidateDrafted
  BY DEF IInv
<1> QED
  BY InductiveInvariant, <1>1, PTL

\* An import that gets to its drafts never ends in the ValueError of a refused
\* draft file (import_cdcp_events, cdcp_events.py:421-428).
THEOREM DraftsAlwaysConform == Spec => []DraftsConform
<1>1. IInv => DraftsConform
  BY DEF IInv
<1> QED
  BY InductiveInvariant, <1>1, PTL

\* Importing a ledger again after it has grown gives an event the id it had, if no file
\* sorted before its own has changed (cases_from_cdcp_events, cdcp_events.py:392-404).
THEOREM DraftsAlwaysKeepTheirIds == Spec => DraftsKeepTheirIds
<1>1. IInv /\ IInv' /\ [Next]_vars =>
        [\A i \in 1..Len(Drafts(out)), j \in 1..Len(Drafts(out')) :
           LET p == out.cases[i].from IN
           (p = out'.cases[j].from /\ \A f \in 1..(p[1] - 1) : out.read[f] = out'.read[f])
             => out.cases[i].id = out'.cases[j].id]_out
  BY KeepsIds
<1> QED
  BY InductiveInvariant, <1>1, PTL DEF Spec, DraftsKeepTheirIds

-----------------------------------------------------------------------------
(* How long an import may take.                                            *)

LEMMA JoinedLength ==
  ASSUME NEW s \in Seq(Words), NEW t \in Seq(Words)
  PROVE  Len(s \o t) = Len(s) + Len(t)
OBVIOUS

LEMMA UpTo ==
  ASSUME NEW n \in Nat
  PROVE  IsFiniteSet(1..n) /\ Cardinality(1..n) = n
<1>1. IsFiniteSet(1..n) /\ Cardinality(1..n) = IF 1 > n THEN 0 ELSE n - 1 + 1
  BY FS_Interval
<1> QED
  BY <1>1

LEMMA Lengths ==
  ASSUME TypeOK
  PROVE  /\ Len(events) \in Nat /\ Len(cases) \in Nat /\ next \in Nat \ {0}
         /\ next <= Len(events) + 1
<1>1. Len(events) \in Nat /\ Len(cases) \in Nat
  BY Types
<1> QED
  BY <1>1, Types

\* The while loop tries longer and longer ids.
LEMMA TriesDiffer ==
  ASSUME NEW p, NEW view, BaseId(view[p[1]][p[2]]) \in Seq(Words), p[2] \in Nat,
         NEW k \in Nat, NEW l \in Nat, Try(p, view, k) = Try(p, view, l)
  PROVE  k = l
<1> DEFINE base == BaseId(view[p[1]][p[2]])
           B == Len(base)
           n == p[2]
<1>1. \A m \in Nat : Numeral(m) \in Seq(Words) /\ Len(Numeral(m)) = m
  BY NumeralIsId DEF Numeral
<1>2. base \in Seq(Words) /\ B \in Nat /\ n \in Nat
  OBVIOUS
<1> HIDE DEF base, B, n
<1>3. LineId(base, n) \in Seq(Words) /\ Len(LineId(base, n)) = B + 1 + n
  <2>1. <<"line">> \in Seq(Words) /\ Len(<<"line">>) = 1
    BY SomeWords, Singleton
  <2>2. base \o <<"line">> \in Seq(Words) /\ Len(base \o <<"line">>) = B + 1
    BY <1>2, <2>1, Joined, JoinedLength DEF B
  <2>3. Len(LineId(base, n)) = B + 1 + n
    BY <1>1, <1>2, <2>2, JoinedLength DEF LineId
  <2> QED
    BY <1>2, <2>3, LineIdIsId
<1>4. \A m \in Nat : Len(CountedId(base, n, m)) = B + 1 + n + 1 + m
  <2> TAKE m \in Nat
  <2>1. <<"_">> \in Seq(Words) /\ Len(<<"_">>) = 1
    BY SomeWords, Singleton
  <2>2. LineId(base, n) \o <<"_">> \in Seq(Words) /\ Len(LineId(base, n) \o <<"_">>) = B + 1 + n + 1
    BY <1>3, <2>1, Joined, JoinedLength
  <2> QED
    BY <1>1, <1>2, <2>2, JoinedLength DEF CountedId
<1>5. \A m \in Nat : Len(Try(p, view, m)) =
        IF m = 0 THEN B ELSE IF m = 1 THEN B + 1 + n ELSE B + 1 + n + 1 + m
  BY <1>3, <1>4 DEF Try, base, B, n
<1> QED
  BY <1>2, <1>5

\* There is a case for each draft among the events before next.
LEMMA FewCases ==
  ASSUME IInv, pc \in {"name", "rename"}
  PROVE  Len(cases) <= next - 1
<1>1. /\ next \in Nat \ {0} /\ Len(cases) \in Nat /\ Len(events) \in Nat /\ next <= Len(events) + 1
      /\ cases \in Seq(CaseType)
  BY Lengths, Types DEF IInv
<1>2. /\ \A i \in 1..Len(cases) : \E k \in 1..(next - 1) : cases[i].from = events[k]
      /\ \A i, j \in 1..Len(cases) : i < j => Before(cases[i].from, cases[j].from)
  BY DEF IInv, Naming, NamedSoFar
<1>3. \A i \in 1..Len(cases) : cases[i].from \in Files \X (1..MaxLines)
  <2> TAKE i \in 1..Len(cases)
  <2>1. cases[i] \in CaseType
    BY <1>1
  <2> QED
    BY <2>1 DEF CaseType
<1> DEFINE place(i) == CHOOSE k \in 1..(next - 1) : cases[i].from = events[k]
           f == [i \in 1..Len(cases) |-> place(i)]
<1>4. \A i \in 1..Len(cases) : place(i) \in 1..(next - 1) /\ cases[i].from = events[place(i)]
  BY <1>2
<1> HIDE DEF place
<1>5. ASSUME NEW i \in 1..Len(cases), NEW j \in 1..Len(cases), place(i) = place(j)
      PROVE  i = j
  <2>1. cases[i].from = cases[j].from
    BY <1>4, <1>5
  <2>2. ~(i < j) /\ ~(j < i)
    BY <1>2, <1>3, <2>1, BeforeIsOrder
  <2> QED
    BY <1>1, <2>2
<1>6. f \in Injection(1..Len(cases), 1..(next - 1))
  BY <1>4, <1>5 DEF Injection, IsInjective
<1>7. /\ IsFiniteSet(1..(next - 1)) /\ Cardinality(1..(next - 1)) = next - 1
      /\ Cardinality(1..Len(cases)) = Len(cases)
  BY <1>1, UpTo
<1> HIDE DEF f
<1> QED
  BY <1>6, <1>7, FS_Injection

\* Every round of the while loop finds another id taken, so there are no more
\* rounds than drafts.
LEMMA FewRounds ==
  ASSUME IInv, pc = "rename"
  PROVE  /\ next \in 1..Len(events) /\ trial.counter \in Nat \ {0, 1}
         /\ trial.counter <= next
         /\ trial.id \in seen => trial.counter < next
<1>1. /\ next \in Nat \ {0} /\ Len(cases) \in Nat /\ Len(events) \in Nat /\ next <= Len(events)
  BY Lengths DEF IInv, Naming
<1>2. /\ trial.counter \in Nat \ {0, 1}
      /\ trial.id = Try(events[next], read, trial.counter - 1)
      /\ \A m \in 0..(trial.counter - 2) : Try(events[next], read, m) \in seen
  BY DEF IInv, Choosing, Trying
<1>3. seen = {cases[i].id : i \in 1..Len(cases)}
  BY DEF IInv, Naming, NamedSoFar
<1> DEFINE p == events[next]
           id(m) == Try(p, read, m)
<1>4. BaseId(read[p[1]][p[2]]) \in Seq(Words) /\ p[2] \in Nat
  <2>1. p \in Files \X (1..MaxLines) /\ Current \in Lines /\ p[2] \in Nat
    BY <1>1, CurrentIsRead, Limits DEF IInv
  <2>2. Current.trace_id # None
    BY DEF IInv, Naming, MakesCase
  <2> QED
    BY <2>1, <2>2, BaseIdIsId DEF Current, Event
<1>5. \A k, l \in Nat : id(k) = id(l) => k = l
  BY <1>4, TriesDiffer
<1>6. IsFiniteSet(seen) /\ Cardinality(seen) <= Len(cases) /\ Cardinality(seen) \in Nat
  <2> DEFINE g == [i \in 1..Len(cases) |-> cases[i].id]
  <2>1. g \in Surjection(1..Len(cases), seen)
    BY <1>3 DEF Surjection
  <2>2. IsFiniteSet(1..Len(cases)) /\ Cardinality(1..Len(cases)) = Len(cases)
    BY <1>1, UpTo
  <2> HIDE DEF g
  <2> QED
    BY <2>1, <2>2, FS_Surjection, FS_CardinalityType
<1>7. Len(cases) <= next - 1
  BY FewCases
<1> HIDE DEF p, id
<1>8. ASSUME NEW n \in Nat, \A m \in 0..n : id(m) \in seen PROVE n + 1 <= Len(cases)
  <2> DEFINE f == [m \in 0..n |-> id(m)]
  <2>1. f \in [0..n -> seen] /\ \A k, l \in 0..n : f[k] = f[l] => k = l
    BY <1>5, <1>8
  <2>2. f \in Injection(0..n, seen)
    BY <2>1 DEF Injection, IsInjective
  <2>3. Cardinality(0..n) = n + 1
    BY FS_Interval
  <2> HIDE DEF f
  <2>4. Cardinality(0..n) <= Cardinality(seen)
    BY <1>6, <2>2, FS_Injection
  <2> QED
    BY <1>1, <1>6, <2>3, <2>4
<1>9. trial.counter <= next
  <2>1. trial.counter - 2 \in Nat
    BY <1>2
  <2>2. \A m \in 0..(trial.counter - 2) : id(m) \in seen
    BY <1>2 DEF id, p
  <2>3. trial.counter - 2 + 1 <= Len(cases)
    BY <1>8, <2>1, <2>2
  <2> QED
    BY <1>1, <1>2, <1>7, <2>3
<1>10. ASSUME trial.id \in seen PROVE trial.counter < next
  <2>1. trial.counter - 1 \in Nat
    BY <1>2
  <2>2. \A m \in 0..(trial.counter - 1) : m = trial.counter - 1 \/ m \in 0..(trial.counter - 2)
    BY <1>2
  <2>3. \A m \in 0..(trial.counter - 1) : id(m) \in seen
    BY <1>2, <1>10, <2>2 DEF id, p
  <2>4. trial.counter - 1 + 1 <= Len(cases)
    BY <1>8, <2>1, <2>3
  <2> QED
    BY <1>1, <1>2, <1>7, <2>4
<1> QED
  BY <1>1, <1>2, <1>9, <1>10

MostLines == NFiles * MaxLines

\* No two of the events are the same line.
LEMMA FewEvents ==
  ASSUME TypeOK, Queue, pc \in {"read", "name", "rename", "write"}
  PROVE  Len(events) \in 0..MostLines
<1>1. /\ Len(events) \in Nat /\ events \in Seq(Files \X (1..MaxLines))
      /\ \A k, l \in 1..Len(events) : k < l => Before(events[k], events[l])
  BY Lengths, Types DEF Queue
<1> DEFINE f == [k \in 1..Len(events) |-> events[k]]
<1>2. \A k \in 1..Len(events) : events[k] \in Files \X (1..MaxLines)
  BY <1>1
<1>3. ASSUME NEW i \in 1..Len(events), NEW j \in 1..Len(events), events[i] = events[j]
      PROVE  i = j
  <2>1. ~(i < j) /\ ~(j < i)
    BY <1>1, <1>2, <1>3, BeforeIsOrder
  <2> QED
    BY <1>1, <2>1
<1>4. f \in Injection(1..Len(events), Files \X (1..MaxLines))
  BY <1>2, <1>3 DEF Injection, IsInjective
<1>5. /\ IsFiniteSet(Files) /\ Cardinality(Files) = NFiles
      /\ IsFiniteSet(1..MaxLines) /\ Cardinality(1..MaxLines) = MaxLines
      /\ Cardinality(1..Len(events)) = Len(events)
  BY <1>1, Limits, UpTo DEF Files
<1>6. /\ IsFiniteSet(Files \X (1..MaxLines))
      /\ Cardinality(Files \X (1..MaxLines)) = MostLines
  BY <1>5, FS_Product DEF MostLines
<1> HIDE DEF f
<1>7. Len(events) <= MostLines
  BY <1>4, <1>5, <1>6, FS_Injection
<1>8. MostLines \in Nat
  BY Limits DEF MostLines
<1> QED
  BY <1>1, <1>7, <1>8

\* An upper bound of the steps one event may take, and of those the running
\* import has left.
Turn == MostLines + 3

StepsLeft ==
  CASE pc = "idle"     -> 0
    [] pc = "exit"     -> 1
    [] pc = "validate" -> 2
    [] pc = "write"    -> 3
    [] pc = "rename"   -> (Len(events) - next) * Turn + (Turn - trial.counter) + 4
    [] pc = "name"     -> (Len(events) + 1 - next) * Turn + 4
    [] pc = "read"     -> Cardinality(todo) + MostLines * Turn + 4
    [] pc = "discover" -> NFiles + MostLines * Turn + 5

LEMMA Turns ==
  ASSUME NEW a \in Nat, NEW b \in Nat, NEW t \in Nat, a <= b
  PROVE  a * t \in Nat /\ (a + 1) * t = a * t + t /\ a * t <= b * t
<1>1. (b - a) \in Nat /\ (b - a) * t \in Nat
  OBVIOUS
<1>2. b * t = a * t + (b - a) * t
  OBVIOUS
<1>3. a * t \in Nat /\ b * t \in Nat
  OBVIOUS
<1> QED
  BY <1>1, <1>2, <1>3

LEMMA FilesLeft ==
  ASSUME NEW S \in SUBSET Files
  PROVE  /\ IsFiniteSet(S) /\ Cardinality(S) \in 0..NFiles
         /\ \A f \in S : Cardinality(S \ {f}) = Cardinality(S) - 1
<1>1. IsFiniteSet(Files) /\ Cardinality(Files) = NFiles
  BY Limits, UpTo DEF Files
<1>2. IsFiniteSet(S) /\ Cardinality(S) <= NFiles /\ Cardinality(S) \in Nat
  BY <1>1, FS_Subset, FS_CardinalityType
<1>3. \A f \in S : Cardinality(S \ {f}) = Cardinality(S) - 1
  BY <1>2, FS_RemoveElement
<1> QED
  BY <1>2, <1>3, Limits

LEMMA Bounds == MostLines \in Nat /\ Turn \in Nat /\ Turn = MostLines + 3 /\ MostLines * Turn \in Nat
<1>1. MostLines \in Nat
  BY Limits DEF MostLines
<1> QED
  BY <1>1 DEF Turn

LEMMA StepsLeftCounts ==
  IInv => /\ StepsLeft \in Nat /\ (StepsLeft = 0 <=> pc = "idle")
          /\ pc = "name" => Len(events) \in 0..MostLines
<1> SUFFICES ASSUME IInv
             PROVE  StepsLeft \in Nat /\ (StepsLeft = 0 <=> pc = "idle")
  BY FewEvents DEF IInv
<1>1. pc \in {"idle", "discover", "read", "name", "rename", "write", "validate", "exit"}
  BY DEF IInv, TypeOK
<1>2. CASE pc \in {"idle", "exit", "validate", "write"}
  BY <1>2 DEF StepsLeft
<1>3. CASE pc = "rename"
  <2>1. /\ next \in 1..Len(events) /\ trial.counter \in Nat /\ trial.counter <= next
    BY <1>3, FewRounds
  <2>2. Len(events) \in 0..MostLines
    BY <1>3, FewEvents DEF IInv
  <2>3. (Len(events) - next) \in Nat
    BY <2>1, <2>2
  <2>4. PICK n \in Nat : n = (Len(events) - next) * Turn
    BY <2>3, Bounds, Turns
  <2>5. StepsLeft = n + (Turn - trial.counter) + 4
    BY <1>3, <2>4 DEF StepsLeft
  <2> QED
    BY <1>3, <2>1, <2>2, <2>5, Bounds
<1>4. CASE pc = "name"
  <2>1. Len(events) + 1 - next \in Nat
    BY Lengths DEF IInv
  <2>2. PICK n \in Nat : n = (Len(events) + 1 - next) * Turn
    BY <2>1, Bounds, Turns
  <2>3. StepsLeft = n + 4
    BY <1>4, <2>2 DEF StepsLeft
  <2> QED
    BY <1>4, <2>3
<1>5. CASE pc \in {"read", "discover"}
  <2>1. PICK n \in Nat : n = MostLines * Turn
    BY Bounds
  <2>2. Cardinality(todo) \in Nat
    BY Types, FilesLeft DEF IInv
  <2>3. StepsLeft = IF pc = "read" THEN Cardinality(todo) + n + 4 ELSE NFiles + n + 5
    BY <1>5, <2>1 DEF StepsLeft
  <2> QED
    BY <1>5, <2>2, <2>3, Limits
<1> QED
  BY <1>1, <1>2, <1>3, <1>4, <1>5

LEMMA StepsCountDown ==
  ASSUME IInv, (pc = "name" => Len(events) \in 0..MostLines)', Step
  PROVE  StepsLeft' < StepsLeft
<1>1. CASE Discover
  <2>1. pc = "discover" /\ (pc' = "exit" \/ pc' = "read") /\ todo' \in SUBSET Files
    BY <1>1, Types DEF Discover, Discovered, Goto, End, IInv, TypeOK
  <2>2. Cardinality(todo') <= NFiles /\ Cardinality(todo') \in Nat
    BY <2>1, FilesLeft, Limits
  <2>3. PICK n \in Nat : n = MostLines * Turn
    BY Bounds
  <2>4. StepsLeft = NFiles + n + 5
    BY <2>1, <2>3 DEF StepsLeft
  <2>5. StepsLeft' = IF pc' = "exit" THEN 1 ELSE Cardinality(todo') + n + 4
    BY <2>1, <2>3 DEF StepsLeft
  <2> QED
    BY <2>1, <2>2, <2>4, <2>5, Limits
<1>2. CASE Read
  <2>1. /\ pc = "read" /\ todo' = todo \ {First(todo)} /\ pc' \in {"name", "read", "exit"}
        /\ next' = next
    BY <1>2 DEF Read, Goto, End
  <2>2. todo \in SUBSET Files /\ First(todo) \in todo /\ next = 1
    BY <2>1, Types, FirstIsLeast DEF IInv, Ahead
  <2>3. Cardinality(todo) \in Nat /\ Cardinality(todo') = Cardinality(todo) - 1 /\ Cardinality(todo) > 0
    <3>1. /\ Cardinality(todo) \in Nat
          /\ Cardinality(todo \ {First(todo)}) = Cardinality(todo) - 1
      BY <2>2, FilesLeft
    <3>2. Cardinality(todo \ {First(todo)}) \in Nat
      BY <2>2, FilesLeft
    <3> QED
      BY <2>1, <3>1, <3>2
  <2>4. PICK n \in Nat : n = MostLines * Turn
    BY Bounds
  <2>5. StepsLeft = Cardinality(todo) + n + 4
    BY <2>1, <2>4 DEF StepsLeft
  <2>6. CASE pc' = "read"
    <3>1. StepsLeft' = Cardinality(todo') + n + 4
      BY <2>4, <2>6 DEF StepsLeft
    <3> QED
      BY <2>3, <2>5, <3>1
  <2>7. CASE pc' = "exit"
    <3>1. StepsLeft' = 1
      BY <2>7 DEF StepsLeft
    <3> QED
      BY <2>3, <2>5, <3>1
  <2>8. CASE pc' = "name"
    <3>1. Len(events') \in 0..MostLines
      BY <2>8
    <3>2. StepsLeft' = (Len(events') + 1 - next') * Turn + 4
      BY <2>8 DEF StepsLeft
    <3>3. Len(events') + 1 - next' = Len(events')
      BY <2>1, <2>2, <3>1
    <3>4. Len(events') * Turn <= n
      BY <2>4, <3>1, Bounds, Turns
    <3>5. PICK k \in Nat : k = Len(events') * Turn
      BY <3>1, Bounds, Turns
    <3> QED
      BY <2>3, <2>5, <3>2, <3>3, <3>4, <3>5
  <2> QED
    BY <2>1, <2>6, <2>7, <2>8
<1>3. ASSUME pc \in {"name", "rename"}, next <= Len(events), next' = next + 1, pc' = "name",
             events' = events
      PROVE  StepsLeft' < StepsLeft
  <2>1. next \in Nat /\ Len(events) \in Nat
    BY Lengths DEF IInv
  <2>2. Len(events) - next \in Nat
    BY <1>3, <2>1
  <2>3. PICK d \in Nat : d = Len(events) - next
    BY <2>2
  <2>4. PICK n \in Nat : n = d * Turn /\ (d + 1) * Turn = n + Turn
    BY Bounds, Turns
  <2>5. Len(events') + 1 - next' = d /\ Len(events) + 1 - next = d + 1
    BY <1>3, <2>1, <2>3
  <2>6. StepsLeft' = n + 4
    BY <1>3, <2>4, <2>5 DEF StepsLeft
  <2>7. CASE pc = "name"
    <3>1. StepsLeft = n + Turn + 4
      BY <2>4, <2>5, <2>7 DEF StepsLeft
    <3> QED
      BY <2>6, <3>1, Bounds
  <2>8. CASE pc = "rename"
    <3>1. StepsLeft = n + (Turn - trial.counter) + 4
      BY <2>3, <2>4, <2>8 DEF StepsLeft
    <3>2. trial.counter \in Nat /\ trial.counter <= next /\ Len(events) <= MostLines
      BY <2>8, FewRounds, FewEvents DEF IInv
    <3> QED
      BY <1>3, <2>1, <2>6, <3>1, <3>2, Bounds
  <2> QED
    BY <1>3, <2>7, <2>8
<1>4. CASE Ignore
  BY <1>3, <1>4 DEF Ignore
<1>5. CASE Take
  <2>1. pc = "name" /\ next <= Len(events) /\ events' = events
    BY <1>5 DEF Take
  <2>2. CASE BaseId(Current) \notin seen
    BY <1>3, <1>5, <2>1, <2>2 DEF Take, Keep
  <2>3. CASE BaseId(Current) \in seen
    <3>1. pc' = "rename" /\ next' = next /\ trial'.counter = 2
      BY <1>5, <2>3 DEF Take, Goto
    <3>2. next \in Nat /\ Len(events) \in Nat
      BY Lengths DEF IInv
    <3>3. Len(events) - next \in Nat
      BY <2>1, <3>2
    <3>4. PICK d \in Nat : d = Len(events) - next
      BY <3>3
    <3>5. PICK n \in Nat : n = d * Turn /\ (d + 1) * Turn = n + Turn
      BY Bounds, Turns
    <3>6. Len(events) + 1 - next = d + 1
      BY <3>2, <3>4
    <3>7. StepsLeft = n + Turn + 4
      BY <2>1, <3>5, <3>6 DEF StepsLeft
    <3>8. StepsLeft' = n + (Turn - 2) + 4
      BY <2>1, <3>1, <3>4, <3>5 DEF StepsLeft
    <3> QED
      BY <3>7, <3>8, Bounds
  <2> QED
    BY <2>2, <2>3
<1>6. CASE Rename
  <2>1. pc = "rename" /\ events' = events
    BY <1>6 DEF Rename
  <2>2. /\ next \in 1..Len(events) /\ next \in Nat /\ Len(events) \in Nat
        /\ trial.counter \in Nat /\ trial.counter <= next
    BY <2>1, FewRounds, Lengths DEF IInv
  <2>3. CASE trial.id \notin seen
    BY <1>3, <1>6, <2>1, <2>2, <2>3 DEF Rename, Keep, Goto
  <2>4. CASE trial.id \in seen
    <3>1. pc' = "rename" /\ next' = next /\ trial'.counter = trial.counter + 1
      BY <1>6, <2>1, <2>4 DEF Rename
    <3>2. Len(events) - next \in Nat
      BY <2>2
    <3>3. PICK n \in Nat : n = (Len(events) - next) * Turn
      BY <3>2, Bounds, Turns
    <3>4. StepsLeft = n + (Turn - trial.counter) + 4
      BY <2>1, <3>3 DEF StepsLeft
    <3>5. StepsLeft' = n + (Turn - (trial.counter + 1)) + 4
      BY <2>1, <3>1, <3>3 DEF StepsLeft
    <3> QED
      BY <2>2, <3>4, <3>5, Bounds
  <2> QED
    BY <2>3, <2>4
<1>7. CASE Named
  <2>1. pc = "name" /\ pc' \in {"exit", "write"}
    BY <1>7 DEF Named, Goto, End
  <2>2. Len(events) + 1 - next \in Nat
    BY Lengths DEF IInv
  <2>3. PICK n \in Nat : n = (Len(events) + 1 - next) * Turn
    BY <2>2, Bounds, Turns
  <2>4. StepsLeft = n + 4 /\ StepsLeft' \in {1, 3}
    BY <2>1, <2>3 DEF StepsLeft
  <2> QED
    BY <2>4
<1>8. CASE Write
  BY <1>8 DEF Write, Goto, StepsLeft
<1>9. CASE Validate
  BY <1>9 DEF Validate, Goto, End, StepsLeft
<1>10. CASE Exit
  BY <1>10 DEF Exit, Goto, StepsLeft
<1> QED
  BY <1>1, <1>2, <1>4, <1>5, <1>6, <1>7, <1>8, <1>9, <1>10 DEF Step

\* A producer cannot keep an import busy: what it appends now is read by a later step or
\* not at all.
LEMMA AppendsCostNothing ==
  ASSUME AppendLine
  PROVE  StepsLeft' = StepsLeft
BY DEF AppendLine, StepsLeft, loop

\* Every step of an import leaves it fewer steps: files are opened once, events are taken
\* once, and the while loop ends after as many rounds as there are drafts at most, because
\* every round tries another id (import_cdcp_events, cdcp_events.py:384-404).  Producers can
\* do nothing about it.  With a scheduler that lets a process run whose next step is enabled,
\* this makes imports end (ImportsEnd).
THEOREM ImportsRunOutOfSteps ==
  Spec => /\ [](StepsLeft \in Nat /\ (StepsLeft = 0 <=> pc = "idle"))
          /\ [][ /\ Step => StepsLeft' < StepsLeft
                 /\ AppendLine => StepsLeft' = StepsLeft ]_vars
<1> DEFINE Counted == StepsLeft \in Nat /\ (StepsLeft = 0 <=> pc = "idle")
           Few == pc = "name" => Len(events) \in 0..MostLines
           Down == /\ Step => StepsLeft' < StepsLeft
                   /\ AppendLine => StepsLeft' = StepsLeft
<1>1. IInv => Counted /\ Few
  BY StepsLeftCounts
<1>2. IInv /\ Few' /\ [Next]_vars => [Down]_vars
  BY StepsCountDown, AppendsCostNothing
<1> QED
  BY <1>1, <1>2, InductiveInvariant, PTL DEF Spec

\* Some line that the import has read is not UTF-8.
ReadUndecodable ==
  \E f \in Files : \E i \in 1..Len(read[f]) : read[f][i].kind = "undecodable"

LEMMA AbortStep ==
  ASSUME IInv, verdict = "uncaught" => ReadUndecodable, [Next]_vars
  PROVE  (verdict = "uncaught" => ReadUndecodable)'
<1> SUFFICES ASSUME verdict' = "uncaught" PROVE ReadUndecodable'
  OBVIOUS
<1>1. ASSUME UNCHANGED <<verdict, read>> PROVE ReadUndecodable'
  BY <1>1 DEF ReadUndecodable
<1>2. CASE Read
  <2>1. First(todo) \in Files /\ read[First(todo)] = <<>>
    BY <1>2, FirstIsLeast, Types DEF Read, IInv, Ahead
  <2>2. read' = [read EXCEPT ![First(todo)] = ledger[First(todo)]] /\ read \in [Files -> Seq(Lines)]
    BY <1>2, Types DEF Read, IInv
  <2>3. CASE Decodes(First(todo))
    <3>1. ReadUndecodable
      BY <1>2, <2>3 DEF Read
    <3>2. PICK f \in Files : \E i \in 1..Len(read[f]) : read[f][i].kind = "undecodable"
      BY <3>1 DEF ReadUndecodable
    <3>3. f # First(todo)
      BY <2>1, <3>2
    <3>4. read'[f] = read[f]
      BY <2>2, <3>3
    <3> QED
      BY <3>2, <3>4 DEF ReadUndecodable
  <2>4. CASE ~Decodes(First(todo))
    <3>1. PICK i \in 1..Len(ledger[First(todo)]) : ledger[First(todo)][i].kind = "undecodable"
      BY <2>4 DEF Decodes
    <3>2. read'[First(todo)] = ledger[First(todo)]
      BY <2>1, <2>2
    <3> QED
      BY <2>1, <3>1, <3>2 DEF ReadUndecodable
  <2> QED
    BY <2>3, <2>4
<1>3. CASE Validate
  BY <1>3 DEF Validate, End, IInv, Conforming, Conforms
<1>4. CASE Discover \/ Named
  BY <1>1, <1>4 DEF Discover, Named, End, Goto, loop
<1>5. CASE Ignore \/ Take \/ Rename \/ Write \/ Exit \/ AppendLine \/ UNCHANGED vars
  BY <1>1, <1>5 DEF Ignore, Take, Rename, Write, Exit, AppendLine, vars
<1>6. CASE Start \/ Interrupt
  BY <1>6 DEF Start, Interrupt
<1> QED
  BY <1>2, <1>3, <1>4, <1>5, <1>6 DEF Next, Step

\* The one thing about its lines that an import does not survive is a line that is not
\* UTF-8 (parse_event_logs, cdcp_events.py:113-121): malformed lines never abort it, whatever
\* events and checks they stand beside (R-TTE-006, requirements.md:25-29, holds but for these).
THEOREM OnlyUndecodableAborts == Spec => [](verdict = "uncaught" => ReadUndecodable)
<1>1. Init => (verdict = "uncaught" => ReadUndecodable)
  BY DEF Init
<1>2. IInv /\ (verdict = "uncaught" => ReadUndecodable) /\ [Next]_vars
        => (verdict = "uncaught" => ReadUndecodable)'
  BY AbortStep
<1> QED
  BY <1>1, <1>2, InductiveInvariant, PTL DEF Spec
=============================================================================
