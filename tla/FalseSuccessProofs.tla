-------------------------- MODULE FalseSuccessProofs --------------------------
(***************************************************************************)
(* Proofs about FalseSuccess, for traces of any length with calls of any   *)
(* tools, any lists of files and directories, and any number of commands   *)
(* whose trace files are replaced, removed or damaged at any time.         *)
(***************************************************************************)
EXTENDS FalseSuccess, TLAPS, FiniteSetTheorems, SequenceTheorems,
        WellFoundedInduction

-----------------------------------------------------------------------------
(* The inductive invariant.                                                *)

\* Where the command is, and what it wrote on the way there.
Control ==
  /\ pc \in {"open json", "write json", "open markdown", "write markdown"} =>
       Len(audited) = Len(queue)
  /\ pc \notin {"idle", "resolve"} => resolved = Len(args)
  /\ pc \in {"open markdown", "write markdown"} => json = Report(audited, tools)
  /\ Ended({"clean", "flagged"}) => resolved = Len(args) /\ Len(audited) = Len(queue)

\* An argument that was resolved stood for a file; its files that were not
\* replaced since are in the queue.
Enqueued ==
  \A a \in 1..resolved :
    /\ a \in DOMAIN args
    /\ Present(args[a].files) \cup replaced # {}
    /\ \A f \in Present(args[a].files) \ replaced : \E i \in DOMAIN queue : queue[i] = f

\* A file that was audited and not replaced since holds the trace audited.
Read ==
  \A i \in DOMAIN audited :
    queue[i] \notin replaced =>
      file[queue[i]].kind = "trace" /\ audited[i] = file[queue[i]].trace

\* A killed command was the last that may have opened an output.
KilledWriting ==
  \E i \in DOMAIN history :
    history[i] = "killed" /\ \A j \in DOMAIN history : j > i => history[j] = "error"

\* While no output is open, the two agree or the last writer was killed.
Agreement ==
  pc \in {"idle", "resolve", "load", "open json"} => json = markdown \/ KilledWriting

IInv == TypeOK /\ Control /\ Enqueued /\ Read /\ ExitTellsFlags /\ Agreement

-----------------------------------------------------------------------------
(* The audit of one trace.                                                 *)

LEMMA TraceCalls ==
  ASSUME NEW t \in Trace
  PROVE  /\ t.calls \in Seq(Call)
         /\ DOMAIN t.calls = 1..Len(t.calls) /\ Len(t.calls) \in Nat
<1>1. t.calls \in Seq(Call)
  BY DEF Trace
<1> QED
  BY <1>1

\* A sequence of calls has a last call of every name that occurs in it.
LEMMA LastOfName ==
  ASSUME NEW t \in Trace, NEW i \in DOMAIN t.calls
  PROVE  \E m \in DOMAIN t.calls :
           NameOf(t.calls[m]) = NameOf(t.calls[i]) /\ i <= m /\ IsLast(t, m)
<1> DEFINE n == Len(t.calls)
           Same == {j \in DOMAIN t.calls : NameOf(t.calls[j]) = NameOf(t.calls[i])}
           Left == {n - j : j \in Same}
           Less == OpToRel(<, Nat)
<1>1. n \in Nat /\ DOMAIN t.calls = 1..n
  BY TraceCalls
<1> HIDE DEF n
<1>2. Same \subseteq 1..n /\ i \in Same
  BY <1>1
<1> HIDE DEF Same
<1>3. Left \subseteq Nat /\ Left # {}
  BY <1>1, <1>2
<1>4. IsWellFoundedOn(Less, Nat)
  BY NatLessThanWellFounded
<1>5. \A a, b \in Nat : a < b => <<a, b>> \in Less
  BY DEF OpToRel
<1> HIDE DEF Less, Left
<1>6. PICK least \in Left : \A y \in Left : <<y, least>> \notin Less
  BY <1>3, <1>4, WFMin
<1>7. \A y \in Left : least <= y
  <2> TAKE y \in Left
  <2>1. y \in Nat /\ least \in Nat /\ ~(y < least)
    BY <1>3, <1>5, <1>6
  <2> QED
    BY <2>1
<1>8. PICK m \in Same : least = n - m
  BY DEF Left
<1>9. \A j \in Same : j <= m
  <2> TAKE j \in Same
  <2>1. n - j \in Left
    BY DEF Left
  <2>2. n - m <= n - j
    BY <1>7, <1>8, <2>1
  <2> QED
    BY <1>1, <1>2, <2>2
<1>10. i <= m /\ m \in DOMAIN t.calls
  BY <1>1, <1>2, <1>9
<1>11. NameOf(t.calls[m]) = NameOf(t.calls[i])
  BY DEF Same
<1>12. IsLast(t, m)
  BY <1>9, <1>11 DEF IsLast, Same
<1> QED
  BY <1>10, <1>11, <1>12

\* "Repaired by any later call" comes to whether the last call failed.
LEMMA ProceededMeans ==
  ASSUME NEW t \in Trace
  PROVE  Proceeded(t) <=> Claimed(t) /\ \E i \in Errors(t) : IsLast(t, i)
<1>1. DOMAIN t.calls \subseteq Nat
  BY TraceCalls
<1>2. ASSUME Proceeded(t)
      PROVE  Claimed(t) /\ \E i \in Errors(t) : IsLast(t, i)
  <2>1. PICK i \in Errors(t) : Class(t, i) = "proceeded_as_success"
    BY <1>2 DEF Proceeded
  <2>2. Claimed(t) /\ Repairs(t, i) = {}
    BY <2>1 DEF Class
  <2>3. i \in DOMAIN t.calls /\ IsError(t.calls[i])
    BY DEF Errors
  <2>4. PICK m \in DOMAIN t.calls :
          NameOf(t.calls[m]) = NameOf(t.calls[i]) /\ i <= m /\ IsLast(t, m)
    BY <2>3, LastOfName
  <2>5. IsError(t.calls[m])
    <3>1. CASE m = i
      BY <2>3, <3>1
    <3>2. CASE m > i
      BY <2>2, <2>4, <3>2 DEF Repairs
    <3> QED
      BY <1>1, <2>3, <2>4, <3>1, <3>2
  <2>6. m \in Errors(t)
    BY <2>5 DEF Errors
  <2> QED
    BY <2>2, <2>4, <2>6
<1>3. ASSUME Claimed(t), NEW i \in Errors(t), IsLast(t, i)
      PROVE  Proceeded(t)
  <2>1. i \in DOMAIN t.calls
    BY DEF Errors
  <2>2. Repairs(t, i) = {}
    BY <1>1, <1>3, <2>1 DEF Repairs, IsLast
  <2>3. Class(t, i) = "proceeded_as_success"
    BY <1>3, <2>2 DEF Class
  <2> QED
    BY <2>3 DEF Proceeded
<1> QED
  BY <1>2, <1>3

-----------------------------------------------------------------------------
(* The counters of a report.                                               *)

LEMMA CallsFinite ==
  ASSUME NEW L \in Seq(Trace)
  PROVE  /\ IsFiniteSet(DOMAIN L) /\ Cardinality(DOMAIN L) = Len(L)
         /\ IsFiniteSet(CallsOf(L)) /\ ErrorsOf(L) \subseteq CallsOf(L)
         /\ IsFiniteSet(ErrorsOf(L))
<1>1. DOMAIN L = 1..Len(L) /\ Len(L) \in Nat
  OBVIOUS
<1>2. IsFiniteSet(DOMAIN L) /\ Cardinality(DOMAIN L) = Len(L)
  BY <1>1, FS_Interval
<1>3. \A i \in DOMAIN L : IsFiniteSet({i} \X DOMAIN L[i].calls)
  <2> TAKE i \in DOMAIN L
  <2>1. L[i] \in Trace
    OBVIOUS
  <2>2. DOMAIN L[i].calls = 1..Len(L[i].calls) /\ Len(L[i].calls) \in Nat
    BY <2>1, TraceCalls
  <2>3. IsFiniteSet(DOMAIN L[i].calls)
    BY <2>2, FS_Interval
  <2> QED
    BY <2>3, FS_Singleton, FS_Product
<1>4. IsFiniteSet({{i} \X DOMAIN L[i].calls : i \in DOMAIN L})
  <2> DEFINE Rows == {{i} \X DOMAIN L[i].calls : i \in DOMAIN L}
             row == [i \in DOMAIN L |-> {i} \X DOMAIN L[i].calls]
  <2>1. row \in Surjection(DOMAIN L, Rows)
    BY DEF Surjection
  <2> QED
    BY <1>2, <2>1, FS_Surjection
<1>5. IsFiniteSet(CallsOf(L))
  BY <1>3, <1>4, FS_UNION DEF CallsOf
<1>6. ErrorsOf(L) \subseteq CallsOf(L)
  BY DEF ErrorsOf, CallsOf, Errors
<1> QED
  BY <1>2, <1>5, <1>6, FS_Subset

\* The three classes partition the errors.
LEMMA ClassesPartition ==
  ASSUME NEW L \in Seq(Trace)
  PROVE  /\ Cardinality(ErrorsOf(L)) = Cardinality(ErrorsIn(L, "repaired"))
              + Cardinality(ErrorsIn(L, "ignored"))
              + Cardinality(ErrorsIn(L, "proceeded_as_success"))
         /\ IsFiniteSet(ErrorsIn(L, "proceeded_as_success"))
<1> DEFINE A == ErrorsIn(L, "repaired")
           B == ErrorsIn(L, "ignored")
           C == ErrorsIn(L, "proceeded_as_success")
<1>1. ErrorsOf(L) = (A \cup B) \cup C
  BY DEF ErrorsIn, Class
<1>2. A \cap B = {} /\ (A \cup B) \cap C = {}
  BY DEF ErrorsIn
<1>3. A \subseteq ErrorsOf(L) /\ B \subseteq ErrorsOf(L) /\ C \subseteq ErrorsOf(L)
  BY DEF ErrorsIn
<1> HIDE DEF A, B, C
<1>4. IsFiniteSet(A) /\ IsFiniteSet(B) /\ IsFiniteSet(C)
  BY <1>3, CallsFinite, FS_Subset
<1>5. IsFiniteSet(A \cup B)
      /\ Cardinality(A \cup B) = Cardinality(A) + Cardinality(B) - Cardinality(A \cap B)
  BY <1>4, FS_Union
<1>6. Cardinality((A \cup B) \cup C)
        = Cardinality(A \cup B) + Cardinality(C) - Cardinality((A \cup B) \cap C)
  BY <1>4, <1>5, FS_Union
<1>7. Cardinality({}) = 0
  BY FS_EmptySet
<1>8. Cardinality(A) \in Nat /\ Cardinality(B) \in Nat /\ Cardinality(C) \in Nat
  BY <1>4, FS_CardinalityType
<1>9. Cardinality(A \cup B) = Cardinality(A) + Cardinality(B)
  <2>1. Cardinality(A \cap B) = 0
    BY <1>2, <1>7
  <2> QED
    BY <1>5, <1>8, <2>1
<1>10. Cardinality((A \cup B) \cup C) = Cardinality(A \cup B) + Cardinality(C)
  <2>1. Cardinality(A \cup B) \in Nat
    BY <1>8, <1>9
  <2>2. Cardinality((A \cup B) \cap C) = 0
    BY <1>2, <1>7
  <2> QED
    BY <1>6, <1>8, <2>1, <2>2
<1>11. Cardinality(ErrorsOf(L)) = Cardinality(A) + Cardinality(B) + Cardinality(C)
  BY <1>1, <1>9, <1>10
<1> QED
  BY <1>4, <1>11 DEF A, B, C

\* The flagged traces lie between each of their reasons and the sum of them.
LEMMA FlagsCounted ==
  ASSUME NEW L \in Seq(Trace), NEW names
  PROVE  LET flagged == Cardinality(FlaggedIn(L, names))
             without == Cardinality(WithoutEffectIn(L, names))
         IN  /\ without <= flagged /\ Cardinality(ProceededIn(L)) <= flagged
             /\ flagged <= Cardinality(ErrorsIn(L, "proceeded_as_success")) + without
             /\ flagged <= Len(L)
<1> DEFINE F == FlaggedIn(L, names)
           W == WithoutEffectIn(L, names)
           P == ProceededIn(L)
           E == ErrorsIn(L, "proceeded_as_success")
           Owners == {e[1] : e \in E}
<1>1. F = P \cup W /\ F \subseteq DOMAIN L
  BY DEF FlaggedIn, Flagged, ProceededIn, WithoutEffectIn
<1>2. P \subseteq Owners
  <2> SUFFICES ASSUME NEW n \in P PROVE n \in Owners
    OBVIOUS
  <2>1. n \in DOMAIN L /\ Proceeded(L[n])
    BY DEF ProceededIn
  <2>2. PICK i \in Errors(L[n]) : Class(L[n], i) = "proceeded_as_success"
    BY <2>1 DEF Proceeded
  <2>3. <<n, i>> \in ErrorsOf(L)
    BY <2>1, <2>2 DEF ErrorsOf
  <2>4. <<n, i>> \in E
    BY <2>2, <2>3 DEF ErrorsIn
  <2>5. <<n, i>>[1] = n
    OBVIOUS
  <2> QED
    BY <2>4, <2>5
<1>3. IsFiniteSet(E)
  BY ClassesPartition
<1> HIDE DEF E
<1>4. IsFiniteSet(Owners) /\ Cardinality(Owners) <= Cardinality(E)
  <2> DEFINE owner == [e \in E |-> e[1]]
  <2>1. owner \in Surjection(E, Owners)
    BY DEF Surjection
  <2> QED
    BY <1>3, <2>1, FS_Surjection
<1> HIDE DEF F, W, P, Owners
<1>5. IsFiniteSet(F) /\ Cardinality(F) <= Len(L)
  BY <1>1, CallsFinite, FS_Subset
<1>6. /\ IsFiniteSet(P) /\ IsFiniteSet(W)
      /\ Cardinality(P) <= Cardinality(F) /\ Cardinality(W) <= Cardinality(F)
  BY <1>1, <1>5, FS_Subset
<1>7. Cardinality(P) <= Cardinality(Owners)
  BY <1>2, <1>4, FS_Subset
<1>8. Cardinality(F) = Cardinality(P) + Cardinality(W) - Cardinality(P \cap W)
  BY <1>1, <1>6, FS_Union
<1>9. IsFiniteSet(P \cap W)
  BY <1>6, FS_Intersection
<1>10. /\ Cardinality(F) \in Nat /\ Cardinality(P) \in Nat /\ Cardinality(W) \in Nat
       /\ Cardinality(P \cap W) \in Nat /\ Cardinality(Owners) \in Nat
       /\ Cardinality(E) \in Nat
  BY <1>3, <1>4, <1>5, <1>6, <1>9, FS_CardinalityType
<1>11. Cardinality(F) <= Cardinality(E) + Cardinality(W)
  BY <1>4, <1>7, <1>8, <1>10
<1> QED
  BY <1>5, <1>6, <1>11 DEF F, W, P, E

LEMMA ReportFields ==
  ASSUME NEW L, NEW names
  PROVE  LET R == Report(L, names)
         IN  /\ R.traces = L /\ R.write_tools = names
             /\ R.tool_calls = Cardinality(CallsOf(L))
             /\ R.tool_errors = Cardinality(ErrorsOf(L))
             /\ R.repaired = Cardinality(ErrorsIn(L, "repaired"))
             /\ R.ignored = Cardinality(ErrorsIn(L, "ignored"))
             /\ R.proceeded_as_success = Cardinality(ErrorsIn(L, "proceeded_as_success"))
             /\ R.success_without_effect = Cardinality(WithoutEffectIn(L, names))
             /\ R.flagged_traces = Cardinality(FlaggedIn(L, names))
             /\ R.proceeded = ProceededIn(L) /\ R.flagged = FlaggedIn(L, names)
BY DEF Report

\* FlaggedIfLastCallFails and SummaryAddsUp, of one report.
LEMMA ReportMeans ==
  ASSUME NEW L \in Seq(Trace), NEW names
  PROVE  Report(L, names).proceeded =
           {n \in DOMAIN L : Claimed(L[n]) /\ \E i \in Errors(L[n]) : IsLast(L[n], i)}
<1>1. \A n \in DOMAIN L : L[n] \in Trace
  OBVIOUS
<1>2. \A n \in DOMAIN L :
        Proceeded(L[n]) <=> Claimed(L[n]) /\ \E i \in Errors(L[n]) : IsLast(L[n], i)
  BY <1>1, ProceededMeans
<1>3. Report(L, names).proceeded = ProceededIn(L)
  BY ReportFields
<1> QED
  BY <1>2, <1>3 DEF ProceededIn

LEMMA ReportAddsUp ==
  ASSUME NEW L \in Seq(Trace), NEW names
  PROVE  LET R == Report(L, names)
         IN  /\ R.tool_errors = R.repaired + R.ignored + R.proceeded_as_success
             /\ R.tool_errors <= R.tool_calls
             /\ R.success_without_effect <= R.flagged_traces
             /\ Cardinality(R.proceeded) <= R.flagged_traces
             /\ R.flagged_traces <= R.proceeded_as_success + R.success_without_effect
             /\ R.flagged_traces <= Len(R.traces)
<1>1. Cardinality(ErrorsOf(L)) <= Cardinality(CallsOf(L))
  BY CallsFinite, FS_Subset
<1> QED
  BY <1>1, ClassesPartition, FlagsCounted, ReportFields

-----------------------------------------------------------------------------
(* Typing facts.                                                           *)

LEMMA Limits == MaxCommands \in Nat /\ MaxWrites \in Nat
BY ConstantsAssumption

LEMMA OneMore ==
  ASSUME NEW n \in 0..MaxWrites, n < MaxWrites
  PROVE  n + 1 \in 0..MaxWrites
BY Limits

LEMMA StartedEmpty ==
  ASSUME NEW paths \in Arguments
  PROVE  paths \in Seq(Argument) /\ 0 < Len(paths)
         /\ << >> \in Seq(Trace) /\ << >> \in Seq(Files) /\ Len(<< >>) = 0
<1>1. paths \in Seq(Argument) /\ paths # << >>
  BY ConstantsAssumption
<1>2. Len(paths) \in Nat \ {0}
  BY <1>1, EmptySeq
<1> QED
  BY <1>1, <1>2, EmptySeq

LEMMA EmptyInEmpty == 0 <= 0
OBVIOUS

LEMMA FinishType ==
  ASSUME TypeOK, NEW outcome \in Outcomes, Finish(outcome)
  PROVE  /\ pc' = "idle" /\ history' \in Seq(Outcomes) /\ history' # << >>
         /\ history'[Len(history')] = outcome
<1>1. history \in Seq(Outcomes) /\ history' = Append(history, outcome) /\ pc' = "idle"
  BY DEF TypeOK, Finish
<1> QED
  BY <1>1

\* A command that ends in an error or is killed vouches for nothing.
LEMMA NotEnded ==
  ASSUME TypeOK, NEW outcome \in {"error", "killed"}, Finish(outcome)
  PROVE  pc' = "idle" /\ history' \in Seq(Outcomes) /\ ~Ended({"clean", "flagged"})'
<1>1. outcome \in Outcomes
  BY DEF Outcomes
<1>2. /\ pc' = "idle" /\ history' \in Seq(Outcomes)
      /\ history'[Len(history')] = outcome
  BY <1>1, FinishType
<1>3. Last' = outcome
  BY <1>2 DEF Last
<1> QED
  BY <1>2, <1>3 DEF Ended

LEMMA AppendedTrace ==
  ASSUME NEW t \in Trace, audited \in Seq(Trace), audited' = Append(audited, t)
  PROVE  /\ audited' \in Seq(Trace) /\ Len(audited') = Len(audited) + 1
         /\ audited'[Len(audited) + 1] = t
         /\ \A i \in DOMAIN audited : audited'[i] = audited[i]
         /\ DOMAIN audited' = DOMAIN audited \cup {Len(audited) + 1}
OBVIOUS

LEMMA OpenedType ==
  ASSUME TypeOK, pc = "load"
  PROVE  /\ Len(audited) + 1 \in DOMAIN queue /\ queue[Len(audited) + 1] \in Files
         /\ Opened = file[queue[Len(audited) + 1]] /\ Opened.trace \in Trace
<1>1. queue \in Seq(Files) /\ audited \in Seq(Trace) /\ Len(audited) < Len(queue)
  BY DEF TypeOK
<1>2. Len(audited) + 1 \in DOMAIN queue /\ queue[Len(audited) + 1] \in Files
  BY <1>1
<1>3. Opened \in Content
  BY <1>2 DEF TypeOK, Opened
<1>4. Opened.trace \in Trace
  BY <1>3 DEF Content
<1> QED
  BY <1>2, <1>4 DEF Opened

\* The files of a directory in the order of their names are all of them.
LEMMA SortedHasAll ==
  ASSUME NEW S \in SUBSET Files, NEW s \in Sorted(S)
  PROVE  s \in Seq(Files) /\ \A f \in S : \E j \in DOMAIN s : s[j] = f
<1> DEFINE n == Cardinality(S)
<1>1. IsFiniteSet(S) /\ Files \subseteq Nat
  BY ConstantsAssumption, FS_Subset
<1>2. n \in Nat
  BY <1>1, FS_CardinalityType
<1>3. s \in [1..n -> S] /\ \A i, j \in DOMAIN s : i < j => s[i] < s[j]
  BY DEF Sorted
<1> HIDE DEF n
<1>4. ASSUME NEW i \in 1..n, NEW j \in 1..n, s[i] = s[j] PROVE i = j
  <2>1. s[i] \in Nat /\ s[j] \in Nat
    BY <1>1, <1>3
  <2>2. ~(i < j) /\ ~(j < i)
    BY <1>3, <1>4, <2>1
  <2> QED
    BY <1>2, <2>2
<1>5. s \in Injection(1..n, S)
  BY <1>3, <1>4 DEF Injection, IsInjective
<1>6. Cardinality(1..n) = n
  BY <1>2, FS_Interval
<1>7. s \in Surjection(1..n, S)
  BY <1>1, <1>5, <1>6, FS_Injection DEF n
<1>8. \A f \in S : \E j \in DOMAIN s : s[j] = f
  BY <1>3, <1>7 DEF Surjection
<1> QED
  BY <1>2, <1>3, <1>8

\* What Resolve adds to the queue.
LEMMA ResolveType ==
  ASSUME TypeOK, pc = "resolve"
  PROVE  /\ resolved + 1 \in DOMAIN args /\ resolved + 1 <= Len(args)
         /\ Present(args[resolved + 1].files) \in SUBSET Files
<1>1. args \in Seq(Argument) /\ resolved \in Nat /\ resolved < Len(args)
  BY DEF TypeOK
<1>2. resolved + 1 \in DOMAIN args /\ resolved + 1 <= Len(args)
  BY <1>1
<1>3. args[resolved + 1] \in Argument
  BY <1>1, <1>2
<1>4. args[resolved + 1].files \subseteq Files
  BY <1>3 DEF Argument
<1> QED
  BY <1>2, <1>4 DEF Present

LEMMA AppendedFiles ==
  ASSUME queue \in Seq(Files), NEW found \in Seq(Files), queue' = queue \o found
  PROVE  /\ queue' \in Seq(Files) /\ Len(queue) <= Len(queue')
         /\ \A i \in DOMAIN queue : i \in DOMAIN queue' /\ queue'[i] = queue[i]
         /\ \A j \in DOMAIN found :
              Len(queue) + j \in DOMAIN queue' /\ queue'[Len(queue) + j] = found[j]
OBVIOUS

LEMMA ReportIsWhole ==
  ASSUME NEW L \in Seq(Trace), NEW names
  PROVE  LET R == Report(L, names)
         IN  R.traces \in Seq(Trace) /\ R = Report(R.traces, R.write_tools)
<1>1. Report(L, names).traces = L /\ Report(L, names).write_tools = names
  BY ReportFields
<1> QED
  BY <1>1, Zenon
-----------------------------------------------------------------------------
(* The invariant is inductive.                                             *)

LEMMA TypeInit == Init => TypeOK
<1> SUFFICES ASSUME Init PROVE TypeOK
  OBVIOUS
<1>1. /\ << >> \in Seq(Argument) /\ << >> \in Seq(Files) /\ << >> \in Seq(Trace)
      /\ << >> \in Seq(Outcomes) /\ Len(<< >>) = 0
  BY EmptySeq
<1>2. file \in [Files -> Content] /\ 0 \in 0..MaxWrites
  BY ConstantsAssumption DEF Init
<1>3. ~Whole(json) /\ ~Whole(markdown)
  BY DEF Init, Whole
<1>4. /\ writes = 0 /\ replaced = {} /\ pc = "idle" /\ strict = FALSE /\ resolved = 0
      /\ args = << >> /\ queue = << >> /\ audited = << >> /\ history = << >>
  BY DEF Init
<1>5. /\ args \in Seq(Argument) /\ queue \in Seq(Files) /\ audited \in Seq(Trace)
      /\ history \in Seq(Outcomes)
  BY <1>1, <1>4
<1>6. Len(audited) <= Len(queue)
  BY <1>1, <1>4
<1> QED
  BY <1>2, <1>3, <1>4, <1>5, <1>6 DEF TypeOK

LEMMA TypeStep == TypeOK /\ [Next]_vars => TypeOK'
<1> SUFFICES ASSUME TypeOK, [Next]_vars PROVE TypeOK'
  OBVIOUS
<1>1. /\ file \in [Files -> Content] /\ writes \in 0..MaxWrites /\ replaced \subseteq Files
      /\ args \in Seq(Argument) /\ strict \in BOOLEAN /\ resolved \in Nat
      /\ queue \in Seq(Files) /\ audited \in Seq(Trace) /\ history \in Seq(Outcomes)
      /\ Len(audited) <= Len(queue)
  BY DEF TypeOK
<1>2. /\ Whole(json) => /\ json.traces \in Seq(Trace)
                        /\ json = Report(json.traces, json.write_tools)
      /\ Whole(markdown) => /\ markdown.traces \in Seq(Trace)
                            /\ markdown = Report(markdown.traces, markdown.write_tools)
  BY DEF TypeOK
<1>3. /\ json' = json =>
           (Whole(json') => /\ json'.traces \in Seq(Trace)
                            /\ json' = Report(json'.traces, json'.write_tools))
      /\ markdown' = markdown =>
           (Whole(markdown') => /\ markdown'.traces \in Seq(Trace)
                                /\ markdown' = Report(markdown'.traces, markdown'.write_tools))
  BY <1>2
<1> USE DEF TypeOK
<1>4. ASSUME NEW paths \in Arguments, NEW names \in WriteTools, NEW fail \in BOOLEAN,
             Start(paths, names, fail)
      PROVE  TypeOK'
  <2>1. paths \in Seq(Argument) /\ 0 < Len(paths)
        /\ << >> \in Seq(Trace) /\ << >> \in Seq(Files) /\ Len(<< >>) = 0
    BY StartedEmpty
  <2>2. \/ pc' = "idle" /\ history' \in Seq(Outcomes)
        \/ pc' = "resolve" /\ history' = history
    BY <1>4, FinishType DEF Start, Outcomes
  <2>3. /\ args' = paths /\ strict' \in BOOLEAN /\ resolved' = 0 /\ replaced' = {}
        /\ queue' = << >> /\ audited' = << >>
        /\ UNCHANGED <<file, writes, json, markdown>>
    BY <1>4 DEF Start
  <2>4. Len(audited') = 0 /\ Len(queue') = 0
    BY <2>1, <2>3
  <2>5. Len(audited') <= Len(queue')
    BY <2>4, EmptyInEmpty, Zenon
  <2>6. resolved' < Len(args')
    BY <2>1, <2>3
  <2> QED
    BY <1>1, <1>3, <2>1, <2>2, <2>3, <2>5, <2>6
<1>5. CASE Resolve
  <2>1. CASE Finish("error") /\ UNCHANGED <<resolved, queue>>
    <3>1. pc' = "idle" /\ history' \in Seq(Outcomes)
      BY <2>1, NotEnded
    <3> QED
      BY <1>1, <1>3, <1>5, <2>1, <3>1 DEF Resolve, command
  <2>2. ASSUME Present(args[resolved + 1].files) # {},
               NEW found \in Sorted(Present(args[resolved + 1].files)),
               queue' = queue \o found, resolved' = resolved + 1,
               pc' = IF resolved + 1 < Len(args) THEN "resolve" ELSE "load",
               UNCHANGED history
        PROVE  TypeOK'
    <3>1. pc = "resolve" /\ audited = << >>
          /\ UNCHANGED <<file, writes, replaced, args, tools, strict, audited, json, markdown>>
      BY <1>5 DEF Resolve, command
    <3>2. Present(args[resolved + 1].files) \in SUBSET Files
      BY <3>1, ResolveType
    <3>3. found \in Seq(Files) /\ \E j \in DOMAIN found : TRUE
      BY <2>2, <3>2, SortedHasAll
    <3>4. /\ queue' \in Seq(Files)
          /\ \E j \in DOMAIN found : Len(queue) + j \in DOMAIN queue'
      BY <1>1, <2>2, <3>3, AppendedFiles
    <3>5. Len(queue') > 0 /\ Len(audited') = 0
      BY <3>1, <3>4, EmptySeq
    <3>6. Len(audited') < Len(queue')
      BY <3>5
    <3>7. resolved' \in Nat /\ (pc' = "resolve" => resolved' < Len(args') /\ audited' = << >>)
      BY <1>1, <2>2, <3>1
    <3>8. pc' \in {"resolve", "load"}
      BY <2>2
    <3> QED
      BY <1>1, <1>3, <2>2, <3>1, <3>4, <3>6, <3>7, <3>8
  <2> QED
    BY <1>5, <2>1, <2>2 DEF Resolve
<1>6. CASE Load
  <2>1. pc = "load" /\ Len(audited) < Len(queue)
        /\ UNCHANGED <<file, writes, replaced, args, tools, strict, resolved, queue, json, markdown>>
    BY <1>6 DEF Load, command
  <2>2. CASE Finish("error") /\ UNCHANGED audited
    <3>1. pc' = "idle" /\ history' \in Seq(Outcomes)
      BY <2>2, NotEnded
    <3> QED
      BY <1>1, <1>3, <2>1, <2>2, <3>1
  <2>3. CASE /\ audited' = Append(audited, Opened.trace) /\ UNCHANGED history
             /\ pc' = IF Len(audited') < Len(queue) THEN "load" ELSE "open json"
    <3>1. Opened.trace \in Trace
      BY <2>1, OpenedType
    <3>2. audited' \in Seq(Trace) /\ Len(audited') = Len(audited) + 1
      BY <1>1, <2>3, <3>1, AppendedTrace
    <3>3. Len(audited') <= Len(queue')
      BY <1>1, <2>1, <3>2
    <3>4. pc' \in {"load", "open json"} /\ (pc' = "load" => Len(audited') < Len(queue'))
      BY <2>1, <2>3
    <3> QED
      BY <1>1, <1>3, <2>1, <2>3, <3>2, <3>3, <3>4
  <2> QED
    BY <1>6, <2>2, <2>3 DEF Load
<1>7. CASE OpenJson
  BY <1>1, <1>3, <1>7 DEF OpenJson, Whole, command
<1>8. CASE WriteJson
  <2>1. json'.traces \in Seq(Trace) /\ json' = Report(json'.traces, json'.write_tools)
    BY <1>1, <1>8, ReportIsWhole DEF WriteJson
  <2> QED
    BY <1>1, <1>3, <1>8, <2>1 DEF WriteJson, command
<1>9. CASE OpenMarkdown
  BY <1>1, <1>3, <1>9 DEF OpenMarkdown, Whole, command
<1>10. CASE WriteMarkdown
  <2>1. /\ markdown'.traces \in Seq(Trace)
        /\ markdown' = Report(markdown'.traces, markdown'.write_tools)
    BY <1>1, <1>10, ReportIsWhole DEF WriteMarkdown
  <2>2. pc' = "idle" /\ history' \in Seq(Outcomes)
    BY <1>10, FinishType DEF WriteMarkdown, Outcomes
  <2> QED
    BY <1>1, <1>3, <1>10, <2>1, <2>2 DEF WriteMarkdown, command
<1>11. CASE Interrupt
  <2>1. pc' = "idle" /\ history' \in Seq(Outcomes)
    BY <1>11, NotEnded DEF Interrupt
  <2> QED
    BY <1>1, <1>3, <1>11, <2>1 DEF Interrupt, command
<1>12. ASSUME NEW f \in Files, NEW content \in Replacements, Replace(f, content)
       PROVE  TypeOK'
  <2>1. writes + 1 \in 0..MaxWrites
    <3>1. writes < MaxWrites
      BY <1>12 DEF Replace
    <3> QED
      BY <1>1, <3>1, OneMore
  <2>2. content \in Content
    BY ConstantsAssumption
  <2> QED
    BY <1>1, <1>3, <1>12, <2>1, <2>2 DEF Replace, command
<1>13. CASE UNCHANGED vars
  BY <1>1, <1>3, <1>13 DEF vars, command
<1> QED
  BY <1>4, <1>5, <1>6, <1>7, <1>8, <1>9, <1>10, <1>11, <1>12, <1>13 DEF Next, Step

\* Only WriteMarkdown ends a command with clean or flagged.
LEMMA ControlStep == TypeOK /\ Control /\ [Next]_vars => Control'
<1> SUFFICES ASSUME TypeOK, Control, [Next]_vars PROVE Control'
  OBVIOUS
<1>1. args \in Seq(Argument) /\ queue \in Seq(Files) /\ audited \in Seq(Trace)
      /\ resolved \in Nat
  BY DEF TypeOK
<1>2. ASSUME NEW paths \in Arguments, NEW names \in WriteTools, NEW fail \in BOOLEAN,
             Start(paths, names, fail)
      PROVE  Control'
  <2>1. CASE Finish("error")
    <3>1. pc' = "idle" /\ ~Ended({"clean", "flagged"})'
      BY <2>1, NotEnded
    <3> QED
      BY <3>1 DEF Control
  <2>2. CASE pc' = "resolve"
    BY <2>2 DEF Control, Ended
  <2> QED
    BY <1>2, <2>1, <2>2 DEF Start
<1>3. CASE Resolve
  <2>1. CASE Finish("error")
    <3>1. pc' = "idle" /\ ~Ended({"clean", "flagged"})'
      BY <2>1, NotEnded
    <3> QED
      BY <3>1 DEF Control
  <2>2. CASE /\ resolved' = resolved + 1
             /\ pc' = IF resolved + 1 < Len(args) THEN "resolve" ELSE "load"
    <3>1. args' = args /\ resolved + 1 <= Len(args)
      BY <1>3, ResolveType DEF Resolve, command
    <3>2. pc' # "resolve" => resolved' = Len(args')
      BY <1>1, <2>2, <3>1
    <3> QED
      BY <2>2, <3>2 DEF Control, Ended
  <2> QED
    BY <1>3, <2>1, <2>2 DEF Resolve
<1>4. CASE Load
  <2>1. CASE Finish("error")
    <3>1. pc' = "idle" /\ ~Ended({"clean", "flagged"})'
      BY <2>1, NotEnded
    <3> QED
      BY <3>1 DEF Control
  <2>2. CASE /\ audited' = Append(audited, Opened.trace)
             /\ pc' = IF Len(audited') < Len(queue) THEN "load" ELSE "open json"
    <3>1. pc = "load" /\ Len(audited) < Len(queue) /\ UNCHANGED <<args, resolved, queue>>
      BY <1>4 DEF Load, command, TypeOK
    <3>2. Len(audited') = Len(audited) + 1 /\ audited' \in Seq(Trace)
      BY <1>1, <2>2, <3>1, OpenedType, AppendedTrace
    <3>3. pc' = "open json" => Len(audited') = Len(queue')
      <4>1. Len(audited) \in Nat /\ Len(queue) \in Nat
        BY <1>1
      <4>2. pc' = "open json" => ~(Len(audited') < Len(queue))
        BY <2>2
      <4>3. Len(queue') = Len(queue)
        BY <3>1
      <4>4. Len(audited) < Len(queue) /\ Len(audited') = Len(audited) + 1
        BY <3>1, <3>2
      <4>5. ~(Len(audited') < Len(queue)) => Len(audited') = Len(queue)
        BY <4>1, <4>4
      <4> QED
        BY <4>2, <4>3, <4>5, Zenon
    <3>4. resolved' = Len(args')
      BY <3>1 DEF Control
    <3> QED
      BY <2>2, <3>3, <3>4 DEF Control, Ended
  <2> QED
    BY <1>4, <2>1, <2>2 DEF Load
<1>5. CASE OpenJson \/ WriteJson \/ OpenMarkdown
  BY <1>5 DEF OpenJson, WriteJson, OpenMarkdown, Control, Ended, command
<1>6. CASE WriteMarkdown
  <2>1. Len(audited') = Len(queue') /\ resolved' = Len(args') /\ pc' = "idle"
    BY <1>6 DEF WriteMarkdown, Finish, Control, command
  <2> QED
    BY <2>1 DEF Control
<1>7. CASE Interrupt
  <2>1. pc' = "idle" /\ ~Ended({"clean", "flagged"})'
    BY <1>7, NotEnded DEF Interrupt
  <2> QED
    BY <2>1 DEF Control
<1>8. CASE (\E f \in Files, content \in Replacements : Replace(f, content)) \/ UNCHANGED vars
  <2>1. UNCHANGED <<pc, args, tools, resolved, queue, audited, json, history>>
    BY <1>8 DEF Replace, vars, command
  <2> QED
    BY <2>1 DEF Control, Ended, Last
<1> QED
  BY <1>2, <1>3, <1>4, <1>5, <1>6, <1>7, <1>8 DEF Next, Step

LEMMA EnqueuedStep == TypeOK /\ Enqueued /\ [Next]_vars => Enqueued'
<1> SUFFICES ASSUME TypeOK, Enqueued, [Next]_vars PROVE Enqueued'
  OBVIOUS
<1>1. /\ file \in [Files -> Content] /\ replaced \subseteq Files /\ resolved \in Nat
      /\ args \in Seq(Argument) /\ queue \in Seq(Files)
  BY DEF TypeOK
<1>2. ASSUME UNCHANGED <<file, replaced, args, resolved, queue>> PROVE Enqueued'
  BY <1>2 DEF Enqueued, Present
<1>3. ASSUME NEW paths \in Arguments, NEW names \in WriteTools, NEW fail \in BOOLEAN,
             Start(paths, names, fail)
      PROVE  Enqueued'
  <2>1. resolved' = 0
    BY <1>3 DEF Start
  <2> QED
    BY <2>1 DEF Enqueued
<1>4. CASE Resolve
  <2>1. CASE UNCHANGED <<resolved, queue>>
    BY <1>2, <1>4, <2>1 DEF Resolve, command
  <2>2. ASSUME Present(args[resolved + 1].files) # {},
               NEW found \in Sorted(Present(args[resolved + 1].files)),
               queue' = queue \o found, resolved' = resolved + 1
        PROVE  Enqueued'
    <3>1. pc = "resolve" /\ UNCHANGED <<file, replaced, args>>
      BY <1>4 DEF Resolve, command
    <3>2. resolved + 1 \in DOMAIN args /\ Present(args[resolved + 1].files) \in SUBSET Files
      BY <3>1, ResolveType
    <3>3. /\ found \in Seq(Files)
          /\ \A f \in Present(args[resolved + 1].files) : \E j \in DOMAIN found : found[j] = f
      BY <2>2, <3>2, SortedHasAll
    <3>4. /\ \A i \in DOMAIN queue : i \in DOMAIN queue' /\ queue'[i] = queue[i]
          /\ \A j \in DOMAIN found :
               Len(queue) + j \in DOMAIN queue' /\ queue'[Len(queue) + j] = found[j]
      BY <1>1, <2>2, <3>3, AppendedFiles
    <3>5. 1..resolved' = (1..resolved) \cup {resolved + 1}
      BY <1>1, <2>2
    <3>6. \A a \in 1..resolved :
            /\ a \in DOMAIN args
            /\ Present(args[a].files) \cup replaced # {}
            /\ \A f \in Present(args[a].files) \ replaced :
                 \E i \in DOMAIN queue' : queue'[i] = f
      BY <3>4 DEF Enqueued
    <3>7. \A f \in Present(args[resolved + 1].files) : \E i \in DOMAIN queue' : queue'[i] = f
      BY <3>3, <3>4
    <3>8. \A a \in 1..resolved' :
            /\ a \in DOMAIN args
            /\ Present(args[a].files) \cup replaced # {}
            /\ \A f \in Present(args[a].files) \ replaced :
                 \E i \in DOMAIN queue' : queue'[i] = f
      BY <2>2, <3>2, <3>5, <3>6, <3>7
    <3> QED
      BY <3>1, <3>8 DEF Enqueued, Present
  <2> QED
    BY <1>4, <2>1, <2>2 DEF Resolve
<1>5. CASE Load \/ OpenJson \/ WriteJson \/ OpenMarkdown \/ WriteMarkdown \/ Interrupt
  BY <1>2, <1>5 DEF Load, OpenJson, WriteJson, OpenMarkdown, WriteMarkdown, Interrupt, command
<1>6. ASSUME NEW f \in Files, NEW content \in Replacements, Replace(f, content)
      PROVE  Enqueued'
  <2>1. /\ UNCHANGED <<args, resolved, queue>> /\ replaced' = replaced \cup {f}
        /\ \A g \in Files : g \notin replaced' => g \notin replaced /\ file'[g] = file[g]
    BY <1>1, <1>6 DEF Replace, command
  <2>2. \A a \in DOMAIN args : args[a].files \subseteq Files
    <3> TAKE a \in DOMAIN args
    <3>1. args[a] \in Argument
      BY <1>1
    <3> QED
      BY <3>1 DEF Argument
  <2>3. \A a \in 1..resolved :
          Present(args[a].files)' \ replaced' \subseteq Present(args[a].files) \ replaced
    BY <2>1, <2>2 DEF Present, Enqueued
  <2> QED
    BY <2>1, <2>3 DEF Enqueued
<1>7. CASE UNCHANGED vars
  BY <1>2, <1>7 DEF vars, command
<1> QED
  BY <1>3, <1>4, <1>5, <1>6, <1>7 DEF Next, Step

LEMMA ReadStep == TypeOK /\ Read /\ [Next]_vars => Read'
<1> SUFFICES ASSUME TypeOK, Read, [Next]_vars PROVE Read'
  OBVIOUS
<1>1. /\ file \in [Files -> Content] /\ queue \in Seq(Files) /\ audited \in Seq(Trace)
      /\ Len(audited) <= Len(queue) /\ args \in Seq(Argument)
  BY DEF TypeOK
<1>2. DOMAIN audited \subseteq DOMAIN queue /\ \A i \in DOMAIN queue : queue[i] \in Files
  BY <1>1
<1>3. ASSUME UNCHANGED <<file, replaced, queue, audited>> PROVE Read'
  BY <1>3 DEF Read
<1>4. ASSUME NEW paths \in Arguments, NEW names \in WriteTools, NEW fail \in BOOLEAN,
             Start(paths, names, fail)
      PROVE  Read'
  <2>1. DOMAIN audited' = {}
    BY <1>4 DEF Start
  <2> QED
    BY <2>1 DEF Read
<1>5. CASE Resolve
  <2>1. audited = << >> /\ audited' = audited
    BY <1>5 DEF Resolve, TypeOK
  <2>2. DOMAIN audited' = {}
    BY <2>1
  <2> QED
    BY <2>2 DEF Read
<1>6. CASE Load
  <2>1. pc = "load" /\ UNCHANGED <<file, replaced, queue>>
    BY <1>6 DEF Load
  <2>2. CASE UNCHANGED audited
    BY <1>3, <2>1, <2>2
  <2>3. CASE Opened.kind = "trace" /\ audited' = Append(audited, Opened.trace)
    <3> DEFINE n == Len(audited) + 1
    <3>1. Opened = file[queue[n]] /\ Opened.trace \in Trace
      BY <2>1, OpenedType
    <3>2. /\ audited'[n] = Opened.trace
          /\ \A i \in DOMAIN audited : audited'[i] = audited[i]
          /\ DOMAIN audited' = DOMAIN audited \cup {n}
      BY <1>1, <2>3, <3>1, AppendedTrace
    <3> HIDE DEF n
    <3> QED
      BY <2>1, <2>3, <3>1, <3>2 DEF Read
  <2> QED
    BY <1>6, <2>2, <2>3 DEF Load
<1>7. CASE OpenJson \/ WriteJson \/ OpenMarkdown \/ WriteMarkdown \/ Interrupt
  BY <1>3, <1>7 DEF OpenJson, WriteJson, OpenMarkdown, WriteMarkdown, Interrupt
<1>8. ASSUME NEW f \in Files, NEW content \in Replacements, Replace(f, content)
      PROVE  Read'
  <2>1. /\ UNCHANGED <<queue, audited>>
        /\ \A g \in Files : g \notin replaced' => g \notin replaced /\ file'[g] = file[g]
    BY <1>1, <1>8 DEF Replace
  <2> QED
    BY <1>2, <2>1 DEF Read
<1>9. CASE UNCHANGED vars
  BY <1>3, <1>9 DEF vars
<1> QED
  BY <1>4, <1>5, <1>6, <1>7, <1>8, <1>9 DEF Next, Step

LEMMA ExitStep == TypeOK /\ Control /\ ExitTellsFlags /\ [Next]_vars => ExitTellsFlags'
<1> SUFFICES ASSUME TypeOK, Control, ExitTellsFlags, [Next]_vars, Ended({"clean", "flagged"})'
             PROVE  ExitTellsFlags'
  BY DEF ExitTellsFlags
<1>1. CASE WriteMarkdown
  <2> DEFINE flagged == FlaggedIn(audited, tools)
             outcome == IF strict /\ flagged # {} THEN "flagged" ELSE "clean"
  <2>1. /\ json = Report(audited, tools) /\ markdown' = json
        /\ UNCHANGED <<json, audited, tools, strict>> /\ Finish(outcome)
    BY <1>1 DEF WriteMarkdown, Control, command
  <2>2. history'[Len(history')] = outcome
    BY <2>1, FinishType DEF Outcomes
  <2>3. IsFiniteSet(flagged)
    <3>1. audited \in Seq(Trace)
      BY DEF TypeOK
    <3>2. flagged \subseteq DOMAIN audited
      BY DEF FlaggedIn
    <3> QED
      BY <3>1, <3>2, CallsFinite, FS_Subset
  <2>4. json.flagged_traces = Cardinality(flagged)
    BY <2>1, ReportFields
  <2> HIDE DEF flagged
  <2>5. flagged # {} <=> Cardinality(flagged) > 0
    BY <2>3, FS_EmptySet, FS_CardinalityType
  <2> QED
    BY <2>1, <2>2, <2>4, <2>5 DEF ExitTellsFlags, Last
<1>2. ASSUME NEW o \in {"error", "killed"}, Finish(o) PROVE FALSE
  BY <1>2, NotEnded
<1>3. CASE Resolve \/ Load \/ Interrupt
           \/ \E paths \in Arguments, names \in WriteTools, fail \in BOOLEAN :
                Start(paths, names, fail)
  BY <1>2, <1>3 DEF Resolve, Load, Interrupt, Start, Ended
<1>4. CASE OpenJson \/ WriteJson \/ OpenMarkdown
  BY <1>4 DEF OpenJson, WriteJson, OpenMarkdown, Ended
<1>5. CASE (\E f \in Files, content \in Replacements : Replace(f, content)) \/ UNCHANGED vars
  <2>1. UNCHANGED <<pc, tools, strict, audited, json, markdown, history>>
    BY <1>5 DEF Replace, vars, command
  <2> QED
    BY <2>1 DEF ExitTellsFlags, Ended, Last
<1> QED
  BY <1>1, <1>3, <1>4, <1>5 DEF Next, Step

-----------------------------------------------------------------------------
(* The theorems.                                                           *)

(* Agreement of the two outputs.                                           *)

LEMMA FinishAppends ==
  ASSUME TypeOK, NEW outcome \in Outcomes, Finish(outcome)
  PROVE  /\ \A i \in DOMAIN history : history'[i] = history[i] /\ i < Len(history')
         /\ DOMAIN history' = DOMAIN history \cup {Len(history')}
         /\ history'[Len(history')] = outcome /\ Len(history') \in Nat
<1>1. history \in Seq(Outcomes) /\ history' = Append(history, outcome)
  BY DEF TypeOK, Finish
<1> QED
  BY <1>1

LEMMA AgreementEnds ==
  ASSUME TypeOK, Finish("error"), json = markdown \/ KilledWriting,
         UNCHANGED <<json, markdown>>
  PROVE  Agreement'
<1>1. /\ \A i \in DOMAIN history : history'[i] = history[i]
      /\ DOMAIN history' = DOMAIN history \cup {Len(history')}
      /\ history'[Len(history')] = "error"
  BY FinishAppends DEF Outcomes
<1>2. KilledWriting => KilledWriting'
  BY <1>1 DEF KilledWriting
<1> QED
  BY <1>2 DEF Agreement

LEMMA AgreementKilled ==
  ASSUME TypeOK, Finish("killed")
  PROVE  Agreement'
<1> DEFINE n == Len(history')
<1>1. /\ DOMAIN history' = DOMAIN history \cup {n} /\ history'[n] = "killed"
      /\ \A i \in DOMAIN history : i < n
      /\ n \in Nat /\ DOMAIN history \subseteq Nat
  <2>1. history \in Seq(Outcomes)
    BY DEF TypeOK
  <2> QED
    BY <2>1, FinishAppends DEF Outcomes
<1> HIDE DEF n
<1>2. \A j \in DOMAIN history' : ~(j > n)
  <2> SUFFICES ASSUME NEW j \in DOMAIN history' PROVE ~(j > n)
    OBVIOUS
  <2>1. j \in DOMAIN history \/ j = n
    BY <1>1, Zenon
  <2>2. CASE j \in DOMAIN history
    <3>1. j \in Nat /\ j < n /\ n \in Nat
      BY <1>1, <2>2, Zenon
    <3> QED
      BY <3>1
  <2> QED
    BY <1>1, <2>1, <2>2
<1>3. KilledWriting'
  BY <1>1, <1>2 DEF KilledWriting
<1> QED
  BY <1>3 DEF Agreement

LEMMA AgreementStep ==
  TypeOK /\ Control /\ Agreement /\ [Next]_vars => Agreement'
<1> SUFFICES ASSUME TypeOK, Control, Agreement, [Next]_vars PROVE Agreement'
  OBVIOUS
<1>1. ASSUME UNCHANGED <<json, markdown, history>>,
             pc \in {"idle", "resolve", "load", "open json"}
      PROVE  Agreement'
  BY <1>1 DEF Agreement, KilledWriting
<1>2. CASE Resolve \/ Load
  <2>1. /\ pc \in {"resolve", "load"} /\ UNCHANGED <<json, markdown>>
        /\ Finish("error") \/ UNCHANGED history
    BY <1>2 DEF Resolve, Load
  <2>2. json = markdown \/ KilledWriting
    BY <2>1 DEF Agreement
  <2> QED
    BY <1>1, <2>1, <2>2, AgreementEnds
<1>3. CASE OpenJson \/ WriteJson \/ OpenMarkdown
  BY <1>3 DEF OpenJson, WriteJson, OpenMarkdown, Agreement
<1>4. CASE WriteMarkdown
  <2>1. json' = markdown'
    BY <1>4 DEF WriteMarkdown, Control
  <2> QED
    BY <2>1 DEF Agreement
<1>5. CASE Interrupt
  BY <1>5, AgreementKilled DEF Interrupt
<1>6. ASSUME NEW paths \in Arguments, NEW names \in WriteTools, NEW fail \in BOOLEAN,
             Start(paths, names, fail)
      PROVE  Agreement'
  <2>1. /\ pc = "idle" /\ UNCHANGED <<json, markdown>>
        /\ Finish("error") \/ UNCHANGED history
    BY <1>6 DEF Start
  <2>2. json = markdown \/ KilledWriting
    BY <2>1 DEF Agreement
  <2> QED
    BY <1>1, <2>1, <2>2, AgreementEnds
<1>7. CASE (\E f \in Files, content \in Replacements : Replace(f, content)) \/ UNCHANGED vars
  <2>1. UNCHANGED <<pc, json, markdown, history>>
    BY <1>7 DEF Replace, vars, command
  <2> QED
    BY <2>1 DEF Agreement, KilledWriting
<1> QED
  BY <1>2, <1>3, <1>4, <1>5, <1>6, <1>7 DEF Next, Step

-----------------------------------------------------------------------------
LEMMA InitInvariant == Init => IInv
<1> SUFFICES ASSUME Init PROVE IInv
  OBVIOUS
<1>1. TypeOK
  BY TypeInit
<1>2. pc = "idle" /\ resolved = 0 /\ audited = << >> /\ history = << >> /\ DOMAIN << >> = {}
  BY DEF Init
<1>3. json = markdown
  BY DEF Init
<1> QED
  BY <1>1, <1>2, <1>3 DEF IInv, Control, Enqueued, Read, ExitTellsFlags, Agreement, Ended

LEMMA InductiveInvariant == Spec => []IInv
<1>1. Init => IInv
  BY InitInvariant
<1>2. IInv /\ [Next]_vars => IInv'
  BY TypeStep, ControlStep, EnqueuedStep, ReadStep, ExitStep, AgreementStep DEF IInv
<1> QED
  BY <1>1, <1>2, PTL DEF Spec

\* The type invariant, in which every output is the report on some traces.
THEOREM TypeCorrect == Spec => []TypeOK
<1>1. IInv => TypeOK
  BY DEF IInv
<1> QED
  BY <1>1, InductiveInvariant, PTL

\* A trace is flagged proceeded_as_success exactly if it claims success and
\* the last call to some tool failed (false_success.py:137-144).
THEOREM LastCallsDecide == Spec => []FlaggedIfLastCallFails
<1>1. TypeOK => FlaggedIfLastCallFails
  <2> SUFFICES ASSUME TypeOK, Whole(json)
               PROVE  json.proceeded =
                        {n \in DOMAIN json.traces :
                           /\ Claimed(json.traces[n])
                           /\ \E i \in Errors(json.traces[n]) : IsLast(json.traces[n], i)}
    BY DEF FlaggedIfLastCallFails
  <2>1. json.traces \in Seq(Trace) /\ json = Report(json.traces, json.write_tools)
    BY DEF TypeOK
  <2>2. PICK L, names : L \in Seq(Trace) /\ json.traces = L /\ json = Report(L, names)
    BY <2>1
  <2> QED
    BY <2>2, ReportMeans
<1> QED
  BY <1>1, TypeCorrect, PTL

\* The counters of the summary tell one story (false_success.py:220-229).
THEOREM SummaryAlwaysAddsUp == Spec => []SummaryAddsUp
<1>1. TypeOK => SummaryAddsUp
  <2> SUFFICES ASSUME TypeOK, Whole(json) PROVE SummaryAddsUp
    BY DEF SummaryAddsUp
  <2>1. json.traces \in Seq(Trace) /\ json = Report(json.traces, json.write_tools)
    BY DEF TypeOK
  <2>2. PICK L, names : L \in Seq(Trace) /\ json.traces = L /\ json = Report(L, names)
    BY <2>1
  <2> QED
    BY <2>2, ReportAddsUp DEF SummaryAddsUp
<1> QED
  BY <1>1, TypeCorrect, PTL

\* Exit codes 0 and 1 vouch for outputs of all the evidence that was there.
THEOREM ExitAlwaysVouches == Spec => []ExitVouches
<1>1. IInv => ExitTellsFlags
  BY DEF IInv
<1>2. IInv => NothingLeftOut
  <2> SUFFICES ASSUME IInv, Ended({"clean", "flagged"}), NEW a \in DOMAIN args
               PROVE  /\ Present(args[a].files) \cup replaced # {}
                      /\ \A f \in Present(args[a].files) \ replaced :
                           /\ file[f].kind = "trace"
                           /\ \E i \in DOMAIN json.traces :
                                queue[i] = f /\ json.traces[i] = file[f].trace
    BY DEF NothingLeftOut
  <2>1. /\ args \in Seq(Argument) /\ queue \in Seq(Files) /\ audited \in Seq(Trace)
        /\ resolved = Len(args) /\ Len(audited) = Len(queue)
    BY DEF IInv, TypeOK, Control
  <2>2. a \in 1..resolved /\ DOMAIN audited = DOMAIN queue
    BY <2>1
  <2>3. json.traces = audited
    BY ReportFields DEF IInv, ExitTellsFlags
  <2> QED
    BY <2>2, <2>3 DEF IInv, Enqueued, Read
<1> QED
  BY <1>1, <1>2, InductiveInvariant, PTL DEF ExitVouches

\* After any row of commands the JSON and the Markdown report are the same, unless a
\* killed command was the last that got to write them.
THEOREM OutputsAlwaysAgree == Spec => []OutputsAgree
<1>1. IInv => OutputsAgree
  BY DEF IInv, Agreement, KilledWriting, OutputsAgree
<1> QED
  BY <1>1, InductiveInvariant, PTL
=============================================================================
