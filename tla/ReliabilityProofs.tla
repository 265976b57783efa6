-------------------------- MODULE ReliabilityProofs --------------------------
(***************************************************************************)
(* Proofs about Reliability, for every finite set of case ids, any number  *)
(* of attempts with any results, and any number of commands whose reports  *)
(* are replaced at any time.                                               *)
(***************************************************************************)
EXTENDS Reliability, TLAPS, FiniteSetTheorems, SequenceTheorems

-----------------------------------------------------------------------------
(* The inductive invariant.                                                *)

\* Where the command is, and what it wrote on the way there.
Control ==
  /\ Len(loaded) <= Len(args)
  /\ pc \in {"aggregate", "open json", "write json", "open markdown", "write markdown"} =>
       Len(loaded) = Len(args)
  /\ pc \in {"open markdown", "write markdown"} => json = Aggregate(loaded)

\* A path that was not replaced still holds the report that was validated.
Valid(p) == file[p].kind = "report"

Vouched ==
  /\ pc = "parse" /\ args[Len(loaded) + 1] \notin replaced =>
       Valid(args[Len(loaded) + 1])
  /\ \A i \in DOMAIN loaded :
       args[i] \notin replaced =>
         /\ Valid(args[i]) /\ ~HasDuplicates(file[args[i]].cases)
         /\ loaded[i] = ById(file[args[i]].cases)

\* While no output is open, the two agree or the last writer was killed.
KilledWriting ==
  \E i \in DOMAIN history :
    history[i] = "killed" /\ \A j \in DOMAIN history : j > i => history[j] # "ok"

Agreement ==
  pc \in {"idle", "validate", "parse", "aggregate", "open json"} =>
    json = markdown \/ KilledWriting

IInv ==
  TypeOK /\ Control /\ Vouched /\ OkOfValidReports /\ UncaughtOnlyIfReplaced /\ Agreement

-----------------------------------------------------------------------------
(* Lemmas about attempts and their scores.                                 *)

LEMMA AttemptDomain ==
  ASSUME NEW t \in Attempt
  PROVE  DOMAIN t \subseteq Ids /\ \A c \in DOMAIN t : t[c] \in [suite : Suites, passed : BOOLEAN]
BY DEF Attempt

LEMMA AttemptsFinite ==
  ASSUME NEW L \in Seq(Attempt)
  PROVE  /\ IsFiniteSet(DOMAIN L) /\ Cardinality(DOMAIN L) = Len(L)
         /\ CaseIds(L) \subseteq Ids /\ IsFiniteSet(CaseIds(L))
<1>1. DOMAIN L = 1..Len(L) /\ Len(L) \in Nat
  OBVIOUS
<1>2. IsFiniteSet(DOMAIN L) /\ Cardinality(DOMAIN L) = Len(L)
  BY <1>1, FS_Interval
<1>3. CaseIds(L) \subseteq Ids
  <2>1. \A i \in DOMAIN L : DOMAIN L[i] \subseteq Ids
    BY AttemptDomain
  <2> QED
    BY <2>1 DEF CaseIds
<1> QED
  BY <1>2, <1>3, FS_Subset, ConstantsAssumption

LEMMA SlotsFinite ==
  ASSUME NEW L \in Seq(Attempt), NEW c
  PROVE  /\ Passed(L, c) \subseteq Observed(L, c) /\ Observed(L, c) \subseteq DOMAIN L
         /\ IsFiniteSet(Passed(L, c)) /\ IsFiniteSet(Observed(L, c))
         /\ Cardinality(Passed(L, c)) \in Nat /\ Cardinality(Observed(L, c)) \in Nat
<1>1. Passed(L, c) \subseteq Observed(L, c) /\ Observed(L, c) \subseteq DOMAIN L
  BY DEF Passed, Observed
<1>2. IsFiniteSet(Observed(L, c))
  BY <1>1, AttemptsFinite, FS_Subset
<1>3. IsFiniteSet(Passed(L, c))
  BY <1>1, <1>2, FS_Subset
<1> QED
  BY <1>1, <1>2, <1>3, FS_CardinalityType

\* A set of slots as large as the sequence is all of it.
LEMMA FullSlots ==
  ASSUME NEW L \in Seq(Attempt), NEW S \in SUBSET DOMAIN L
  PROVE  Cardinality(S) = Len(L) <=> S = DOMAIN L
BY AttemptsFinite, FS_Subset

LEMMA PassAtKMeans ==
  ASSUME NEW L \in Seq(Attempt), NEW c
  PROVE  PassAtK(L, c) <=> Passed(L, c) # {}
<1>1. IsFiniteSet(Passed(L, c)) /\ Cardinality(Passed(L, c)) \in Nat
  BY SlotsFinite
<1>2. Cardinality(Passed(L, c)) = 0 <=> Passed(L, c) = {}
  BY <1>1, FS_EmptySet
<1> QED
  BY <1>1, <1>2 DEF PassAtK

LEMMA PassAllKMeans ==
  ASSUME NEW L \in Seq(Attempt), NEW c
  PROVE  PassAllK(L, c) <=> Passed(L, c) = DOMAIN L
<1>1. Passed(L, c) \in SUBSET DOMAIN L /\ Observed(L, c) \in SUBSET DOMAIN L
  BY SlotsFinite
<1>2. Cardinality(Passed(L, c)) = Len(L) <=> Passed(L, c) = DOMAIN L
  BY <1>1, FullSlots
<1>3. Cardinality(Observed(L, c)) = Len(L) <=> Observed(L, c) = DOMAIN L
  BY <1>1, FullSlots
<1> QED
  BY <1>1, <1>2, <1>3, SlotsFinite DEF PassAllK

\* A case is stable if it is observed throughout and passes always or never.
LEMMA StableMeans ==
  ASSUME NEW L \in Seq(Attempt), Len(L) > 0, NEW c
  PROVE  Stable(L, c) <=>
           /\ Observed(L, c) = DOMAIN L
           /\ Passed(L, c) = {} \/ Passed(L, c) = DOMAIN L
<1>1. Cardinality(Observed(L, c)) = Len(L) <=> Observed(L, c) = DOMAIN L
  BY SlotsFinite, FullSlots
<1>2. 1 \in DOMAIN L /\ Passed(L, c) \subseteq DOMAIN L
  <2>1. 1 \in DOMAIN L
    OBVIOUS
  <2> QED
    BY <2>1, SlotsFinite
<1>3. IsFiniteSet(Statuses(L, c))
  <2>1. Statuses(L, c) \subseteq {TRUE} \cup {FALSE}
    BY DEF Statuses
  <2>2. IsFiniteSet({TRUE} \cup {FALSE})
    BY FS_Singleton, FS_Union
  <2> QED
    BY <2>1, <2>2, FS_Subset
<1>4. Cardinality(Statuses(L, c)) = 1 <=> \E s : Statuses(L, c) = {s}
  BY <1>3, FS_Singleton
<1>5. TRUE \in Statuses(L, c) <=> Passed(L, c) # {}
  BY <1>2 DEF Statuses
<1>6. FALSE \in Statuses(L, c) <=> Passed(L, c) # DOMAIN L
  BY <1>2 DEF Statuses
<1>7. Statuses(L, c) \subseteq {TRUE, FALSE}
  BY DEF Statuses
<1>8. (\E s : Statuses(L, c) = {s}) <=> ~(TRUE \in Statuses(L, c) /\ FALSE \in Statuses(L, c))
  <2>1. Statuses(L, c) # {}
    BY <1>2, <1>5, <1>6
  <2> QED
    BY <2>1, <1>7
<1> QED
  BY <1>1, <1>2, <1>4, <1>5, <1>6, <1>8 DEF Stable

LEMMA CaseHasAttempt ==
  ASSUME NEW L \in Seq(Attempt), NEW c \in CaseIds(L)
  PROVE  Len(L) > 0 /\ 1 \in DOMAIN L
BY DEF CaseIds

LEMMA ScoresFinite ==
  ASSUME NEW L \in Seq(Attempt), NEW S \in SUBSET CaseIds(L)
  PROVE  IsFiniteSet(S) /\ Cardinality(S) \in Nat
BY AttemptsFinite, FS_Subset, FS_CardinalityType

-----------------------------------------------------------------------------
(* Every aggregate has its scores in order.                                *)

LEMMA ScoreSetsOrdered ==
  ASSUME NEW L \in Seq(Attempt)
  PROVE  /\ PassAllKCases(L) \subseteq PassAt1Cases(L)
         /\ PassAt1Cases(L) \subseteq PassAtKCases(L)
         /\ PassAtKCases(L) \subseteq CaseIds(L)
         /\ PassAllKCases(L) \subseteq StableCases(L)
<1>1. ASSUME NEW c \in CaseIds(L), PassAllK(L, c)
      PROVE  PassAt1(L, c) /\ Stable(L, c)
  <2>1. Passed(L, c) = DOMAIN L
    BY <1>1, PassAllKMeans
  <2>2. Len(L) > 0 /\ 1 \in DOMAIN L
    BY CaseHasAttempt
  <2>3. Observed(L, c) = DOMAIN L
    BY <2>1, SlotsFinite
  <2> QED
    BY <2>1, <2>2, <2>3, StableMeans DEF PassAt1
<1>2. ASSUME NEW c, PassAt1(L, c) PROVE PassAtK(L, c)
  BY <1>2, PassAtKMeans DEF PassAt1
<1> QED
  BY <1>1, <1>2 DEF PassAllKCases, PassAt1Cases, PassAtKCases, StableCases

LEMMA AggregateOrdered ==
  ASSUME NEW L \in Seq(Attempt)
  PROVE  LET A == Aggregate(L)
         IN  /\ A.pass_all_k <= A.pass_at_1 /\ A.pass_at_1 <= A.pass_at_k
             /\ A.pass_at_k <= A.cases /\ A.pass_all_k <= A.stable
<1>1. /\ PassAt1Cases(L) \in SUBSET CaseIds(L) /\ PassAtKCases(L) \in SUBSET CaseIds(L)
      /\ PassAllKCases(L) \in SUBSET CaseIds(L) /\ StableCases(L) \in SUBSET CaseIds(L)
  BY DEF PassAt1Cases, PassAtKCases, PassAllKCases, StableCases
<1>2. Cardinality(PassAllKCases(L)) <= Cardinality(PassAt1Cases(L))
  BY <1>1, ScoreSetsOrdered, ScoresFinite, FS_Subset
<1>3. Cardinality(PassAt1Cases(L)) <= Cardinality(PassAtKCases(L))
  BY <1>1, ScoreSetsOrdered, ScoresFinite, FS_Subset
<1>4. Cardinality(PassAtKCases(L)) <= Cardinality(CaseIds(L))
  BY <1>1, AttemptsFinite, FS_Subset
<1>5. Cardinality(PassAllKCases(L)) <= Cardinality(StableCases(L))
  BY <1>1, ScoreSetsOrdered, ScoresFinite, FS_Subset
<1> QED
  BY <1>2, <1>3, <1>4, <1>5 DEF Aggregate

-----------------------------------------------------------------------------
(* An omission never improves a score.                                     *)

\* What is left of the attempts when the result of c in attempt i is left out.
LEMMA OmitType ==
  ASSUME NEW L \in Seq(Attempt), NEW i \in DOMAIN L, NEW c
  PROVE  /\ Omit(L, i, c) \in Seq(Attempt)
         /\ Len(Omit(L, i, c)) = Len(L) /\ DOMAIN Omit(L, i, c) = DOMAIN L
         /\ DOMAIN Omit(L, i, c)[i] = DOMAIN L[i] \ {c}
         /\ \A x \in DOMAIN L[i] \ {c} : Omit(L, i, c)[i][x] = L[i][x]
         /\ \A j \in DOMAIN L \ {i} : Omit(L, i, c)[j] = L[j]
<1> DEFINE t == [x \in DOMAIN L[i] \ {c} |-> L[i][x]]
<1>1. L[i] \in Attempt
  OBVIOUS
<1>2. t \in [DOMAIN L[i] \ {c} -> [suite : Suites, passed : BOOLEAN]]
  BY <1>1, AttemptDomain
<1>3. DOMAIN L[i] \ {c} \in SUBSET Ids
  BY <1>1, AttemptDomain
<1>4. t \in Attempt
  BY <1>2, <1>3 DEF Attempt
<1>5. Omit(L, i, c) = [L EXCEPT ![i] = t]
  BY DEF Omit
<1>6. DOMAIN t = DOMAIN L[i] \ {c} /\ \A x \in DOMAIN L[i] \ {c} : t[x] = L[i][x]
  OBVIOUS
<1> HIDE DEF t
<1> QED
  BY <1>4, <1>5, <1>6

\* The other cases keep their slots; c loses attempt i.
LEMMA OmitSlots ==
  ASSUME NEW L \in Seq(Attempt), NEW i \in DOMAIN L, NEW c \in DOMAIN L[i]
  PROVE  /\ \A d : d # c => Observed(Omit(L, i, c), d) = Observed(L, d)
         /\ \A d : d # c => Passed(Omit(L, i, c), d) = Passed(L, d)
         /\ i \notin Observed(Omit(L, i, c), c)
         /\ Passed(Omit(L, i, c), c) \subseteq Passed(L, c)
<1> DEFINE M == Omit(L, i, c)
<1>1. /\ M \in Seq(Attempt) /\ DOMAIN M = DOMAIN L
      /\ DOMAIN M[i] = DOMAIN L[i] \ {c}
      /\ \A x \in DOMAIN L[i] \ {c} : M[i][x] = L[i][x]
      /\ \A j \in DOMAIN L \ {i} : M[j] = L[j]
  BY OmitType
<1> HIDE DEF M
<1>2. \A d : \A j \in DOMAIN L : d # c \/ j # i => (d \in DOMAIN M[j] <=> d \in DOMAIN L[j])
  BY <1>1
<1>3. \A d : \A j \in DOMAIN L : d \in DOMAIN M[j] => M[j][d] = L[j][d]
  BY <1>1
<1>4. \A d : d # c => Observed(M, d) = Observed(L, d)
  BY <1>1, <1>2 DEF Observed
<1>5. \A d : d # c => Passed(M, d) = Passed(L, d)
  BY <1>1, <1>3, <1>4 DEF Passed, Observed
<1>6. i \notin Observed(M, c)
  BY <1>1 DEF Observed
<1>7. Passed(M, c) \subseteq Passed(L, c)
  BY <1>1, <1>2, <1>3 DEF Passed, Observed
<1> QED
  BY <1>4, <1>5, <1>6, <1>7 DEF M

LEMMA OmitCases ==
  ASSUME NEW L \in Seq(Attempt), NEW i \in DOMAIN L, NEW c \in DOMAIN L[i],
         c \in CaseIds(Omit(L, i, c))
  PROVE  CaseIds(Omit(L, i, c)) = CaseIds(L)
<1> DEFINE M == Omit(L, i, c)
<1>1. /\ DOMAIN M = DOMAIN L /\ DOMAIN M[i] = DOMAIN L[i] \ {c}
      /\ \A j \in DOMAIN L \ {i} : M[j] = L[j]
  BY OmitType
<1> HIDE DEF M
<1>2. c \in CaseIds(M) /\ c \in CaseIds(L)
  BY DEF M, CaseIds
<1>3. ASSUME NEW d, d # c PROVE d \in CaseIds(M) <=> d \in CaseIds(L)
  <2>1. \A j \in DOMAIN L : d \in DOMAIN M[j] <=> d \in DOMAIN L[j]
    BY <1>1, <1>3
  <2> QED
    BY <1>1, <2>1 DEF CaseIds
<1>4. \A d : d \in CaseIds(M) <=> d \in CaseIds(L)
  BY <1>2, <1>3
<1>5. CaseIds(M) = CaseIds(L)
  BY <1>4, Zenon
<1> QED
  BY <1>5 DEF M

LEMMA OmitScores ==
  ASSUME NEW L \in Seq(Attempt), NEW i \in DOMAIN L, NEW c \in DOMAIN L[i],
         c \in CaseIds(Omit(L, i, c))
  PROVE  /\ PassAt1Cases(Omit(L, i, c)) \subseteq PassAt1Cases(L)
         /\ PassAtKCases(Omit(L, i, c)) \subseteq PassAtKCases(L)
         /\ PassAllKCases(Omit(L, i, c)) \subseteq PassAllKCases(L)
         /\ StableCases(Omit(L, i, c)) \subseteq StableCases(L)
<1> DEFINE M == Omit(L, i, c)
<1>1. M \in Seq(Attempt) /\ Len(M) = Len(L) /\ DOMAIN M = DOMAIN L
  BY OmitType
<1>2. CaseIds(M) = CaseIds(L)
  BY OmitCases
<1>3. /\ \A d : d # c => Observed(M, d) = Observed(L, d)
      /\ \A d : d # c => Passed(M, d) = Passed(L, d)
      /\ i \notin Observed(M, c)
      /\ Passed(M, c) \subseteq Passed(L, c)
  BY OmitSlots
<1>4. Len(L) > 0
  OBVIOUS
<1> HIDE DEF M
<1>5. \A d : PassAt1(M, d) => PassAt1(L, d)
  BY <1>3 DEF PassAt1
<1>6. ASSUME NEW d, PassAtK(M, d) PROVE PassAtK(L, d)
  BY <1>1, <1>3, <1>6, PassAtKMeans
<1>7. ASSUME NEW d, PassAllK(M, d) PROVE PassAllK(L, d)
  <2>1. Passed(M, d) = DOMAIN L
    BY <1>1, <1>7, PassAllKMeans
  <2>2. d # c
    BY <1>1, <1>3, <2>1, SlotsFinite
  <2> QED
    BY <1>3, <2>1, <2>2, PassAllKMeans
<1>8. ASSUME NEW d, Stable(M, d) PROVE Stable(L, d)
  <2>1. Observed(M, d) = DOMAIN L /\ (Passed(M, d) = {} \/ Passed(M, d) = DOMAIN L)
    BY <1>1, <1>4, <1>8, StableMeans
  <2>2. d # c
    BY <1>3, <2>1
  <2> QED
    BY <1>3, <1>4, <2>1, <2>2, StableMeans
<1>9. /\ PassAt1Cases(M) \subseteq PassAt1Cases(L)
      /\ PassAtKCases(M) \subseteq PassAtKCases(L)
      /\ PassAllKCases(M) \subseteq PassAllKCases(L)
      /\ StableCases(M) \subseteq StableCases(L)
  BY <1>2, <1>5, <1>6, <1>7, <1>8 DEF PassAt1Cases, PassAtKCases, PassAllKCases, StableCases
<1> QED
  BY <1>9 DEF M

LEMMA ProductMonotone ==
  ASSUME NEW m \in Nat, NEW l \in Nat, NEW n \in Nat, m <= l
  PROVE  m * n <= l * n
OBVIOUS

LEMMA OmitNoBetter ==
  ASSUME NEW L \in Seq(Attempt), NEW i \in DOMAIN L, NEW c \in DOMAIN L[i],
         c \in CaseIds(Omit(L, i, c))
  PROVE  NoBetter(Omit(L, i, c), L)
<1> DEFINE M == Omit(L, i, c)
           n == Cardinality(CaseIds(L))
<1>1. M \in Seq(Attempt) /\ CaseIds(M) = CaseIds(L)
  BY OmitType, OmitCases
<1>2. n \in Nat
  BY ScoresFinite
<1>3. /\ PassAt1Cases(M) \subseteq PassAt1Cases(L) /\ PassAtKCases(M) \subseteq PassAtKCases(L)
      /\ PassAllKCases(M) \subseteq PassAllKCases(L) /\ StableCases(M) \subseteq StableCases(L)
  BY OmitScores
<1> HIDE DEF M
<1>4. ASSUME NEW S \in SUBSET CaseIds(L), NEW T \in SUBSET S
      PROVE  Cardinality(T) * n <= Cardinality(S) * n
  <2>1. IsFiniteSet(S) /\ Cardinality(S) \in Nat /\ Cardinality(T) \in Nat
    BY ScoresFinite
  <2>2. Cardinality(T) <= Cardinality(S)
    BY <2>1, FS_Subset
  <2> QED
    BY <1>2, <2>1, <2>2, ProductMonotone
<1> HIDE DEF n
<1>5. /\ PassAt1Cases(L) \subseteq CaseIds(L) /\ PassAtKCases(L) \subseteq CaseIds(L)
      /\ PassAllKCases(L) \subseteq CaseIds(L) /\ StableCases(L) \subseteq CaseIds(L)
  BY DEF PassAt1Cases, PassAtKCases, PassAllKCases, StableCases
<1>6. /\ Cardinality(PassAt1Cases(M)) * n <= Cardinality(PassAt1Cases(L)) * n
      /\ Cardinality(PassAtKCases(M)) * n <= Cardinality(PassAtKCases(L)) * n
      /\ Cardinality(PassAllKCases(M)) * n <= Cardinality(PassAllKCases(L)) * n
      /\ Cardinality(StableCases(M)) * n <= Cardinality(StableCases(L)) * n
  BY <1>3, <1>4, <1>5
<1>7. NoBetter(M, L)
  BY <1>1, <1>6 DEF NoBetter, Aggregate, n
<1> QED
  BY <1>7 DEF M

-----------------------------------------------------------------------------
(* Without missing results, a case is unstable iff it passes sometimes.    *)

LEMMA NothingMissing ==
  ASSUME NEW L \in Seq(Attempt), Aggregate(L).missing = 0
  PROVE  \A c \in CaseIds(L) : Observed(L, c) = DOMAIN L
<1> DEFINE Slots == CaseIds(L) \X DOMAIN L
<1>1. IsFiniteSet(Slots) /\ Cardinality(Slots) = Cardinality(CaseIds(L)) * Len(L)
  BY AttemptsFinite, FS_Product
<1>2. Filled(L) \in SUBSET Slots
  BY DEF Filled
<1>3. Cardinality(Slots) \in Nat /\ Cardinality(Filled(L)) \in Nat
  BY <1>1, <1>2, FS_Subset, FS_CardinalityType
<1>4. Cardinality(Slots) - Cardinality(Filled(L)) = 0
  BY <1>1 DEF Aggregate
<1>5. Filled(L) = Slots
  BY <1>1, <1>2, <1>3, <1>4, FS_Subset
<1>6. ASSUME NEW c \in CaseIds(L), NEW i \in DOMAIN L PROVE c \in DOMAIN L[i]
  <2>1. <<c, i>> \in Filled(L)
    BY <1>5
  <2> QED
    BY <2>1 DEF Filled
<1> QED
  BY <1>6 DEF Observed

LEMMA AggregateExplained ==
  ASSUME NEW L \in Seq(Attempt), Aggregate(L).missing = 0
  PROVE  Aggregate(L).cases + Aggregate(L).pass_all_k = Aggregate(L).stable + Aggregate(L).pass_at_k
<1> DEFINE S == StableCases(L)
           K == PassAtKCases(L)
<1>1. ASSUME NEW c \in CaseIds(L)
      PROVE  /\ Stable(L, c) \/ PassAtK(L, c)
             /\ Stable(L, c) /\ PassAtK(L, c) <=> PassAllK(L, c)
  <2>1. Len(L) > 0 /\ 1 \in DOMAIN L /\ Observed(L, c) = DOMAIN L
    BY CaseHasAttempt, NothingMissing
  <2> QED
    BY <2>1, StableMeans, PassAtKMeans, PassAllKMeans
<1>2. S \cup K = CaseIds(L) /\ S \cap K = PassAllKCases(L)
  BY <1>1 DEF StableCases, PassAtKCases, PassAllKCases
<1>3. /\ IsFiniteSet(S) /\ Cardinality(S) \in Nat
      /\ IsFiniteSet(K) /\ Cardinality(K) \in Nat
      /\ Cardinality(PassAllKCases(L)) \in Nat
  BY ScoresFinite DEF StableCases, PassAtKCases, PassAllKCases
<1> HIDE DEF S, K
<1>4. Cardinality(CaseIds(L)) = Cardinality(S) + Cardinality(K) - Cardinality(PassAllKCases(L))
  BY <1>2, <1>3, FS_Union
<1>5. Cardinality(CaseIds(L)) \in Nat
  BY ScoresFinite
<1>6. Cardinality(CaseIds(L)) + Cardinality(PassAllKCases(L)) = Cardinality(S) + Cardinality(K)
  BY <1>3, <1>4, <1>5
<1> QED
  BY <1>6 DEF Aggregate, S, K

-----------------------------------------------------------------------------
(* The invariant is inductive.                                             *)

LEMMA ByIdType ==
  ASSUME NEW cases \in Seq(Result)
  PROVE  ById(cases) \in Attempt
<1> DEFINE S == {cases[i].id : i \in DOMAIN cases}
           row(c) == CHOOSE i \in DOMAIN cases : cases[i].id = c
<1>1. \A i \in DOMAIN cases : cases[i] \in Result
  OBVIOUS
<1>2. S \in SUBSET Ids
  BY <1>1 DEF Result
<1>3. \A c \in S : row(c) \in DOMAIN cases
  OBVIOUS
<1>4. \A c \in S : [suite |-> cases[row(c)].suite, passed |-> cases[row(c)].passed]
                     \in [suite : Suites, passed : BOOLEAN]
  BY <1>1, <1>3 DEF Result
<1>5. ById(cases) \in [S -> [suite : Suites, passed : BOOLEAN]]
  BY <1>4 DEF ById
<1> QED
  BY <1>2, <1>5 DEF Attempt

LEMMA OpenedType ==
  ASSUME TypeOK, pc \in {"validate", "parse"}
  PROVE  /\ Len(loaded) + 1 \in DOMAIN args /\ args[Len(loaded) + 1] \in Paths
         /\ Opened = file[args[Len(loaded) + 1]] /\ Opened \in Content
         /\ Opened.cases \in Seq(Result)
<1>1. args \in Seq(Paths) /\ loaded \in Seq(Attempt) /\ Len(loaded) < Len(args)
  BY DEF TypeOK
<1>2. Len(loaded) + 1 \in DOMAIN args /\ args[Len(loaded) + 1] \in Paths
  BY <1>1
<1>3. Opened \in Content
  BY <1>2, ConstantsAssumption DEF TypeOK, Opened
<1> QED
  BY <1>2, <1>3 DEF Opened, Content

LEMMA Limits == MaxCommands \in Nat /\ MaxWrites \in Nat
BY ConstantsAssumption

LEMMA OneMore ==
  ASSUME NEW n \in 0..MaxWrites, n < MaxWrites
  PROVE  n + 1 \in 0..MaxWrites
BY Limits

LEMMA StartedEmpty ==
  ASSUME NEW paths \in Arguments
  PROVE  paths \in Seq(Paths) /\ Len(paths) > 0 /\ << >> \in Seq(Attempt) /\ Len(<< >>) = 0
<1>1. paths \in Seq(Paths) /\ paths # << >>
  BY ConstantsAssumption
<1>2. Len(paths) \in Nat \ {0}
  BY <1>1, EmptySeq
<1>3. << >> \in Seq(Attempt) /\ Len(<< >>) = 0
  BY EmptySeq
<1> QED
  BY <1>1, <1>2, <1>3

LEMMA FinishType ==
  ASSUME TypeOK, NEW outcome \in Outcomes, Finish(outcome)
  PROVE  /\ pc' = "idle" /\ history' \in Seq(Outcomes)
         /\ Len(history') = Len(history) + 1 /\ history' # << >>
         /\ history'[Len(history')] = outcome
         /\ \A i \in DOMAIN history : history'[i] = history[i]
         /\ DOMAIN history' = DOMAIN history \cup {Len(history')}
         /\ \A i \in DOMAIN history : i < Len(history')
<1>1. history \in Seq(Outcomes) /\ history' = Append(history, outcome) /\ pc' = "idle"
  BY DEF TypeOK, Finish
<1> QED
  BY <1>1

LEMMA AppendedAttempt ==
  ASSUME NEW t \in Attempt, loaded \in Seq(Attempt), loaded' = Append(loaded, t)
  PROVE  /\ loaded' \in Seq(Attempt) /\ Len(loaded') = Len(loaded) + 1
         /\ loaded'[Len(loaded) + 1] = t
         /\ \A i \in DOMAIN loaded : loaded'[i] = loaded[i]
         /\ DOMAIN loaded' = DOMAIN loaded \cup {Len(loaded) + 1}
OBVIOUS

LEMMA AggregateIsWhole ==
  ASSUME NEW L \in Seq(Attempt)
  PROVE  Aggregate(L).attempts \in Seq(Attempt) /\ Aggregate(L) = Aggregate(Aggregate(L).attempts)
<1>1. Aggregate(L).attempts = L
  BY DEF Aggregate
<1> QED
  BY <1>1, Zenon

LEMMA TypeInit == Init => TypeOK
BY ConstantsAssumption DEF Init, TypeOK, Whole, Outcomes

LEMMA TypeStep == TypeOK /\ [Next]_vars => TypeOK'
<1> SUFFICES ASSUME TypeOK, [Next]_vars PROVE TypeOK'
  OBVIOUS
<1>1. /\ file \in [Paths -> Contents] /\ writes \in 0..MaxWrites /\ replaced \subseteq Paths
      /\ args \in Seq(Paths) /\ loaded \in Seq(Attempt) /\ history \in Seq(Outcomes)
  BY DEF TypeOK
<1>2. /\ Whole(json) => json.attempts \in Seq(Attempt) /\ json = Aggregate(json.attempts)
      /\ Whole(markdown) => markdown.attempts \in Seq(Attempt) /\ markdown = Aggregate(markdown.attempts)
  BY DEF TypeOK
<1>3. /\ json' = json => (Whole(json') => json'.attempts \in Seq(Attempt) /\ json' = Aggregate(json'.attempts))
      /\ markdown' = markdown =>
           (Whole(markdown') => markdown'.attempts \in Seq(Attempt) /\ markdown' = Aggregate(markdown'.attempts))
  BY <1>2
<1> USE DEF TypeOK
<1>4. ASSUME NEW paths \in Arguments, Start(paths) PROVE TypeOK'
  <2>1. paths \in Seq(Paths) /\ Len(paths) > 0 /\ << >> \in Seq(Attempt) /\ Len(<< >>) = 0
    BY StartedEmpty
  <2> QED
    BY <1>1, <1>3, <1>4, <2>1 DEF Start
<1>5. CASE Validate
  <2>1. CASE Finish("error")
    BY <1>1, <1>3, <1>5, <2>1, FinishType DEF Validate, Outcomes
  <2>2. CASE pc' = "parse" /\ UNCHANGED history
    BY <1>1, <1>3, <1>5, <2>2 DEF Validate
  <2> QED
    BY <1>5, <2>1, <2>2 DEF Validate
<1>6. CASE Parse
  <2>1. pc = "parse" /\ UNCHANGED <<file, writes, replaced, args, json, markdown>>
    BY <1>6 DEF Parse
  <2>2. CASE Accept
    <3>1. ById(Opened.cases) \in Attempt
      BY <2>1, OpenedType, ByIdType
    <3>2. loaded' \in Seq(Attempt) /\ Len(loaded') = Len(loaded) + 1
      BY <1>1, <2>2, <3>1, AppendedAttempt DEF Accept
    <3> QED
      BY <1>1, <1>3, <2>1, <2>2, <3>2 DEF Accept
  <2>3. ASSUME NEW outcome \in {"error", "uncaught"}, Finish(outcome), UNCHANGED loaded
        PROVE  TypeOK'
    <3>1. pc' = "idle" /\ history' \in Seq(Outcomes)
      BY <2>3, FinishType DEF Outcomes
    <3> QED
      BY <1>1, <1>3, <2>1, <2>3, <3>1
  <2> QED
    BY <1>6, <2>2, <2>3 DEF Parse, Reject
<1>7. CASE CheckAttempts
  <2>1. CASE Finish("error")
    BY <1>1, <1>3, <1>7, <2>1, FinishType DEF CheckAttempts, Outcomes
  <2>2. CASE pc' = "open json" /\ UNCHANGED history
    BY <1>1, <1>3, <1>7, <2>2 DEF CheckAttempts
  <2> QED
    BY <1>7, <2>1, <2>2 DEF CheckAttempts
<1>8. CASE OpenJson
  BY <1>1, <1>3, <1>8 DEF OpenJson, Whole
<1>9. CASE WriteJson
  <2>1. json'.attempts \in Seq(Attempt) /\ json' = Aggregate(json'.attempts)
    BY <1>1, <1>9, AggregateIsWhole DEF WriteJson
  <2> QED
    BY <1>1, <1>3, <1>9, <2>1 DEF WriteJson
<1>10. CASE OpenMarkdown
  BY <1>1, <1>3, <1>10 DEF OpenMarkdown, Whole
<1>11. CASE WriteMarkdown
  <2>1. markdown'.attempts \in Seq(Attempt) /\ markdown' = Aggregate(markdown'.attempts)
    BY <1>1, <1>11, AggregateIsWhole DEF WriteMarkdown
  <2>2. pc' = "idle" /\ history' \in Seq(Outcomes)
    BY <1>11, FinishType DEF WriteMarkdown, Outcomes
  <2> QED
    BY <1>1, <1>3, <1>11, <2>1, <2>2 DEF WriteMarkdown
<1>12. CASE Interrupt
  <2>1. pc' = "idle" /\ history' \in Seq(Outcomes)
    BY <1>12, FinishType DEF Interrupt, Outcomes
  <2> QED
    BY <1>1, <1>3, <1>12, <2>1 DEF Interrupt
<1>13. ASSUME NEW p \in Paths, NEW content \in Contents, Replace(p, content) PROVE TypeOK'
  <2>1. writes + 1 \in 0..MaxWrites
    <3>1. writes < MaxWrites
      BY <1>13 DEF Replace
    <3> QED
      BY <1>1, <3>1, OneMore
  <2> QED
    BY <1>1, <1>3, <1>13, <2>1 DEF Replace
<1>14. CASE UNCHANGED vars
  BY <1>1, <1>3, <1>14 DEF vars
<1> QED
  BY <1>4, <1>5, <1>6, <1>7, <1>8, <1>9, <1>10, <1>11, <1>12, <1>13, <1>14 DEF Next, Step

LEMMA ControlStep == TypeOK /\ Control /\ [Next]_vars => Control'
<1> SUFFICES ASSUME TypeOK, Control, [Next]_vars PROVE Control'
  OBVIOUS
<1>1. args \in Seq(Paths) /\ loaded \in Seq(Attempt)
  BY DEF TypeOK
<1>2. ASSUME NEW paths \in Arguments, Start(paths) PROVE Control'
  <2>1. Len(paths) > 0 /\ Len(<< >>) = 0 /\ paths \in Seq(Paths)
    BY StartedEmpty
  <2> QED
    BY <1>2, <2>1 DEF Start, Control
<1>3. CASE Validate
  BY <1>3 DEF Validate, Finish, Control
<1>4. CASE Parse
  <2>1. CASE Accept
    <3>1. ById(Opened.cases) \in Attempt
      BY <1>4, OpenedType, ByIdType DEF Parse
    <3>2. Len(loaded') = Len(loaded) + 1 /\ loaded' \in Seq(Attempt)
      BY <1>1, <2>1, <3>1, AppendedAttempt DEF Accept
    <3>3. Len(loaded) < Len(args) /\ pc = "parse" /\ args' = args
      BY <1>4 DEF Parse, TypeOK
    <3>4. pc' = IF Len(loaded') < Len(args) THEN "validate" ELSE "aggregate"
      BY <2>1 DEF Accept
    <3> QED
      BY <1>1, <3>2, <3>3, <3>4 DEF Control
  <2>2. CASE pc' = "idle" /\ UNCHANGED loaded
    BY <1>4, <2>2 DEF Parse, Control
  <2> QED
    BY <1>4, <2>1, <2>2 DEF Parse, Reject, Finish
<1>5. CASE CheckAttempts
  BY <1>5 DEF CheckAttempts, Finish, Control
<1>6. CASE OpenJson \/ WriteJson \/ OpenMarkdown
  BY <1>6 DEF OpenJson, WriteJson, OpenMarkdown, Control
<1>7. CASE WriteMarkdown \/ Interrupt
  BY <1>7 DEF WriteMarkdown, Interrupt, Finish, Control
<1>8. ASSUME NEW p \in Paths, NEW content \in Contents, Replace(p, content) PROVE Control'
  BY <1>8 DEF Replace, Control
<1>9. CASE UNCHANGED vars
  BY <1>9 DEF vars, Control
<1> QED
  BY <1>2, <1>3, <1>4, <1>5, <1>6, <1>7, <1>8, <1>9 DEF Next, Step

\* Paths that are not replaced in a step hold what they held.
LEMMA VouchedKept ==
  ASSUME TypeOK, Vouched, Control, UNCHANGED <<args, loaded>>, pc' # "parse",
         UNCHANGED <<file, replaced>>
  PROVE  Vouched'
BY DEF Vouched, Valid

LEMMA VouchedStep == TypeOK /\ Control /\ Vouched /\ [Next]_vars => Vouched'
<1> SUFFICES ASSUME TypeOK, Control, Vouched, [Next]_vars PROVE Vouched'
  OBVIOUS
<1>1. args \in Seq(Paths) /\ loaded \in Seq(Attempt) /\ file \in [Paths -> Contents]
  BY DEF TypeOK
<1>2. ASSUME NEW paths \in Arguments, Start(paths) PROVE Vouched'
  <2>1. DOMAIN loaded' = {} /\ pc' = "validate"
    BY <1>2 DEF Start
  <2> QED
    BY <2>1 DEF Vouched
<1>3. CASE Validate
  <2>1. CASE Opened.kind = "report" /\ pc' = "parse"
    <3>1. Valid(args[Len(loaded) + 1])
      BY <1>3, <2>1, OpenedType DEF Validate, Valid
    <3> QED
      BY <1>3, <3>1 DEF Validate, Vouched, Valid
  <2>2. CASE pc' = "idle"
    BY <1>3, <2>2, VouchedKept DEF Validate
  <2> QED
    BY <1>3, <2>1, <2>2 DEF Validate, Finish
<1>4. CASE Parse
  <2>1. pc = "parse" /\ UNCHANGED <<file, replaced, args>>
    BY <1>4 DEF Parse
  <2>2. CASE Accept
    <3> DEFINE n == Len(loaded) + 1
    <3>1. ById(Opened.cases) \in Attempt /\ Opened = file[args[n]]
      BY <2>1, OpenedType, ByIdType
    <3>2. loaded' = Append(loaded, ById(Opened.cases)) /\ pc' # "parse"
      BY <2>2 DEF Accept
    <3>3. /\ loaded'[n] = ById(Opened.cases)
          /\ \A i \in DOMAIN loaded : loaded'[i] = loaded[i]
          /\ DOMAIN loaded' = DOMAIN loaded \cup {n}
      BY <1>1, <3>1, <3>2, AppendedAttempt
    <3>4. args[n] \notin replaced => Valid(args[n])
      BY <2>1 DEF Vouched
    <3>5. ~HasDuplicates(file[args[n]].cases) /\ loaded'[n] = ById(file[args[n]].cases)
      BY <2>2, <3>1, <3>3 DEF Accept
    <3> HIDE DEF n
    <3>6. \A i \in DOMAIN loaded :
            args[i] \notin replaced =>
              /\ Valid(args[i]) /\ ~HasDuplicates(file[args[i]].cases)
              /\ loaded'[i] = ById(file[args[i]].cases)
      BY <3>3 DEF Vouched
    <3>7. \A i \in DOMAIN loaded' :
            args[i] \notin replaced =>
              /\ Valid(args[i]) /\ ~HasDuplicates(file[args[i]].cases)
              /\ loaded'[i] = ById(file[args[i]].cases)
      BY <3>3, <3>4, <3>5, <3>6
    <3> QED
      BY <2>1, <3>2, <3>7 DEF Vouched, Valid
  <2>3. CASE pc' = "idle" /\ UNCHANGED loaded
    BY <2>1, <2>3, VouchedKept
  <2> QED
    BY <1>4, <2>2, <2>3 DEF Parse, Reject, Finish
<1>5. CASE CheckAttempts
  BY <1>5, VouchedKept DEF CheckAttempts, Finish
<1>6. CASE OpenJson \/ WriteJson \/ OpenMarkdown \/ WriteMarkdown \/ Interrupt
  BY <1>6, VouchedKept DEF OpenJson, WriteJson, OpenMarkdown, WriteMarkdown, Interrupt, Finish
<1>7. ASSUME NEW p \in Paths, NEW content \in Contents, Replace(p, content) PROVE Vouched'
  <2>1. /\ UNCHANGED <<pc, args, loaded>> /\ replaced' = replaced \cup {p}
        /\ \A q \in Paths : q \notin replaced' => q \notin replaced /\ file'[q] = file[q]
    BY <1>1, <1>7 DEF Replace
  <2>2. \A i \in DOMAIN loaded : args[i] \in Paths
    <3>1. Len(loaded) <= Len(args)
      BY DEF Control
    <3>2. DOMAIN loaded = 1..Len(loaded) /\ DOMAIN args = 1..Len(args)
      BY <1>1
    <3>3. Len(loaded) \in Nat /\ Len(args) \in Nat
      BY <1>1
    <3>4. \A i \in DOMAIN args : args[i] \in Paths
      BY <1>1
    <3> QED
      BY <3>1, <3>2, <3>3, <3>4
  <2>3. pc = "parse" => args[Len(loaded) + 1] \in Paths
    BY OpenedType
  <2> QED
    BY <2>1, <2>2, <2>3 DEF Vouched, Valid
<1>8. CASE UNCHANGED vars
  BY <1>8 DEF vars, Vouched, Valid
<1> QED
  BY <1>2, <1>3, <1>4, <1>5, <1>6, <1>7, <1>8 DEF Next, Step

\* Only WriteMarkdown ends a command with ok.
LEMMA OkStep ==
  TypeOK /\ Control /\ Vouched /\ OkOfValidReports /\ [Next]_vars => OkOfValidReports'
<1> SUFFICES ASSUME TypeOK, Control, Vouched, OkOfValidReports, [Next]_vars, Ended("ok")'
             PROVE  OkOfValidReports'
  BY DEF OkOfValidReports
<1>1. Vouched'
  BY VouchedStep
<1>2. args \in Seq(Paths) /\ loaded \in Seq(Attempt)
  BY DEF TypeOK
<1>3. CASE WriteMarkdown
  <2>1. Len(loaded) = Len(args) /\ json = Aggregate(loaded)
    BY <1>3 DEF WriteMarkdown, Control
  <2>2. /\ json' = Aggregate(loaded') /\ markdown' = json' /\ Len(loaded') = Len(args')
        /\ UNCHANGED <<args, loaded>>
    BY <1>3, <2>1 DEF WriteMarkdown
  <2>3. DOMAIN args' = DOMAIN loaded'
    BY <1>2, <2>1, <2>2
  <2> QED
    BY <1>1, <2>2, <2>3 DEF OkOfValidReports, Vouched, Valid
<1>4. ASSUME NEW outcome \in {"error", "uncaught", "killed"}, Finish(outcome) PROVE FALSE
  BY <1>4, FinishType DEF Ended, Outcomes
<1>5. ASSUME Ended("ok"), UNCHANGED <<args, loaded, json, markdown>>
      PROVE  OkOfValidReports'
  <2>1. /\ json' = Aggregate(loaded') /\ markdown' = json' /\ Len(loaded') = Len(args')
    BY <1>5 DEF OkOfValidReports
  <2>2. DOMAIN args' = DOMAIN loaded'
    BY <1>2, <1>5, <2>1
  <2> QED
    BY <1>1, <2>1, <2>2 DEF OkOfValidReports, Vouched, Valid
<1>6. CASE Validate \/ Parse \/ CheckAttempts \/ Interrupt
  BY <1>4, <1>6 DEF Validate, Parse, Accept, Reject, CheckAttempts, Interrupt, Ended
<1>7. CASE OpenJson \/ WriteJson \/ OpenMarkdown \/ \E paths \in Arguments : Start(paths)
  BY <1>7 DEF OpenJson, WriteJson, OpenMarkdown, Start, Ended
<1>8. CASE (\E p \in Paths, content \in Contents : Replace(p, content)) \/ UNCHANGED vars
  BY <1>5, <1>8 DEF Replace, vars, Ended
<1> QED
  BY <1>3, <1>6, <1>7, <1>8 DEF Next, Step

\* An uncaught exception is a KeyError of a document validated before.
LEMMA UncaughtStep ==
  TypeOK /\ Vouched /\ UncaughtOnlyIfReplaced /\ [Next]_vars => UncaughtOnlyIfReplaced'
<1> SUFFICES ASSUME TypeOK, Vouched, UncaughtOnlyIfReplaced, [Next]_vars, Ended("uncaught")'
             PROVE  replaced' # {}
  BY DEF UncaughtOnlyIfReplaced
<1>1. ASSUME NEW outcome \in {"error", "ok", "killed"}, Finish(outcome) PROVE FALSE
  BY <1>1, FinishType DEF Ended, Outcomes
<1>2. CASE Parse
  <2>1. Opened.kind = "other"
    BY <1>1, <1>2 DEF Parse, Accept, Reject, Ended
  <2>2. args[Len(loaded) + 1] \in replaced
    BY <1>2, <2>1, OpenedType DEF Parse, Vouched, Valid
  <2> QED
    BY <1>2, <2>2 DEF Parse
<1>3. CASE Validate \/ CheckAttempts \/ WriteMarkdown \/ Interrupt
  BY <1>1, <1>3 DEF Validate, CheckAttempts, WriteMarkdown, Interrupt, Ended
<1>4. CASE OpenJson \/ WriteJson \/ OpenMarkdown \/ \E paths \in Arguments : Start(paths)
  BY <1>4 DEF OpenJson, WriteJson, OpenMarkdown, Start, Ended
<1>5. CASE (\E p \in Paths, content \in Contents : Replace(p, content)) \/ UNCHANGED vars
  BY <1>5 DEF Replace, vars, Ended, UncaughtOnlyIfReplaced
<1> QED
  BY <1>2, <1>3, <1>4, <1>5 DEF Next, Step

-----------------------------------------------------------------------------
(* Agreement of the two outputs.                                           *)

LEMMA AgreementEnds ==
  ASSUME TypeOK, NEW outcome \in {"error", "uncaught"}, Finish(outcome),
         json = markdown \/ KilledWriting, UNCHANGED <<json, markdown>>
  PROVE  Agreement'
<1>1. /\ \A i \in DOMAIN history : history'[i] = history[i]
      /\ DOMAIN history' = DOMAIN history \cup {Len(history')}
      /\ history'[Len(history')] = outcome
  BY FinishType DEF Outcomes
<1>2. KilledWriting => KilledWriting'
  BY <1>1 DEF KilledWriting
<1> QED
  BY <1>2 DEF Agreement

LEMMA AgreementKilled ==
  ASSUME TypeOK, Finish("killed")
  PROVE  Agreement'
<1> DEFINE n == Len(history')
<1>1. /\ DOMAIN history' = DOMAIN history \cup {n} /\ history'[n] = "killed"
      /\ \A i \in DOMAIN history : i < n
      /\ history \in Seq(Outcomes) /\ n = Len(history) + 1
  BY FinishType DEF Outcomes, TypeOK
<1>2. \A j \in DOMAIN history' : ~(j > n)
  BY <1>1
<1>3. KilledWriting'
  BY <1>1, <1>2 DEF KilledWriting
<1> QED
  BY <1>3 DEF Agreement

LEMMA AgreementStep ==
  TypeOK /\ Control /\ Agreement /\ [Next]_vars => Agreement'
<1> SUFFICES ASSUME TypeOK, Control, Agreement, [Next]_vars PROVE Agreement'
  OBVIOUS
<1>1. ASSUME UNCHANGED <<json, markdown, history>>,
             pc \in {"idle", "validate", "parse", "aggregate", "open json"}
      PROVE  Agreement'
  BY <1>1 DEF Agreement, KilledWriting
<1>2. CASE Validate \/ Parse \/ CheckAttempts
  <2>1. /\ pc \in {"validate", "parse", "aggregate"} /\ UNCHANGED <<json, markdown>>
        /\ Finish("error") \/ Finish("uncaught") \/ UNCHANGED history
    BY <1>2 DEF Validate, Parse, Accept, Reject, CheckAttempts
  <2>2. json = markdown \/ KilledWriting
    BY <2>1 DEF Agreement
  <2> QED
    BY <1>1, <2>1, <2>2, AgreementEnds
<1>3. CASE OpenJson \/ WriteJson \/ OpenMarkdown
  BY <1>3 DEF OpenJson, WriteJson, OpenMarkdown, Agreement
<1>4. CASE WriteMarkdown
  <2>1. json' = markdown'
    BY <1>4 DEF WriteMarkdown, Control
  <2> QED
    BY <2>1 DEF Agreement
<1>5. CASE Interrupt
  BY <1>5, AgreementKilled DEF Interrupt
<1>6. CASE \E paths \in Arguments : Start(paths)
  BY <1>1, <1>6 DEF Start
<1>7. CASE (\E p \in Paths, content \in Contents : Replace(p, content)) \/ UNCHANGED vars
  <2>1. UNCHANGED <<pc, json, markdown, history>>
    BY <1>7 DEF Replace, vars
  <2> QED
    BY <2>1 DEF Agreement, KilledWriting
<1> QED
  BY <1>2, <1>3, <1>4, <1>5, <1>6, <1>7 DEF Next, Step

-----------------------------------------------------------------------------
(* The theorems.                                                           *)

LEMMA InitInvariant == Init => IInv
<1> SUFFICES ASSUME Init PROVE IInv
  OBVIOUS
<1>1. TypeOK
  BY TypeInit
<1>2. /\ pc = "idle" /\ args = << >> /\ loaded = << >> /\ history = << >>
      /\ json = markdown /\ Len(<< >>) = 0 /\ DOMAIN << >> = {}
  BY DEF Init
<1> QED
  BY <1>1, <1>2 DEF IInv, Control, Vouched, OkOfValidReports, UncaughtOnlyIfReplaced,
                    Agreement, Ended

LEMMA InductiveInvariant == Spec => []IInv
<1>1. Init => IInv
  BY InitInvariant
<1>2. IInv /\ [Next]_vars => IInv'
  BY TypeStep, ControlStep, VouchedStep, OkStep, UncaughtStep, AgreementStep DEF IInv
<1> QED
  BY <1>1, <1>2, PTL DEF Spec

\* TypeOK holds in every reachable state.
THEOREM TypeCorrect == Spec => []TypeOK
<1>1. IInv => TypeOK
  BY DEF IInv
<1> QED
  BY <1>1, InductiveInvariant, PTL

\* Every report written has pass^k <= pass@1 <= pass@k, whatever the attempts
\* were and whichever results they lack.
THEOREM ScoresAlwaysOrdered == Spec => []ScoresOrdered
<1>1. TypeOK => ScoresOrdered
  <2> SUFFICES ASSUME TypeOK, Whole(json) PROVE ScoresOrdered
    BY DEF ScoresOrdered
  <2>1. PICK L \in Seq(Attempt) : json = Aggregate(L)
    BY DEF TypeOK
  <2> QED
    BY <2>1, AggregateOrdered DEF ScoresOrdered
<1> QED
  BY <1>1, TypeCorrect, PTL

\* In a report without missing attempts the unstable cases are those that pass
\* sometimes.
THEOREM UnstableAlwaysExplained == Spec => []UnstableCasesExplained
<1>1. TypeOK => UnstableCasesExplained
  <2> SUFFICES ASSUME TypeOK, Whole(json) PROVE UnstableCasesExplained
    BY DEF UnstableCasesExplained
  <2>1. PICK L \in Seq(Attempt) : json = Aggregate(L)
    BY DEF TypeOK
  <2> QED
    BY <2>1, AggregateExplained DEF UnstableCasesExplained
<1> QED
  BY <1>1, TypeCorrect, PTL

\* No result that is left out of an attempt improves a rate, as long as its case
\* occurs in another attempt.
THEOREM OmissionTheorem == Spec => []OmissionNeverImproves
<1>1. TypeOK => OmissionNeverImproves
  <2> SUFFICES ASSUME TypeOK, Whole(json) PROVE OmissionNeverImproves
    BY DEF OmissionNeverImproves
  <2>1. json.attempts \in Seq(Attempt)
    BY DEF TypeOK
  <2> QED
    BY <2>1, OmitNoBetter DEF OmissionNeverImproves
<1> QED
  BY <1>1, TypeCorrect, PTL

\* An OK counts whole, conforming reports unless they are replaced meanwhile,
\* and no report that stays in place makes the command end in an exception.
THEOREM OutcomesAlwaysJustified == Spec => []OutcomesJustified
<1>1. IInv => OutcomesJustified
  BY DEF IInv, OutcomesJustified
<1> QED
  BY <1>1, InductiveInvariant, PTL

\* JSON and Markdown differ only after a kill.
THEOREM OutputsAlwaysAgree == Spec => []OutputsAgree
<1>1. IInv => OutputsAgree
  BY DEF IInv, Agreement, KilledWriting, OutputsAgree
<1> QED
  BY <1>1, InductiveInvariant, PTL
=============================================================================
