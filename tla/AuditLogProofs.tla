---------------------------- MODULE AuditLogProofs ----------------------------
(***************************************************************************)
(* Proofs about AuditLog, for any number of commands that append at the    *)
(* same time, any writes that are lost or cut short, and any lines a       *)
(* person adds.                                                            *)
(***************************************************************************)
EXTENDS AuditLog, TLAPS, FiniteSetTheorems, SequenceTheorems, WellFoundedInduction

-----------------------------------------------------------------------------
(* The inductive invariant.                                                *)

\* A command's failure, and nothing else of it, names a stage, and every entry
\* of a command has its path.
Honest(entry) ==
  /\ entry.stage \in Stages <=> entry.result = "fail"
  /\ entry.path \in Paths

Truthful ==
  /\ \A i \in DOMAIN log : log[i].by = "command" => Honest(log[i].entry)
  /\ \A w \in Writers : pending[w] # None => Honest(pending[w])

IInv == TypeOK /\ Truthful /\ Decodable(summary.log)

-----------------------------------------------------------------------------
(* Lemmas about numbers.                                                   *)

LEMMA LeastExists ==
  ASSUME NEW S \in SUBSET Nat, S # {}
  PROVE  \E m \in S : \A y \in S : m <= y
<1> DEFINE Less == OpToRel(<, Nat)
<1>1. IsWellFoundedOn(Less, Nat)
  BY NatLessThanWellFounded
<1>2. \A a, b \in Nat : a < b => <<a, b>> \in Less
  BY DEF OpToRel
<1> HIDE DEF Less
<1>3. PICK m \in S : \A y \in S : <<y, m>> \notin Less
  BY <1>1, WFMin
<1>4. ASSUME NEW y \in S PROVE m <= y
  <2>1. m \in Nat /\ y \in Nat /\ ~(y < m)
    BY <1>2, <1>3
  <2> QED
    BY <2>1
<1> QED
  BY <1>4

-----------------------------------------------------------------------------
(* The log.                                                                *)

LEMMA TextFields ==
  ASSUME NEW texts \in Seq(Text), NEW i \in DOMAIN texts
  PROVE  /\ texts[i] \in Text /\ texts[i].entry \in Entry \cup {Junk, Garbled}
         /\ texts[i].form \in {"whole", "bare", "cut"}
         /\ texts[i].by \in {"command", "hand"}
<1>1. texts[i] \in Text
  OBVIOUS
<1> QED
  BY <1>1 DEF Text

LEMMA Indices ==
  ASSUME NEW texts \in Seq(Text)
  PROVE  /\ DOMAIN texts = 1..Len(texts) /\ Len(texts) \in Nat
         /\ IsFiniteSet(DOMAIN texts)
<1>1. DOMAIN texts = 1..Len(texts) /\ Len(texts) \in Nat
  OBVIOUS
<1> QED
  BY <1>1, FS_Interval

\* A torn write spoils its own text and the one behind it.
LEMMA SpoiledByTorn ==
  ASSUME NEW texts \in Seq(Text), NEW i \in DOMAIN texts,
         texts[i].entry # Junk, i \notin Readable(texts)
  PROVE  i \in Torn(texts) \/ \E j \in Torn(texts) : i = j + 1
<1>1. CASE texts[i].form # "whole"
  BY <1>1 DEF Torn
<1>2. CASE i # 1 /\ texts[i - 1].form # "whole"
  <2>1. i - 1 \in DOMAIN texts /\ i = (i - 1) + 1
    BY <1>2, Indices
  <2>2. i - 1 \in Torn(texts)
    BY <1>2, <2>1 DEF Torn
  <2> QED
    BY <2>1, <2>2
<1> QED
  BY <1>1, <1>2 DEF Readable

LEMMA LossOfLog ==
  ASSUME NEW texts \in Seq(Text)
  PROVE  LET entries == {i \in DOMAIN texts : texts[i].entry # Junk}
         IN  Cardinality(entries \ Readable(texts)) <= 2 * Cardinality(Torn(texts))
<1> DEFINE entries == {i \in DOMAIN texts : texts[i].entry # Junk}
           torn == Torn(texts)
           next == {j + 1 : j \in torn}
           step == [j \in torn |-> j + 1]
<1>1. IsFiniteSet(torn)
  <2>1. torn \subseteq DOMAIN texts
    BY DEF Torn
  <2> QED
    BY <2>1, Indices, FS_Subset
<1>2. entries \ Readable(texts) \subseteq torn \cup next
  BY SpoiledByTorn
<1> HIDE DEF torn
<1>3. step \in Surjection(torn, next)
  BY DEF Surjection
<1>4. IsFiniteSet(next) /\ Cardinality(next) <= Cardinality(torn)
  BY <1>1, <1>3, FS_Surjection
<1> HIDE DEF next, entries
<1>5. /\ IsFiniteSet(torn \cup next)
      /\ Cardinality(torn \cup next)
           = Cardinality(torn) + Cardinality(next) - Cardinality(torn \cap next)
  BY <1>1, <1>4, FS_Union
<1>6. IsFiniteSet(torn \cap next)
  BY <1>1, FS_Intersection
<1>7. /\ IsFiniteSet(entries \ Readable(texts))
      /\ Cardinality(entries \ Readable(texts)) <= Cardinality(torn \cup next)
  BY <1>2, <1>5, FS_Subset
<1>8. /\ Cardinality(torn) \in Nat /\ Cardinality(next) \in Nat
      /\ Cardinality(torn \cap next) \in Nat
      /\ Cardinality(entries \ Readable(texts)) \in Nat
  BY <1>1, <1>4, <1>6, <1>7, FS_CardinalityType
<1>9. Cardinality(entries \ Readable(texts)) <= 2 * Cardinality(torn)
  BY <1>4, <1>5, <1>7, <1>8
<1> QED
  BY <1>9 DEF entries, torn

-----------------------------------------------------------------------------
(* Sums.  What a fold computes for a finite set is proved without an        *)
(* induction theorem: a smallest set for which it is wrong does not exist.  *)

\* A set of subsets that has the empty set, and every other one whose parts
\* of one element less it has, has all subsets.
LEMMA SubsetInduction ==
  ASSUME NEW V, IsFiniteSet(V), NEW Good, {} \in Good,
         \A s \in SUBSET V : s # {} /\ (\A x \in s : s \ {x} \in Good) => s \in Good
  PROVE  \A s \in SUBSET V : s \in Good
<1> DEFINE R == StrictSubsetOrdering(V)
           Bad == {s \in SUBSET V : s \notin Good}
<1>1. IsWellFoundedOn(R, SUBSET V)
  BY FS_StrictSubsetOrderingWellFounded, FS_FiniteSubsetsOfFinite
<1>2. \A s \in SUBSET V : \A x \in s : <<s \ {x}, s>> \in R
  BY DEF StrictSubsetOrdering
<1>3. Bad \subseteq SUBSET V /\ \A s \in SUBSET V : s \in Bad <=> s \notin Good
  OBVIOUS
<1> HIDE DEF R, Bad
<1>4. CASE Bad # {}
  <2>1. PICK s \in Bad : \A t \in Bad : <<t, s>> \notin R
    BY <1>1, <1>3, <1>4, WFMin
  <2>2. \A x \in s : s \ {x} \in Good
    BY <1>2, <1>3, <2>1
  <2>3. s \in SUBSET V /\ s \notin Good
    BY <1>3, <2>1
  <2>4. s # {}
    BY <2>3
  <2> QED
    BY <2>2, <2>3, <2>4
<1> QED
  BY <1>3, <1>4

\* A finite set of numbers has a greatest one.
LEMMA GreatestExists ==
  ASSUME NEW S \in SUBSET Nat, S # {}, IsFiniteSet(S)
  PROVE  \E m \in S : \A y \in S : y <= m
<1> DEFINE Good == {s \in SUBSET S : s # {} => \E m \in s : \A y \in s : y <= m}
<1>1. {} \in Good
  OBVIOUS
<1>2. ASSUME NEW s \in SUBSET S, s # {}, \A x \in s : s \ {x} \in Good
      PROVE  s \in Good
  <2>1. PICK x \in s : TRUE
    BY <1>2
  <2>2. CASE s \ {x} = {}
    <3>1. x \in Nat /\ \A y \in s : y = x
      BY <2>1, <2>2
    <3>2. \A y \in s : y <= x
      BY <3>1
    <3> QED
      BY <2>1, <3>2
  <2>3. CASE s \ {x} # {}
    <3>1. PICK m \in s \ {x} : \A y \in s \ {x} : y <= m
      BY <1>2, <2>1, <2>3
    <3>2. x \in Nat /\ m \in Nat /\ m \in s /\ \A y \in s : y \in Nat
      BY <2>1, <3>1
    <3>3. CASE m <= x
      <4>1. \A y \in s : y <= x
        BY <3>1, <3>2, <3>3
      <4> QED
        BY <2>1, <4>1
    <3>4. CASE x <= m
      <4>1. \A y \in s : y <= m
        BY <3>1, <3>2, <3>4
      <4> QED
        BY <3>2, <4>1
    <3> QED
      BY <3>2, <3>3, <3>4
  <2> QED
    BY <2>2, <2>3
<1>3. \A s \in SUBSET S : s \in Good
  <2> HIDE DEF Good
  <2> QED
    BY <1>1, <1>2, SubsetInduction
<1>4. S \in Good
  BY <1>3
<1> QED
  BY <1>4

\* The sum of a tally is the value at its domain of any additive function.
LEMMA SumIs ==
  ASSUME NEW V, IsFiniteSet(V), NEW tally \in [V -> Nat],
         NEW g \in [SUBSET V -> Nat], g[{}] = 0,
         \A s \in SUBSET V : \A x \in s : g[s] = tally[x] + g[s \ {x}]
  PROVE  Total(tally) = g[V]
<1> DEFINE Eq(h) == h = [s \in SUBSET V |-> IF s = {} THEN 0
                ELSE LET x == CHOOSE x \in s : TRUE IN tally[x] + h[s \ {x}]]
           iter == CHOOSE h : Eq(h)
           sums == [s \in SUBSET V |-> g[s]]
<1>1. Eq(sums)
  <2>1. ASSUME NEW s \in SUBSET V
        PROVE  sums[s] = IF s = {} THEN 0
                ELSE LET x == CHOOSE x \in s : TRUE IN tally[x] + sums[s \ {x}]
    <3> DEFINE x == CHOOSE x \in s : TRUE
    <3>1. s # {} => x \in s
      OBVIOUS
    <3>2. s \ {x} \in SUBSET V
      OBVIOUS
    <3>3. sums[s] = g[s] /\ sums[s \ {x}] = g[s \ {x}]
      BY <3>2
    <3> HIDE DEF x, sums
    <3>4. s # {} => sums[s] = tally[x] + sums[s \ {x}]
      BY <3>1, <3>3
    <3> QED
      BY <3>3, <3>4 DEF x
  <2>2. sums = [s \in SUBSET V |-> sums[s]]
    OBVIOUS
  <2> HIDE DEF sums
  <2> QED
    BY <2>1, <2>2
<1>2. Eq(iter)
  <2> HIDE DEF Eq, sums
  <2> QED
    BY <1>1
<1>3. Total(tally) = iter[V]
  BY DEF Total, FoldFunction, FoldFunctionOnSet, MapThenFoldSet
<1> HIDE DEF iter
<1> DEFINE Good == {s \in SUBSET V : iter[s] = g[s]}
<1>4. {} \in Good
  BY <1>2
<1>5. ASSUME NEW s \in SUBSET V, s # {}, \A y \in s : s \ {y} \in Good
      PROVE  s \in Good
  <2> DEFINE x == CHOOSE x \in s : TRUE
  <2>1. x \in s
    BY <1>5
  <2>2. iter[s] = tally[x] + iter[s \ {x}]
    BY <1>2, <1>5
  <2> HIDE DEF x
  <2>3. g[s] = tally[x] + g[s \ {x}]
    BY <2>1
  <2> QED
    BY <1>5, <2>1, <2>2, <2>3
<1>6. \A s \in SUBSET V : s \in Good
  <2> HIDE DEF Good
  <2> QED
    BY <1>4, <1>5, SubsetInduction
<1> QED
  BY <1>3, <1>6

\* A tally of some values adds up to the number of fields that have one.
LEMMA TallyTotal ==
  ASSUME NEW V, IsFiniteSet(V), NEW field, IsFiniteSet(DOMAIN field)
  PROVE  Total(Tally(field, V)) = Cardinality({i \in DOMAIN field : field[i] \in V})
<1> DEFINE tally == Tally(field, V)
           in(s) == {i \in DOMAIN field : field[i] \in s}
           g == [s \in SUBSET V |-> Cardinality(in(s))]
<1>0. \A s : IsFiniteSet(in(s)) /\ Cardinality(in(s)) \in Nat
  BY FS_Subset, FS_CardinalityType
<1>1. /\ tally \in [V -> Nat]
      /\ \A v \in V : tally[v] = Cardinality({i \in DOMAIN field : field[i] = v})
  <2>1. \A v : Cardinality({i \in DOMAIN field : field[i] = v}) \in Nat
    BY FS_Subset, FS_CardinalityType
  <2> QED
    BY <2>1 DEF Tally
<1>2. ASSUME NEW s \in SUBSET V, NEW x \in s PROVE g[s] = tally[x] + g[s \ {x}]
  <2> DEFINE one == {i \in DOMAIN field : field[i] = x}
  <2>1. s \ {x} \in SUBSET V
    OBVIOUS
  <2>2. g[s] = Cardinality(in(s)) /\ g[s \ {x}] = Cardinality(in(s \ {x}))
    BY <2>1
  <2>3. tally[x] = Cardinality(one)
    BY <1>1
  <2>4. in(s) = one \cup in(s \ {x}) /\ one \cap in(s \ {x}) = {}
    OBVIOUS
  <2>5. IsFiniteSet(one) /\ IsFiniteSet(in(s \ {x}))
    BY FS_Subset
  <2> HIDE DEF one, in, g, tally
  <2>6. Cardinality(in(s)) = Cardinality(one) + Cardinality(in(s \ {x})) - 0
    BY <2>4, <2>5, FS_Union, FS_EmptySet
  <2>7. Cardinality(one) \in Nat /\ Cardinality(in(s \ {x})) \in Nat
    BY <2>5, FS_CardinalityType
  <2> QED
    BY <2>2, <2>3, <2>6, <2>7
<1>3. g[{}] = 0
  <2>1. in({}) = {} /\ g[{}] = Cardinality(in({}))
    OBVIOUS
  <2> HIDE DEF in, g
  <2> QED
    BY <2>1, FS_EmptySet
<1>4. g[V] = Cardinality(in(V))
  OBVIOUS
<1>6. g \in [SUBSET V -> Nat]
  BY <1>0
<1> HIDE DEF g, tally
<1>5. Total(tally) = g[V]
  BY <1>1, <1>2, <1>3, <1>6, SumIs
<1> QED
  BY <1>4, <1>5 DEF tally

-----------------------------------------------------------------------------
(* The summary of a log.                                                   *)

LEMMA SummaryFields ==
  ASSUME NEW texts, NEW since
  PROVE  LET S == Summarized(texts, since)
         IN  /\ S.log = texts /\ S.since = since /\ S.counted = Counted(texts, since)
             /\ S.first_seen = Oldest(texts, Stamped(texts, Counted(texts, since)))
             /\ S.last_seen = Newest(texts, Stamped(texts, Counted(texts, since)))
BY DEF Summarized

LEMMA SummaryOf ==
  ASSUME NEW S, NEW texts, NEW since, S = Summarized(texts, since)
  PROVE  /\ S.log = texts /\ S.since = since /\ S.counted = Counted(texts, since)
         /\ S.first_seen = Oldest(texts, Stamped(texts, Counted(texts, since)))
         /\ S.last_seen = Newest(texts, Stamped(texts, Counted(texts, since)))
BY SummaryFields, Zenon

LEMMA Prefix ==
  ASSUME NEW texts \in Seq(Text), NEW n \in 0..Len(texts)
  PROVE  /\ SubSeq(texts, 1, n) \in Seq(Text) /\ Len(SubSeq(texts, 1, n)) = n
         /\ DOMAIN SubSeq(texts, 1, n) = 1..n
         /\ \A i \in 1..n : i \in DOMAIN texts /\ SubSeq(texts, 1, n)[i] = texts[i]
BY SubSeqProperties

LEMMA WholePrefix ==
  ASSUME NEW texts \in Seq(Text)
  PROVE  SubSeq(texts, 1, Len(texts)) = texts
<1>1. Len(texts) \in 0..Len(texts) /\ DOMAIN texts = 1..Len(texts)
  OBVIOUS
<1>2. /\ SubSeq(texts, 1, Len(texts)) \in Seq(Text)
      /\ Len(SubSeq(texts, 1, Len(texts))) = Len(texts)
      /\ \A i \in 1..Len(texts) : SubSeq(texts, 1, Len(texts))[i] = texts[i]
  BY <1>1, Prefix
<1> QED
  BY <1>2, SeqEqual

LEMMA PrefixOfAppend ==
  ASSUME NEW texts \in Seq(Text), NEW text \in Text, NEW n \in 0..Len(texts)
  PROVE  /\ SubSeq(Append(texts, text), 1, n) = SubSeq(texts, 1, n)
         /\ Append(texts, text) \in Seq(Text)
         /\ n \in 0..Len(Append(texts, text))
<1> DEFINE longer == Append(texts, text)
<1>1. /\ longer \in Seq(Text) /\ n \in 0..Len(longer)
      /\ \A i \in 1..n : longer[i] = texts[i]
  OBVIOUS
<1> HIDE DEF longer
<1>2. /\ SubSeq(longer, 1, n) \in Seq(Text) /\ Len(SubSeq(longer, 1, n)) = n
      /\ \A i \in 1..n : SubSeq(longer, 1, n)[i] = longer[i]
  BY <1>1, Prefix
<1>3. /\ SubSeq(texts, 1, n) \in Seq(Text) /\ Len(SubSeq(texts, 1, n)) = n
      /\ \A i \in 1..n : SubSeq(texts, 1, n)[i] = texts[i]
  BY Prefix
<1>4. SubSeq(longer, 1, n) = SubSeq(texts, 1, n)
  BY <1>1, <1>2, <1>3, SeqEqual
<1> QED
  BY <1>1, <1>4 DEF longer

\* What a log counts, a longer log counts too, but for a bare last text.
LEMMA CountedInPrefix ==
  ASSUME NEW texts \in Seq(Text), NEW n \in 0..Len(texts), NEW since
  PROVE  \A i \in Counted(SubSeq(texts, 1, n), since) :
           \/ i \in Counted(texts, since)
           \/ i = n /\ SubSeq(texts, 1, n)[i].form = "bare"
<1> TAKE i \in Counted(SubSeq(texts, 1, n), since)
<1> DEFINE shorter == SubSeq(texts, 1, n)
<1>1. /\ DOMAIN shorter = 1..n /\ Len(shorter) = n
      /\ \A j \in 1..n : j \in DOMAIN texts /\ shorter[j] = texts[j]
  BY Prefix
<1> HIDE DEF shorter
<1>2. i \in Readable(shorter)
  BY DEF Counted, shorter
<1>3. i \in 1..n /\ shorter[i] = texts[i] /\ i \in DOMAIN texts
  BY <1>1, <1>2 DEF Readable
<1>4. i # 1 => shorter[i - 1] = texts[i - 1]
  BY <1>1, <1>3
<1>5. CASE texts[i].form = "whole"
  <2>1. i \in Readable(texts)
    BY <1>2, <1>3, <1>4, <1>5 DEF Readable
  <2> QED
    BY <1>3, <2>1 DEF Counted, shorter
<1>6. CASE shorter[i].form = "bare" /\ i = n
  BY <1>6 DEF shorter
<1> QED
  BY <1>1, <1>2, <1>3, <1>5, <1>6 DEF Readable

\* The ends of the window of a log.
LEMMA WindowOfLog ==
  ASSUME NEW texts \in Seq(Text), NEW since, Decodable(texts),
         NEW i \in Counted(texts, since), texts[i].entry.timestamp # None
  PROVE  LET N == Stamped(texts, Counted(texts, since))
             t == texts[i].entry.timestamp
         IN  /\ \E first \in Oldest(texts, N), last \in Newest(texts, N) :
                  first <= t /\ t <= last
             /\ Cardinality(Oldest(texts, N)) = 1 /\ Cardinality(Newest(texts, N)) = 1
<1> DEFINE N == Stamped(texts, Counted(texts, since))
           ts(j) == texts[j].entry.timestamp
           T == {ts(j) : j \in N}
           stamps == [j \in N |-> ts(j)]
<1>0. N \subseteq DOMAIN texts
  BY DEF Stamped, Counted, Readable
<1>1. ASSUME NEW j \in N PROVE ts(j) \in Nat
  <2>1. j \in DOMAIN texts /\ texts[j].entry # Junk /\ texts[j].entry # Garbled
    BY <1>0 DEF Stamped, Counted, Readable, Decodable
  <2>2. texts[j].entry \in Entry
    BY <2>1, TextFields
  <2>3. ts(j) # None
    BY DEF Stamped
  <2> QED
    BY <2>2, <2>3 DEF Entry
<1>2. i \in N
  BY DEF Stamped
<1>11. IsFiniteSet(N)
  BY <1>0, Indices, FS_Subset
<1> HIDE DEF N
<1>12. stamps \in Surjection(N, T)
  BY DEF Surjection
<1>3. T \in SUBSET Nat /\ T # {} /\ IsFiniteSet(T)
  <2>1. IsFiniteSet(T)
    BY <1>11, <1>12, FS_Surjection
  <2> QED
    BY <1>1, <1>2, <2>1
<1>4. PICK least \in T : \A y \in T : least <= y
  BY <1>3, LeastExists
<1>5. PICK greatest \in T : \A y \in T : y <= greatest
  BY <1>3, GreatestExists
<1>6. Oldest(texts, N) = {least}
  <2>1. PICK j \in N : least = ts(j)
    OBVIOUS
  <2>2. \A k \in N : ts(j) <= ts(k)
    BY <1>4, <2>1
  <2>3. least \in Oldest(texts, N)
    BY <2>1, <2>2 DEF Oldest
  <2>4. ASSUME NEW t \in Oldest(texts, N) PROVE t = least
    <3>1. PICK k \in N : t = ts(k) /\ \A l \in N : ts(k) <= ts(l)
      BY DEF Oldest
    <3>2. ts(k) <= ts(j) /\ ts(j) <= ts(k)
      BY <2>2, <3>1
    <3>3. ts(k) \in Nat /\ ts(j) \in Nat
      BY <1>1
    <3> HIDE DEF ts
    <3>4. ts(k) = ts(j)
      BY <3>2, <3>3
    <3> QED
      BY <2>1, <3>1, <3>4
  <2> QED
    BY <2>3, <2>4
<1>7. Newest(texts, N) = {greatest}
  <2>1. PICK j \in N : greatest = ts(j)
    OBVIOUS
  <2>2. \A k \in N : ts(k) <= ts(j)
    BY <1>5, <2>1
  <2>3. greatest \in Newest(texts, N)
    BY <2>1, <2>2 DEF Newest
  <2>4. ASSUME NEW t \in Newest(texts, N) PROVE t = greatest
    <3>1. PICK k \in N : t = ts(k) /\ \A l \in N : ts(l) <= ts(k)
      BY DEF Newest
    <3>2. ts(k) <= ts(j) /\ ts(j) <= ts(k)
      BY <2>2, <3>1
    <3>3. ts(k) \in Nat /\ ts(j) \in Nat
      BY <1>1
    <3> HIDE DEF ts
    <3>4. ts(k) = ts(j)
      BY <3>2, <3>3
    <3> QED
      BY <2>1, <3>1, <3>4
  <2> QED
    BY <2>3, <2>4
<1>8. ts(i) \in T
  BY <1>2
<1>9. least <= ts(i) /\ ts(i) <= greatest
  BY <1>4, <1>5, <1>8
<1>10. Cardinality(Oldest(texts, N)) = 1 /\ Cardinality(Newest(texts, N)) = 1
  BY <1>6, <1>7, FS_Singleton
<1> QED
  BY <1>6, <1>7, <1>9, <1>10 DEF N

\* Two sets that differ in elements of a third only, differ by its size at most.
LEMMA OffByAtMost ==
  ASSUME NEW A, NEW B, NEW H, IsFiniteSet(A), IsFiniteSet(B), IsFiniteSet(H),
         A \subseteq B \cup H
  PROVE  Cardinality(A) <= Cardinality(B) + Cardinality(H)
<1>1. /\ IsFiniteSet(B \cup H) /\ IsFiniteSet(B \cap H)
      /\ Cardinality(B \cup H) = Cardinality(B) + Cardinality(H) - Cardinality(B \cap H)
  BY FS_Union, FS_Intersection
<1>2. Cardinality(A) <= Cardinality(B \cup H)
  BY <1>1, FS_Subset
<1>3. /\ Cardinality(A) \in Nat /\ Cardinality(B) \in Nat /\ Cardinality(H) \in Nat
      /\ Cardinality(B \cap H) \in Nat
  BY <1>1, FS_CardinalityType
<1> QED
  BY <1>1, <1>2, <1>3

\* The breakdowns of a summary add up, but for what a person wrote.
LEMMA PartsOfSummary ==
  ASSUME NEW texts \in Seq(Text), NEW since, Decodable(texts),
         \A i \in DOMAIN texts : texts[i].by = "command" => Honest(texts[i].entry)
  PROVE  LET S == Summarized(texts, since)
             byHand == Cardinality({i \in S.counted : S.log[i].by = "hand"})
             failed == S.by_result["fail"]
             staged == Total(S.by_failing_stage)
             located == Total(S.by_path)
         IN  /\ Total(S.by_command) = S.total
             /\ Total(S.by_result) = S.total
             /\ staged <= failed + byHand /\ failed <= staged + byHand
             /\ located <= S.total /\ S.total <= located + byHand
<1> DEFINE N == Counted(texts, since)
           E(i) == texts[i].entry
           commands == [i \in N |-> Or(E(i).command, "unknown")]
           results == [i \in N |-> Or(E(i).result, "unknown")]
           stages == [i \in N |-> E(i).stage]
           paths == [i \in N |-> E(i).path]
           Commands == Names \cup Others \cup {"unknown"}
           Results == {"ok", "fail", "unknown"} \cup Others
           hand == {i \in N : texts[i].by = "hand"}
           failures == {i \in N : results[i] = "fail"}
           atStage == {i \in N : stages[i] \in Stages}
           atPath == {i \in N : paths[i] \in Paths}
<1>1. IsFiniteSet(N)
  <2>1. N \subseteq DOMAIN texts
    BY DEF Counted, Readable
  <2> QED
    BY <2>1, Indices, FS_Subset
<1>2. \A i \in N : E(i) \in Entry /\ (i \in hand \/ Honest(E(i)))
  <2>1. \A i \in N : i \in DOMAIN texts /\ E(i) # Junk /\ E(i) # Garbled
    BY DEF Counted, Readable, Decodable
  <2> QED
    BY <2>1, TextFields
<1>3. IsFiniteSet(Commands) /\ IsFiniteSet(Results)
  <2> DEFINE C == (({} \cup {"validate-chain"}) \cup {"evidence.from-cdcp-events"}) \cup {"unknown"}
             R == (({} \cup {"ok"}) \cup {"fail"}) \cup {"unknown"}
  <2>1. Commands = C \cup Others /\ Results = R \cup Others
    BY DEF Names
  <2>2. IsFiniteSet(C) /\ IsFiniteSet(R)
    BY FS_EmptySet, FS_AddElement
  <2> HIDE DEF C, R, Commands, Results
  <2> QED
    BY <2>1, <2>2, ConstantsAssumption, FS_Union
<1>4. /\ DOMAIN commands = N /\ DOMAIN results = N /\ DOMAIN stages = N /\ DOMAIN paths = N
  OBVIOUS
<1>5. \A i \in N : commands[i] \in Commands /\ results[i] \in Results
  <2> TAKE i \in N
  <2>1. /\ E(i).command \in Names \cup Others \cup {None}
        /\ E(i).result \in {"ok", "fail", None} \cup Others
    BY <1>2 DEF Entry
  <2> HIDE DEF E
  <2> QED
    BY <2>1 DEF Or
<1>13. \A i \in N \ hand : (i \in atStage <=> i \in failures) /\ i \in atPath
  <2> TAKE i \in N \ hand
  <2>1. Honest(E(i))
    BY <1>2
  <2>2. None # "fail" /\ "unknown" # "fail"
    BY ConstantsAssumption
  <2> HIDE DEF E
  <2> QED
    BY <2>1, <2>2 DEF Or, Honest
<1>6. LET S == Summarized(texts, since)
      IN  /\ S.total = Cardinality(N) /\ S.counted = N /\ S.log = texts
          /\ S.by_command = Tally(commands, Commands) /\ S.by_result = Tally(results, Results)
          /\ S.by_failing_stage = Tally(stages, Stages) /\ S.by_path = Tally(paths, Paths)
  BY DEF Summarized
<1>14. /\ IsFiniteSet(hand) /\ IsFiniteSet(failures) /\ IsFiniteSet(atStage)
       /\ IsFiniteSet(atPath)
  BY <1>1, FS_Subset
<1>15. /\ atStage \subseteq failures \cup hand /\ failures \subseteq atStage \cup hand
       /\ atPath \subseteq N /\ N \subseteq atPath \cup hand
  BY <1>13
<1>16. /\ atStage = {i \in DOMAIN stages : stages[i] \in Stages}
       /\ atPath = {i \in DOMAIN paths : paths[i] \in Paths}
       /\ failures = {i \in DOMAIN results : results[i] = "fail"}
  BY <1>4
<1>17. {i \in (Summarized(texts, since)).counted : (Summarized(texts, since)).log[i].by = "hand"} = hand
  BY <1>6
<1> HIDE DEF N, commands, results, stages, paths, hand, failures, atStage, atPath
<1>7. Total(Tally(commands, Commands)) = Cardinality(N)
  <2>1. {i \in DOMAIN commands : commands[i] \in Commands} = N
    BY <1>4, <1>5
  <2> QED
    BY <1>1, <1>3, <1>4, <2>1, TallyTotal
<1>8. Total(Tally(results, Results)) = Cardinality(N)
  <2>1. {i \in DOMAIN results : results[i] \in Results} = N
    BY <1>4, <1>5
  <2> QED
    BY <1>1, <1>3, <1>4, <2>1, TallyTotal
<1>9. /\ Total(Tally(stages, Stages)) = Cardinality(atStage)
      /\ Total(Tally(paths, Paths)) = Cardinality(atPath)
  BY <1>1, <1>4, <1>16, ConstantsAssumption, TallyTotal
<1>10. Tally(results, Results)["fail"] = Cardinality(failures)
  BY <1>16 DEF Tally
<1>11. /\ Cardinality(atStage) <= Cardinality(failures) + Cardinality(hand)
       /\ Cardinality(failures) <= Cardinality(atStage) + Cardinality(hand)
       /\ Cardinality(N) <= Cardinality(atPath) + Cardinality(hand)
  BY <1>1, <1>14, <1>15, OffByAtMost
<1>12. Cardinality(atPath) <= Cardinality(N)
  BY <1>1, <1>15, FS_Subset
<1> QED
  BY <1>6, <1>7, <1>8, <1>9, <1>10, <1>11, <1>12, <1>17

-----------------------------------------------------------------------------
(* The invariant is inductive.                                             *)

LEMMA NoneIsApart ==
  ASSUME NEW entry \in Entry \cup {None}, entry # None
  PROVE  entry \in Entry
OBVIOUS

\* The entry a command makes.
LEMMA EntryMade ==
  ASSUME clock \in 0..MaxTime, NEW outcome \in Outcomes, NEW path \in Paths
  PROVE  [timestamp |-> clock, command |-> outcome[1], result |-> outcome[2],
          stage |-> outcome[3], path |-> path] \in Entry
<1>1. clock \in Nat
  BY ConstantsAssumption
<1>2. /\ outcome[1] \in Names /\ outcome[2] \in {"ok", "fail"}
      /\ outcome[3] \in Stages \cup {None}
  BY DEF Outcomes, Names
<1> QED
  BY <1>1, <1>2 DEF Entry

\* A longer log keeps the summary, which was made of the beginning of it.
LEMMA LogGrows ==
  ASSUME TypeOK, NEW text \in Text, log' = Append(log, text), UNCHANGED summary
  PROVE  /\ log' \in Seq(Text) /\ summary'.since \in Since
         /\ (\E n \in 0..Len(log) : summary = Summarized(SubSeq(log, 1, n), summary.since))'
<1>1. log \in Seq(Text)
  BY DEF TypeOK
<1>2. PICK n \in 0..Len(log) : summary = Summarized(SubSeq(log, 1, n), summary.since)
  BY DEF TypeOK
<1>3. SubSeq(log', 1, n) = SubSeq(log, 1, n) /\ log' \in Seq(Text) /\ n \in 0..Len(log')
  BY <1>1, PrefixOfAppend
<1> QED
  BY <1>2, <1>3 DEF TypeOK

LEMMA LogKept ==
  ASSUME TypeOK, UNCHANGED <<log, summary>>
  PROVE  /\ log' \in Seq(Text) /\ summary'.since \in Since
         /\ (\E n \in 0..Len(log) : summary = Summarized(SubSeq(log, 1, n), summary.since))'
BY DEF TypeOK

LEMMA TextMade ==
  ASSUME NEW entry \in Entry \cup {Junk, Garbled}, NEW form \in {"whole", "bare", "cut"},
         NEW by \in {"command", "hand"}
  PROVE  [entry |-> entry, form |-> form, by |-> by] \in Text
BY DEF Text

LEMMA TypeInit == Init => TypeOK
<1> SUFFICES ASSUME Init PROVE TypeOK
  OBVIOUS
<1> DEFINE any == [form |-> "none", at |-> 0]
<1>1. clock \in 0..MaxTime
  BY ConstantsAssumption DEF Init
<1>2. log = << >> /\ log \in Seq(Text) /\ Len(log) = 0
  BY EmptySeq DEF Init
<1>3. pending \in [Writers -> Entry \cup {None}]
  BY DEF Init
<1>4. any \in Since
  BY DEF Since
<1>5. summary = Summarized(<< >>, any)
  BY DEF Init
<1>6. summary.since = any
  BY <1>5, SummaryFields
<1>7. SubSeq(log, 1, 0) = log
  BY <1>2, WholePrefix
<1>8. 0 \in 0..Len(log)
  BY <1>2
<1> HIDE DEF any
<1>9. summary = Summarized(SubSeq(log, 1, 0), summary.since)
  BY <1>2, <1>5, <1>6, <1>7
<1> QED
  BY <1>1, <1>2, <1>3, <1>4, <1>6, <1>8, <1>9 DEF TypeOK

LEMMA TypeStep == TypeOK /\ [Next]_vars => TypeOK'
<1> SUFFICES ASSUME TypeOK, [Next]_vars PROVE TypeOK'
  OBVIOUS
<1>1. /\ clock \in 0..MaxTime /\ log \in Seq(Text)
      /\ pending \in [Writers -> Entry \cup {None}]
  BY DEF TypeOK
<1>2. ASSUME NEW w \in Writers, NEW outcome \in Outcomes, NEW path \in Paths,
             Begin(w, outcome, path)
      PROVE  TypeOK'
  <2>1. pending' \in [Writers -> Entry \cup {None}]
    BY <1>1, <1>2, EntryMade DEF Begin
  <2> QED
    BY <1>1, <1>2, <2>1, LogKept DEF Begin, TypeOK
<1>3. ASSUME NEW w \in Writers, Write(w) PROVE TypeOK'
  <2>1. pending[w] \in Entry
    BY <1>1, <1>3 DEF Write
  <2>2. [entry |-> pending[w], form |-> "whole", by |-> "command"] \in Text
    BY <2>1, TextMade
  <2>3. pending' \in [Writers -> Entry \cup {None}] /\ clock' = clock
    BY <1>1, <1>3 DEF Write
  <2> QED
    BY <1>1, <1>3, <2>2, <2>3, LogGrows DEF Write, TypeOK
<1>4. ASSUME NEW w \in Writers, Lose(w) PROVE TypeOK'
  <2>1. pending[w] \in Entry
    BY <1>1, <1>4 DEF Lose
  <2>2. pending' \in [Writers -> Entry \cup {None}] /\ clock' = clock /\ summary' = summary
    BY <1>1, <1>4 DEF Lose
  <2>3. CASE UNCHANGED log
    BY <1>1, <2>2, <2>3, LogKept DEF TypeOK
  <2>4. ASSUME NEW form \in {"bare", "cut"},
               log' = Append(log, [entry |-> pending[w], form |-> form, by |-> "command"])
        PROVE  TypeOK'
    <3>1. [entry |-> pending[w], form |-> form, by |-> "command"] \in Text
      BY <2>1, TextMade
    <3> QED
      BY <1>1, <2>2, <2>4, <3>1, LogGrows DEF TypeOK
  <2> QED
    BY <1>4, <2>3, <2>4 DEF Lose
<1>5. ASSUME NEW line \in Edits, Edit(line) PROVE TypeOK'
  <2>1. [entry |-> line, form |-> "whole", by |-> "hand"] \in Text
    BY ConstantsAssumption, TextMade
  <2> QED
    BY <1>1, <1>5, <2>1, LogGrows DEF Edit, TypeOK
<1>6. ASSUME NEW since \in Starts, Summarize(since) PROVE TypeOK'
  <2>1. summary' = Summarized(log, since) /\ UNCHANGED <<clock, log, pending>>
    BY <1>6 DEF Summarize
  <2>2. summary'.since = since /\ since \in Since
    BY <2>1, SummaryFields, ConstantsAssumption
  <2>3. SubSeq(log', 1, Len(log)) = log /\ Len(log) \in 0..Len(log')
    BY <1>1, <2>1, WholePrefix
  <2>4. summary' = Summarized(SubSeq(log', 1, Len(log)), summary'.since)
    BY <2>1, <2>2, <2>3
  <2> QED
    BY <1>1, <2>1, <2>2, <2>3, <2>4 DEF TypeOK
<1>7. CASE Tick
  <2>1. clock' \in 0..MaxTime
    BY <1>1, <1>7, ConstantsAssumption DEF Tick
  <2> QED
    BY <1>1, <1>7, <2>1, LogKept DEF Tick, TypeOK
<1>8. CASE UNCHANGED vars
  BY <1>1, <1>8, LogKept DEF vars, TypeOK
<1> QED
  BY <1>2, <1>3, <1>4, <1>5, <1>6, <1>7, <1>8 DEF Next

LEMMA TruthfulStep == TypeOK /\ Truthful /\ [Next]_vars => Truthful'
<1> SUFFICES ASSUME TypeOK, Truthful, [Next]_vars PROVE Truthful'
  OBVIOUS
<1>1. log \in Seq(Text) /\ pending \in [Writers -> Entry \cup {None}]
  BY DEF TypeOK
<1>2. ASSUME NEW entry, NEW form, NEW by,
             log' = Append(log, [entry |-> entry, form |-> form, by |-> by]),
             by = "command" => Honest(entry),
             \A w \in Writers : pending'[w] # None => pending'[w] = pending[w]
      PROVE  Truthful'
  <2> DEFINE text == [entry |-> entry, form |-> form, by |-> by]
  <2>1. text.entry = entry /\ text.by = by
    OBVIOUS
  <2> HIDE DEF text
  <2>2. /\ DOMAIN log' = DOMAIN log \cup {Len(log) + 1}
        /\ log'[Len(log) + 1] = text /\ \A i \in DOMAIN log : log'[i] = log[i]
    BY <1>1, <1>2 DEF text
  <2>3. \A i \in DOMAIN log' : log'[i].by = "command" => Honest(log'[i].entry)
    BY <1>2, <2>1, <2>2 DEF Truthful
  <2> QED
    BY <1>2, <2>3 DEF Truthful, Honest
<1>3. ASSUME NEW w \in Writers, NEW outcome \in Outcomes, NEW path \in Paths,
             Begin(w, outcome, path)
      PROVE  Truthful'
  <2> DEFINE entry == [timestamp |-> clock, command |-> outcome[1], result |-> outcome[2],
                       stage |-> outcome[3], path |-> path]
  <2>1. outcome[3] \in Stages <=> outcome[2] = "fail"
    BY ConstantsAssumption DEF Outcomes, Names
  <2>2. Honest(entry)
    BY <2>1 DEF Honest
  <2> HIDE DEF entry
  <2>3. UNCHANGED log /\ pending' = [pending EXCEPT ![w] = entry]
    BY <1>3 DEF Begin, entry
  <2> QED
    BY <1>1, <2>2, <2>3 DEF Truthful, Honest
<1>4. ASSUME NEW w \in Writers, Write(w) \/ Lose(w) PROVE Truthful'
  <2>1. /\ pending[w] # None /\ pending' = [pending EXCEPT ![w] = None]
    BY <1>4 DEF Write, Lose
  <2>2. Honest(pending[w]) /\ \A v \in Writers : pending'[v] # None => pending'[v] = pending[v]
    BY <1>1, <2>1 DEF Truthful
  <2>3. \/ UNCHANGED log
        \/ \E form : log' = Append(log, [entry |-> pending[w], form |-> form, by |-> "command"])
    BY <1>4 DEF Write, Lose
  <2>4. CASE UNCHANGED log
    BY <2>2, <2>4 DEF Truthful, Honest
  <2>5. CASE \E form : log' = Append(log, [entry |-> pending[w], form |-> form, by |-> "command"])
    BY <1>2, <2>2, <2>5
  <2> QED
    BY <2>3, <2>4, <2>5
<1>5. ASSUME NEW line \in Edits, Edit(line) PROVE Truthful'
  BY <1>2, <1>5 DEF Edit
<1>6. CASE Tick \/ \E since \in Starts : Summarize(since)
  BY <1>6 DEF Tick, Summarize, Truthful, Honest
<1>7. CASE UNCHANGED vars
  BY <1>7 DEF vars, Truthful, Honest
<1> QED
  BY <1>3, <1>4, <1>5, <1>6, <1>7 DEF Next

\* Only a log that is UTF-8 is summarized.
LEMMA DecodedStep == Decodable(summary.log) /\ [Next]_vars => Decodable(summary.log)'
<1> SUFFICES ASSUME Decodable(summary.log), [Next]_vars PROVE Decodable(summary.log)'
  OBVIOUS
<1>1. CASE UNCHANGED summary
  BY <1>1 DEF Decodable
<1>2. ASSUME NEW since \in Starts, Summarize(since) PROVE Decodable(summary.log)'
  <2>1. Decodable(log) /\ summary' = Summarized(log, since)
    BY <1>2 DEF Summarize
  <2>2. summary'.log = log
    BY <2>1, SummaryOf
  <2> QED
    BY <2>1, <2>2 DEF Decodable
<1> QED
  BY <1>1, <1>2 DEF Next, Begin, Write, Lose, Edit, Tick, vars

LEMMA InductiveInvariant == Spec => []IInv
<1>1. Init => IInv
  <2> SUFFICES ASSUME Init PROVE IInv
    OBVIOUS
  <2>1. DOMAIN log = {}
    BY DEF Init
  <2>2. \A w \in Writers : pending[w] = None
    BY DEF Init
  <2>3. summary.log = << >>
    BY SummaryOf DEF Init
  <2>4. Decodable(summary.log)
    BY <2>3 DEF Decodable
  <2> QED
    BY <2>1, <2>2, <2>4, TypeInit DEF IInv, Truthful
<1>2. IInv /\ [Next]_vars => IInv'
  BY TypeStep, TruthfulStep, DecodedStep DEF IInv
<1> QED
  BY <1>1, <1>2, PTL DEF Spec

LEMMA CountedLater ==
  ASSUME log \in Seq(Text), NEW n \in 0..Len(log), NEW STATE window
  PROVE  \A j \in Counted(SubSeq(log, 1, n), window) :
           \/ j \in Counted(log, window)
           \/ j = n /\ SubSeq(log, 1, n)[j].form = "bare"
BY CountedInPrefix, Zenon

-----------------------------------------------------------------------------
(* The theorems.                                                           *)

\* The type invariant: the summary is that of an earlier state of the log.
THEOREM TypeCorrect == Spec => []TypeOK
<1>1. IInv => TypeOK
  BY DEF IInv
<1> QED
  BY <1>1, InductiveInvariant, PTL

\* A torn write loses at most two entries (audit.py:65-66, 88-96).
THEOREM LossAlwaysBounded == Spec => []LossBounded
<1>1. TypeOK => LossBounded
  BY LossOfLog DEF TypeOK, LossBounded
<1> QED
  BY <1>1, TypeCorrect, PTL

\* The breakdowns of every summary add up to its total, its failing stages to its
\* failures and its paths to its total, but for one each for every line a person
\* added, whatever was torn or lost (audit.py:118-147).
THEOREM SummaryAlwaysAddsUp == Spec => []SummaryAddsUp
<1>1. IInv => SummaryAddsUp
  <2> SUFFICES ASSUME IInv PROVE SummaryAddsUp
    OBVIOUS
  <2>1. log \in Seq(Text)
    BY DEF IInv, TypeOK
  <2>2. PICK n \in 0..Len(log) : summary = Summarized(SubSeq(log, 1, n), summary.since)
    BY DEF IInv, TypeOK
  <2> DEFINE texts == SubSeq(log, 1, n)
             since == summary.since
  <2>3. /\ texts \in Seq(Text) /\ DOMAIN texts = 1..n
        /\ \A j \in 1..n : j \in DOMAIN log /\ texts[j] = log[j]
    BY <2>1, Prefix
  <2>4. summary = Summarized(texts, since)
    BY <2>2
  <2> HIDE DEF texts, since
  <2>5. \A j \in DOMAIN texts : texts[j].by = "command" => Honest(texts[j].entry)
    BY <2>3 DEF IInv, Truthful
  <2>6. Decodable(texts)
    BY <2>4, SummaryOf DEF IInv
  <2> QED
    BY <2>3, <2>4, <2>5, <2>6, PartsOfSummary DEF SummaryAddsUp
<1> QED
  BY <1>1, InductiveInvariant, PTL

\* The window of a summary spans what it counts, in whatever order the
\* entries were appended (audit.py:139-147).
THEOREM WindowAlwaysSpans == Spec => []WindowSpans
<1>1. IInv => WindowSpans
  <2> SUFFICES ASSUME IInv, NEW i \in summary.counted,
                      summary.log[i].entry.timestamp # None
               PROVE  LET t == summary.log[i].entry.timestamp
                      IN  /\ \E first \in summary.first_seen, last \in summary.last_seen :
                               first <= t /\ t <= last
                          /\ Cardinality(summary.first_seen) = 1
                          /\ Cardinality(summary.last_seen) = 1
    BY DEF WindowSpans
  <2>1. log \in Seq(Text)
    BY DEF IInv, TypeOK
  <2>2. PICK n \in 0..Len(log) : summary = Summarized(SubSeq(log, 1, n), summary.since)
    BY DEF IInv, TypeOK
  <2> DEFINE texts == SubSeq(log, 1, n)
             since == summary.since
  <2>3. /\ texts \in Seq(Text) /\ DOMAIN texts = 1..n
        /\ \A j \in 1..n : j \in DOMAIN log /\ texts[j] = log[j]
    BY <2>1, Prefix
  <2> HIDE DEF texts, since
  <2>5. /\ summary.log = texts /\ summary.counted = Counted(texts, since)
        /\ summary.first_seen = Oldest(texts, Stamped(texts, Counted(texts, since)))
        /\ summary.last_seen = Newest(texts, Stamped(texts, Counted(texts, since)))
    <3>1. summary = Summarized(texts, since)
      BY <2>2 DEF texts, since
    <3> QED
      BY <3>1, SummaryOf
  <2>6. i \in Counted(texts, since) /\ texts[i].entry.timestamp # None
    BY <2>5
  <2>4. Decodable(texts)
    BY <2>5 DEF IInv
  <2> DEFINE N == Stamped(texts, Counted(texts, since))
             t == texts[i].entry.timestamp
  <2>7. /\ \E first \in Oldest(texts, N), last \in Newest(texts, N) :
             first <= t /\ t <= last
        /\ Cardinality(Oldest(texts, N)) = 1 /\ Cardinality(Newest(texts, N)) = 1
    BY <2>3, <2>4, <2>6, WindowOfLog
  <2> QED
    BY <2>5, <2>7, Zenon
<1> QED
  BY <1>1, InductiveInvariant, PTL

\* Of two summaries of the same window, the later one counts what the earlier
\* one counted, but for a last entry without its newline.
THEOREM LaterSummariesCountMore == Spec => SummariesOnlyGrow
<1>1. TypeOK /\ [Next]_vars =>
        [summary'.since = summary.since =>
           \A i \in summary.counted \ summary'.counted :
             i = Len(summary.log) /\ summary.log[i].form = "bare"]_vars
  <2> SUFFICES ASSUME TypeOK, [Next]_vars, summary'.since = summary.since,
                      NEW i \in summary.counted \ summary'.counted
               PROVE  i = Len(summary.log) /\ summary.log[i].form = "bare"
    OBVIOUS
  <2>1. summary' # summary
    OBVIOUS
  <2>2. PICK start \in Starts : Summarize(start)
    BY <2>1 DEF Next, Begin, Write, Lose, Edit, Tick, vars
  <2>3. log \in Seq(Text)
    BY DEF TypeOK
  <2>4. PICK n \in 0..Len(log) : summary = Summarized(SubSeq(log, 1, n), summary.since)
    BY DEF TypeOK
  <2>5. summary.log = SubSeq(log, 1, n) /\ summary.counted = Counted(SubSeq(log, 1, n), summary.since)
    <3> DEFINE texts == SubSeq(log, 1, n)
               window == summary.since
    <3>1. summary = Summarized(texts, window)
      BY <2>4
    <3> HIDE DEF texts, window
    <3>2. summary.log = texts /\ summary.counted = Counted(texts, window)
      BY <3>1, SummaryOf
    <3> QED
      BY <3>2 DEF texts, window
  <2>6. summary'.since = start /\ summary'.counted = Counted(log, start)
    BY <2>2, SummaryFields DEF Summarize
  <2>7. Len(SubSeq(log, 1, n)) = n
    BY <2>3, Prefix
  <2>8. i \in Counted(SubSeq(log, 1, n), summary.since) /\ i \notin Counted(log, summary.since)
    BY <2>5, <2>6
  <2>9. i = n /\ SubSeq(log, 1, n)[i].form = "bare"
    <3>0. n \in 0..Len(log)
      OBVIOUS
    <3>1. PICK window : /\ i \in Counted(SubSeq(log, 1, n), window)
                        /\ i \notin Counted(log, window)
      BY <2>8
    <3>2. \A j \in Counted(SubSeq(log, 1, n), window) :
            \/ j \in Counted(log, window)
            \/ j = n /\ SubSeq(log, 1, n)[j].form = "bare"
      BY <2>3, <3>0, CountedLater, Zenon
    <3>3. \/ i \in Counted(log, window)
          \/ i = n /\ SubSeq(log, 1, n)[i].form = "bare"
      BY <3>1, <3>2, Zenon
    <3> QED
      BY <3>1, <3>3, Zenon
  <2> QED
    BY <2>5, <2>7, <2>9
<1> QED
  BY <1>1, TypeCorrect, PTL DEF Spec, SummariesOnlyGrow
=============================================================================
