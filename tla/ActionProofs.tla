---------------------------- MODULE ActionProofs ----------------------------
(***************************************************************************)
(* Proofs about the JavaScript of the action: about Release, for any tags, *)
(* any way in which a ref may abbreviate commits and pages of any size, and*)
(* about Job, for any number of uses of the action.                        *)
(***************************************************************************)
EXTENDS Release, Job, Integers, FiniteSetTheorems, SequenceTheorems, TLAPS

-----------------------------------------------------------------------------
(***************************************************************************)
(* A tag that is added moves others to the right, or leaves them.          *)
(***************************************************************************)
LEMMA Cuts ==
    ASSUME NEW S, NEW s \in Seq(S), NEW m \in 1 .. Len(s) + 1, NEW n \in m - 1 .. Len(s)
    PROVE  /\ SubSeq(s, m, n) \in Seq(S) /\ Len(SubSeq(s, m, n)) = (n - m) + 1
           /\ \A i \in 1 .. (n - m) + 1 : SubSeq(s, m, n)[i] = s[(m + i) - 1]
<1>1. Len(s) \in Nat /\ \A i \in 1 .. Len(s) : s[i] \in S
  BY LenProperties, ElementOfSeq
<1>2. m \in Int /\ n \in Int /\ \A i \in m .. n : s[i] \in S
  BY <1>1
<1>3. /\ SubSeq(s, m, n) \in Seq(S)
      /\ Len(SubSeq(s, m, n)) = IF m <= n THEN n - m + 1 ELSE 0
      /\ \A i \in 1 .. n - m + 1 : SubSeq(s, m, n)[i] = s[m + i - 1]
  BY <1>2, SubSeqProperties
<1>4. Len(SubSeq(s, m, n)) = (n - m) + 1
  BY <1>1, <1>3
<1>5. n - m + 1 = (n - m) + 1 /\ \A i \in Int : m + i - 1 = (m + i) - 1
  BY <1>2
<1> QED
  BY <1>3, <1>4, <1>5

LEMMA InsertAtFacts ==
    ASSUME NEW S, NEW s \in Seq(S), NEW k \in 1 .. Len(s) + 1, NEW e \in S
    PROVE  /\ InsertAt(s, k, e) \in Seq(S) /\ Len(InsertAt(s, k, e)) = Len(s) + 1
           /\ \A i \in 1 .. Len(s) : i < k => InsertAt(s, k, e)[i] = s[i]
           /\ \A i \in 1 .. Len(s) : k <= i => InsertAt(s, k, e)[i + 1] = s[i]
           /\ InsertAt(s, k, e)[k] = e
<1> DEFINE u == SubSeq(s, 1, k - 1)
           v == SubSeq(s, k, Len(s))
<1>1. Len(s) \in Nat /\ k \in Nat
  BY LenProperties
<1>2. /\ u \in Seq(S) /\ Len(u) = k - 1 /\ \A i \in 1 .. k - 1 : u[i] = s[i]
  <2>1. 1 \in 1 .. Len(s) + 1 /\ k - 1 \in 1 - 1 .. Len(s)
    BY <1>1
  <2>2. /\ u \in Seq(S) /\ Len(u) = ((k - 1) - 1) + 1
        /\ \A i \in 1 .. ((k - 1) - 1) + 1 : u[i] = s[(1 + i) - 1]
    BY <2>1, Cuts
  <2>3. ((k - 1) - 1) + 1 = k - 1 /\ \A i \in Int : (1 + i) - 1 = i
    BY <1>1
  <2> QED
    BY <2>2, <2>3
<1>3. /\ v \in Seq(S) /\ Len(v) = (Len(s) - k) + 1
      /\ \A i \in 1 .. (Len(s) - k) + 1 : v[i] = s[(k + i) - 1]
  <2>1. Len(s) \in k - 1 .. Len(s)
    BY <1>1
  <2> QED
    BY <2>1, Cuts
<1> HIDE DEF u, v
<1>4. /\ <<e>> \in Seq(S) /\ Len(<<e>>) = 1 /\ <<e>>[1] = e
  OBVIOUS
<1>5. /\ u \o <<e>> \in Seq(S) /\ Len(u \o <<e>>) = k
      /\ \A i \in 1 .. k : (u \o <<e>>)[i] = IF i <= k - 1 THEN u[i] ELSE <<e>>[i - (k - 1)]
  BY <1>1, <1>2, <1>4, ConcatProperties
<1>6. (\A i \in 1 .. k - 1 : (u \o <<e>>)[i] = s[i]) /\ (u \o <<e>>)[k] = e
  <2>1. k - (k - 1) = 1 /\ k \in 1 .. k /\ ~(k <= k - 1)
    BY <1>1
  <2>2. (u \o <<e>>)[k] = e
    BY <1>4, <1>5, <2>1
  <2>3. \A i \in 1 .. k - 1 : i \in 1 .. k /\ i <= k - 1
    BY <1>1
  <2> QED
    BY <1>2, <1>5, <2>2, <2>3
<1> DEFINE w == u \o <<e>>
<1>7. w \in Seq(S) /\ Len(w) = k /\ (\A i \in 1 .. k - 1 : w[i] = s[i]) /\ w[k] = e
  BY <1>5, <1>6
<1>8. InsertAt(s, k, e) = w \o v
  BY DEF InsertAt, u, v
<1> HIDE DEF w
<1> DEFINE t == w \o v
<1>9. /\ t \in Seq(S) /\ Len(t) = k + Len(v)
      /\ \A i \in 1 .. k + Len(v) : t[i] = IF i <= k THEN w[i] ELSE v[i - k]
  BY <1>3, <1>7, ConcatProperties
<1> HIDE DEF t
<1>10. Len(t) = Len(s) + 1 /\ k + Len(v) = Len(s) + 1
  BY <1>1, <1>3, <1>9
<1>11. ASSUME NEW i \in 1 .. Len(s), i < k PROVE t[i] = s[i]
  <2>1. i \in 1 .. k - 1 /\ i \in 1 .. Len(s) + 1 /\ i <= k
    BY <1>1, <1>11
  <2> QED
    BY <1>7, <1>9, <1>10, <2>1
<1>12. ASSUME NEW i \in 1 .. Len(s), k <= i PROVE t[i + 1] = s[i]
  <2>1. i + 1 \in 1 .. Len(s) + 1 /\ ~(i + 1 <= k)
    BY <1>1, <1>12
  <2>2. (i + 1) - k \in 1 .. (Len(s) - k) + 1 /\ (k + ((i + 1) - k)) - 1 = i
    BY <1>1, <1>12
  <2>3. t[i + 1] = v[(i + 1) - k]
    BY <1>9, <1>10, <2>1
  <2> QED
    BY <1>3, <2>2, <2>3
<1>13. t[k] = e
  <2>1. k \in 1 .. Len(s) + 1 /\ k <= k
    BY <1>1
  <2> QED
    BY <1>7, <1>9, <1>10, <2>1
<1> QED
  BY <1>8, <1>9, <1>10, <1>11, <1>12, <1>13 DEF t

LEMMA RemoveAtFacts ==
    ASSUME NEW S, NEW s \in Seq(S), NEW k \in 1 .. Len(s)
    PROVE  /\ RemoveAt(s, k) \in Seq(S) /\ Len(RemoveAt(s, k)) = Len(s) - 1
           /\ \A i \in 1 .. Len(s) : i < k => RemoveAt(s, k)[i] = s[i]
           /\ \A i \in 1 .. Len(s) : k < i => RemoveAt(s, k)[i - 1] = s[i]
<1> DEFINE u == SubSeq(s, 1, k - 1)
           v == SubSeq(s, k + 1, Len(s))
<1>1. Len(s) \in Nat /\ k \in Nat
  BY LenProperties
<1>2. /\ u \in Seq(S) /\ Len(u) = k - 1 /\ \A i \in 1 .. k - 1 : u[i] = s[i]
  <2>1. 1 \in 1 .. Len(s) + 1 /\ k - 1 \in 1 - 1 .. Len(s)
    BY <1>1
  <2>2. /\ u \in Seq(S) /\ Len(u) = ((k - 1) - 1) + 1
        /\ \A i \in 1 .. ((k - 1) - 1) + 1 : u[i] = s[(1 + i) - 1]
    BY <2>1, Cuts
  <2>3. ((k - 1) - 1) + 1 = k - 1 /\ \A i \in Int : (1 + i) - 1 = i
    BY <1>1
  <2> QED
    BY <2>2, <2>3
<1>3. /\ v \in Seq(S) /\ Len(v) = Len(s) - k
      /\ \A i \in 1 .. Len(s) - k : v[i] = s[k + i]
  <2> DEFINE m == k + 1
  <2>1. Len(s) \in m - 1 .. Len(s) /\ m \in 1 .. Len(s) + 1
    BY <1>1
  <2>3. (Len(s) - m) + 1 = Len(s) - k /\ \A i \in Int : (m + i) - 1 = k + i
    BY <1>1
  <2> HIDE DEF m
  <2>2. /\ SubSeq(s, m, Len(s)) \in Seq(S) /\ Len(SubSeq(s, m, Len(s))) = (Len(s) - m) + 1
        /\ \A i \in 1 .. (Len(s) - m) + 1 : SubSeq(s, m, Len(s))[i] = s[(m + i) - 1]
    BY <2>1, Cuts
  <2>4. v = SubSeq(s, m, Len(s))
    BY DEF m
  <2> HIDE DEF v
  <2>5. v \in Seq(S) /\ Len(v) = Len(s) - k
    BY <2>2, <2>3, <2>4
  <2>6. ASSUME NEW i \in 1 .. Len(s) - k PROVE v[i] = s[k + i]
    <3>1. i \in 1 .. (Len(s) - m) + 1 /\ i \in Int
      BY <2>3
    <3>2. v[i] = s[(m + i) - 1]
      BY <2>2, <2>4, <3>1
    <3> QED
      BY <2>3, <3>1, <3>2
  <2> QED
    BY <2>5, <2>6
<1>4. RemoveAt(s, k) = u \o v
  BY DEF RemoveAt
<1> HIDE DEF u, v
<1> DEFINE t == u \o v
<1>5. /\ t \in Seq(S) /\ Len(t) = Len(u) + Len(v)
      /\ \A i \in 1 .. Len(u) + Len(v) : t[i] = IF i <= Len(u) THEN u[i] ELSE v[i - Len(u)]
  BY <1>2, <1>3, ConcatProperties
<1> HIDE DEF t
<1>6. Len(t) = Len(s) - 1 /\ Len(u) + Len(v) = Len(s) - 1
  BY <1>1, <1>2, <1>3, <1>5
<1>7. ASSUME NEW i \in 1 .. Len(s), i < k PROVE t[i] = s[i]
  <2>1. i \in 1 .. k - 1 /\ i \in 1 .. Len(s) - 1 /\ i <= Len(u)
    BY <1>1, <1>2, <1>7
  <2> QED
    BY <1>2, <1>5, <1>6, <2>1
<1>8. ASSUME NEW i \in 1 .. Len(s), k < i PROVE t[i - 1] = s[i]
  <2>1. i - 1 \in 1 .. Len(s) - 1 /\ ~(i - 1 <= Len(u))
    BY <1>1, <1>2, <1>8
  <2>2. (i - 1) - Len(u) = i - k /\ i - k \in 1 .. Len(s) - k /\ k + (i - k) = i
    BY <1>1, <1>2, <1>8
  <2>3. t[i - 1] = v[i - k]
    BY <1>5, <1>6, <2>1, <2>2
  <2> QED
    BY <1>3, <2>2, <2>3
<1> QED
  BY <1>4, <1>5, <1>6, <1>7, <1>8 DEF t

-----------------------------------------------------------------------------
(***************************************************************************)
(* The list of tags has no tag twice, in the form in which additions and   *)
(* removals keep it: it is not longer than the set of its tags is large.   *)
(***************************************************************************)
TagsTyped == /\ tags \in Seq(Tag)
             /\ first \in SUBSET Tag
             /\ Len(tags) <= Cardinality(ToSet(tags))

LEMMA TagSets ==
    ASSUME tags \in Seq(Tag)
    PROVE  /\ ToSet(tags) \in SUBSET Tag /\ IsFiniteSet(ToSet(tags))
           /\ Cardinality(ToSet(tags)) \in Nat /\ Cardinality(Tag) \in Nat
           /\ Cardinality(ToSet(tags)) <= Cardinality(Tag)
           /\ Len(tags) \in Nat /\ DOMAIN tags = 1 .. Len(tags)
           /\ ToSet(tags) = {tags[i] : i \in 1 .. Len(tags)}
<1>1. Len(tags) \in Nat /\ DOMAIN tags = 1 .. Len(tags)
  BY LenProperties
<1>2. ToSet(tags) \in SUBSET Tag
  BY <1>1, ElementOfSeq DEF ToSet
<1>3. IsFiniteSet(Tag)
  BY RefsAssumption
<1>4. /\ IsFiniteSet(ToSet(tags)) /\ Cardinality(ToSet(tags)) <= Cardinality(Tag)
  BY <1>2, <1>3, FS_Subset
<1>5. Cardinality(ToSet(tags)) \in Nat /\ Cardinality(Tag) \in Nat
  BY <1>3, <1>4, FS_CardinalityType
<1> QED
  BY <1>1, <1>2, <1>4, <1>5 DEF ToSet

LEMMA TagsTypedInit == Init => TagsTyped
<1> SUFFICES ASSUME Init PROVE TagsTyped
  OBVIOUS
<1>1. PICK present \in SUBSET Tag : tags \in SetToSeqs(present)
  BY DEF Init
<1> DEFINE n == Cardinality(present)
<1>2. IsFiniteSet(present) /\ n \in Nat
  BY RefsAssumption, FS_Subset, FS_CardinalityType
<1>3. /\ tags \in [1 .. n -> present]
      /\ \A i, j \in 1 .. n : i # j => tags[i] # tags[j]
  BY <1>1 DEF SetToSeqs
<1> HIDE DEF n
<1>4. tags \in Seq(Tag) /\ Len(tags) = n
  <2>1. tags \in [1 .. n -> Tag]
    BY <1>3
  <2>2. tags \in Seq(Tag)
    BY <1>2, <2>1, SeqDef
  <2> QED
    BY <1>2, <1>3, <2>2, LenProperties
<1>5. /\ IsFiniteSet(ToSet(tags)) /\ ToSet(tags) \in SUBSET Tag
      /\ ToSet(tags) = {tags[i] : i \in 1 .. n}
  BY <1>4, TagSets
<1>6. tags \in Injection(1 .. n, ToSet(tags))
  <2>1. tags \in [1 .. n -> ToSet(tags)]
    BY <1>3, <1>5
  <2>2. IsInjective(tags)
    BY <1>3 DEF IsInjective
  <2> QED
    BY <2>1, <2>2 DEF Injection
<1>7. Cardinality(1 .. n) <= Cardinality(ToSet(tags))
  BY <1>5, <1>6, FS_Injection
<1>8. Cardinality(1 .. n) = n
  BY <1>2, FS_Interval
<1> QED
  BY <1>4, <1>5, <1>7, <1>8 DEF TagsTyped, Init

\* What a tag that is added does to the list.
LEMMA Added ==
    ASSUME TagsTyped, NEW t \in Tag, AddTag(t)
    PROVE  /\ TagsTyped'
           /\ ToSet(tags) \subseteq ToSet(tags')
           /\ \A i \in 1 .. Len(tags) :
                 \E j \in 1 .. Len(tags') : i <= j /\ tags'[j] = tags[i]
<1>1. PICK k \in 1 .. Len(tags) + 1 : tags' = InsertAt(tags, k, t)
  BY DEF AddTag
<1>2. tags \in Seq(Tag) /\ t \notin ToSet(tags) /\ first' = first
  BY DEF AddTag, TagsTyped
<1>3. /\ tags' \in Seq(Tag) /\ Len(tags') = Len(tags) + 1
      /\ \A i \in 1 .. Len(tags) : i < k => tags'[i] = tags[i]
      /\ \A i \in 1 .. Len(tags) : k <= i => tags'[i + 1] = tags[i]
      /\ tags'[k] = t
  BY <1>1, <1>2, InsertAtFacts
<1>4. /\ Len(tags) \in Nat /\ IsFiniteSet(ToSet(tags)) /\ Cardinality(ToSet(tags)) \in Nat
      /\ ToSet(tags) = {tags[i] : i \in 1 .. Len(tags)}
  BY <1>2, TagSets
<1>5. ASSUME NEW i \in 1 .. Len(tags)
      PROVE  \E j \in 1 .. Len(tags') : i <= j /\ tags'[j] = tags[i]
  <2>1. CASE i < k
    <3>1. i \in 1 .. Len(tags') /\ i <= i
      BY <1>3, <1>4
    <3> QED
      BY <1>3, <2>1, <3>1
  <2>2. CASE k <= i
    <3>1. i + 1 \in 1 .. Len(tags') /\ i <= i + 1
      BY <1>3, <1>4
    <3> QED
      BY <1>3, <2>2, <3>1
  <2> QED
    BY <1>4, <2>1, <2>2
<1>6. /\ IsFiniteSet(ToSet(tags')) /\ Cardinality(ToSet(tags')) \in Nat
      /\ ToSet(tags') = {tags'[i] : i \in 1 .. Len(tags')} /\ ToSet(tags') \in SUBSET Tag
  <2>1. \A s \in Seq(Tag) :
           /\ DOMAIN s = 1 .. Len(s) /\ ToSet(s) \in SUBSET Tag
    BY LenProperties, ElementOfSeq DEF ToSet
  <2>2. ToSet(tags') \in SUBSET Tag /\ ToSet(tags') = {tags'[i] : i \in 1 .. Len(tags')}
    BY <1>3, <2>1 DEF ToSet
  <2> QED
    BY <2>2, RefsAssumption, FS_Subset, FS_CardinalityType
<1>7. ToSet(tags) \subseteq ToSet(tags')
  BY <1>4, <1>5, <1>6
<1>8. t \in ToSet(tags')
  <2>1. k \in 1 .. Len(tags')
    BY <1>3, <1>4
  <2> QED
    BY <1>3, <1>6, <2>1
<1>9. Cardinality(ToSet(tags) \cup {t}) = Cardinality(ToSet(tags)) + 1
  BY <1>2, <1>4, FS_AddElement
<1>10. Cardinality(ToSet(tags) \cup {t}) <= Cardinality(ToSet(tags'))
  BY <1>6, <1>7, <1>8, FS_Subset
<1>11. Len(tags') <= Cardinality(ToSet(tags'))
  <2>1. Len(tags) <= Cardinality(ToSet(tags))
    BY DEF TagsTyped
  <2> QED
    BY <1>3, <1>4, <1>6, <1>9, <1>10, <2>1
<1>12. TagsTyped'
  BY <1>2, <1>3, <1>11 DEF TagsTyped
<1> QED
  BY <1>5, <1>7, <1>12

LEMMA Removed ==
    ASSUME TagsTyped, NEW t \in Tag, RemoveTag(t)
    PROVE  TagsTyped'
<1>1. PICK k \in 1 .. Len(tags) : tags' = RemoveAt(tags, k)
  BY DEF RemoveTag
<1>2. tags \in Seq(Tag) /\ first' = first
  BY DEF RemoveTag, TagsTyped
<1>3. /\ tags' \in Seq(Tag) /\ Len(tags') = Len(tags) - 1
      /\ \A i \in 1 .. Len(tags) : i < k => tags'[i] = tags[i]
      /\ \A i \in 1 .. Len(tags) : k < i => tags'[i - 1] = tags[i]
  BY <1>1, <1>2, RemoveAtFacts
<1>4. /\ Len(tags) \in Nat /\ IsFiniteSet(ToSet(tags)) /\ Cardinality(ToSet(tags)) \in Nat
      /\ ToSet(tags) = {tags[i] : i \in 1 .. Len(tags)}
  BY <1>2, TagSets
<1>5. /\ IsFiniteSet(ToSet(tags')) /\ Cardinality(ToSet(tags')) \in Nat
      /\ ToSet(tags') = {tags'[i] : i \in 1 .. Len(tags')}
  <2>1. \A s \in Seq(Tag) :
           /\ DOMAIN s = 1 .. Len(s) /\ ToSet(s) \in SUBSET Tag
    BY LenProperties, ElementOfSeq DEF ToSet
  <2>2. ToSet(tags') \in SUBSET Tag /\ ToSet(tags') = {tags'[i] : i \in 1 .. Len(tags')}
    BY <1>3, <2>1 DEF ToSet
  <2> QED
    BY <2>2, RefsAssumption, FS_Subset, FS_CardinalityType
<1>6. ASSUME NEW i \in 1 .. Len(tags), tags[i] # tags[k]
      PROVE  tags[i] \in ToSet(tags')
  <2>1. CASE i < k
    <3>1. i \in 1 .. Len(tags')
      BY <1>3, <1>4, <2>1
    <3> QED
      BY <1>3, <1>5, <2>1, <3>1
  <2>2. CASE k < i
    <3>1. i - 1 \in 1 .. Len(tags')
      BY <1>3, <1>4, <2>2
    <3> QED
      BY <1>3, <1>5, <2>2, <3>1
  <2>3. i # k
    BY <1>6
  <2> QED
    BY <1>4, <2>1, <2>2, <2>3
<1>7. ToSet(tags) \ {tags[k]} \subseteq ToSet(tags')
  BY <1>4, <1>6
<1>8. Cardinality(ToSet(tags) \ {tags[k]}) = Cardinality(ToSet(tags)) - 1
  <2>1. tags[k] \in ToSet(tags)
    BY <1>4
  <2> QED
    BY <1>4, <2>1, FS_RemoveElement
<1>9. Cardinality(ToSet(tags) \ {tags[k]}) <= Cardinality(ToSet(tags'))
  BY <1>5, <1>7, FS_Subset
<1>10. Len(tags') <= Cardinality(ToSet(tags'))
  <2>1. Len(tags) <= Cardinality(ToSet(tags))
    BY DEF TagsTyped
  <2> QED
    BY <1>3, <1>4, <1>5, <1>8, <1>9, <2>1
<1> QED
  BY <1>2, <1>3, <1>10 DEF TagsTyped

-----------------------------------------------------------------------------
(***************************************************************************)
(* Release.  As long as no tag was removed, every tag that was there at the*)
(* start is there, and those that are of the commit are behind the pages   *)
(* that were read: this is what NoTagMeansNone rests on.                   *)
(***************************************************************************)
Kept == ~removed => first \subseteq ToSet(tags)

Ahead == pc \in {"start", "tags"} /\ ~removed /\ ref \notin UpperCase =>
    \A t \in first \cap Abbreviates[ref] :
        \E i \in 1 .. Len(tags) : tags[i] = t /\ (page - 1) * PerPage < i

Origin ==
    /\ pc \in {"tags", "release", "asset", "noTag"} => IsCommitSha(ref)
    /\ pc = "direct" => ~IsCommitSha(ref)
    /\ pc \in {"release", "asset", "ok"} /\ IsCommitSha(ref) => tag \in Abbreviates[ref]
    /\ pc = "release" /\ ~removed => tag \in ToSet(tags)

\* Why the step fails for a commit when nothing goes wrong.
FailsForAReason ==
    pc = "failed" /\ ~fault /\ ~removed /\ IsCommitSha(ref) =>
        ~Answered \/ ~(Abbreviates[ref] \subseteq Released)

ReleaseInv == /\ TypeOK /\ TagsTyped
              /\ Kept /\ Ahead /\ Origin
              /\ NoTagMeansNone /\ FailsForAReason

LEMMA ReleaseInit == Init => ReleaseInv
<1> SUFFICES ASSUME Init PROVE ReleaseInv
  OBVIOUS
<1>1. TagsTyped
  BY TagsTypedInit
<1>2. /\ Cardinality(Tag) \in Nat /\ Len(tags) \in Nat
      /\ ToSet(tags) = {tags[i] : i \in 1 .. Len(tags)}
  BY <1>1, TagSets DEF TagsTyped
<1>3. TypeOK
  <2>1. 1 \in 1 .. Cardinality(Tag) + 1
    BY <1>2
  <2> QED
    BY <1>1, <2>1 DEF Init, TypeOK, TagsTyped
<1>4. Kept /\ Origin /\ NoTagMeansNone /\ FailsForAReason
  BY DEF Init, Kept, Origin, NoTagMeansNone, FailsForAReason
<1>5. Ahead
  <2> SUFFICES ASSUME NEW t \in first
               PROVE  \E i \in 1 .. Len(tags) : tags[i] = t /\ (page - 1) * PerPage < i
    BY DEF Ahead
  <2>1. PICK i \in 1 .. Len(tags) : tags[i] = t
    BY <1>2 DEF Init
  <2>2. (page - 1) * PerPage = 0
    BY RefsAssumption DEF Init
  <2>3. 0 < i
    BY <1>2
  <2> QED
    BY <2>1, <2>2, <2>3
<1> QED
  BY <1>1, <1>3, <1>4, <1>5 DEF ReleaseInv

\* The page after one that is not the last, where the list is long enough.
LEMMA PageFacts ==
    ASSUME NEW p \in Nat \ {0}, NEW n \in Nat, NEW c \in Nat \ {0}
    PROVE  /\ (p - 1) * c \in Nat /\ p * c = (p - 1) * c + c
           /\ ((p + 1) - 1) * c = p * c
           /\ (p - 1) * c < n => p <= n
<1>1. PICK q \in Nat : p = q + 1 /\ p - 1 = q
  <2>1. p - 1 \in Nat /\ p = (p - 1) + 1
    OBVIOUS
  <2> QED
    BY <2>1
<1>2. q * c \in Nat /\ (q + 1) * c = q * c + c /\ q <= q * c
  OBVIOUS
<1>3. (p + 1) - 1 = p
  OBVIOUS
<1> QED
  BY <1>1, <1>2, <1>3

\* Tags change while main waits.
LEMMA ServerKeeps ==
    ASSUME ReleaseInv, NEW t \in Tag, AddTag(t) \/ RemoveTag(t)
    PROVE  ReleaseInv'
<1>1. /\ UNCHANGED <<ref, token, private, first, pc, page, tag, fault>> /\ ~Ended
  BY DEF AddTag, RemoveTag
<1>2. TagsTyped'
  BY Added, Removed DEF ReleaseInv
<1>3. TypeOK'
  BY <1>1, <1>2 DEF ReleaseInv, TypeOK, TagsTyped
<1>4. Origin'
  <2>1. ~removed' => ToSet(tags) \subseteq ToSet(tags') /\ ~removed
    BY Added DEF ReleaseInv, AddTag, RemoveTag
  <2> QED
    BY <1>1, <2>1 DEF ReleaseInv, Origin, IsCommitSha
<1>5. NoTagMeansNone' /\ FailsForAReason'
  BY <1>1 DEF Ended, NoTagMeansNone, FailsForAReason
<1>6. CASE RemoveTag(t)
  <2>1. Kept' /\ Ahead'
    BY <1>6 DEF RemoveTag, Kept, Ahead
  <2> QED
    BY <1>2, <1>3, <1>4, <1>5, <2>1 DEF ReleaseInv
<1>7. CASE AddTag(t)
  <2>1. /\ ToSet(tags) \subseteq ToSet(tags') /\ removed' = removed
        /\ \A i \in 1 .. Len(tags) :
              \E j \in 1 .. Len(tags') : i <= j /\ tags'[j] = tags[i]
    BY <1>7, Added DEF ReleaseInv, AddTag
  <2>2. Kept'
    BY <1>1, <2>1 DEF ReleaseInv, Kept
  <2>3. Ahead'
    <3> SUFFICES ASSUME pc \in {"start", "tags"}, ~removed, ref \notin UpperCase,
                        NEW u \in first \cap Abbreviates[ref]
                 PROVE  \E j \in 1 .. Len(tags') : tags'[j] = u /\ (page - 1) * PerPage < j
      BY <1>1, <2>1 DEF Ahead
    <3>1. PICK i \in 1 .. Len(tags) : tags[i] = u /\ (page - 1) * PerPage < i
      BY DEF ReleaseInv, Ahead
    <3>2. PICK j \in 1 .. Len(tags') : i <= j /\ tags'[j] = tags[i]
      BY <2>1
    <3>3. page \in Nat \ {0} /\ PerPage \in Nat \ {0} /\ Cardinality(Tag) \in Nat
      BY RefsAssumption, TagSets DEF ReleaseInv, TypeOK
    <3>4. (page - 1) * PerPage \in Nat
      BY <3>3, PageFacts
    <3>5. i \in Int /\ j \in Int
      OBVIOUS
    <3>6. (page - 1) * PerPage < j
      BY <3>1, <3>2, <3>4, <3>5
    <3> QED
      BY <3>1, <3>2, <3>6
  <2> QED
    BY <1>2, <1>3, <1>4, <1>5, <2>2, <2>3 DEF ReleaseInv
<1> QED
  BY <1>6, <1>7

\* One page of the list.
LEMMA ListTagsKeeps ==
    ASSUME ReleaseInv, ListTags
    PROVE  ReleaseInv'
<1>1. /\ pc = "tags" /\ Answered /\ UNCHANGED <<ref, token, private, tags, first, removed, fault>>
  BY DEF ListTags, server
<1>2. /\ tags \in Seq(Tag) /\ Len(tags) \in Nat /\ Cardinality(Tag) \in Nat
      /\ Len(tags) <= Cardinality(Tag)
  <2>1. /\ tags \in Seq(Tag) /\ Len(tags) <= Cardinality(ToSet(tags))
    BY DEF ReleaseInv, TagsTyped
  <2>2. /\ Len(tags) \in Nat /\ Cardinality(Tag) \in Nat /\ Cardinality(ToSet(tags)) \in Nat
        /\ Cardinality(ToSet(tags)) <= Cardinality(Tag)
    BY <2>1, TagSets
  <2> QED
    BY <2>1, <2>2
<1>3. page \in Nat \ {0} /\ PerPage \in Nat \ {0} /\ page <= Cardinality(Tag) + 1
  BY <1>2, RefsAssumption DEF ReleaseInv, TypeOK
<1> DEFINE read == (page - 1) * PerPage
<1>4. /\ read \in Nat /\ page * PerPage = read + PerPage
      /\ ((page + 1) - 1) * PerPage = page * PerPage
      /\ read < Len(tags) => page <= Len(tags)
  BY <1>2, <1>3, PageFacts
<1>5. Page(page) = {i \in 1 .. Len(tags) : read < i /\ i <= read + PerPage}
  BY <1>4 DEF Page
<1> HIDE DEF read
<1>6. TagsTyped' /\ Kept'
  BY <1>1 DEF ReleaseInv, TagsTyped, Kept
<1>7. IsCommitSha(ref)
  BY <1>1 DEF ReleaseInv, Origin
<1>8. CASE Page(page) = {} /\ pc' = "noTag" /\ UNCHANGED <<page, tag>>
  <2>1. TypeOK' /\ Ahead' /\ Origin' /\ FailsForAReason'
    BY <1>1, <1>7, <1>8 DEF ReleaseInv, TypeOK, Ahead, Origin, FailsForAReason, IsCommitSha
  <2>2. ASSUME ~removed, ref \notin UpperCase, NEW t \in first \cap Abbreviates[ref] PROVE FALSE
    <3>1. PICK i \in 1 .. Len(tags) : read < i
      BY <1>1, <2>2 DEF ReleaseInv, Ahead, read
    <3>2. read + 1 \in 1 .. Len(tags) /\ read < read + 1 /\ read + 1 <= read + PerPage
      BY <1>2, <1>3, <1>4, <3>1
    <3> QED
      BY <1>5, <1>8, <3>2
  <2>3. NoTagMeansNone'
    BY <1>1, <2>2 DEF NoTagMeansNone
  <2> QED
    BY <1>6, <2>1, <2>3 DEF ReleaseInv
<1>9. CASE Page(page) # {} /\ NoneOnPage /\ page' = page + 1 /\ UNCHANGED <<pc, tag>>
  <2>1. PICK i \in 1 .. Len(tags) : read < i
    BY <1>5, <1>9
  <2>2. page <= Len(tags)
    BY <1>2, <1>4, <2>1
  <2>3. page' \in 1 .. Cardinality(Tag) + 1
    BY <1>2, <1>3, <1>9, <2>2
  <2>4. TypeOK'
    BY <1>1, <1>9, <2>3 DEF ReleaseInv, TypeOK
  <2>5. Origin' /\ NoTagMeansNone' /\ FailsForAReason'
    BY <1>1, <1>9 DEF ReleaseInv, Origin, NoTagMeansNone, FailsForAReason, IsCommitSha
  <2>6. Ahead'
    <3> SUFFICES ASSUME ~removed, ref \notin UpperCase, NEW t \in first \cap Abbreviates[ref]
                 PROVE  \E j \in 1 .. Len(tags) : tags[j] = t /\ (page' - 1) * PerPage < j
      BY <1>1 DEF Ahead
    <3>1. PICK j \in 1 .. Len(tags) : tags[j] = t /\ read < j
      BY <1>1 DEF ReleaseInv, Ahead, read
    <3>2. j \notin Page(page)
      BY <1>9, <3>1 DEF NoneOnPage, IsOfRef
    <3>3. read + PerPage < j
      BY <1>2, <1>3, <1>4, <1>5, <3>1, <3>2
    <3>4. (page' - 1) * PerPage = read + PerPage
      BY <1>4, <1>9
    <3> QED
      BY <3>1, <3>3, <3>4
  <2> QED
    BY <1>6, <2>4, <2>5, <2>6 DEF ReleaseInv
<1>10. CASE /\ \E i \in Page(page) : FirstOnPage(i) /\ tag' = tags[i]
            /\ pc' = "release" /\ page' = page
  <2>1. PICK i \in 1 .. Len(tags) : tags[i] \in Abbreviates[ref] /\ tag' = tags[i]
    BY <1>5, <1>10 DEF FirstOnPage, IsOfRef
  <2>2. tag' \in Tag /\ tag' \in ToSet(tags)
    BY <1>2, <2>1, ElementOfSeq, TagSets
  <2>3. TypeOK'
    BY <1>1, <1>10, <2>2 DEF ReleaseInv, TypeOK
  <2>4. Ahead' /\ Origin' /\ NoTagMeansNone' /\ FailsForAReason'
    BY <1>1, <1>7, <1>10, <2>1, <2>2
    DEF Ahead, Origin, NoTagMeansNone, FailsForAReason, IsCommitSha
  <2> QED
    BY <1>6, <2>3, <2>4 DEF ReleaseInv
<1> QED
  BY <1>8, <1>9, <1>10 DEF ListTags

LEMMA ReleaseStep == ReleaseInv /\ [Next]_vars => ReleaseInv'
<1> SUFFICES ASSUME ReleaseInv, [Next]_vars PROVE ReleaseInv'
  OBVIOUS
<1>1. ASSUME NEW t \in Tag, AddTag(t) \/ RemoveTag(t) PROVE ReleaseInv'
  BY <1>1, ServerKeeps
<1>2. CASE ListTags
  BY <1>2, ListTagsKeeps
<1>3. CASE Start \/ FindAsset \/ DownloadAsset \/ DownloadDirectly \/ Refused \/ RequestFails
  <2>1. UNCHANGED <<ref, token, server, page>>
    BY <1>3 DEF Start, FindAsset, DownloadAsset, DownloadDirectly, Refused, RequestFails
  <2>2. UNCHANGED <<private, tags, first, removed>>
    BY <2>1 DEF server
  <2>3. TagsTyped' /\ Kept'
    BY <2>2 DEF ReleaseInv, TagsTyped, Kept
  <2>4. TypeOK'
    BY <1>3, <2>1, <2>2
    DEF ReleaseInv, TypeOK, Start, FindAsset, DownloadAsset, DownloadDirectly, Refused,
        RequestFails, IsCommitSha
  <2>5. Ahead'
    BY <1>3, <2>1, <2>2
    DEF ReleaseInv, Ahead, Start, FindAsset, DownloadAsset, DownloadDirectly, Refused,
        RequestFails
  <2>6. Origin'
    BY <1>3, <2>1, <2>2
    DEF ReleaseInv, Origin, Start, FindAsset, DownloadAsset, DownloadDirectly, Refused,
        RequestFails, IsCommitSha, HasAsset
  <2>7. NoTagMeansNone'
    BY <1>3, <2>1, <2>2
    DEF NoTagMeansNone, Start, FindAsset, DownloadAsset, DownloadDirectly, Refused,
        RequestFails
  <2>8. FailsForAReason'
    BY <1>3, <2>1, <2>2
    DEF ReleaseInv, Origin, FailsForAReason, Start, FindAsset, DownloadAsset,
        DownloadDirectly, Refused, RequestFails, Answered, HasAsset, IsCommitSha
  <2> QED
    BY <2>3, <2>4, <2>5, <2>6, <2>7, <2>8 DEF ReleaseInv
<1>4. CASE Over \/ UNCHANGED vars
  BY <1>4 DEF Over, vars, server, ReleaseInv, TypeOK, TagsTyped, Kept, Ahead, Origin,
              NoTagMeansNone, FailsForAReason, Answered, IsCommitSha
<1> QED
  BY <1>1, <1>2, <1>3, <1>4 DEF Next, Main

LEMMA ReleaseInvCorrect == Spec => []ReleaseInv
BY ReleaseInit, ReleaseStep, PTL DEF Spec

(***************************************************************************)
(* The state of main has its types, and tagForCommit asks for at most one  *)
(* page more than there are tags, although tags come and go meanwhile.     *)
(***************************************************************************)
THEOREM ReleaseTypeCorrect == Spec => []TypeOK
BY ReleaseInvCorrect, PTL DEF ReleaseInv

(***************************************************************************)
(* A commit is reported to have no tag only if it had none at the start, or*)
(* one was removed, or it was written in upper case, whatever tags are     *)
(* added between two pages.                                                *)
(***************************************************************************)
THEOREM NoTagCorrect == Spec => []NoTagMeansNone
BY ReleaseInvCorrect, PTL DEF ReleaseInv

(***************************************************************************)
(* A commit that has a tag, and only released ones, is downloaded when no  *)
(* request fails and no tag goes away, for any page size and any list.     *)
(***************************************************************************)
THEOREM CommitCorrect == Spec => []CommitIsDownloaded
<1>1. ReleaseInv => CommitIsDownloaded
  BY DEF ReleaseInv, Origin, NoTagMeansNone, FailsForAReason, CommitIsDownloaded, Ended
<1> QED
  BY <1>1, ReleaseInvCorrect, PTL

-----------------------------------------------------------------------------
(***************************************************************************)
(* Job.                                                                    *)
(***************************************************************************)
LEMMA JobTypeInit == JobInit => JobTypeOK
<1> SUFFICES ASSUME JobInit PROVE JobTypeOK
  OBVIOUS
<1>1. started \in BOOLEAN
  BY DEF JobInit
<1> QED
  BY <1>1 DEF JobInit, JobTypeOK

LEMMA JobTypeStep == JobTypeOK /\ [JobNext]_jobVars => JobTypeOK'
<1> SUFFICES ASSUME JobTypeOK, [JobNext]_jobVars PROVE JobTypeOK'
  OBVIOUS
<1> USE DEF JobTypeOK, daemonVars, mainVars, postVars, DaemonGoto, MainGoto, PostGoto,
            Gone
<1>1. ASSUME NEW i \in Use, DaemonStep(i) \/ Drain(i) \/ Die(i) PROVE JobTypeOK'
  <2>1. CASE BindSocket(i) \/ OpenNixStore(i) \/ ConnectToCache(i)
    BY <2>1 DEF BindSocket, OpenNixStore, ConnectToCache
  <2>2. CASE SignalReady(i) \/ SignalError(i)
    BY <2>2 DEF SignalReady, SignalError
  <2>3. CASE ExitOnError(i) \/ Drain(i) \/ Die(i)
    BY <2>3 DEF ExitOnError, Drain, Die
  <2> QED
    BY <1>1, <2>1, <2>2, <2>3 DEF DaemonStep
<1>2. ASSUME NEW i \in Use, MainStep(i) \/ SkipMain(i) \/ SaveFails(i) PROVE JobTypeOK'
  <2>1. CASE Save(i)
    <3>1. started' \in BOOLEAN
      BY <2>1 DEF Save
    <3>2. saved' \in [Use -> 0 .. 5] /\ hooked' \in SUBSET Use
      BY <2>1 DEF Save
    <3> QED
      BY <2>1, <3>1, <3>2 DEF Save
  <2>2. CASE SkipMain(i) \/ Prepare(i) \/ Spawn(i)
    BY <2>2 DEF SkipMain, Prepare, Spawn
  <2>3. CASE ReadReady(i) \/ ExitedEarly(i) \/ SaveFails(i) \/ Unref(i) \/ Fail(i)
    BY <2>3 DEF ReadReady, ExitedEarly, SaveFails, Unref, Fail
  <2> QED
    BY <1>2, <2>1, <2>2, <2>3 DEF MainStep
<1>3. ASSUME NEW i \in Use, PostStep(i) \/ CopyFails(i) \/ StopKilled(i) PROVE JobTypeOK'
  BY <1>3 DEF PostStep, SkipPost, RunStop, SendStop, StopReturns, CopyFails, StopKilled
<1>4. CASE AfterJob \/ UNCHANGED jobVars
  BY <1>4 DEF AfterJob, jobVars
<1> QED
  BY <1>1, <1>2, <1>3, <1>4 DEF JobNext

(***************************************************************************)
(* The states of steps and daemons keep their types.                       *)
(***************************************************************************)
THEOREM JobTypeCorrect == JobSpec => []JobTypeOK
BY JobTypeInit, JobTypeStep, PTL DEF JobSpec

-----------------------------------------------------------------------------
(***************************************************************************)
(* The inductive invariant, for one use of the action: what the main step  *)
(* knows of its daemon, and what the post step knows of both.              *)
(***************************************************************************)
DaemonInv(i) ==
    /\ main[i] \in {"todo", "start", "skipped"} => daemon[i] = "none"
    /\ daemon[i] \in {"none", "bind", "error", "exit", "gone"} => i \notin listening
    /\ daemon[i] \in {"open", "connect", "ready", "serving"} => i \in listening
    /\ pipe[i] = "ready" => daemon[i] \in {"serving", "gone"}
    /\ i \in lost => daemon[i] = "gone"

MainInv(i) ==
    /\ main[i] \in {"saving", "ok"} => pipe[i] = "ready"
    /\ i \in hooked => pipe[i] = "ready"
    /\ main[i] = "failed" => ~Running(i)
    /\ main[i] = "ok" => saved[i] = 5
    /\ saved[i] = 5 => started

PostInv(i) ==
    /\ post[i] # "todo" => MainEnded(i)
    /\ post[i] = "skipped" => main[i] # "ok"
    /\ post[i] = "skipped" => ~Running(i)
    /\ post[i] = "ok" => i \in asked
    /\ i \in asked => i \notin lost

JobInv == \A i \in Use : DaemonInv(i) /\ MainInv(i) /\ PostInv(i)

LEMMA JobInvInit == JobInit => JobInv
BY DEF JobInit, JobInv, DaemonInv, MainInv, PostInv, Running, MainEnded, PostDone

LEMMA DaemonKeepsJobInv ==
    ASSUME JobTypeOK, JobInv, NEW i \in Use,
           DaemonStep(i) \/ Drain(i) \/ Die(i)
    PROVE  JobInv'
<1> USE DEF JobInv, JobTypeOK, DaemonInv, MainInv, PostInv, Running, MainEnded,
            PostDone, daemonVars, mainVars, postVars, DaemonGoto, Gone
<1>1. CASE BindSocket(i)
  BY <1>1 DEF BindSocket
<1>2. CASE OpenNixStore(i)
  BY <1>2 DEF OpenNixStore
<1>3. CASE ConnectToCache(i)
  BY <1>3 DEF ConnectToCache
<1>4. CASE SignalReady(i)
  BY <1>4 DEF SignalReady
<1>5. CASE SignalError(i)
  BY <1>5 DEF SignalError
<1>6. CASE ExitOnError(i)
  BY <1>6 DEF ExitOnError
<1>7. CASE Drain(i)
  BY <1>7 DEF Drain
<1>8. CASE Die(i)
  BY <1>8 DEF Die
<1> QED
  BY <1>1, <1>2, <1>3, <1>4, <1>5, <1>6, <1>7, <1>8 DEF DaemonStep

LEMMA MainKeepsJobInv ==
    ASSUME JobTypeOK, JobInv, NEW i \in Use, MainStep(i) \/ SkipMain(i) \/ SaveFails(i)
    PROVE  JobInv'
<1> USE DEF JobInv, JobTypeOK, DaemonInv, MainInv, PostInv, Running, MainEnded,
            PostDone, daemonVars, mainVars, postVars, MainGoto, DaemonGoto
<1>1. CASE SkipMain(i) \/ Prepare(i)
  BY <1>1 DEF SkipMain, Prepare
<1>2. CASE Spawn(i)
  BY <1>2 DEF Spawn
<1>3. CASE ReadReady(i) \/ ExitedEarly(i)
  BY <1>3 DEF ReadReady, ExitedEarly
<1>4. CASE Save(i)
  BY <1>4 DEF Save
<1>5. CASE SaveFails(i) \/ Unref(i) \/ Fail(i)
  BY <1>5 DEF SaveFails, Unref, Fail
<1> QED
  BY <1>1, <1>2, <1>3, <1>4, <1>5 DEF MainStep

LEMMA PostKeepsJobInv ==
    ASSUME JobTypeOK, JobInv, NEW i \in Use,
           PostStep(i) \/ CopyFails(i) \/ StopKilled(i)
    PROVE  JobInv'
<1> USE DEF JobInv, JobTypeOK, DaemonInv, MainInv, PostInv, Running, MainEnded,
            PostDone, daemonVars, mainVars, PostGoto, MayPost, PostIf
<1>1. CASE SkipPost(i)
  BY <1>1 DEF SkipPost
<1>2. CASE RunStop(i)
  BY <1>2 DEF RunStop
<1>3. CASE SendStop(i)
  BY <1>3 DEF SendStop
<1>4. CASE StopReturns(i) \/ CopyFails(i) \/ StopKilled(i)
  BY <1>4 DEF StopReturns, CopyFails, StopKilled
<1> QED
  BY <1>1, <1>2, <1>3, <1>4 DEF PostStep

LEMMA JobInvStep == JobTypeOK /\ JobInv /\ [JobNext]_jobVars => JobInv'
<1>1. ASSUME JobInv, UNCHANGED jobVars PROVE JobInv'
  BY <1>1 DEF jobVars, daemonVars, mainVars, postVars, JobInv, DaemonInv, MainInv,
              PostInv, Running, MainEnded, PostDone
<1> QED
  BY <1>1, DaemonKeepsJobInv, MainKeepsJobInv, PostKeepsJobInv DEF JobNext, AfterJob

LEMMA JobInvCorrect == JobSpec => [](JobTypeOK /\ JobInv)
BY JobTypeCorrect, JobInvInit, JobInvStep, PTL DEF JobSpec

(***************************************************************************)
(* Only the hook of a daemon that has reported readiness, and listens      *)
(* unless it has ended since, is in the job's environment.                 *)
(***************************************************************************)
THEOREM HookCorrect == JobSpec => []HookMeansReady
<1>1. JobTypeOK /\ JobInv => HookMeansReady
  BY DEF JobTypeOK, JobInv, DaemonInv, MainInv, HookMeansReady
<1> QED
  BY <1>1, JobInvCorrect, PTL

(***************************************************************************)
(* A daemon that outlives the job has been asked to stop, or its own post  *)
(* step has failed.                                                        *)
(***************************************************************************)
THEOREM NoDaemonForgottenCorrect == JobSpec => []NoDaemonForgotten
<1>1. JobInv => NoDaemonForgotten
  BY DEF JobInv, PostInv, NoDaemonForgotten, JobOver, PostDone
<1> QED
  BY <1>1, JobInvCorrect, PTL

(***************************************************************************)
(* A job that succeeds has stopped all of its daemons, none of which had   *)
(* died before.                                                            *)
(***************************************************************************)
THEOREM SuccessCorrect == JobSpec => []SuccessMeansStopped
<1>1. JobInv => SuccessMeansStopped
  BY DEF JobInv, MainInv, PostInv, SuccessMeansStopped, JobSucceeded
<1> QED
  BY <1>1, JobInvCorrect, PTL
=============================================================================
