-------------------------- MODULE NarWriterProofs --------------------------
(***************************************************************************)
(* Proofs about NarWriter, for trees of any size and depth: the hash and   *)
(* the count are those of what went into the pipe, what went into the pipe *)
(* is a beginning of the NAR of the tree, and the walk fails only for a    *)
(* reason.  NarOf and EntriesOf are any functions that satisfy the         *)
(* equations of the format, so that no induction over trees is needed: the *)
(* invariant unfolds an equation wherever the walk enters a node.          *)
(***************************************************************************)
EXTENDS NarWriter, Integers, FiniteSetTheorems, FunctionTheorems, SequenceTheorems, TLAPS

Call == [childPath : Seq(Name), left : Seq(Name)]

-----------------------------------------------------------------------------
(***************************************************************************)
(* Sequences.                                                              *)
(***************************************************************************)
LEMMA FrontFacts ==
    ASSUME NEW S, NEW s \in Seq(S), s # <<>>
    PROVE  \E n \in Nat :
              /\ Len(s) = n + 1 /\ Last(s) = s[n + 1] /\ s[n + 1] \in S
              /\ Front(s) \in Seq(S) /\ Len(Front(s)) = n
              /\ \A i \in 1 .. n : Front(s)[i] = s[i]
<1>1. Len(s) \in Nat \ {0} /\ \A i \in 1 .. Len(s) : s[i] \in S
  BY EmptySeq, ElementOfSeq
<1>2. PICK n \in Nat : Len(s) = n + 1 /\ Len(s) - 1 = n
  <2>1. Len(s) - 1 \in Nat /\ Len(s) = (Len(s) - 1) + 1
    BY <1>1
  <2> QED
    BY <2>1
<1>3. (\A i \in 1 .. n : s[i] \in S) /\ s[n + 1] \in S
  BY <1>1, <1>2
<1>4. /\ Front(s) \in Seq(S) /\ Len(Front(s)) = n
      /\ \A i \in 1 .. n : Front(s)[i] = s[i]
  BY <1>2, <1>3, SubSeqProperties DEF Front
<1>5. Last(s) = s[n + 1]
  BY <1>2 DEF Last
<1> QED
  BY <1>2, <1>3, <1>4, <1>5

LEMMA FrontOfAppend ==
    ASSUME NEW S, NEW s \in Seq(S), NEW x \in S
    PROVE  Front(Append(s, x)) = s
<1>1. /\ Append(s, x) \in Seq(S) /\ Append(s, x) # <<>> /\ Len(s) \in Nat
      /\ Len(Append(s, x)) = Len(s) + 1
      /\ \A i \in 1 .. Len(s) : Append(s, x)[i] = s[i]
  BY AppendProperties, LenProperties
<1>2. PICK n \in Nat : /\ Len(Append(s, x)) = n + 1
                       /\ Front(Append(s, x)) \in Seq(S) /\ Len(Front(Append(s, x))) = n
                       /\ \A i \in 1 .. n : Front(Append(s, x))[i] = Append(s, x)[i]
  BY <1>1, FrontFacts
<1>3. n = Len(s)
  BY <1>1, <1>2
<1> QED
  BY <1>1, <1>2, <1>3, SeqEqual

\* The last element of an appended sequence, and a sequence as its front and it.
LEMMA LastOfAppend ==
    ASSUME NEW S, NEW s \in Seq(S), NEW x \in S
    PROVE  Last(Append(s, x)) = x
<1>1. /\ Len(s) \in Nat /\ Len(Append(s, x)) = Len(s) + 1
      /\ Append(s, x)[Len(s) + 1] = x
  BY AppendProperties, LenProperties
<1> QED
  BY <1>1 DEF Last

LEMMA SplitLast ==
    ASSUME NEW S, NEW s \in Seq(S), s # <<>>
    PROVE  /\ Front(s) \in Seq(S) /\ Last(s) \in S
           /\ s = Append(Front(s), Last(s))
<1>1. PICK r \in Seq(S), x \in S : s = Append(r, x)
  BY SequenceEmptyOrAppend
<1> QED
  BY <1>1, FrontOfAppend, LastOfAppend

\* A sequence is cut in two.
LEMMA Cut ==
    ASSUME NEW S, NEW s \in Seq(S), NEW n \in 1 .. Len(s)
    PROVE  /\ SubSeq(s, 1, n) \in Seq(S) /\ Len(SubSeq(s, 1, n)) = n
           /\ SubSeq(s, n + 1, Len(s)) \in Seq(S)
           /\ SubSeq(s, 1, n) \o SubSeq(s, n + 1, Len(s)) = s
<1>1. Len(s) \in Nat /\ \A i \in 1 .. Len(s) : s[i] \in S
  BY LenProperties, ElementOfSeq
<1>2. n \in Int /\ n + 1 \in Int /\ Len(s) \in Int /\ 1 \in Int
  BY <1>1
<1>3. (\A i \in 1 .. n : s[i] \in S) /\ (\A i \in n + 1 .. Len(s) : s[i] \in S)
  BY <1>1
<1>4. SubSeq(s, 1, n) \in Seq(S) /\ Len(SubSeq(s, 1, n)) = n
  BY <1>1, <1>2, <1>3, SubSeqProperties
<1>5. SubSeq(s, n + 1, Len(s)) \in Seq(S)
  BY <1>2, <1>3, SubSeqProperties
<1>6. SubSeq(s, 1, n) \o SubSeq(s, n + 1, Len(s)) = SubSeq(s, 1, Len(s))
  <2>1. 1 \in 1 .. Len(s) + 1 /\ n \in 1 - 1 .. Len(s) /\ Len(s) \in n .. Len(s)
    BY <1>1
  <2> QED
    BY <2>1, ConcatAdjacentSubSeq
<1> QED
  BY <1>4, <1>5, <1>6, SubSeqFull

LEMMA PrefixOfConcat ==
    ASSUME NEW S, NEW s \in Seq(S), NEW t \in Seq(S)
    PROVE  IsPrefix(s, s \o t)
<1>1. /\ Len(s) \in Nat /\ Len(t) \in Nat /\ Len(s \o t) = Len(s) + Len(t)
      /\ s \o t \in Seq(S)
  BY LenProperties, ConcatProperties
<1>2. Len(s) <= Len(s \o t)
  BY <1>1
<1>3. \A i \in 1 .. Len(s) : i \in 1 .. Len(s) + Len(t) /\ i <= Len(s)
  BY <1>1
<1>4. \A i \in 1 .. Len(s) : (s \o t)[i] = s[i] /\ s[i] \in S
  BY <1>3, ConcatProperties, ElementOfSeq
<1>5. \A i \in 1 .. Len(s) : (s \o t)[i] \in S
  BY <1>4
<1>6. /\ SubSeq(s \o t, 1, Len(s)) \in Seq(S)
      /\ Len(SubSeq(s \o t, 1, Len(s))) = Len(s)
      /\ \A i \in 1 .. Len(s) : SubSeq(s \o t, 1, Len(s))[i] = (s \o t)[i]
  BY <1>1, <1>5, SubSeqProperties
<1>7. SubSeq(s \o t, 1, Len(s)) = s
  BY <1>4, <1>6, SeqEqual
<1> QED
  BY <1>2, <1>7, SubSeqFull DEF IsPrefix

LEMMA TokenSeqs ==
    /\ <<>> \in Seq(Token) /\ Magic \in Token /\ DirectoryToken \in Token
    /\ CloseToken \in Token /\ SymlinkToken \in Token
    /\ \A n \in Name : EntryToken(n) \in Token
    /\ \A x \in Token : <<x>> \in Seq(Token)
    /\ \A u, v \in Seq(Token) : u \o v \in Seq(Token)
    /\ \A u \in Seq(Token) : u \o <<>> = u /\ <<>> \o u = u
    /\ \A u, v, w \in Seq(Token) : (u \o v) \o w = u \o (v \o w)
<1>1. \A u, v \in Seq(Token) : u \o v \in Seq(Token)
  BY ConcatProperties
<1>2. \A u \in Seq(Token) : u \o <<>> = u /\ <<>> \o u = u
  BY ConcatEmptySeq
<1>3. \A u, v, w \in Seq(Token) : (u \o v) \o w = u \o (v \o w)
  BY ConcatAssociative
<1>4. \A x \in Token : <<x>> \in Seq(Token)
  OBVIOUS
<1>5. <<>> \in Seq(Token)
  BY EmptySeq
<1>6. /\ Magic \in Token /\ DirectoryToken \in Token
      /\ CloseToken \in Token /\ SymlinkToken \in Token
  BY DEF Token, Magic, DirectoryToken, CloseToken, SymlinkToken
<1>7. \A n \in Name : EntryToken(n) \in Token
  BY DEF Token, EntryToken
<1> QED
  BY <1>1, <1>2, <1>3, <1>4, <1>5, <1>6, <1>7

LEMMA Assoc ==
    ASSUME NEW u \in Seq(Token), NEW v \in Seq(Token), NEW w \in Seq(Token)
    PROVE  (u \o v) \o w = u \o (v \o w)
BY ConcatAssociative

LEMMA Regrouped ==
    ASSUME NEW u \in Seq(Token), NEW v \in Seq(Token),
           NEW w \in Seq(Token), NEW x \in Seq(Token)
    PROVE  (u \o v) \o (w \o x) = u \o ((v \o w) \o x)
<1> DEFINE k == w \o x
<1>1. k \in Seq(Token)
  BY TokenSeqs
<1>2. (v \o w) \o x = v \o k
  BY ONLY v \in Seq(Token), w \in Seq(Token), x \in Seq(Token), Assoc
<1> HIDE DEF k
<1>3. (u \o v) \o k = u \o (v \o k)
  BY ONLY <1>1, u \in Seq(Token), v \in Seq(Token), Assoc
<1>4. (u \o v) \o k = u \o ((v \o w) \o x)
  BY ONLY <1>2, <1>3
<1> QED
  BY ONLY <1>4 DEF k

\* An equation of the format within a concatenation.
LEMMA Spliced ==
    ASSUME NEW u \in Seq(Token), NEW v \in Seq(Token), NEW w \in Seq(Token),
           NEW x \in Seq(Token), NEW s, s = u \o (v \o w), NEW r, r = s \o x
    PROVE  r = u \o (v \o (w \o x))
<1> DEFINE k == v \o w
<1>1. k \in Seq(Token)
  BY TokenSeqs
<1>2. k \o x = v \o (w \o x)
  BY ONLY v \in Seq(Token), w \in Seq(Token), x \in Seq(Token), Assoc
<1>3. s = u \o k
  OBVIOUS
<1> HIDE DEF k
<1>4. (u \o k) \o x = u \o (k \o x)
  BY ONLY <1>1, u \in Seq(Token), x \in Seq(Token), Assoc
<1>5. s \o x = u \o (k \o x)
  BY ONLY <1>3, <1>4
<1> QED
  BY ONLY <1>2, <1>5, r = s \o x

-----------------------------------------------------------------------------
(***************************************************************************)
(* Sorted listings of a directory.                                         *)
(***************************************************************************)
Sorted(l) == \A i, j \in DOMAIN l : i < j => l[i] < l[j]

\* The next name of a sorted listing is the least, and is not listed again.
LEMMA HeadOfSorted ==
    ASSUME NEW l \in Seq(Name), Sorted(l), l # <<>>
    PROVE  /\ Head(l) \in ToSet(l) /\ Head(l) \in Name
           /\ \A m \in ToSet(l) : Head(l) <= m
           /\ Tail(l) \in Seq(Name) /\ Sorted(Tail(l))
           /\ ToSet(Tail(l)) = ToSet(l) \ {Head(l)}
<1>1. PICK n \in Nat : Len(l) = n + 1 /\ DOMAIN l = 1 .. n + 1
  BY FrontFacts, LenProperties
<1>2. \A i \in 1 .. n + 1 : l[i] \in Nat
  BY <1>1, ElementOfSeq, TreesAssumption
<1>3. /\ Head(l) = l[1] /\ Head(l) \in Name /\ Tail(l) \in Seq(Name)
      /\ Len(Tail(l)) = n /\ DOMAIN Tail(l) = 1 .. n
      /\ \A i \in 1 .. n : Tail(l)[i] = l[i + 1]
  <2>1. Len(Tail(l)) = n /\ Tail(l) \in Seq(Name) /\ Head(l) \in Name
    BY <1>1, HeadTailProperties
  <2> QED
    BY <1>1, <2>1, LenProperties, HeadTailProperties
<1>4. \A i \in 1 .. n : i + 1 \in 1 .. n + 1 /\ 1 < i + 1
  OBVIOUS
<1>5. \A i \in 1 .. n + 1 : i # 1 => \E j \in 1 .. n : i = j + 1
  <2>1. \A i \in 1 .. n + 1 : i # 1 => i - 1 \in 1 .. n /\ i = (i - 1) + 1
    OBVIOUS
  <2> QED
    BY <2>1
<1>6. \A i \in 1 .. n : l[1] < l[i + 1]
  BY <1>1, <1>4 DEF Sorted
<1>7. Head(l) \in ToSet(l) /\ \A m \in ToSet(l) : Head(l) <= m
  <2>1. 1 \in 1 .. n + 1
    OBVIOUS
  <2>2. ASSUME NEW i \in 1 .. n + 1 PROVE l[1] <= l[i]
    <3>1. CASE i = 1
      BY <1>2, <2>1, <3>1
    <3>2. CASE i # 1
      <4>1. l[1] < l[i]
        BY <1>5, <1>6, <3>2
      <4> QED
        BY <1>2, <2>1, <4>1
    <3> QED
      BY <3>1, <3>2
  <2>3. \A m \in ToSet(l) : \E i \in 1 .. n + 1 : m = l[i]
    BY <1>1 DEF ToSet
  <2>4. l[1] \in ToSet(l)
    BY <1>1, <2>1 DEF ToSet
  <2> QED
    BY <1>3, <2>2, <2>3, <2>4
<1>8. Sorted(Tail(l))
  <2> SUFFICES ASSUME NEW i \in 1 .. n, NEW j \in 1 .. n, i < j
               PROVE  l[i + 1] < l[j + 1]
    BY <1>3 DEF Sorted
  <2>1. i + 1 < j + 1
    OBVIOUS
  <2> QED
    BY <1>1, <1>4, <2>1 DEF Sorted
<1>9. \A i \in 1 .. n : l[i + 1] # l[1]
  <2>1. 1 \in 1 .. n + 1
    OBVIOUS
  <2> QED
    BY <1>2, <1>4, <1>6, <2>1
<1>10. ToSet(Tail(l)) = {l[i + 1] : i \in 1 .. n}
  BY <1>3 DEF ToSet
<1>11. ToSet(l) = {l[i] : i \in 1 .. n + 1}
  BY <1>1 DEF ToSet
<1>12. ToSet(Tail(l)) = ToSet(l) \ {Head(l)}
  BY <1>3, <1>4, <1>5, <1>9, <1>10, <1>11
<1> QED
  BY <1>3, <1>7, <1>8, <1>12

\* What read_dir_entries returns lists each child once.
LEMMA ListsChildren ==
    ASSUME NEW t \in FileSystems, NEW p \in DOMAIN t,
           NEW entries \in SetToSeqs(Children(t, p))
    PROVE  entries \in Seq(Name) /\ ToSet(entries) = Children(t, p)
<1> DEFINE C == Children(t, p)
           n == Cardinality(C)
<1>1. IsFiniteSet(C) /\ n \in Nat
  <2> DEFINE path == [c \in C |-> Append(p, c)]
  <2>1. p \in Seq(Name) /\ IsFiniteSet(DOMAIN t)
    BY TreesAssumption
  <2>2. path \in [C -> DOMAIN t]
    BY DEF Children
  <2>3. \A a, b \in C : path[a] = path[b] => a = b
    BY <2>1, AppendInjective DEF Children
  <2> QED
    BY <2>1, <2>2, <2>3, Fun_IsInj, FS_Injection, FS_CardinalityType
<1>2. /\ entries \in [1 .. n -> C]
      /\ \A a, b \in 1 .. n : entries[a] = entries[b] => a = b
  BY DEF SetToSeqs
<1>3. IsFiniteSet(1 .. n) /\ Cardinality(1 .. n) = n
  BY <1>1, FS_Interval
<1>4. entries \in Surjection(1 .. n, C)
  BY <1>1, <1>2, <1>3, Fun_IsInj, FS_Injection
<1>5. ToSet(entries) = C
  BY <1>2, <1>4 DEF ToSet, Surjection
<1>6. entries \in Seq(Name)
  BY <1>1, <1>2 DEF Children
<1> QED
  BY <1>5, <1>6

-----------------------------------------------------------------------------
(***************************************************************************)
(* The activations below the innermost one, each of them in a child of its *)
(* directory: the directory of the i-th is the child_path of the one that  *)
(* called it.  Open says that they are in the tree, Rest what they have    *)
(* still to write once the innermost activation is done, and Pending which *)
(* nodes they have still to visit.                                         *)
(***************************************************************************)
PathOf(b) == IF b = <<>> THEN <<>> ELSE Last(b).childPath
DirOf(b, i) == IF i = 1 THEN <<>> ELSE b[i - 1].childPath

Listing(t, d, l) == Sorted(l) /\ ToSet(l) \subseteq Children(t, d)

FrameAt(t, d, f) ==
    /\ d \in DOMAIN t /\ Listing(t, d, f.left)
    /\ \E c \in Children(t, d) : f.childPath = Append(d, c)

Open(t, b) ==
    /\ b \in Seq(Call)
    /\ \A i \in 1 .. Len(b) : FrameAt(t, DirOf(b, i), b[i]) /\ Len(DirOf(b, i)) = i - 1

RestIs(t, b, after) ==
    /\ after \in [0 .. Len(b) -> Seq(Token)] /\ after[0] = <<>>
    /\ \A i \in 1 .. Len(b) :
          after[i] = EntriesOf[t][DirOf(b, i)][ToSet(b[i].left)] \o after[i - 1]

Rest(t, b, w) == \E after : RestIs(t, b, after) /\ w = after[Len(b)]

Under(p, q) == Len(p) <= Len(q) /\ \A k \in 1 .. Len(p) : q[k] = p[k]

AwaitedIn(d, l, q) == \E c \in ToSet(l) : Under(Append(d, c), q)

Pending(b, q) == \E i \in 1 .. Len(b) : AwaitedIn(DirOf(b, i), b[i].left, q)

LEMMA Appended ==
    ASSUME NEW b \in Seq(Call), NEW f \in Call
    PROVE  /\ Append(b, f) \in Seq(Call) /\ Append(b, f) # <<>>
           /\ Len(b) \in Nat /\ Len(Append(b, f)) = Len(b) + 1
           /\ Append(b, f)[Len(b) + 1] = f /\ DirOf(Append(b, f), Len(b) + 1) = PathOf(b)
           /\ \A i \in 1 .. Len(b) :
                 Append(b, f)[i] = b[i] /\ DirOf(Append(b, f), i) = DirOf(b, i)
           /\ PathOf(Append(b, f)) = f.childPath
<1>1. /\ Append(b, f) \in Seq(Call) /\ Append(b, f) # <<>>
      /\ Len(b) \in Nat /\ Len(Append(b, f)) = Len(b) + 1
      /\ Append(b, f)[Len(b) + 1] = f
      /\ \A i \in 1 .. Len(b) : Append(b, f)[i] = b[i]
  BY AppendProperties, LenProperties
<1>2. ASSUME NEW i \in 1 .. Len(b) PROVE DirOf(Append(b, f), i) = DirOf(b, i)
  <2>1. i # 1 => i - 1 \in 1 .. Len(b)
    BY <1>1
  <2> QED
    BY <1>1, <2>1 DEF DirOf
<1>3. DirOf(Append(b, f), Len(b) + 1) = PathOf(b)
  <2>1. CASE b = <<>>
    BY <2>1, EmptySeq DEF DirOf, PathOf
  <2>2. CASE b # <<>>
    <3>1. PICK n \in Nat : Len(b) = n + 1 /\ Last(b) = b[n + 1]
      BY <2>2, FrontFacts
    <3>2. Len(b) + 1 # 1 /\ (Len(b) + 1) - 1 = n + 1 /\ n + 1 \in 1 .. Len(b)
      BY <3>1
    <3> QED
      BY <1>1, <2>2, <3>1, <3>2 DEF DirOf, PathOf
  <2> QED
    BY <2>1, <2>2
<1>4. PathOf(Append(b, f)) = f.childPath
  BY <1>1, LastOfAppend DEF PathOf
<1> QED
  BY <1>1, <1>2, <1>3, <1>4

LEMMA UpToLast ==
    ASSUME NEW n \in Nat
    PROVE  1 .. n + 1 = 1 .. n \cup {n + 1} /\ n + 1 \notin 1 .. n
OBVIOUS

LEMMA OpenAppend ==
    ASSUME NEW t, NEW b \in Seq(Call), NEW f \in Call
    PROVE  Open(t, Append(b, f)) <=>
              Open(t, b) /\ FrameAt(t, PathOf(b), f) /\ Len(PathOf(b)) = Len(b)
<1>1. 1 .. Len(Append(b, f)) = 1 .. Len(b) \cup {Len(b) + 1}
  BY Appended, UpToLast
<1>2. (Len(b) + 1) - 1 = Len(b)
  BY Appended
<1> HIDE DEF FrameAt
<1> QED
  BY <1>1, <1>2, Appended DEF Open

LEMMA PendingAppend ==
    ASSUME NEW b \in Seq(Call), NEW f \in Call, NEW q
    PROVE  Pending(Append(b, f), q) <=> Pending(b, q) \/ AwaitedIn(PathOf(b), f.left, q)
<1>1. 1 .. Len(Append(b, f)) = 1 .. Len(b) \cup {Len(b) + 1}
  BY Appended, UpToLast
<1> QED
  BY <1>1, Appended DEF Pending

LEMMA RestPushed ==
    ASSUME NEW t, NEW b \in Seq(Call), NEW f \in Call, NEW v, Rest(t, b, v),
           EntriesOf[t][PathOf(b)][ToSet(f.left)] \o v \in Seq(Token)
    PROVE  Rest(t, Append(b, f), EntriesOf[t][PathOf(b)][ToSet(f.left)] \o v)
<1> DEFINE n == Len(b)
           cs == Append(b, f)
           w == EntriesOf[t][PathOf(b)][ToSet(f.left)] \o v
<1>1. PICK after : RestIs(t, b, after) /\ v = after[n]
  BY DEF Rest
<1> DEFINE more == [i \in 0 .. n + 1 |-> IF i = n + 1 THEN w ELSE after[i]]
<1>2. n \in Nat /\ Len(cs) = n + 1 /\ 1 .. Len(cs) = 1 .. n \cup {n + 1}
  BY Appended, UpToLast
<1>3. more \in [0 .. Len(cs) -> Seq(Token)]
  <2>1. \A i \in 0 .. n + 1 : i = n + 1 \/ i \in 0 .. n
    BY <1>2
  <2>2. \A i \in 0 .. n : after[i] \in Seq(Token)
    BY <1>1 DEF RestIs
  <2> QED
    BY <1>2, <2>1, <2>2
<1>4. \A i \in 0 .. n : more[i] = after[i]
  BY <1>2
<1>5. more[0] = <<>> /\ more[n] = v /\ more[n + 1] = w
  <2>1. 0 \in 0 .. n /\ n \in 0 .. n /\ n + 1 \in 0 .. n + 1
    BY <1>2
  <2>2. more[n + 1] = w
    BY <2>1
  <2>3. after[0] = <<>>
    BY <1>1 DEF RestIs
  <2> HIDE DEF more
  <2> QED
    BY <1>1, <1>4, <2>1, <2>2, <2>3
<1>6. ASSUME NEW i \in 1 .. n
      PROVE  more[i] = EntriesOf[t][DirOf(cs, i)][ToSet(cs[i].left)] \o more[i - 1]
  <2>1. i \in 0 .. n /\ i - 1 \in 0 .. n
    BY <1>2
  <2>2. more[i] = after[i] /\ more[i - 1] = after[i - 1]
    BY <1>4, <2>1
  <2>3. DirOf(cs, i) = DirOf(b, i) /\ cs[i] = b[i]
    BY Appended
  <2> QED
    BY <1>1, <2>2, <2>3 DEF RestIs
<1>7. more[n + 1] = EntriesOf[t][DirOf(cs, n + 1)][ToSet(cs[n + 1].left)] \o more[(n + 1) - 1]
  <2>1. (n + 1) - 1 = n
    BY <1>2
  <2>2. DirOf(cs, n + 1) = PathOf(b) /\ cs[n + 1] = f
    BY Appended
  <2> QED
    BY <1>5, <2>1, <2>2
<1> HIDE DEF more
<1>8. RestIs(t, cs, more)
  BY <1>2, <1>3, <1>5, <1>6, <1>7 DEF RestIs
<1>9. w = more[Len(cs)]
  BY <1>2, <1>5
<1> QED
  BY <1>8, <1>9 DEF Rest

LEMMA RestPopped ==
    ASSUME NEW t \in FileSystems, NEW b \in Seq(Call), NEW f \in Call,
           NEW w \in Seq(Token), Rest(t, Append(b, f), w)
    PROVE  \E v \in Seq(Token) :
              Rest(t, b, v) /\ w = EntriesOf[t][PathOf(b)][ToSet(f.left)] \o v
<1> DEFINE n == Len(b)
           cs == Append(b, f)
<1>1. PICK after : RestIs(t, cs, after) /\ w = after[Len(cs)]
  BY DEF Rest
<1> DEFINE less == [i \in 0 .. n |-> after[i]]
<1>2. n \in Nat /\ Len(cs) = n + 1 /\ n + 1 \in 1 .. Len(cs) /\ (n + 1) - 1 = n
  BY Appended
<1>3. \A i \in 0 .. n : i \in 0 .. Len(cs) /\ after[i] \in Seq(Token)
  <2>1. \A i \in 0 .. n : i \in 0 .. Len(cs)
    BY <1>2
  <2> QED
    BY <1>1, <2>1 DEF RestIs
<1>4. ASSUME NEW i \in 1 .. n
      PROVE  less[i] = EntriesOf[t][DirOf(b, i)][ToSet(b[i].left)] \o less[i - 1]
  <2>1. i \in 0 .. n /\ i - 1 \in 0 .. n /\ i \in 1 .. Len(cs)
    BY <1>2
  <2>2. less[i] = after[i] /\ less[i - 1] = after[i - 1]
    BY <2>1
  <2>3. DirOf(cs, i) = DirOf(b, i) /\ cs[i] = b[i]
    BY Appended
  <2> QED
    BY <1>1, <2>1, <2>2, <2>3 DEF RestIs
<1>5. less \in [0 .. n -> Seq(Token)] /\ less[0] = <<>> /\ less[n] = after[n]
  BY <1>1, <1>2, <1>3 DEF RestIs
<1>6. after[n + 1] = EntriesOf[t][PathOf(b)][ToSet(f.left)] \o after[n]
  <2>1. DirOf(cs, n + 1) = PathOf(b) /\ cs[n + 1] = f
    BY Appended
  <2> QED
    BY <1>1, <1>2, <2>1 DEF RestIs
<1> HIDE DEF less
<1>7. RestIs(t, b, less)
  BY <1>4, <1>5 DEF RestIs
<1>8. Rest(t, b, after[n])
  BY <1>5, <1>7 DEF Rest
<1>9. after[n] \in Seq(Token) /\ w = after[n + 1]
  <2>1. n \in 0 .. n
    BY <1>2
  <2> QED
    BY <1>1, <1>2, <1>3, <2>1
<1> QED
  BY <1>6, <1>8, <1>9

LEMMA RestOfNone ==
    ASSUME NEW t
    PROVE  /\ Rest(t, <<>>, <<>>)
           /\ \A w : Rest(t, <<>>, w) => w = <<>>
<1>1. Len(<<>>) = 0 /\ <<>> \in Seq(Token) /\ 1 .. 0 = {}
  BY TokenSeqs
<1>2. RestIs(t, <<>>, [i \in 0 .. 0 |-> <<>>])
  BY <1>1 DEF RestIs
<1>3. Rest(t, <<>>, <<>>)
  <2>1. <<>> = [i \in 0 .. 0 |-> <<>>][Len(<<>>)]
    BY <1>1
  <2> QED
    BY <1>2, <2>1 DEF Rest
<1>4. ASSUME NEW w, Rest(t, <<>>, w) PROVE w = <<>>
  <2>1. PICK after : RestIs(t, <<>>, after) /\ w = after[Len(<<>>)]
    BY <1>4 DEF Rest
  <2> QED
    BY <1>1, <2>1 DEF RestIs
<1> QED
  BY <1>3, <1>4

\* The innermost activation is at a node of the tree, as deep as it is nested.
LEMMA OpenPath ==
    ASSUME NEW t \in FileSystems, NEW b, Open(t, b)
    PROVE  PathOf(b) \in DOMAIN t /\ PathOf(b) \in Seq(Name) /\ Len(PathOf(b)) = Len(b)
<1>1. b \in Seq(Call)
  BY DEF Open
<1>2. CASE b = <<>>
  BY <1>2, TreesAssumption DEF PathOf
<1>3. CASE b # <<>>
  <2>1. PICK r \in Seq(Call), f \in Call : b = Append(r, f)
    BY <1>1, <1>3, SequenceEmptyOrAppend
  <2>2. FrameAt(t, PathOf(r), f) /\ Len(PathOf(r)) = Len(r)
    BY <2>1, OpenAppend
  <2>3. PICK c \in Name : /\ Append(PathOf(r), c) \in DOMAIN t
                          /\ f.childPath = Append(PathOf(r), c)
    BY <2>2 DEF FrameAt, Children
  <2>4. PathOf(b) = f.childPath /\ Len(b) = Len(r) + 1
    BY <2>1, Appended
  <2>5. PathOf(r) \in Seq(Name)
    BY <2>2, TreesAssumption DEF FrameAt
  <2>6. Len(Append(PathOf(r), c)) = Len(PathOf(r)) + 1 /\ Append(PathOf(r), c) \in Seq(Name)
    BY <2>5, AppendProperties
  <2> QED
    BY <2>2, <2>3, <2>4, <2>6
<1> QED
  BY <1>2, <1>3

-----------------------------------------------------------------------------
(***************************************************************************)
(* Where the walk is, and the part x of the NAR that is not yet given to   *)
(* the writer: the innermost activation is about to visit its node, is     *)
(* about to return, or is in its loop over the entries l.  A node that a   *)
(* NAR cannot hold is still ahead of the walk.                             *)
(***************************************************************************)
Others(t) == {q \in DOMAIN t : t[q].type = "other"}

Visiting(t, cs, x) ==
    /\ Open(t, cs)
    /\ \E w \in Seq(Token) : Rest(t, cs, w) /\ x = NarOf[t][PathOf(cs)] \o w
    /\ \A q \in Others(t) : Under(PathOf(cs), q) \/ Pending(cs, q)

Returning(t, cs, x) ==
    /\ Open(t, cs)
    /\ x \in Seq(Token) /\ Rest(t, cs, x)
    /\ \A q \in Others(t) : Pending(cs, q)

Looping(t, cs, x) ==
    \E b \in Seq(Call), l \in Seq(Name) :
        /\ cs = Append(b, [childPath |-> PathOf(b), left |-> l])
        /\ Open(t, b) /\ Listing(t, PathOf(b), l)
        /\ \E w \in Seq(Token) :
              Rest(t, b, w) /\ x = EntriesOf[t][PathOf(b)][ToSet(l)] \o w
        /\ \A q \in Others(t) : AwaitedIn(PathOf(b), l, q) \/ Pending(b, q)

\* What is under a directory is under one of its children.
LEMMA UnderAChild ==
    ASSUME NEW t \in FileSystems, NEW p \in DOMAIN t, NEW q \in Others(t),
           t[p].type = "directory", Under(p, q)
    PROVE  \E c \in Children(t, p) : Under(Append(p, c), q)
<1>1. /\ q \in DOMAIN t /\ t[q].type = "other" /\ p \in Seq(Name) /\ q \in Seq(Name)
      /\ \A k \in 0 .. Len(q) - 1 : SubSeq(q, 1, k) \in DOMAIN t
  BY TreesAssumption DEF Others
<1>2. Len(p) \in Nat /\ Len(q) \in Nat /\ Len(p) <= Len(q)
  BY <1>1, LenProperties DEF Under
<1>3. \A k \in 1 .. Len(p) : q[k] = p[k]
  BY DEF Under
<1>4. Len(p) # Len(q)
  <2> SUFFICES ASSUME Len(p) = Len(q) PROVE FALSE
    OBVIOUS
  <2>1. p = q
    BY <1>1, <1>3, SeqEqual
  <2> QED
    BY <1>1, <2>1
<1> DEFINE m == Len(p) + 1
           c == q[m]
<1>5. m \in 1 .. Len(q) /\ m \in Nat
  BY <1>2, <1>4
<1>6. c \in Name /\ \A k \in 1 .. Len(q) : q[k] \in Name
  BY <1>1, <1>5, ElementOfSeq
<1>7. /\ Append(p, c) \in Seq(Name) /\ Len(Append(p, c)) = m /\ Append(p, c)[m] = c
      /\ \A k \in 1 .. Len(p) : Append(p, c)[k] = p[k]
  BY <1>1, <1>6, AppendProperties
<1>8. \A k \in 1 .. m : Append(p, c)[k] = q[k]
  <2>1. \A k \in 1 .. m : k = m \/ k \in 1 .. Len(p)
    BY <1>2
  <2> QED
    BY <1>3, <1>7, <2>1
<1> HIDE DEF c, m
<1>9. SubSeq(q, 1, m) = Append(p, c)
  <2>1. \A k \in 1 .. m : q[k] \in Name
    <3>1. \A k \in 1 .. m : k \in 1 .. Len(q)
      BY <1>2, <1>5
    <3> QED
      BY <1>6, <3>1
  <2>2. /\ SubSeq(q, 1, m) \in Seq(Name) /\ Len(SubSeq(q, 1, m)) = m
        /\ \A k \in 1 .. m : SubSeq(q, 1, m)[k] = q[k]
    BY <1>1, <1>5, <2>1, SubSeqProperties
  <2> QED
    BY <1>7, <1>8, <2>2, SeqEqual
<1>10. Append(p, c) \in DOMAIN t
  <2>1. CASE m = Len(q)
    BY <1>1, <1>9, <2>1, SubSeqFull
  <2>2. CASE m # Len(q)
    <3>1. m \in 0 .. Len(q) - 1
      BY <1>2, <1>5, <2>2
    <3> QED
      BY <1>1, <1>9, <3>1
  <2> QED
    BY <2>1, <2>2
<1>11. Under(Append(p, c), q)
  <2>1. m <= Len(q)
    BY <1>2, <1>5
  <2> QED
    BY <1>7, <1>8, <2>1 DEF Under
<1> QED
  BY <1>6, <1>10, <1>11 DEF Children

LEMMA EntriesFacts ==
    ASSUME NEW t \in FileSystems, NEW p \in DOMAIN t, NEW S \in SUBSET Children(t, p)
    PROVE  /\ EntriesOf[t][p][S] \in Seq(Token)
           /\ S = {} => EntriesOf[t][p][S] = <<CloseToken>>
           /\ \A n \in S : (\A m \in S : n <= m) =>
                 EntriesOf[t][p][S] = <<EntryToken(n)>> \o (NarOf[t][Append(p, n)]
                                                               \o EntriesOf[t][p][S \ {n}])
BY FormatAssumption

\* VisitDirectory.
LEMMA DirectoryVisited ==
    ASSUME NEW t \in FileSystems, NEW cs \in Seq(Call), NEW x \in Seq(Token),
           Visiting(t, cs, x),
           t[PathOf(cs)].type = "directory",
           NEW l \in Seq(Name), Sorted(l), ToSet(l) = Children(t, PathOf(cs))
    PROVE  \E y \in Seq(Token) :
              /\ Looping(t, Append(cs, [childPath |-> PathOf(cs), left |-> l]), y)
              /\ x = <<DirectoryToken>> \o y
<1> DEFINE p == PathOf(cs)
<1>1. Open(t, cs) /\ cs \in Seq(Call) /\ p \in DOMAIN t
  BY OpenPath DEF Visiting, Open
<1>2. PICK w \in Seq(Token) : Rest(t, cs, w) /\ x = NarOf[t][p] \o w
  BY DEF Visiting
<1>3. NarOf[t][p] = <<DirectoryToken>> \o EntriesOf[t][p][ToSet(l)]
  BY <1>1, FormatAssumption
<1>4. EntriesOf[t][p][ToSet(l)] \in Seq(Token) /\ <<DirectoryToken>> \in Seq(Token)
  BY <1>1, EntriesFacts, TokenSeqs
<1> DEFINE entries == EntriesOf[t][p][ToSet(l)]
           y == entries \o w
<1>5. x = <<DirectoryToken>> \o y /\ y \in Seq(Token)
  <2> HIDE DEF entries
  <2>1. x = (<<DirectoryToken>> \o entries) \o w
    BY <1>2, <1>3 DEF entries
  <2>2. entries \in Seq(Token) /\ <<DirectoryToken>> \in Seq(Token)
    BY <1>4 DEF entries
  <2> QED
    BY <2>1, <2>2, TokenSeqs
<1>6. Listing(t, p, l)
  BY DEF Listing
<1>7. \A q \in Others(t) : AwaitedIn(p, l, q) \/ Pending(cs, q)
  BY <1>1, UnderAChild DEF Visiting, AwaitedIn
<1>8. Looping(t, Append(cs, [childPath |-> p, left |-> l]), y)
  BY <1>1, <1>2, <1>6, <1>7 DEF Looping
<1> QED
  BY <1>5, <1>8

\* VisitLeaf.
LEMMA LeafVisited ==
    ASSUME NEW t \in FileSystems, NEW cs \in Seq(Call), NEW x \in Seq(Token),
           Visiting(t, cs, x),
           t[PathOf(cs)].type \in {"symlink", "file"}
    PROVE  \E y \in Seq(Token) : Returning(t, cs, y) /\ x = NarOf[t][PathOf(cs)] \o y
<1> DEFINE p == PathOf(cs)
<1>1. Open(t, cs) /\ p \in DOMAIN t /\ p \in Seq(Name)
  BY OpenPath DEF Visiting
<1>2. PICK w \in Seq(Token) : Rest(t, cs, w) /\ x = NarOf[t][p] \o w
  BY DEF Visiting
<1>3. ASSUME NEW q \in Others(t) PROVE ~Under(p, q)
  <2> SUFFICES ASSUME Under(p, q) PROVE FALSE
    OBVIOUS
  <2>1. /\ q \in DOMAIN t /\ t[q].type = "other" /\ q \in Seq(Name)
        /\ \A k \in 0 .. Len(q) - 1 : t[SubSeq(q, 1, k)].type = "directory"
    BY TreesAssumption DEF Others
  <2>2. Len(p) \in Nat /\ Len(q) \in Nat /\ Len(p) <= Len(q)
    BY <1>1, <2>1, LenProperties DEF Under
  <2>3. \A k \in 1 .. Len(p) : q[k] = p[k] /\ q[k] \in Name
    BY <1>1, ElementOfSeq DEF Under
  <2>4. SubSeq(q, 1, Len(p)) = p
    <3>1. /\ SubSeq(q, 1, Len(p)) \in Seq(Name) /\ Len(SubSeq(q, 1, Len(p))) = Len(p)
          /\ \A k \in 1 .. Len(p) : SubSeq(q, 1, Len(p))[k] = q[k]
      BY <2>1, <2>2, <2>3, SubSeqProperties
    <3> QED
      BY <1>1, <2>3, <3>1, SeqEqual
  <2>5. CASE Len(p) = Len(q)
    BY <2>1, <2>4, <2>5, SubSeqFull
  <2>6. CASE Len(p) # Len(q)
    <3>1. Len(p) \in 0 .. Len(q) - 1
      BY <2>2, <2>6
    <3> QED
      BY <2>1, <2>4, <3>1
  <2> QED
    BY <2>5, <2>6
<1>4. Returning(t, cs, w)
  BY <1>1, <1>2, <1>3 DEF Visiting, Returning
<1> QED
  BY <1>2, <1>4

\* EnterChild.
LEMMA ChildEntered ==
    ASSUME NEW t \in FileSystems, NEW cs \in Seq(Call), NEW x \in Seq(Token),
           Looping(t, cs, x), Last(cs).left # <<>>
    PROVE  LET call == Last(cs)
               child == [childPath |-> Append(call.childPath, Head(call.left)),
                         left |-> Tail(call.left)]
           IN  /\ Head(call.left) \in Name
               /\ \E y \in Seq(Token) :
                     /\ Visiting(t, Append(Front(cs), child), y)
                     /\ x = <<EntryToken(Head(call.left))>> \o y
<1>1. PICK b \in Seq(Call), l \in Seq(Name) :
         /\ cs = Append(b, [childPath |-> PathOf(b), left |-> l])
         /\ Open(t, b) /\ Listing(t, PathOf(b), l)
         /\ \E w \in Seq(Token) :
               Rest(t, b, w) /\ x = EntriesOf[t][PathOf(b)][ToSet(l)] \o w
         /\ \A q \in Others(t) : AwaitedIn(PathOf(b), l, q) \/ Pending(b, q)
  BY DEF Looping
<1> DEFINE p == PathOf(b)
           n == Head(l)
           f == [childPath |-> Append(p, n), left |-> Tail(l)]
<1>2. p \in DOMAIN t /\ p \in Seq(Name) /\ Len(p) = Len(b)
  BY <1>1, OpenPath
<1>3. Last(cs) = [childPath |-> p, left |-> l] /\ Front(cs) = b /\ l # <<>>
  <2>1. [childPath |-> p, left |-> l] \in Call
    BY <1>2 DEF Call
  <2>2. Last(cs) = [childPath |-> p, left |-> l] /\ Front(cs) = b
    BY <1>1, <2>1, LastOfAppend, FrontOfAppend
  <2> QED
    BY <2>2
<1>4. Sorted(l) /\ ToSet(l) \subseteq Children(t, p)
  BY <1>1 DEF Listing
<1>5. /\ n \in ToSet(l) /\ n \in Name /\ \A m \in ToSet(l) : n <= m
      /\ Tail(l) \in Seq(Name) /\ Sorted(Tail(l))
      /\ ToSet(Tail(l)) = ToSet(l) \ {n}
  BY <1>3, <1>4, HeadOfSorted
<1>6. f \in Call
  BY <1>2, <1>5, AppendProperties DEF Call
<1>7. n \in Children(t, p) /\ Append(p, n) \in DOMAIN t
  BY <1>4, <1>5 DEF Children
<1>8. FrameAt(t, p, f)
  BY <1>2, <1>4, <1>5, <1>7 DEF FrameAt, Listing
<1>9. Open(t, Append(b, f)) /\ PathOf(Append(b, f)) = Append(p, n)
  BY <1>1, <1>2, <1>6, <1>8, OpenAppend, Appended
<1>10. PICK w \in Seq(Token) : Rest(t, b, w) /\ x = EntriesOf[t][p][ToSet(l)] \o w
  BY <1>1
<1> DEFINE later == EntriesOf[t][p][ToSet(Tail(l))]
           here == NarOf[t][Append(p, n)]
<1>11. /\ <<EntryToken(n)>> \in Seq(Token) /\ here \in Seq(Token)
       /\ later \in Seq(Token) /\ later \o w \in Seq(Token)
  <2>1. ToSet(Tail(l)) \in SUBSET Children(t, p)
    BY <1>4, <1>5
  <2>2. later \in Seq(Token)
    BY <1>2, <2>1, EntriesFacts
  <2>3. here \in Seq(Token)
    BY <1>7, FormatAssumption
  <2> QED
    BY <1>5, <2>2, <2>3, TokenSeqs
<1>12. EntriesOf[t][p][ToSet(l)] = <<EntryToken(n)>> \o (here \o later)
  <2>1. ToSet(l) \in SUBSET Children(t, p)
    BY <1>4
  <2> DEFINE S == ToSet(l)
  <2> HIDE DEF n, p, S
  <2>2. \A k \in S : (\A m \in S : k <= m) =>
           EntriesOf[t][p][S] =
               <<EntryToken(k)>> \o (NarOf[t][Append(p, k)] \o EntriesOf[t][p][S \ {k}])
    <3>1. S \in SUBSET Children(t, p)
      BY <2>1 DEF S
    <3> QED
      BY <1>2, <3>1, EntriesFacts
  <2>3. n \in S /\ \A m \in S : n <= m
    BY <1>5 DEF S
  <2>4. EntriesOf[t][p][S] =
           <<EntryToken(n)>> \o (NarOf[t][Append(p, n)] \o EntriesOf[t][p][S \ {n}])
    BY <2>2, <2>3
  <2>5. S \ {n} = ToSet(Tail(l))
    BY <1>5 DEF S
  <2> QED
    BY <2>4, <2>5 DEF S
<1>13. Rest(t, Append(b, f), later \o w)
  BY <1>6, <1>10, <1>11, RestPushed
<1> DEFINE y == here \o (later \o w)
<1>14. y \in Seq(Token) /\ x = <<EntryToken(n)>> \o y
  <2> HIDE DEF here, later
  <2>1. /\ <<EntryToken(n)>> \in Seq(Token) /\ here \in Seq(Token)
        /\ later \in Seq(Token) /\ w \in Seq(Token)
    BY <1>11
  <2>2. PICK s : s = <<EntryToken(n)>> \o (here \o later) /\ x = s \o w
    BY <1>10, <1>12
  <2>3. x = <<EntryToken(n)>> \o (here \o (later \o w))
    BY ONLY <2>1, <2>2, Spliced, SMTT(60)
  <2>4. later \o w \in Seq(Token)
    BY <1>11
  <2>5. here \o (later \o w) \in Seq(Token)
    BY <2>1, <2>4, TokenSeqs
  <2> QED
    BY <2>3, <2>5
<1>15. ASSUME NEW q \in Others(t)
       PROVE  Under(Append(p, n), q) \/ Pending(Append(b, f), q)
  <2>1. AwaitedIn(p, l, q) => Under(Append(p, n), q) \/ AwaitedIn(p, f.left, q)
    BY <1>5 DEF AwaitedIn
  <2> QED
    BY <1>1, <1>6, <2>1, PendingAppend
<1>16. Visiting(t, Append(b, f), y)
  BY <1>9, <1>11, <1>13, <1>15 DEF Visiting
<1>17. Last(cs).left = l /\ Last(cs).childPath = p
  BY <1>3
<1> HIDE DEF y
<1> QED
  BY <1>3, <1>5, <1>14, <1>16, <1>17

\* CloseDirectory.
LEMMA DirectoryClosed ==
    ASSUME NEW t \in FileSystems, NEW cs \in Seq(Call), NEW x \in Seq(Token),
           Looping(t, cs, x), Last(cs).left = <<>>
    PROVE  \E y \in Seq(Token) : Returning(t, Front(cs), y) /\ x = <<CloseToken>> \o y
<1>1. PICK b \in Seq(Call), l \in Seq(Name) :
         /\ cs = Append(b, [childPath |-> PathOf(b), left |-> l])
         /\ Open(t, b) /\ Listing(t, PathOf(b), l)
         /\ \E w \in Seq(Token) :
               Rest(t, b, w) /\ x = EntriesOf[t][PathOf(b)][ToSet(l)] \o w
         /\ \A q \in Others(t) : AwaitedIn(PathOf(b), l, q) \/ Pending(b, q)
  BY DEF Looping
<1>2. PathOf(b) \in DOMAIN t /\ PathOf(b) \in Seq(Name)
  BY <1>1, OpenPath
<1>3. Front(cs) = b /\ l = <<>>
  <2>1. [childPath |-> PathOf(b), left |-> l] \in Call
    BY <1>2 DEF Call
  <2>2. Last(cs) = [childPath |-> PathOf(b), left |-> l] /\ Front(cs) = b
    BY <1>1, <2>1, LastOfAppend, FrontOfAppend
  <2> QED
    BY <2>2
<1>4. ToSet(l) = {}
  BY <1>3 DEF ToSet
<1>5. EntriesOf[t][PathOf(b)][ToSet(l)] = <<CloseToken>>
  BY <1>2, <1>4, EntriesFacts
<1>6. \A q \in Others(t) : Pending(b, q)
  BY <1>1, <1>4 DEF AwaitedIn
<1> QED
  BY <1>1, <1>3, <1>5, <1>6 DEF Returning

LEMMA PathReplaced ==
    ASSUME NEW f \in Call
    PROVE  [f EXCEPT !.childPath = Front(@)] = [childPath |-> Front(f.childPath), left |-> f.left]
BY DEF Call

\* ReturnToLoop.
LEMMA ChildLeft ==
    ASSUME NEW t \in FileSystems, NEW cs \in Seq(Call), NEW x \in Seq(Token),
           Returning(t, cs, x), cs # <<>>
    PROVE  Looping(t, Append(Front(cs), [Last(cs) EXCEPT !.childPath = Front(@)]), x)
<1>1. Open(t, cs) /\ cs \in Seq(Call)
  BY DEF Returning, Open
<1>2. PICK b \in Seq(Call), f \in Call : cs = Append(b, f)
  BY <1>1, SequenceEmptyOrAppend
<1>3. Front(cs) = b /\ Last(cs) = f
  BY <1>2, FrontOfAppend, LastOfAppend
<1>4. Open(t, b) /\ FrameAt(t, PathOf(b), f)
  BY <1>1, <1>2, OpenAppend
<1>5. PathOf(b) \in Seq(Name) /\ f.left \in Seq(Name)
  BY <1>4, OpenPath DEF Call
<1>6. Front(f.childPath) = PathOf(b)
  <2>1. PICK c \in Name : f.childPath = Append(PathOf(b), c)
    BY <1>4 DEF FrameAt, Children
  <2> QED
    BY <1>5, <2>1, FrontOfAppend
<1>7. [f EXCEPT !.childPath = Front(@)] = [childPath |-> PathOf(b), left |-> f.left]
  BY <1>6, PathReplaced
<1>8. \E w \in Seq(Token) : Rest(t, b, w) /\ x = EntriesOf[t][PathOf(b)][ToSet(f.left)] \o w
  <2>1. x \in Seq(Token) /\ Rest(t, Append(b, f), x)
    BY <1>2 DEF Returning
  <2> QED
    BY <2>1, RestPopped
<1>9. \A q \in Others(t) : AwaitedIn(PathOf(b), f.left, q) \/ Pending(b, q)
  BY <1>2, PendingAppend DEF Returning
<1>10. Listing(t, PathOf(b), f.left)
  BY <1>4 DEF FrameAt
<1> QED
  BY <1>3, <1>4, <1>5, <1>7, <1>8, <1>9, <1>10 DEF Looping

\* Shutdown.
LEMMA RootLeft ==
    ASSUME NEW t, NEW x, Returning(t, <<>>, x)
    PROVE  x = <<>> /\ Others(t) = {}
<1>1. \A q : ~Pending(<<>>, q)
  BY DEF Pending
<1> QED
  BY <1>1, RestOfNone DEF Returning

\* The shape of the activations, wherever the walk is.
Shaped(cs) == /\ cs \in Seq(Call)
              /\ \A i \in DOMAIN cs : Len(cs[i].childPath) \in {i - 1, i}

LEMMA OpenShaped ==
    ASSUME NEW t \in FileSystems, NEW b, Open(t, b)
    PROVE  Shaped(b)
<1>1. b \in Seq(Call) /\ DOMAIN b = 1 .. Len(b)
  BY LenProperties DEF Open
<1>2. ASSUME NEW i \in 1 .. Len(b) PROVE Len(b[i].childPath) = i
  <2>1. Len(DirOf(b, i)) = i - 1 /\ FrameAt(t, DirOf(b, i), b[i])
    BY DEF Open
  <2>2. PICK c \in Name : b[i].childPath = Append(DirOf(b, i), c)
    BY <2>1 DEF FrameAt, Children
  <2>3. DirOf(b, i) \in Seq(Name)
    BY <2>1, TreesAssumption DEF FrameAt
  <2>4. Len(b[i].childPath) = Len(DirOf(b, i)) + 1
    BY <2>2, <2>3, AppendProperties
  <2> QED
    BY <2>1, <2>4
<1> QED
  BY <1>1, <1>2 DEF Shaped

LEMMA LoopShaped ==
    ASSUME NEW t \in FileSystems, NEW cs, NEW x, Looping(t, cs, x)
    PROVE  Shaped(cs) /\ cs # <<>> /\ x \in Seq(Token)
<1>1. PICK b \in Seq(Call), l \in Seq(Name) :
         /\ cs = Append(b, [childPath |-> PathOf(b), left |-> l])
         /\ Open(t, b) /\ Listing(t, PathOf(b), l)
         /\ \E w \in Seq(Token) : x = EntriesOf[t][PathOf(b)][ToSet(l)] \o w
  BY DEF Looping
<1> DEFINE f == [childPath |-> PathOf(b), left |-> l]
<1>2. PathOf(b) \in DOMAIN t /\ PathOf(b) \in Seq(Name) /\ Len(PathOf(b)) = Len(b)
  BY <1>1, OpenPath
<1>3. f \in Call /\ f.childPath = PathOf(b)
  BY <1>2 DEF Call
<1> HIDE DEF f
<1>4. /\ cs \in Seq(Call) /\ cs # <<>> /\ Len(b) \in Nat /\ Len(cs) = Len(b) + 1
      /\ cs[Len(b) + 1] = f /\ \A i \in 1 .. Len(b) : cs[i] = b[i]
  BY <1>1, <1>3, Appended DEF f
<1>5. Shaped(b) /\ DOMAIN b = 1 .. Len(b) /\ DOMAIN cs = 1 .. Len(cs)
  BY <1>1, <1>4, OpenShaped, LenProperties
<1>6. 1 .. Len(cs) = 1 .. Len(b) \cup {Len(b) + 1} /\ Len(b) = (Len(b) + 1) - 1
  BY <1>4, UpToLast
<1>7. Len(cs[Len(b) + 1].childPath) = (Len(b) + 1) - 1
  BY <1>2, <1>3, <1>4, <1>6
<1>8. Shaped(cs)
  BY <1>4, <1>5, <1>6, <1>7 DEF Shaped
<1>9. x \in Seq(Token)
  <2>1. ToSet(l) \in SUBSET Children(t, PathOf(b))
    BY <1>1 DEF Listing
  <2>2. EntriesOf[t][PathOf(b)][ToSet(l)] \in Seq(Token)
    BY <1>2, <2>1, EntriesFacts
  <2> QED
    BY <1>1, <2>2, TokenSeqs
<1> QED
  BY <1>4, <1>8, <1>9

-----------------------------------------------------------------------------
(***************************************************************************)
(* The invariant: what is sent, what the writer has still to write and what*)
(* the walk has still to give to it make up the NAR of the tree.  When the *)
(* walk has failed, what is sent is still a beginning of it.               *)
(***************************************************************************)
Nar(t) == <<Magic>> \o NarOf[t][<<>>]

At(t, cs, p, x) ==
    /\ p = "visit" => Visiting(t, cs, x)
    /\ p = "loop" => Looping(t, cs, x)
    /\ p = "return" => Returning(t, cs, x)
    /\ p = "ok" => cs = <<>> /\ x = <<>> /\ Others(t) = {}

Sent == sent \in Seq(Token) /\ buf \in Seq(Token) /\ HashedIsSent

Walk == pc # "failed" => \E x \in Seq(Token) :
                            At(fs, calls, pc, x) /\ sent \o (buf \o x) = Nar(fs)

Begun == \E rest \in Seq(Token) : sent \o rest = Nar(fs)

Reason == pc = "failed" => fault \/ Others(fs) # {}

Written == pc = "ok" => buf = <<>>

Inv == TypeOK /\ Sent /\ Walk /\ Begun /\ Reason /\ Written

LEMMA InitInv == Init => Inv
<1> SUFFICES ASSUME Init PROVE Inv
  OBVIOUS
<1>1. /\ fs \in FileSystems /\ calls = <<>> /\ pc = "visit" /\ buf = <<Magic>>
      /\ sent = <<>> /\ sha256 = <<>> /\ numBytesWritten = 0 /\ fault = FALSE
  BY DEF Init
<1>2. <<>> \in Seq(Call) /\ Len(<<>>) = 0 /\ DOMAIN <<>> = {}
  BY EmptySeq
<1>3. TypeOK
  BY <1>1, <1>2 DEF TypeOK, Call
<1>4. <<Magic>> \in Seq(Token) /\ <<>> \in Seq(Token)
  BY TokenSeqs
<1>5. Sent
  BY <1>1, <1>2, <1>4 DEF Sent, HashedIsSent
<1>6. <<>> \in DOMAIN fs /\ NarOf[fs][<<>>] \in Seq(Token) /\ Nar(fs) \in Seq(Token)
  BY <1>1, <1>4, TreesAssumption, FormatAssumption, TokenSeqs DEF Nar
<1>7. Visiting(fs, <<>>, NarOf[fs][<<>>])
  <2>1. Open(fs, <<>>) /\ PathOf(<<>>) = <<>>
    BY <1>2 DEF Open, PathOf
  <2>2. \A q : Under(<<>>, q) <=> 0 <= Len(q)
    BY <1>2 DEF Under
  <2>3. \A q \in Others(fs) : q \in Seq(Name) /\ Len(q) \in Nat
    BY <1>1, TreesAssumption, LenProperties DEF Others
  <2>4. \A q \in Others(fs) : 0 <= Len(q)
    BY <2>3
  <2>5. Rest(fs, <<>>, <<>>) /\ NarOf[fs][<<>>] = NarOf[fs][<<>>] \o <<>>
    BY <1>6, RestOfNone, TokenSeqs
  <2> QED
    BY <1>4, <2>1, <2>2, <2>4, <2>5 DEF Visiting
<1>8. <<>> \o Nar(fs) = Nar(fs)
  BY <1>6, TokenSeqs
<1>9. Walk
  <2>1. At(fs, calls, pc, NarOf[fs][<<>>])
    BY <1>1, <1>7 DEF At
  <2>2. sent \o (buf \o NarOf[fs][<<>>]) = Nar(fs)
    BY <1>1, <1>8 DEF Nar
  <2> QED
    BY <1>6, <2>1, <2>2 DEF Walk
<1>10. Begun
  BY <1>1, <1>6, <1>8 DEF Begun
<1> QED
  BY <1>1, <1>3, <1>5, <1>9, <1>10 DEF Inv, Reason, Written

\* What the walk has still to give to the writer when the writer has nothing.
LEMMA Remaining ==
    ASSUME Inv, buf = <<>>, pc # "failed"
    PROVE  \E x \in Seq(Token) : At(fs, calls, pc, x) /\ sent \o x = Nar(fs)
<1>1. PICK x \in Seq(Token) : At(fs, calls, pc, x) /\ sent \o (buf \o x) = Nar(fs)
  BY DEF Inv, Walk
<1>2. buf \o x = x
  BY TokenSeqs
<1> QED
  BY <1>1, <1>2

\* A step of the walk takes the next tokens of the NAR and gives them to the writer.
LEMMA Handed ==
    ASSUME Inv, UNCHANGED <<fs, sent, sha256, numBytesWritten, fault>>,
           buf' \in Seq(Token), pc' \in {"visit", "loop", "return"}, Shaped(calls'),
           NEW x, sent \o x = Nar(fs),
           NEW y \in Seq(Token), x = buf' \o y, At(fs, calls', pc', y)
    PROVE  Inv'
<1>1. fs' = fs /\ sent' = sent /\ pc' # "failed" /\ pc' # "ok"
  OBVIOUS
<1>2. TypeOK'
  BY DEF Inv, TypeOK, Shaped, Call
<1>3. Sent'
  BY DEF Inv, Sent, HashedIsSent
<1>4. Walk'
  BY <1>1 DEF Walk
<1>5. Begun'
  BY <1>1 DEF Inv, Begun
<1> QED
  BY <1>1, <1>2, <1>3, <1>4, <1>5 DEF Inv, Reason, Written

LEMMA PollWriteInv == Inv /\ PollWrite => Inv'
<1> SUFFICES ASSUME Inv, PollWrite PROVE Inv'
  OBVIOUS
<1>1. PICK n \in 1 .. Len(buf) :
         /\ sent' = sent \o SubSeq(buf, 1, n)
         /\ sha256' = sha256 \o SubSeq(buf, 1, n)
         /\ numBytesWritten' = numBytesWritten + n
         /\ buf' = SubSeq(buf, n + 1, Len(buf))
  BY DEF PollWrite
<1>2. /\ buf # <<>> /\ pc # "failed"
      /\ fs' = fs /\ calls' = calls /\ pc' = pc /\ fault' = fault
  BY DEF PollWrite
<1>3. sent \in Seq(Token) /\ buf \in Seq(Token) /\ HashedIsSent
  BY DEF Inv, Sent
<1>4. /\ SubSeq(buf, 1, n) \in Seq(Token) /\ Len(SubSeq(buf, 1, n)) = n
      /\ buf' \in Seq(Token) /\ SubSeq(buf, 1, n) \o buf' = buf
  BY <1>1, <1>3, Cut
<1>5. sent' \in Seq(Token) /\ Len(sent') = Len(sent) + n
  BY <1>1, <1>3, <1>4, ConcatProperties
<1>6. Sent'
  BY <1>1, <1>3, <1>4, <1>5 DEF Sent, HashedIsSent
<1>7. PICK x \in Seq(Token) : At(fs, calls, pc, x) /\ sent \o (buf \o x) = Nar(fs)
  BY <1>2 DEF Inv, Walk
<1> DEFINE u == SubSeq(buf, 1, n)
<1>8. sent' \o (buf' \o x) = Nar(fs) /\ buf' \o x \in Seq(Token)
  <2> HIDE DEF u
  <2>1. u \in Seq(Token) /\ buf = u \o buf' /\ sent' = sent \o u
    BY <1>1, <1>4 DEF u
  <2>2. buf' \o x \in Seq(Token)
    BY <1>4, TokenSeqs
  <2>3. (sent \o u) \o (buf' \o x) = sent \o ((u \o buf') \o x)
    <3>1. /\ sent \in Seq(Token) /\ u \in Seq(Token)
          /\ buf' \in Seq(Token) /\ x \in Seq(Token)
      BY <1>3, <1>4, <2>1
    <3> QED
      BY <3>1, Regrouped, SMTT(20)
  <2> QED
    BY <1>7, <2>1, <2>2, <2>3
<1>9. Walk' /\ Begun'
  BY <1>2, <1>7, <1>8 DEF Walk, Begun
<1>10. TypeOK'
  <2>1. numBytesWritten' \in Nat
    BY <1>1, <1>3 DEF Inv, TypeOK
  <2> QED
    BY <1>2, <2>1 DEF Inv, TypeOK
<1>11. Reason' /\ Written'
  BY <1>2 DEF Inv, Reason, Written
<1> QED
  BY <1>6, <1>9, <1>10, <1>11 DEF Inv

LEMMA VisitInv == Inv /\ (VisitDirectory \/ VisitLeaf) => Inv'
<1> SUFFICES ASSUME Inv, VisitDirectory \/ VisitLeaf PROVE Inv'
  OBVIOUS
<1>1. /\ pc = "visit" /\ buf = <<>> /\ fs \in FileSystems /\ calls \in Seq(Call)
      /\ UNCHANGED <<fs, sent, sha256, numBytesWritten, fault>>
  BY DEF VisitDirectory, VisitLeaf, counts, Inv, TypeOK, Call
<1>2. PICK x \in Seq(Token) : Visiting(fs, calls, x) /\ sent \o x = Nar(fs)
  BY <1>1, Remaining DEF At
<1>3. NodePath = PathOf(calls) /\ Open(fs, calls) /\ PathOf(calls) \in DOMAIN fs
  BY <1>1, <1>2, OpenPath DEF NodePath, PathOf, Visiting
<1>4. CASE VisitDirectory
  <2>1. PICK entries \in ReadDirEntries(NodePath) :
           calls' = Append(calls, [childPath |-> NodePath, left |-> entries])
    BY <1>4 DEF VisitDirectory
  <2>2. /\ fs[PathOf(calls)].type = "directory"
        /\ buf' = <<DirectoryToken>> /\ pc' = "loop"
    BY <1>3, <1>4 DEF VisitDirectory
  <2>3. entries \in SetToSeqs(Children(fs, PathOf(calls))) /\ Sorted(entries)
    BY <1>3 DEF ReadDirEntries, Sorted
  <2>4. entries \in Seq(Name) /\ ToSet(entries) = Children(fs, PathOf(calls))
    BY <1>1, <1>3, <2>3, ListsChildren
  <2>5. PICK y \in Seq(Token) : Looping(fs, calls', y) /\ x = <<DirectoryToken>> \o y
    BY <1>1, <1>2, <1>3, <2>1, <2>2, <2>3, <2>4, DirectoryVisited
  <2>6. Shaped(calls') /\ buf' \in Seq(Token)
    BY <1>1, <2>2, <2>5, LoopShaped, TokenSeqs
  <2>7. At(fs, calls', pc', y)
    BY <2>2, <2>5 DEF At
  <2> QED
    BY <1>1, <1>2, <2>2, <2>5, <2>6, <2>7, Handed
<1>5. CASE VisitLeaf
  <2> DEFINE node == fs[PathOf(calls)]
  <2>1. \/ node.type = "symlink" /\ buf' = <<SymlinkToken>>
        \/ node.type = "file" /\ buf' = FileTokens(node.executable, node.len)
    BY <1>3, <1>5 DEF VisitLeaf
  <2>2. pc' = "return" /\ calls' = calls
    BY <1>5 DEF VisitLeaf
  <2>3. buf' = NarOf[fs][PathOf(calls)] /\ buf' \in Seq(Token)
    <3> DEFINE p == PathOf(calls)
    <3> HIDE DEF p
    <3>1. /\ p \in DOMAIN fs
          /\ \/ fs[p].type = "symlink" /\ buf' = <<SymlinkToken>>
             \/ fs[p].type = "file" /\ buf' = FileTokens(fs[p].executable, fs[p].len)
      BY <1>3, <2>1 DEF p
    <3>2. /\ NarOf[fs][p] \in Seq(Token)
          /\ fs[p].type = "symlink" => NarOf[fs][p] = <<SymlinkToken>>
          /\ fs[p].type = "file" => NarOf[fs][p] = FileTokens(fs[p].executable, fs[p].len)
      BY <1>1, <3>1, FormatAssumption
    <3> QED
      BY <3>1, <3>2 DEF p
  <2>4. PICK y \in Seq(Token) : Returning(fs, calls, y) /\ x = NarOf[fs][PathOf(calls)] \o y
    BY <1>1, <1>2, <2>1, LeafVisited
  <2>5. Shaped(calls')
    BY <1>1, <1>3, <2>2, OpenShaped
  <2>6. At(fs, calls', pc', y) /\ x = buf' \o y
    BY <2>2, <2>3, <2>4 DEF At
  <2> QED
    BY <1>1, <1>2, <2>2, <2>3, <2>5, <2>6, Handed
<1> QED
  BY <1>4, <1>5

LEMMA LoopInv == Inv /\ (EnterChild \/ CloseDirectory) => Inv'
<1> SUFFICES ASSUME Inv, EnterChild \/ CloseDirectory PROVE Inv'
  OBVIOUS
<1>1. /\ pc = "loop" /\ buf = <<>> /\ fs \in FileSystems /\ calls \in Seq(Call)
      /\ UNCHANGED <<fs, sent, sha256, numBytesWritten, fault>>
  BY DEF EnterChild, CloseDirectory, counts, Inv, TypeOK, Call
<1>2. PICK x \in Seq(Token) : Looping(fs, calls, x) /\ sent \o x = Nar(fs)
  BY <1>1, Remaining DEF At
<1>3. CASE EnterChild
  <2> DEFINE call == Last(calls)
             child == [childPath |-> Append(call.childPath, Head(call.left)),
                       left |-> Tail(call.left)]
  <2>1. /\ call.left # <<>> /\ buf' = <<EntryToken(Head(call.left))>>
        /\ calls' = Append(Front(calls), child) /\ pc' = "visit"
    BY <1>3 DEF EnterChild
  <2>2. Head(call.left) \in Name /\ \E y \in Seq(Token) :
           Visiting(fs, calls', y) /\ x = <<EntryToken(Head(call.left))>> \o y
    BY <1>1, <1>2, <2>1, ChildEntered
  <2>3. PICK y \in Seq(Token) : Visiting(fs, calls', y) /\ x = buf' \o y
    BY <2>1, <2>2
  <2>4. buf' \in Seq(Token)
    BY <2>1, <2>2, TokenSeqs
  <2>5. Shaped(calls')
    BY <1>1, <2>3, OpenShaped DEF Visiting
  <2>6. At(fs, calls', pc', y)
    BY <2>1, <2>3 DEF At
  <2> QED
    BY <1>1, <1>2, <2>1, <2>3, <2>4, <2>5, <2>6, Handed
<1>4. CASE CloseDirectory
  <2>1. /\ Last(calls).left = <<>> /\ buf' = <<CloseToken>>
        /\ calls' = Front(calls) /\ pc' = "return"
    BY <1>4 DEF CloseDirectory
  <2>2. PICK y \in Seq(Token) : Returning(fs, calls', y) /\ x = buf' \o y
    BY <1>1, <1>2, <2>1, DirectoryClosed
  <2>3. Shaped(calls') /\ buf' \in Seq(Token)
    BY <1>1, <2>1, <2>2, OpenShaped, TokenSeqs DEF Returning
  <2>4. At(fs, calls', pc', y)
    BY <2>1, <2>2 DEF At
  <2> QED
    BY <1>1, <1>2, <2>1, <2>2, <2>3, <2>4, Handed
<1> QED
  BY <1>3, <1>4

LEMMA ReturnInv == Inv /\ (ReturnToLoop \/ Shutdown) => Inv'
<1> SUFFICES ASSUME Inv, ReturnToLoop \/ Shutdown PROVE Inv'
  OBVIOUS
<1>1. /\ pc = "return" /\ buf = <<>> /\ buf' = buf
      /\ fs \in FileSystems /\ calls \in Seq(Call)
      /\ UNCHANGED <<fs, sent, sha256, numBytesWritten, fault>>
  BY DEF ReturnToLoop, Shutdown, counts, Inv, TypeOK, Call
<1>2. PICK x \in Seq(Token) : Returning(fs, calls, x) /\ sent \o x = Nar(fs)
  BY <1>1, Remaining DEF At
<1>3. CASE ReturnToLoop
  <2>1. /\ calls # <<>> /\ pc' = "loop"
        /\ calls' = Append(Front(calls), [Last(calls) EXCEPT !.childPath = Front(@)])
    BY <1>3 DEF ReturnToLoop
  <2>2. Looping(fs, calls', x)
    BY <1>1, <1>2, <2>1, ChildLeft
  <2>3. Shaped(calls') /\ At(fs, calls', pc', x)
    BY <1>1, <2>1, <2>2, LoopShaped DEF At
  <2>4. buf' \in Seq(Token) /\ x = buf' \o x
    BY <1>1, TokenSeqs
  <2> QED
    BY <1>1, <1>2, <2>1, <2>3, <2>4, Handed
<1>4. CASE Shutdown
  <2>1. calls = <<>> /\ calls' = calls /\ pc' = "ok"
    BY <1>4 DEF Shutdown
  <2>2. x = <<>> /\ Others(fs) = {}
    BY <1>2, <2>1, RootLeft
  <2>3. At(fs, calls', pc', x)
    BY <2>1, <2>2 DEF At
  <2>4. x = buf' \o x
    BY <1>1, TokenSeqs
  <2>5. Walk'
    BY <1>1, <1>2, <2>3, <2>4 DEF Walk
  <2>6. TypeOK'
    BY <1>1, <2>1 DEF Inv, TypeOK
  <2>7. Sent' /\ Begun'
    BY <1>1 DEF Inv, Sent, HashedIsSent, Begun
  <2> QED
    BY <1>1, <2>1, <2>5, <2>6, <2>7 DEF Inv, Reason, Written
<1> QED
  BY <1>3, <1>4

LEMMA FailInv == Inv /\ (VisitUnsupported \/ Fail) => Inv'
<1> SUFFICES ASSUME Inv, VisitUnsupported \/ Fail PROVE Inv'
  OBVIOUS
<1>1. /\ pc' = "failed"
      /\ UNCHANGED <<fs, calls, buf, sent, sha256, numBytesWritten>>
      /\ fault' \in {fault, TRUE}
  BY DEF VisitUnsupported, Fail, counts
<1>2. TypeOK'
  BY <1>1 DEF Inv, TypeOK
<1>3. Sent' /\ Begun' /\ Walk' /\ Written'
  BY <1>1 DEF Inv, Sent, HashedIsSent, Begun, Walk, Written
<1>4. CASE Fail
  BY <1>2, <1>3, <1>4 DEF Inv, Fail, Reason
<1>5. CASE VisitUnsupported
  <2>1. pc = "visit" /\ buf = <<>> /\ fs \in FileSystems
    BY <1>5 DEF VisitUnsupported, Inv, TypeOK
  <2>2. PICK x \in Seq(Token) : Visiting(fs, calls, x)
    BY <2>1, Remaining DEF At
  <2>3. NodePath = PathOf(calls) /\ PathOf(calls) \in DOMAIN fs
    BY <2>1, <2>2, OpenPath DEF NodePath, PathOf, Visiting
  <2>4. PathOf(calls) \in Others(fs)
    BY <1>5, <2>3 DEF VisitUnsupported, Others
  <2> QED
    BY <1>1, <1>2, <1>3, <2>4 DEF Inv, Reason
<1> QED
  BY <1>4, <1>5

LEMMA NextInv == Inv /\ [Next]_vars => Inv'
<1> SUFFICES ASSUME Inv, [Next]_vars PROVE Inv'
  OBVIOUS
<1>1. CASE UNCHANGED vars \/ Over
  <2>1. UNCHANGED <<fs, calls, pc, buf, sent, sha256, numBytesWritten, fault>>
    BY <1>1 DEF Over, vars, walk, counts
  <2>2. TypeOK' /\ Sent' /\ Reason' /\ Written'
    BY <2>1 DEF Inv, TypeOK, Sent, HashedIsSent, Reason, Written
  <2>3. Walk' /\ Begun'
    BY <2>1 DEF Inv, Walk, Begun
  <2> QED
    BY <2>2, <2>3 DEF Inv
<1> QED
  BY <1>1, PollWriteInv, VisitInv, LoopInv, ReturnInv, FailInv DEF Next, WriteNar

LEMMA InvCorrect == Spec => []Inv
<1> QED
  BY InitInv, NextInv, PTL DEF Spec

-----------------------------------------------------------------------------
(***************************************************************************)
(* child_path is as long as the walk is deep, or one name shorter.         *)
(***************************************************************************)
THEOREM TypeCorrect == Spec => []TypeOK
<1>1. Inv => TypeOK
  BY DEF Inv
<1> QED
  BY <1>1, InvCorrect, PTL

(***************************************************************************)
(* The hash and the size that HashAndCountWriter keeps are those of what   *)
(* the pipe took.                                                          *)
(***************************************************************************)
THEOREM HashedCorrect == Spec => []HashedIsSent
<1>1. Inv => HashedIsSent
  BY DEF Inv, Sent
<1> QED
  BY <1>1, InvCorrect, PTL

(***************************************************************************)
(* What write_nar sends is a beginning of the NAR of the tree, for a tree  *)
(* of any size and depth; when it shuts the pipe down it is all of it.     *)
(***************************************************************************)
THEOREM NarCorrect == Spec => []WritesTheNar
<1>1. ASSUME Inv PROVE WritesTheNar
  <2>1. PICK rest \in Seq(Token) : sent \o rest = Nar(fs)
    BY <1>1 DEF Inv, Begun
  <2>2. sent \in Seq(Token)
    BY <1>1 DEF Inv, Sent
  <2>3. IsPrefix(sent, Nar(fs))
    BY <2>1, <2>2, PrefixOfConcat
  <2>4. ASSUME pc = "ok" PROVE sent = Nar(fs)
    <3>1. PICK x \in Seq(Token) : x = <<>> /\ sent \o (buf \o x) = Nar(fs)
      BY <1>1, <2>4 DEF Inv, Walk, At
    <3>2. buf = <<>>
      BY <1>1, <2>4 DEF Inv, Written
    <3>3. buf \o x = <<>> /\ sent \o <<>> = sent
      BY <2>2, <3>1, <3>2, TokenSeqs
    <3> QED
      BY <3>1, <3>3
  <2> QED
    BY <2>3, <2>4 DEF WritesTheNar, Nar
<1>2. Inv => WritesTheNar
  BY <1>1
<1> QED
  BY <1>2, InvCorrect, PTL

(***************************************************************************)
(* write_nar fails only for a fault or at a node that a NAR cannot hold,   *)
(* and with such a node in the tree it never shuts the pipe down.          *)
(***************************************************************************)
THEOREM FailsCorrect == Spec => []FailsForAReason
<1>1. Inv => FailsForAReason
  BY DEF Inv, Reason, Walk, At, Others, FailsForAReason, HasOther
<1> QED
  BY <1>1, InvCorrect, PTL
=============================================================================
