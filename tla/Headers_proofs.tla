--------------------------- MODULE Headers_proofs ---------------------------
(* Machine-checked proofs about Headers, for every list of headers, any      *)
(* number of names, texts and edits.                                         *)
EXTENDS Headers, SequenceTheorems, FiniteSetTheorems, NaturalsInduction,
        WellFoundedInduction, TLAPS

-----------------------------------------------------------------------------
(* Numbers *)

\* Induction, for a set of numbers: what holds of 0 and passes from a number to
\* the next holds of all.
LEMMA Inductive ==
    ASSUME NEW T \in SUBSET Nat, 0 \in T, \A n \in T : n + 1 \in T
    PROVE  T = Nat
<1>1. SUFFICES ASSUME Nat \ T # {} PROVE FALSE
  OBVIOUS
<1>2. PICK m \in Nat \ T : \A j \in Nat \ T : <<j, m>> \notin OpToRel(<, Nat)
  BY <1>1, NatLessThanWellFounded, WFMin
<1>3. \A j \in Nat : j < m => j \in T
  BY <1>2 DEF OpToRel
<1>4. m \in Nat /\ m \notin T
  BY <1>2
<1>5. m # 0 /\ m - 1 \in Nat /\ m - 1 < m
  BY <1>4
<1>6. (m - 1) + 1 \in T /\ (m - 1) + 1 = m
  BY <1>3, <1>4, <1>5
<1> QED BY <1>4, <1>6

\* A set of numbers that is not empty has a least one, and Min is it.
LEMMA MinOf ==
    ASSUME NEW T \in SUBSET Nat, T # {}
    PROVE  Min(T) \in T /\ \A j \in T : Min(T) <= j
<1>1. PICK n \in T : \A j \in T : <<j, n>> \notin OpToRel(<, Nat)
  BY NatLessThanWellFounded, WFMin
<1>2. n \in Nat /\ \A j \in T : j \in Nat
  OBVIOUS
<1>3. \A j \in T : ~(j < n)
  BY <1>1, <1>2 DEF OpToRel
<1> DEFINE ok(x) == \A y \in T : x <= y
<1>4. ok(n)
  BY <1>2, <1>3
<1>5. Min(T) = CHOOSE x \in T : ok(x)
  BY DEF Min
<1> HIDE DEF ok
<1>6. Min(T) \in T /\ ok(Min(T))
  BY <1>4, <1>5
<1> QED BY <1>6 DEF ok

-----------------------------------------------------------------------------
(* The operators on lists *)

List == Seq(Header)

\* milter_headers_find finds the header, the first one, if it is there.
LEMMA FindOf ==
    ASSUME NEW l \in List, NEW h
    PROVE  /\ Find(l, h) \in 0..Len(l)
           /\ Find(l, h) # 0 => l[Find(l, h)] = h
           /\ Find(l, h) = 0 => \A i \in 1..Len(l) : l[i] # h
<1> DEFINE I == {i \in 1..Len(l) : l[i] = h}
<1>1. Find(l, h) = IF I # {} THEN Min(I) ELSE 0
  BY DEF Find, SelectInSeq
<1>2. I \in SUBSET Nat /\ Len(l) \in Nat
  BY DEF List
<1>3. I # {} => Min(I) \in I
  BY <1>2, MinOf
<1> QED BY <1>1, <1>2, <1>3

\* So does milter_headers_lookup_by_name, by name.
LEMMA LookupOf ==
    ASSUME NEW l \in List, NEW n
    PROVE  /\ LookupByName(l, n) \in 0..Len(l)
           /\ LookupByName(l, n) # 0 => l[LookupByName(l, n)].name = n
           /\ LookupByName(l, n) = 0 => \A i \in 1..Len(l) : l[i].name # n
<1> DEFINE I == {i \in 1..Len(l) : l[i].name = n}
<1>1. LookupByName(l, n) = IF I # {} THEN Min(I) ELSE 0
  BY DEF LookupByName, SelectInSeq
<1>2. I \in SUBSET Nat /\ Len(l) \in Nat
  BY DEF List
<1>3. I # {} => Min(I) \in I
  BY <1>2, MinOf
<1> QED BY <1>1, <1>2, <1>3

\* A list without its p-th header.
LEMMA RemoveOf ==
    ASSUME NEW l \in List, NEW p \in 1..Len(l)
    PROVE  /\ RemoveAt(l, p) \in List
           /\ Len(RemoveAt(l, p)) = Len(l) - 1
           /\ \A i \in 1..(Len(l) - 1) :
                RemoveAt(l, p)[i] = IF i < p THEN l[i] ELSE l[i + 1]
<1>1. /\ Len(l) \in Nat /\ p \in Nat /\ 1 <= p /\ p <= Len(l)
      /\ \A i \in 1..Len(l) : l[i] \in Header
  BY DEF List
<1> DEFINE a == SubSeq(l, 1, p - 1)
           b == SubSeq(l, p + 1, Len(l))
<1>2. a \in List /\ Len(a) = p - 1 /\ \A i \in 1..(p - 1) : a[i] = l[i]
  BY <1>1, SubSeqProperties DEF List
<1>3. b \in List /\ Len(b) = Len(l) - p /\ \A i \in 1..(Len(l) - p) : b[i] = l[p + i]
  <2>1. \A i \in (p + 1)..Len(l) : l[i] \in Header
    BY <1>1
  <2>2. /\ b \in Seq(Header)
        /\ Len(b) = IF p + 1 <= Len(l) THEN Len(l) - (p + 1) + 1 ELSE 0
        /\ \A i \in 1..(Len(l) - (p + 1) + 1) : b[i] = l[(p + 1) + i - 1]
    BY <1>1, <2>1, SubSeqProperties
  <2> QED BY <1>1, <2>2 DEF List
<1> HIDE DEF a, b
<1>4. /\ a \o b \in Seq(Header) /\ Len(a \o b) = Len(a) + Len(b)
      /\ \A i \in 1..(Len(a) + Len(b)) :
           (a \o b)[i] = IF i <= Len(a) THEN a[i] ELSE b[i - Len(a)]
  BY <1>2, <1>3, ConcatProperties DEF List
<1>5. Len(a) + Len(b) = Len(l) - 1
  BY <1>1, <1>2, <1>3
<1>6. ASSUME NEW i \in 1..(Len(l) - 1)
      PROVE  (a \o b)[i] = IF i < p THEN l[i] ELSE l[i + 1]
  <2>1. CASE i < p
    BY <1>1, <1>2, <1>4, <1>5, <2>1
  <2>2. CASE ~(i < p)
    <3>1. i - (p - 1) \in 1..(Len(l) - p) /\ p + (i - (p - 1)) = i + 1
      BY <1>1, <2>2
    <3>2. b[i - (p - 1)] = l[i + 1]
      BY <1>3, <3>1
    <3> QED BY <1>1, <1>2, <1>4, <1>5, <2>2, <3>2
  <2> QED BY <2>1, <2>2
<1>7. RemoveAt(l, p) = a \o b
  BY DEF RemoveAt, a, b
<1> QED BY <1>4, <1>5, <1>6, <1>7 DEF List

\* A list with h before its p-th header.
LEMMA InsertOf ==
    ASSUME NEW l \in List, NEW p \in 1..(Len(l) + 1), NEW h \in Header
    PROVE  /\ InsertAt(l, p, h) \in List
           /\ Len(InsertAt(l, p, h)) = Len(l) + 1
           /\ InsertAt(l, p, h)[p] = h
           /\ RemoveAt(InsertAt(l, p, h), p) = l
<1>1. /\ Len(l) \in Nat /\ p \in Nat /\ 1 <= p /\ p <= Len(l) + 1
      /\ \A i \in 1..Len(l) : l[i] \in Header
  BY DEF List
<1> DEFINE a == SubSeq(l, 1, p - 1)
           b == SubSeq(l, p, Len(l))
           c == a \o <<h>>
           d == c \o b
<1>2. a \in List /\ Len(a) = p - 1 /\ \A i \in 1..(p - 1) : a[i] = l[i]
  BY <1>1, SubSeqProperties DEF List
<1>3. b \in List /\ Len(b) = Len(l) - p + 1 /\ \A i \in 1..(Len(l) - p + 1) : b[i] = l[p + i - 1]
  BY <1>1, SubSeqProperties DEF List
<1> HIDE DEF a, b
<1>4. c \in List /\ Len(c) = p /\ (\A i \in 1..(p - 1) : c[i] = l[i]) /\ c[p] = h
  <2>1. c = Append(a, h)
    BY <1>2 DEF List
  <2> HIDE DEF c
  <2>2. a \in Seq(Header)
    BY <1>2 DEF List
  <2>3. /\ Append(a, h) \in Seq(Header) /\ Len(Append(a, h)) = Len(a) + 1
        /\ \A i \in 1..Len(a) : Append(a, h)[i] = a[i]
        /\ Append(a, h)[Len(a) + 1] = h
    BY <2>2, AppendProperties
  <2>4. Len(a) + 1 = p
    BY <1>1, <1>2
  <2>5. c \in List /\ Len(c) = p /\ c[p] = h
    BY <2>1, <2>3, <2>4 DEF List
  <2>6. ASSUME NEW i \in 1..(p - 1) PROVE c[i] = l[i]
    BY <1>2, <2>1, <2>3
  <2> QED BY <2>5, <2>6
<1> HIDE DEF c
<1>5. /\ d \in Seq(Header) /\ Len(d) = Len(c) + Len(b)
      /\ \A i \in 1..(Len(c) + Len(b)) : d[i] = IF i <= Len(c) THEN c[i] ELSE b[i - Len(c)]
  BY <1>3, <1>4, ConcatProperties DEF List
<1>6. d \in List /\ Len(d) = Len(l) + 1 /\ d[p] = h
  BY <1>1, <1>3, <1>4, <1>5 DEF List
<1>7. ASSUME NEW i \in 1..Len(l)
      PROVE  IF i < p THEN d[i] = l[i] ELSE d[i + 1] = l[i]
  <2>1. CASE i < p
    BY <1>1, <1>3, <1>4, <1>5, <2>1
  <2>2. CASE ~(i < p)
    <3>1. i + 1 - p \in 1..(Len(l) - p + 1) /\ p + (i + 1 - p) - 1 = i
      BY <1>1, <2>2
    <3>2. b[i + 1 - p] = l[i]
      BY <1>3, <3>1
    <3> QED BY <1>1, <1>3, <1>4, <1>5, <2>2, <3>2
  <2> QED BY <2>1, <2>2
<1>8. InsertAt(l, p, h) = d
  BY DEF InsertAt, a, b, c
<1> HIDE DEF d
<1>9. RemoveAt(d, p) = l
  <2>1. p \in 1..Len(d) /\ Len(d) - 1 = Len(l)
    BY <1>1, <1>6
  <2>2. /\ RemoveAt(d, p) \in List /\ Len(RemoveAt(d, p)) = Len(l)
        /\ \A i \in 1..Len(l) : RemoveAt(d, p)[i] = IF i < p THEN d[i] ELSE d[i + 1]
    <3> HIDE DEF d
    <3>1. d \in List
      BY <1>6
    <3> QED BY <2>1, <3>1, RemoveOf
  <2>3. \A i \in 1..Len(l) : RemoveAt(d, p)[i] = l[i]
    BY <1>7, <2>2
  <2> QED BY <2>2, <2>3, SeqEqual DEF List
<1> QED BY <1>6, <1>8, <1>9

\* A list with h instead of its p-th header.
LEMMA ChangeOf ==
    ASSUME NEW l \in List, NEW p \in 1..Len(l), NEW h \in Header
    PROVE  LET d == [l EXCEPT ![p] = h] IN
           /\ d \in List /\ Len(d) = Len(l) /\ d[p] = h
           /\ \A i \in 1..Len(l) : i # p => d[i] = l[i]
           /\ RemoveAt(d, p) = RemoveAt(l, p)
<1> DEFINE d == [l EXCEPT ![p] = h]
<1>1. /\ d \in List /\ Len(d) = Len(l) /\ d[p] = h
      /\ \A i \in 1..Len(l) : i # p => d[i] = l[i]
  BY ExceptSeq DEF List
<1> HIDE DEF d
<1>2. Len(l) \in Nat
  BY DEF List
<1>3. RemoveAt(d, p) \in List /\ RemoveAt(l, p) \in List
  BY <1>1, RemoveOf
<1>4. Len(RemoveAt(d, p)) = Len(l) - 1 /\ Len(RemoveAt(l, p)) = Len(l) - 1
  BY <1>1, RemoveOf
<1>5. ASSUME NEW i \in 1..(Len(l) - 1)
      PROVE  RemoveAt(d, p)[i] = RemoveAt(l, p)[i]
  <2>1. RemoveAt(d, p)[i] = IF i < p THEN d[i] ELSE d[i + 1]
    BY <1>1, RemoveOf
  <2>2. RemoveAt(l, p)[i] = IF i < p THEN l[i] ELSE l[i + 1]
    BY RemoveOf
  <2>3. IF i < p THEN d[i] = l[i] ELSE d[i + 1] = l[i + 1]
    BY <1>1, <1>2
  <2> QED BY <2>1, <2>2, <2>3
<1>6. RemoveAt(d, p) = RemoveAt(l, p)
  BY <1>3, <1>4, <1>5, SeqEqual DEF List
<1> QED BY <1>1, <1>6 DEF d

-----------------------------------------------------------------------------
(* Counting *)

\* How many of the first k headers of a list are in S.
Places(l, S, k) == {j \in 1..Len(l) : l[j] \in S /\ j <= k}
Upto(l, S, k) == Cardinality(Places(l, S, k))

One(h, S) == IF h \in S THEN 1 ELSE 0

\* It is a number, 0 at first, and grows with every header in S.
LEMMA UptoNat ==
    ASSUME NEW l \in List, NEW S, NEW k \in Nat
    PROVE  IsFiniteSet(Places(l, S, k)) /\ Upto(l, S, k) \in Nat
<1>1. Len(l) \in Nat
  BY DEF List
<1>2. IsFiniteSet(1..Len(l))
  BY <1>1, FS_Interval
<1>3. Places(l, S, k) \in SUBSET (1..Len(l))
  BY DEF Places
<1> QED BY <1>2, <1>3, FS_Subset, FS_CardinalityType DEF Upto

LEMMA UptoZero ==
    ASSUME NEW l \in List, NEW S
    PROVE  Upto(l, S, 0) = 0
<1>1. Len(l) \in Nat
  BY DEF List
<1>2. Places(l, S, 0) = {}
  BY <1>1 DEF Places
<1> QED BY <1>2, FS_EmptySet DEF Upto

LEMMA UptoStep ==
    ASSUME NEW l \in List, NEW S, NEW k \in Nat, k + 1 <= Len(l)
    PROVE  Upto(l, S, k + 1) = Upto(l, S, k) + One(l[k + 1], S)
<1> DEFINE A == Places(l, S, k)
           B == Places(l, S, k + 1)
<1>1. Len(l) \in Nat /\ k + 1 \in 1..Len(l) /\ k + 1 \notin A
  BY DEF List, Places
<1>2. IsFiniteSet(A) /\ Cardinality(A) \in Nat
  BY UptoNat DEF Upto
<1>3. CASE l[k + 1] \in S
  <2>1. B = A \cup {k + 1}
    BY <1>1, <1>3 DEF Places
  <2>2. Cardinality(A \cup {k + 1}) = Cardinality(A) + 1
    BY <1>1, <1>2, FS_AddElement
  <2> QED BY <1>3, <2>1, <2>2 DEF Upto, One
<1>4. CASE l[k + 1] \notin S
  <2>1. B = A
    BY <1>1, <1>4 DEF Places
  <2> QED BY <1>2, <1>4, <2>1 DEF Upto, One
<1> QED BY <1>3, <1>4

\* It only looks at the first k headers.
LEMMA UptoSame ==
    ASSUME NEW l \in List, NEW d \in List, NEW S, NEW k \in Nat,
           k <= Len(l), k <= Len(d), \A i \in 1..k : l[i] = d[i]
    PROVE  Upto(l, S, k) = Upto(d, S, k)
<1>1. Len(l) \in Nat /\ Len(d) \in Nat
  BY DEF List
<1>2. Places(l, S, k) = Places(d, S, k)
  BY <1>1 DEF Places
<1> QED BY <1>2 DEF Upto

LEMMA UptoMonotone ==
    ASSUME NEW l \in List, NEW S, NEW k \in Nat, NEW m \in Nat, k <= m
    PROVE  Upto(l, S, k) <= Upto(l, S, m)
<1>1. Places(l, S, k) \in SUBSET Places(l, S, m)
  <2>1. Len(l) \in Nat
    BY DEF List
  <2> QED BY <2>1 DEF Places
<1> QED BY <1>1, UptoNat, FS_Subset DEF Upto

\* A header in S has a number of its own: it counts more than those before it.
LEMMA UptoStrict ==
    ASSUME NEW l \in List, NEW S, NEW p \in 1..Len(l), NEW q \in Nat, q < p, l[p] \in S
    PROVE  Upto(l, S, q) < Upto(l, S, p)
<1>1. Len(l) \in Nat /\ p - 1 \in Nat /\ (p - 1) + 1 = p /\ q <= p - 1 /\ p <= Len(l) /\ p \in Nat
  BY DEF List
<1>2. Upto(l, S, p) = Upto(l, S, p - 1) + 1
  <2>1. Upto(l, S, (p - 1) + 1) = Upto(l, S, p - 1) + One(l[(p - 1) + 1], S)
    BY <1>1, UptoStep
  <2> QED BY <1>1, <2>1 DEF One
<1>3. Upto(l, S, q) <= Upto(l, S, p - 1)
  BY <1>1, UptoMonotone
<1>4. Upto(l, S, q) \in Nat /\ Upto(l, S, p - 1) \in Nat
  BY <1>1, UptoNat
<1> QED BY <1>2, <1>3, <1>4

\* What is counted in a list without its p-th header.
LEMMA UptoRemoved ==
    ASSUME NEW l \in List, NEW S, NEW p \in 1..Len(l)
    PROVE  /\ \A k \in Nat : k < p => Upto(RemoveAt(l, p), S, k) = Upto(l, S, k)
           /\ \A k \in Nat : p <= k + 1 /\ k < Len(l) =>
                Upto(l, S, k + 1) = Upto(RemoveAt(l, p), S, k) + One(l[p], S)
<1> DEFINE d == RemoveAt(l, p)
<1>1. /\ d \in List /\ Len(d) = Len(l) - 1
      /\ \A i \in 1..(Len(l) - 1) : d[i] = IF i < p THEN l[i] ELSE l[i + 1]
  BY RemoveOf
<1>2. Len(l) \in Nat /\ p \in Nat /\ 1 <= p /\ p <= Len(l) /\ p - 1 \in Nat
  BY DEF List
<1> HIDE DEF d
<1>3. ASSUME NEW k \in Nat, k < p
      PROVE  Upto(d, S, k) = Upto(l, S, k)
  <2>1. k <= Len(l) /\ k <= Len(d) /\ \A i \in 1..k : d[i] = l[i]
    BY <1>1, <1>2, <1>3
  <2> QED BY <1>1, <2>1, UptoSame
<1> DEFINE ok(k) == p <= k + 1 /\ k < Len(l) =>
                      Upto(l, S, k + 1) = Upto(d, S, k) + One(l[p], S)
           T == {k \in Nat : ok(k)}
<1>4. ok(p - 1)
  <2>1. Upto(l, S, (p - 1) + 1) = Upto(l, S, p - 1) + One(l[(p - 1) + 1], S)
    BY <1>2, UptoStep
  <2>2. Upto(d, S, p - 1) = Upto(l, S, p - 1)
    BY <1>2, <1>3
  <2> QED BY <1>2, <2>1, <2>2
<1>5. \A k \in Nat : k < p => ok(k)
  <2>1. \A k \in Nat : k < p /\ p <= k + 1 => k = p - 1
    BY <1>2
  <2> QED BY <1>4, <2>1
<1>6. ASSUME NEW k \in Nat, ok(k)
      PROVE  ok(k + 1)
  <2>1. CASE k + 1 < p
    BY <1>5, <2>1
  <2>2. CASE ~(k + 1 < p)
    <3>1. SUFFICES ASSUME k + 1 < Len(l)
                   PROVE  Upto(l, S, (k + 1) + 1) = Upto(d, S, k + 1) + One(l[p], S)
      OBVIOUS
    <3>2. Upto(l, S, (k + 1) + 1) = Upto(l, S, k + 1) + One(l[(k + 1) + 1], S)
      BY <1>2, <3>1, UptoStep
    <3>3. Upto(d, S, k + 1) = Upto(d, S, k) + One(d[k + 1], S)
      BY <1>1, <1>2, <3>1, UptoStep
    <3>4. d[k + 1] = l[(k + 1) + 1]
      BY <1>1, <1>2, <2>2, <3>1
    <3>5. Upto(l, S, k + 1) = Upto(d, S, k) + One(l[p], S)
      BY <1>2, <1>6, <2>2, <3>1
    <3>6. Upto(d, S, k) \in Nat /\ One(l[p], S) \in Nat /\ One(d[k + 1], S) \in Nat
      BY <1>1, UptoNat DEF One
    <3> QED BY <3>2, <3>3, <3>4, <3>5, <3>6
  <2> QED BY <2>1, <2>2
<1> HIDE DEF ok
<1>7. T = Nat
  <2>1. 0 \in T
    BY <1>2, <1>5
  <2>2. \A k \in T : k + 1 \in T
    BY <1>6
  <2> QED BY <2>1, <2>2, Inductive
<1>8. \A k \in Nat : ok(k)
  BY <1>7
<1> QED BY <1>3, <1>8 DEF ok, d

\* What is counted in a whole list.
All(l, S) == Upto(l, S, Len(l))

LEMMA AllRemoved ==
    ASSUME NEW l \in List, NEW S, NEW p \in 1..Len(l)
    PROVE  All(l, S) = All(RemoveAt(l, p), S) + One(l[p], S)
<1>1. Len(RemoveAt(l, p)) = Len(l) - 1
  BY RemoveOf
<1>2. Len(l) \in Nat /\ Len(l) - 1 \in Nat /\ (Len(l) - 1) + 1 = Len(l) /\ p <= (Len(l) - 1) + 1
      /\ Len(l) - 1 < Len(l)
  BY DEF List
<1>3. Upto(l, S, (Len(l) - 1) + 1) = Upto(RemoveAt(l, p), S, Len(l) - 1) + One(l[p], S)
  BY <1>2, UptoRemoved
<1> QED BY <1>1, <1>2, <1>3 DEF All

LEMMA AllInserted ==
    ASSUME NEW l \in List, NEW S, NEW p \in 1..(Len(l) + 1), NEW h \in Header
    PROVE  All(InsertAt(l, p, h), S) = All(l, S) + One(h, S)
<1>1. Len(l) \in Nat
  BY DEF List
<1>2. p \in 1..Len(InsertAt(l, p, h))
  BY <1>1, InsertOf
<1> QED BY <1>2, InsertOf, AllRemoved

LEMMA AllChanged ==
    ASSUME NEW l \in List, NEW S, NEW p \in 1..Len(l), NEW h \in Header
    PROVE  All([l EXCEPT ![p] = h], S) + One(l[p], S) = All(l, S) + One(h, S)
<1> DEFINE d == [l EXCEPT ![p] = h]
<1>1. d \in List /\ Len(d) = Len(l) /\ d[p] = h /\ RemoveAt(d, p) = RemoveAt(l, p)
  BY ChangeOf
<1> HIDE DEF d
<1>2. All(d, S) = All(RemoveAt(l, p), S) + One(h, S)
  BY <1>1, AllRemoved
<1>3. All(l, S) = All(RemoveAt(l, p), S) + One(l[p], S)
  BY AllRemoved
<1>4. All(RemoveAt(l, p), S) \in Nat
  <2>1. RemoveAt(l, p) \in List
    BY RemoveOf
  <2>2. Len(RemoveAt(l, p)) \in Nat
    BY <2>1 DEF List
  <2> QED BY <2>1, <2>2, UptoNat DEF All
<1>5. One(h, S) \in Nat /\ One(l[p], S) \in Nat
  BY DEF One
<1> QED BY <1>2, <1>3, <1>4, <1>5 DEF d

\* The headers of a name.
Called(n) == {x \in Header : x.name = n}

\* The list m has the header o, and it is the k-th of its name.
Stands(m, o, k) == \E q \in 1..Len(m) : m[q] = o /\ Upto(m, Called(o.name), q) = k

\* It stays that if a header of another name is inserted,
LEMMA StandsInserted ==
    ASSUME NEW m \in List, NEW o \in Header, NEW k, Stands(m, o, k),
           NEW p \in 1..(Len(m) + 1), NEW h \in Header, h.name # o.name
    PROVE  Stands(InsertAt(m, p, h), o, k)
<1> DEFINE d == InsertAt(m, p, h)
           C == Called(o.name)
<1>1. d \in List /\ Len(d) = Len(m) + 1 /\ d[p] = h /\ RemoveAt(d, p) = m
  BY InsertOf
<1> HIDE DEF d
<1>2. Len(m) \in Nat
  BY DEF List
<1>3. p \in 1..Len(d)
  BY <1>1, <1>2
<1>4. PICK q \in 1..Len(m) : m[q] = o /\ Upto(m, C, q) = k
  BY DEF Stands
<1>5. m[q] = IF q < p THEN d[q] ELSE d[q + 1]
  <2>1. q \in 1..(Len(d) - 1)
    BY <1>1, <1>2
  <2> QED BY <1>1, <1>3, <2>1, RemoveOf
<1>6. One(d[p], C) = 0
  BY <1>1 DEF Called, One
<1>7. Upto(m, C, q) \in Nat
  BY <1>2, UptoNat
<1>8. CASE q < p
  <2>1. Upto(d, C, q) = k
    BY <1>1, <1>3, <1>4, <1>8, UptoRemoved
  <2>2. q \in 1..Len(d)
    BY <1>1, <1>2
  <2> QED BY <1>4, <1>5, <1>8, <2>1, <2>2 DEF Stands, d
<1>9. CASE ~(q < p)
  <2>1. q + 1 \in 1..Len(d) /\ p <= q + 1 /\ q < Len(d) /\ q \in Nat
    BY <1>1, <1>2, <1>9
  <2>2. Upto(d, C, q + 1) = Upto(m, C, q) + One(d[p], C)
    BY <1>1, <1>3, <2>1, UptoRemoved
  <2>3. Upto(d, C, q + 1) = k
    BY <1>4, <1>6, <1>7, <2>2
  <2> QED BY <1>4, <1>5, <1>9, <2>1, <2>3 DEF Stands, d
<1> QED BY <1>8, <1>9

\* if another header gets another value,
LEMMA StandsChanged ==
    ASSUME NEW m \in List, NEW o \in Header, NEW k, Stands(m, o, k),
           NEW p \in 1..Len(m), m[p] # o, NEW h \in Header, h.name = m[p].name
    PROVE  Stands([m EXCEPT ![p] = h], o, k)
<1> DEFINE d == [m EXCEPT ![p] = h]
           C == Called(o.name)
<1>1. /\ d \in List /\ Len(d) = Len(m) /\ d[p] = h
      /\ \A i \in 1..Len(m) : i # p => d[i] = m[i]
  BY ChangeOf
<1> HIDE DEF d
<1>2. m[p] \in Header
  BY DEF List
<1>3. \A i \in 1..Len(m) : d[i] \in C <=> m[i] \in C
  BY <1>1, <1>2 DEF Called
<1>4. PICK q \in 1..Len(m) : m[q] = o /\ Upto(m, C, q) = k
  BY DEF Stands
<1>5. Places(d, C, q) = Places(m, C, q)
  BY <1>1, <1>3 DEF Places
<1>6. d[q] = o /\ Upto(d, C, q) = k
  BY <1>1, <1>4, <1>5 DEF Upto
<1> QED BY <1>1, <1>6 DEF Stands, d

\* and if a header of another name or one behind it is removed.
LEMMA StandsRemoved ==
    ASSUME NEW m \in List, NEW o \in Header, NEW k, Stands(m, o, k),
           NEW p \in 1..Len(m), m[p].name # o.name \/ k < Upto(m, Called(o.name), p)
    PROVE  Stands(RemoveAt(m, p), o, k)
<1> DEFINE d == RemoveAt(m, p)
           C == Called(o.name)
<1>1. /\ d \in List /\ Len(d) = Len(m) - 1
      /\ \A i \in 1..(Len(m) - 1) : d[i] = IF i < p THEN m[i] ELSE m[i + 1]
  BY RemoveOf
<1> HIDE DEF d
<1>2. Len(m) \in Nat
  BY DEF List
<1>3. PICK q \in 1..Len(m) : m[q] = o /\ Upto(m, C, q) = k
  BY DEF Stands
<1>4. k \in Nat /\ Upto(m, C, p) \in Nat
  BY <1>2, <1>3, UptoNat
<1>5. CASE q < p
  <2>1. q \in 1..Len(d) /\ q \in Nat /\ d[q] = o
    BY <1>1, <1>2, <1>3, <1>5
  <2>2. Upto(d, C, q) = k
    BY <1>3, <1>5, <2>1, UptoRemoved DEF d
  <2> QED BY <2>1, <2>2 DEF Stands, d
<1>6. CASE q = p
  BY <1>3, <1>4, <1>6
<1>7. CASE p < q
  <2>1. Upto(m, C, p) <= k
    BY <1>2, <1>3, <1>7, UptoMonotone
  <2>2. One(m[p], C) = 0
    BY <1>4, <2>1 DEF One, Called
  <2>3. q - 1 \in 1..Len(d) /\ q - 1 \in Nat /\ p <= (q - 1) + 1 /\ q - 1 < Len(m) /\ (q - 1) + 1 = q
    BY <1>1, <1>2, <1>7
  <2>4. Upto(m, C, (q - 1) + 1) = Upto(d, C, q - 1) + One(m[p], C)
    BY <2>3, UptoRemoved DEF d
  <2>5. Upto(d, C, q - 1) \in Nat
    BY <1>1, <2>3, UptoNat
  <2>6. Upto(d, C, q - 1) = k
    BY <1>3, <2>2, <2>3, <2>4, <2>5
  <2>7. d[q - 1] = o
    BY <1>1, <1>2, <1>3, <1>7, <2>3
  <2> QED BY <2>3, <2>6, <2>7 DEF Stands, d
<1> QED BY <1>2, <1>5, <1>6, <1>7

-----------------------------------------------------------------------------
(* What the MTA is told, and what it finds *)

\* Every name has one spelling.
OneSpelling == \A n, m \in Names : Folded[n] = Folded[m] => n = m

\* milter_headers_index_in_same_header_name counts up to the header it finds.
LEMMA IndexOf ==
    ASSUME NEW l \in List, NEW h
    PROVE  IndexInSameHeaderName(l, h) = Upto(l, Called(h.name), Find(l, h))
<1>1. DOMAIN l = 1..Len(l) /\ \A i \in 1..Len(l) : l[i] \in Header
  BY DEF List
<1>2. {i \in Named(l, h.name) : i <= Find(l, h)} = Places(l, Called(h.name), Find(l, h))
  BY <1>1 DEF Named, Places, Called
<1> QED BY <1>2 DEF IndexInSameHeaderName, Upto

\* The MTA finds the header that is told by its number.
LEMMA MtaFinds ==
    ASSUME OneSpelling, NEW l \in List, NEW n \in Names, NEW p \in 1..Len(l), l[p].name = n
    PROVE  MtaPosition(l, n, Upto(l, Called(n), p)) = p
<1> DEFINE C == Called(n)
           k == Upto(l, C, p)
           same == {i \in DOMAIN l : Folded[l[i].name] = Folded[n]}
           here == {i \in same : Cardinality({j \in same : j <= i}) = k}
<1>1. /\ DOMAIN l = 1..Len(l) /\ Len(l) \in Nat
      /\ \A i \in 1..Len(l) : l[i] \in Header /\ l[i].name \in Names
  <2>1. \A x \in Header : x.name \in Names
    BY DEF Header
  <2> QED BY <2>1 DEF List
<1>2. same = {i \in 1..Len(l) : l[i] \in C}
  BY <1>1 DEF OneSpelling, Called
<1>3. \A i \in 1..Len(l) : {j \in same : j <= i} = Places(l, C, i)
  BY <1>2 DEF Places
<1>4. here = {i \in same : Upto(l, C, i) = k}
  BY <1>2, <1>3 DEF Upto
<1>5. p \in same /\ p \in Nat
  BY <1>1, <1>2 DEF Called
<1>6. \A i \in same : i < p \/ p < i => Upto(l, C, i) # k
  <2>1. ASSUME NEW i \in same, i < p PROVE Upto(l, C, i) # k
    <3>1. i \in Nat /\ l[p] \in C
      BY <1>1, <1>2, <1>5
    <3>2. Upto(l, C, i) < Upto(l, C, p)
      BY <2>1, <3>1, UptoStrict
    <3>3. Upto(l, C, i) \in Nat /\ Upto(l, C, p) \in Nat
      BY <1>5, <3>1, UptoNat
    <3> QED BY <3>2, <3>3
  <2>2. ASSUME NEW i \in same, p < i PROVE Upto(l, C, i) # k
    <3>1. i \in Nat /\ l[i] \in C /\ i \in 1..Len(l)
      BY <1>1, <1>2
    <3>2. Upto(l, C, p) < Upto(l, C, i)
      BY <1>5, <2>2, <3>1, UptoStrict
    <3>3. Upto(l, C, i) \in Nat /\ Upto(l, C, p) \in Nat
      BY <1>5, <3>1, UptoNat
    <3> QED BY <3>2, <3>3
  <2> QED BY <2>1, <2>2
<1>7. here = {p}
  <2>1. \A i \in same : i \in Nat
    BY <1>1, <1>2
  <2> QED BY <1>4, <1>5, <1>6, <2>1
<1>8. MtaPosition(l, n, k) = IF here = {} THEN 0 ELSE CHOOSE i \in here : TRUE
  BY DEF MtaPosition
<1> HIDE DEF here
<1> QED BY <1>7, <1>8

\* milter_headers_remove takes one equal header away.
LEMMA RemoveHeaderOf ==
    ASSUME NEW l \in List, NEW h, Find(l, h) # 0
    PROVE  RemoveHeader(l, h) = RemoveAt(l, Find(l, h))
<1>1. Find(l, h) \in 1..Len(l) /\ l[Find(l, h)] = h
  <2>1. Len(l) \in Nat
    BY DEF List
  <2> QED BY <2>1, FindOf
<1>2. \E i \in 1..Len(l) : l[i] = h
  BY <1>1
<1>3. Find(l, h) = SelectInSeq(l, LAMBDA v : v = h)
  BY DEF Find
<1> QED BY <1>2, <1>3 DEF RemoveHeader, RemoveFirst

\* A list without its last header.
LEMMA FrontOf ==
    ASSUME NEW l \in List, l # <<>>
    PROVE  Len(l) \in 1..Len(l) /\ Last(l) = l[Len(l)] /\ Front(l) = RemoveAt(l, Len(l))
<1>1. Len(l) \in Nat /\ Len(l) >= 1
  BY DEF List
<1>2. SubSeq(l, 1, Len(l) - 1) \in Seq(Header)
  BY <1>1, SubSeqProperties DEF List
<1>3. SubSeq(l, Len(l) + 1, Len(l)) = <<>>
  BY <1>1, SubSeqEmpty
<1>4. RemoveAt(l, Len(l)) = SubSeq(l, 1, Len(l) - 1)
  BY <1>2, <1>3, ConcatEmptySeq DEF RemoveAt
<1> QED BY <1>1, <1>4 DEF Front, Last

-----------------------------------------------------------------------------
(* The edits of the children keep the list a list *)

LEMMA AddType ==
    ASSUME NEW l \in List, NEW n \in Names, NEW v \in [space : BOOLEAN, text : Texts]
    PROVE  AddHeader(l, n, v) \in List
<1> DEFINE I == {i \in 1..Len(l) : Folded[l[i].name] = Folded[n]}
           p == SelectInSeq(l, LAMBDA x : Folded[x.name] = Folded[n])
<1>1. p = IF I # {} THEN Min(I) ELSE 0
  BY DEF SelectInSeq
<1>2. Len(l) \in Nat /\ I \in SUBSET Nat
  BY DEF List
<1> HIDE DEF I
<1>3. I # {} => Min(I) \in I
  BY <1>2, MinOf
<1>4. (IF p = 0 THEN Len(l) + 1 ELSE p) \in 1..(Len(l) + 1)
  BY <1>1, <1>2, <1>3 DEF I
<1>5. [name |-> n, value |-> v] \in Header
  BY DEF Header
<1> HIDE DEF p
<1>6. InsertAt(l, IF p = 0 THEN Len(l) + 1 ELSE p, [name |-> n, value |-> v]) \in List
  BY <1>4, <1>5, InsertOf
<1> QED BY <1>6 DEF AddHeader, p

LEMMA InsertType ==
    ASSUME NEW l \in List, NEW k \in Nat, NEW n \in Names, NEW v \in [space : BOOLEAN, text : Texts]
    PROVE  InsertHeader(l, k, n, v) \in List
<1>1. Len(l) \in Nat
  BY DEF List
<1>2. (IF k > Len(l) THEN Len(l) + 1 ELSE k + 1) \in 1..(Len(l) + 1)
  BY <1>1
<1>3. [name |-> n, value |-> v] \in Header
  BY DEF Header
<1> QED BY <1>2, <1>3, InsertOf DEF InsertHeader

LEMMA LookupByIndexType ==
    ASSUME NEW l \in List, NEW n, NEW k
    PROVE  LookupByIndex(l, n, k) \in 0..Len(l)
<1> DEFINE here == {i \in Named(l, n) : Cardinality({j \in Named(l, n) : j <= i}) = k}
<1>1. here \subseteq 1..Len(l) /\ Len(l) \in Nat
  BY DEF List, Named
<1>2. LookupByIndex(l, n, k) = IF here = {} THEN 0 ELSE CHOOSE i \in here : TRUE
  BY DEF LookupByIndex
<1> HIDE DEF here
<1>3. CASE here = {}
  BY <1>1, <1>2, <1>3
<1>4. CASE here # {}
  <2> DEFINE x == CHOOSE i \in here : TRUE
  <2>1. x \in here
    BY <1>4
  <2>2. LookupByIndex(l, n, k) = x
    BY <1>2, <1>4
  <2> HIDE DEF x
  <2> QED BY <1>1, <2>1, <2>2
<1> QED BY <1>3, <1>4

LEMMA ChangeType ==
    ASSUME NEW l \in List, NEW n \in Names, NEW k, NEW v \in [space : BOOLEAN, text : Texts]
    PROVE  ChangeHeader(l, n, k, v) \in List
<1> DEFINE p == LookupByIndex(l, n, k)
<1>1. p \in 0..Len(l) /\ Len(l) \in Nat
  BY LookupByIndexType DEF List
<1> HIDE DEF p
<1>2. CASE p = 0
  BY <1>2, AddType DEF ChangeHeader, p
<1>3. CASE p # 0
  <2>1. p \in 1..Len(l) /\ l[p] \in Header
    BY <1>1, <1>3 DEF List
  <2>2. [l[p] EXCEPT !.value = v] \in Header
    BY <2>1 DEF Header
  <2>3. [l EXCEPT ![p] = [l[p] EXCEPT !.value = v]] \in List
    BY <2>1, <2>2, ChangeOf
  <2>4. [l EXCEPT ![p].value = v] = [l EXCEPT ![p] = [l[p] EXCEPT !.value = v]]
    OBVIOUS
  <2> QED BY <1>3, <2>3, <2>4 DEF ChangeHeader, p
<1> QED BY <1>2, <1>3

LEMMA DeleteType ==
    ASSUME NEW l \in List, NEW n, NEW k
    PROVE  DeleteHeader(l, n, k) \in List
<1>1. LookupByIndex(l, n, k) \in 0..Len(l) /\ Len(l) \in Nat
  BY LookupByIndexType DEF List
<1>2. LookupByIndex(l, n, k) # 0 => RemoveAt(l, LookupByIndex(l, n, k)) \in List
  BY <1>1, RemoveOf
<1> QED BY <1>2 DEF DeleteHeader

-----------------------------------------------------------------------------
(* The inductive invariant *)

TypeInv == /\ original \in List /\ headers \in List /\ left \in List /\ mta \in List
           /\ next \in 1..(Len(headers) + 1)
           /\ phase \in {"edit", "emit", "done"}

\* Nothing is emitted before the last edit, and everything in the end.
Phases == /\ phase = "edit" => left = original /\ mta = original /\ next = 1
          /\ phase = "done" => left = <<>> /\ next = Len(headers) + 1

\* The headers left are some of the original ones, in their order.
InOrder(l) ==
    /\ \A a \in 1..Len(l) : Find(original, l[a]) # 0
    /\ \A a, b \in 1..Len(l) : a < b => Find(original, l[a]) < Find(original, l[b])

\* The MTA has each of them, and it is the header of that number that the
\* original list had under it.
Placed(l, m) ==
    \A a \in 1..Len(l) : Stands(m, l[a], IndexInSameHeaderName(original, l[a]))

\* The MTA has the edited headers that were compared and those left, each as
\* often.
Counted(l, m, k) ==
    \A x \in Header : All(m, {x}) = Upto(headers, {x}, k) + All(l, {x})

Inv == /\ TypeInv /\ Phases
       /\ InOrder(left) /\ Placed(left, mta) /\ Counted(left, mta, next - 1)

\* No header comes twice.
NoneTwice == \A list \in Originals : \A a, b \in 1..Len(list) : list[a] = list[b] => a = b

\* The numbers of the headers left grow with their places.
LEMMA Numbers ==
    ASSUME original \in List, NEW l \in List, InOrder(l), NEW a \in 1..Len(l), NEW b \in 1..Len(l),
           a < b, l[a].name = l[b].name
    PROVE  IndexInSameHeaderName(original, l[a]) < IndexInSameHeaderName(original, l[b])
<1> DEFINE C == Called(l[b].name)
           p == Find(original, l[a])
           q == Find(original, l[b])
<1>1. p # 0 /\ q # 0 /\ p < q
  BY DEF InOrder
<1>2. p \in 0..Len(original) /\ q \in 0..Len(original) /\ original[q] = l[b] /\ Len(original) \in Nat
  BY <1>1, FindOf DEF List
<1>3. original[q] \in C
  <2>1. l[b] \in Header
    BY DEF List
  <2> QED BY <1>2, <2>1 DEF Called
<1> HIDE DEF p, q, C
<1>4. Upto(original, C, p) < Upto(original, C, q)
  BY <1>1, <1>2, <1>3, UptoStrict
<1> QED BY <1>4, IndexOf DEF p, q, C

\* No header is left twice.
LEMMA LeftOnce ==
    ASSUME original \in List, NEW l \in List, InOrder(l), NEW a \in 1..Len(l), NEW b \in 1..Len(l), a # b
    PROVE  l[a] # l[b]
<1>1. Find(original, l[a]) \in 0..Len(original) /\ Find(original, l[b]) \in 0..Len(original)
      /\ Len(original) \in Nat /\ Len(l) \in Nat
  BY FindOf DEF List
<1>2. a < b \/ b < a
  BY <1>1
<1> QED BY <1>1, <1>2 DEF InOrder

\* One header less left keeps the order.
LEMMA OrderKept ==
    ASSUME NEW l \in List, InOrder(l), NEW p \in 1..Len(l)
    PROVE  InOrder(RemoveAt(l, p))
<1> DEFINE d == RemoveAt(l, p)
           f(i) == IF i < p THEN i ELSE i + 1
<1>1. Len(d) = Len(l) - 1 /\ \A i \in 1..(Len(l) - 1) : d[i] = IF i < p THEN l[i] ELSE l[i + 1]
  BY RemoveOf
<1>2. Len(l) \in Nat
  BY DEF List
<1> HIDE DEF d
<1>3. \A i \in 1..Len(d) : f(i) \in 1..Len(l) /\ d[i] = l[f(i)]
  BY <1>1, <1>2
<1>4. \A i, j \in 1..Len(d) : i < j => f(i) < f(j)
  BY <1>1, <1>2
<1> HIDE DEF f
<1>5. InOrder(d)
  BY <1>3, <1>4 DEF InOrder
<1> QED BY <1>5 DEF d

\* Every header left after one is removed was left before, elsewhere.
LEMMA LeftBefore ==
    ASSUME NEW l \in List, NEW p \in 1..Len(l), NEW a \in 1..Len(RemoveAt(l, p))
    PROVE  \E b \in 1..Len(l) : b # p /\ RemoveAt(l, p)[a] = l[b] /\ (p = Len(l) => b < p)
<1>1. /\ Len(RemoveAt(l, p)) = Len(l) - 1
      /\ \A i \in 1..(Len(l) - 1) : RemoveAt(l, p)[i] = IF i < p THEN l[i] ELSE l[i + 1]
  BY RemoveOf
<1>2. Len(l) \in Nat
  BY DEF List
<1>3. a \in 1..(Len(l) - 1)
  BY <1>1
<1>4. CASE a < p
  BY <1>1, <1>2, <1>3, <1>4
<1>5. CASE ~(a < p)
  <2>1. a + 1 \in 1..Len(l) /\ a + 1 # p /\ p # Len(l)
    BY <1>2, <1>3, <1>5
  <2> QED BY <1>1, <1>3, <1>5, <2>1
<1> QED BY <1>4, <1>5

-----------------------------------------------------------------------------
(* The steps *)

LEMMA InitInv ==
    ASSUME NoneTwice, Init
    PROVE  Inv
<1>1. /\ original \in Originals /\ headers = original /\ left = original /\ mta = original
      /\ next = 1 /\ phase = "edit"
  BY DEF Init
<1>2. original \in List /\ Len(original) \in Nat
  BY <1>1, HeadersAssumption DEF List
<1>3. \A a \in 1..Len(original) : Find(original, original[a]) = a
  <2>1. SUFFICES ASSUME NEW a \in 1..Len(original) PROVE Find(original, original[a]) = a
    OBVIOUS
  <2> DEFINE p == Find(original, original[a])
  <2>2. p \in 0..Len(original) /\ p # 0 /\ original[p] = original[a]
    BY <1>2, FindOf
  <2> HIDE DEF p
  <2>3. p \in 1..Len(original)
    BY <1>2, <2>2
  <2>4. p = a
    BY <1>1, <2>2, <2>3 DEF NoneTwice
  <2> QED BY <2>4 DEF p
<1>4. TypeInv /\ Phases
  BY <1>1, <1>2 DEF TypeInv, Phases
<1>5. InOrder(original)
  BY <1>2, <1>3 DEF InOrder
<1>6. Placed(original, original)
  <2>1. \A a \in 1..Len(original) :
          IndexInSameHeaderName(original, original[a]) = Upto(original, Called(original[a].name), a)
    BY <1>2, <1>3, IndexOf
  <2>2. SUFFICES ASSUME NEW a \in 1..Len(original)
                 PROVE  Stands(original, original[a], Upto(original, Called(original[a].name), a))
    BY <2>1 DEF Placed
  <2> QED BY DEF Stands
<1>7. Counted(original, original, 0)
  <2>1. SUFFICES ASSUME NEW x \in Header
                 PROVE  All(original, {x}) = Upto(headers, {x}, 0) + All(original, {x})
    BY DEF Counted
  <2>2. All(original, {x}) \in Nat
    BY <1>2, UptoNat DEF All
  <2>3. Upto(headers, {x}, 0) = 0
    BY <1>1, <1>2, UptoZero
  <2> QED BY <2>2, <2>3
<1> QED BY <1>1, <1>4, <1>5, <1>6, <1>7 DEF Inv

\* Facts that every turn of the first loop needs.
LEMMA TurnFacts ==
    ASSUME Inv, next <= Len(headers)
    PROVE  /\ headers[next] \in Header
           /\ next \in Nat /\ next - 1 \in Nat /\ Len(headers) \in Nat
           /\ \A x \in Header :
                /\ Upto(headers, {x}, next - 1) \in Nat /\ All(left, {x}) \in Nat /\ All(mta, {x}) \in Nat
                /\ One(headers[next], {x}) \in Nat
                /\ Upto(headers, {x}, next) = Upto(headers, {x}, next - 1) + One(headers[next], {x})
<1>1. /\ headers \in List /\ left \in List /\ mta \in List /\ next \in 1..(Len(headers) + 1)
      /\ Len(headers) \in Nat /\ Len(left) \in Nat /\ Len(mta) \in Nat
  BY DEF Inv, TypeInv, List
<1>2. next \in 1..Len(headers) /\ next \in Nat /\ next - 1 \in Nat /\ (next - 1) + 1 = next
  BY <1>1
<1>3. headers[next] \in Header
  BY <1>1, <1>2 DEF List
<1>4. ASSUME NEW x \in Header
      PROVE  /\ Upto(headers, {x}, next - 1) \in Nat /\ All(left, {x}) \in Nat /\ All(mta, {x}) \in Nat
             /\ One(headers[next], {x}) \in Nat
             /\ Upto(headers, {x}, next) = Upto(headers, {x}, next - 1) + One(headers[next], {x})
  <2>1. Upto(headers, {x}, next - 1) \in Nat
    BY <1>1, <1>2, UptoNat
  <2>2. All(left, {x}) \in Nat /\ All(mta, {x}) \in Nat
    BY <1>1, UptoNat DEF All
  <2>3. Upto(headers, {x}, (next - 1) + 1) = Upto(headers, {x}, next - 1) + One(headers[(next - 1) + 1], {x})
    BY <1>1, <1>2, UptoStep
  <2>4. One(headers[next], {x}) \in Nat
    BY DEF One
  <2> QED BY <1>2, <2>1, <2>2, <2>3, <2>4
<1> QED BY <1>1, <1>2, <1>3, <1>4

\* The MTA has the header: it is compared, and no longer left.
LEMMA KeepStep ==
    ASSUME Inv, next <= Len(headers), Find(left, headers[next]) # 0
    PROVE  LET l == RemoveHeader(left, headers[next]) IN
           l \in List /\ InOrder(l) /\ Placed(l, mta) /\ Counted(l, mta, next)
<1> DEFINE h == headers[next]
           p == Find(left, h)
           l == RemoveAt(left, p)
<1>1. left \in List /\ Len(left) \in Nat /\ InOrder(left) /\ Placed(left, mta) /\ Counted(left, mta, next - 1)
  BY DEF Inv, TypeInv, List
<1>2. RemoveHeader(left, h) = l /\ p \in 1..Len(left) /\ left[p] = h
  BY <1>1, FindOf, RemoveHeaderOf
<1> HIDE DEF p
<1>3. l \in List /\ InOrder(l)
  BY <1>1, <1>2, RemoveOf, OrderKept
<1>4. Placed(l, mta)
  <2>1. \A a \in 1..Len(l) : \E b \in 1..Len(left) : l[a] = left[b]
    BY <1>1, <1>2, LeftBefore
  <2> HIDE DEF l
  <2> QED BY <1>1, <2>1 DEF Placed
<1>5. Counted(l, mta, next)
  <2>1. SUFFICES ASSUME NEW x \in Header
                 PROVE  All(mta, {x}) = Upto(headers, {x}, next) + All(l, {x})
    BY DEF Counted
  <2>2. All(left, {x}) = All(l, {x}) + One(h, {x})
    BY <1>1, <1>2, AllRemoved
  <2>3. All(mta, {x}) = Upto(headers, {x}, next - 1) + All(left, {x})
    BY <1>1 DEF Counted
  <2>4. Len(l) \in Nat
    BY <1>3 DEF List
  <2>5. All(l, {x}) \in Nat
    BY <1>3, <2>4, UptoNat DEF All
  <2> HIDE DEF l
  <2> QED BY <2>2, <2>3, <2>5, TurnFacts
<1> QED BY <1>2, <1>3, <1>4, <1>5

\* The MTA has none of the name left: the header is inserted.
LEMMA InsertStep ==
    ASSUME Inv, next <= Len(headers), LookupByName(left, headers[next].name) = 0
    PROVE  LET m == InsertHeader(mta, next - 1, headers[next].name, headers[next].value) IN
           m \in List /\ Placed(left, m) /\ Counted(left, m, next)
<1> DEFINE h == headers[next]
           p == IF next - 1 > Len(mta) THEN Len(mta) + 1 ELSE (next - 1) + 1
           m == InsertAt(mta, p, h)
<1>1. /\ left \in List /\ mta \in List /\ Len(mta) \in Nat
      /\ InOrder(left) /\ Placed(left, mta) /\ Counted(left, mta, next - 1)
  BY DEF Inv, TypeInv, List
<1>2. h \in Header /\ next - 1 \in Nat
  BY TurnFacts
<1>3. h = [name |-> h.name, value |-> h.value]
  BY <1>2 DEF Header
<1>4. p \in 1..(Len(mta) + 1)
  BY <1>1, <1>2
<1>5. InsertHeader(mta, next - 1, h.name, h.value) = m
  BY <1>3 DEF InsertHeader
<1> HIDE DEF p
<1>6. m \in List
  BY <1>1, <1>2, <1>4, InsertOf
<1>7. Placed(left, m)
  <2>1. SUFFICES ASSUME NEW a \in 1..Len(left)
                 PROVE  Stands(m, left[a], IndexInSameHeaderName(original, left[a]))
    BY DEF Placed
  <2>2. left[a] \in Header
    BY <1>1 DEF List
  <2>3. left[a].name # h.name
    BY <1>1, LookupOf
  <2>4. Stands(mta, left[a], IndexInSameHeaderName(original, left[a]))
    BY <1>1 DEF Placed
  <2> QED BY <1>1, <1>2, <1>4, <2>2, <2>3, <2>4, StandsInserted
<1>8. Counted(left, m, next)
  <2>1. SUFFICES ASSUME NEW x \in Header
                 PROVE  All(m, {x}) = Upto(headers, {x}, next) + All(left, {x})
    BY DEF Counted
  <2>2. All(m, {x}) = All(mta, {x}) + One(h, {x})
    BY <1>1, <1>2, <1>4, AllInserted
  <2>3. All(mta, {x}) = Upto(headers, {x}, next - 1) + All(left, {x})
    BY <1>1 DEF Counted
  <2> HIDE DEF m
  <2> QED BY <2>2, <2>3, TurnFacts
<1> QED BY <1>5, <1>6, <1>7, <1>8

\* A header left stands where the MTA looks for it.
LEMMA FoundByMta ==
    ASSUME OneSpelling, Inv, NEW a \in 1..Len(left)
    PROVE  LET o == left[a]
               k == IndexInSameHeaderName(original, o)
               p == MtaPosition(mta, o.name, k)
           IN  o \in Header /\ p \in 1..Len(mta) /\ mta[p] = o /\ Upto(mta, Called(o.name), p) = k
<1> DEFINE o == left[a]
           k == IndexInSameHeaderName(original, o)
<1>1. left \in List /\ mta \in List /\ Placed(left, mta)
  BY DEF Inv, TypeInv
<1>2. o \in Header /\ o.name \in Names
  <2>1. \A x \in Header : x.name \in Names
    BY DEF Header
  <2> QED BY <1>1, <2>1 DEF List
<1>3. PICK q \in 1..Len(mta) : mta[q] = o /\ Upto(mta, Called(o.name), q) = k
  BY <1>1 DEF Placed, Stands
<1>4. MtaPosition(mta, o.name, k) = q
  BY <1>1, <1>2, <1>3, MtaFinds
<1> QED BY <1>2, <1>3, <1>4

\* The first header left of that name becomes this one.
LEMMA ChangeStep ==
    ASSUME OneSpelling, Inv, next <= Len(headers), Find(left, headers[next]) = 0,
           LookupByName(left, headers[next].name) # 0
    PROVE  LET h == headers[next]
               o == left[LookupByName(left, h.name)]
               l == RemoveHeader(left, o)
               m == MtaChange(mta, h.name, IndexInSameHeaderName(original, o), h.value)
           IN  l \in List /\ m \in List /\ InOrder(l) /\ Placed(l, m) /\ Counted(l, m, next)
<1> DEFINE h == headers[next]
           c == LookupByName(left, h.name)
           o == left[c]
           k == IndexInSameHeaderName(original, o)
           q == Find(left, o)
           l == RemoveAt(left, q)
           p == MtaPosition(mta, o.name, k)
           m == [mta EXCEPT ![p] = h]
<1>1. /\ original \in List /\ left \in List /\ mta \in List /\ Len(left) \in Nat
      /\ InOrder(left) /\ Placed(left, mta) /\ Counted(left, mta, next - 1)
  BY DEF Inv, TypeInv, List
<1>2. h \in Header
  BY TurnFacts
<1>3. c \in 1..Len(left) /\ o.name = h.name
  BY <1>1, LookupOf
<1> HIDE DEF c
<1>4. q \in 1..Len(left) /\ left[q] = o /\ q # 0
  BY <1>1, <1>3, FindOf
<1>5. RemoveHeader(left, o) = l
  BY <1>1, <1>4, RemoveHeaderOf
<1>6. o \in Header /\ p \in 1..Len(mta) /\ mta[p] = o
  BY <1>3, FoundByMta
<1>7. o # h
  BY <1>1, <1>3, FindOf
<1> HIDE DEF q
<1>8. MtaChange(mta, h.name, k, h.value) = m
  <2>1. MtaPosition(mta, h.name, k) = p /\ p # 0
    BY <1>3, <1>6
  <2> HIDE DEF p
  <2>2. [mta[p] EXCEPT !.value = h.value] = h
    BY <1>2, <1>3, <1>6 DEF Header
  <2>3. MtaChange(mta, h.name, k, h.value) = [mta EXCEPT ![p].value = h.value]
    BY <2>1 DEF MtaChange
  <2>4. [mta EXCEPT ![p].value = h.value] = [mta EXCEPT ![p] = [mta[p] EXCEPT !.value = h.value]]
    OBVIOUS
  <2> QED BY <2>2, <2>3, <2>4
<1> HIDE DEF p
<1>9. l \in List /\ InOrder(l)
  BY <1>1, <1>4, RemoveOf, OrderKept
<1>10. m \in List
  BY <1>1, <1>2, <1>6, ChangeOf
<1>11. Placed(l, m)
  <2>1. SUFFICES ASSUME NEW a \in 1..Len(l)
                 PROVE  Stands(m, l[a], IndexInSameHeaderName(original, l[a]))
    BY DEF Placed
  <2>2. PICK b \in 1..Len(left) : b # q /\ l[a] = left[b]
    BY <1>1, <1>4, LeftBefore
  <2>3. left[b] # o /\ left[b] \in Header
    BY <1>1, <1>4, <2>2, LeftOnce DEF List
  <2>4. Stands(mta, left[b], IndexInSameHeaderName(original, left[b]))
    BY <1>1 DEF Placed
  <2>5. Stands(m, left[b], IndexInSameHeaderName(original, left[b]))
    BY <1>1, <1>2, <1>3, <1>6, <2>3, <2>4, StandsChanged
  <2> QED BY <2>2, <2>5
<1>12. Counted(l, m, next)
  <2>1. SUFFICES ASSUME NEW x \in Header
                 PROVE  All(m, {x}) = Upto(headers, {x}, next) + All(l, {x})
    BY DEF Counted
  <2>2. All(left, {x}) = All(l, {x}) + One(o, {x})
    BY <1>1, <1>4, AllRemoved
  <2>3. All(m, {x}) + One(o, {x}) = All(mta, {x}) + One(h, {x})
    BY <1>1, <1>2, <1>6, AllChanged
  <2>4. All(mta, {x}) = Upto(headers, {x}, next - 1) + All(left, {x})
    BY <1>1 DEF Counted
  <2>5. Len(l) \in Nat /\ Len(m) \in Nat
    BY <1>9, <1>10 DEF List
  <2>6. All(l, {x}) \in Nat /\ All(m, {x}) \in Nat /\ One(o, {x}) \in Nat
    BY <1>9, <1>10, <2>5, UptoNat DEF All, One
  <2>7. /\ Upto(headers, {x}, next) = Upto(headers, {x}, next - 1) + One(h, {x})
        /\ Upto(headers, {x}, next - 1) \in Nat /\ One(h, {x}) \in Nat
        /\ All(left, {x}) \in Nat /\ All(mta, {x}) \in Nat
    BY TurnFacts
  <2> DEFINE cm == All(m, {x})  cl == All(l, {x})  cf == All(left, {x})  ct == All(mta, {x})
             u == Upto(headers, {x}, next - 1)  v == Upto(headers, {x}, next)
             oh == One(h, {x})  oo == One(o, {x})
  <2>8. /\ cf = cl + oo /\ cm + oo = ct + oh /\ ct = u + cf /\ v = u + oh
        /\ cm \in Nat /\ cl \in Nat /\ cf \in Nat /\ ct \in Nat /\ u \in Nat /\ oh \in Nat /\ oo \in Nat
    BY <2>2, <2>3, <2>4, <2>6, <2>7
  <2> HIDE DEF cm, cl, cf, ct, u, v, oh, oo
  <2>9. cm = v + cl
    BY <2>8
  <2> QED BY <2>9 DEF cm, v, cl
<1> QED BY <1>5, <1>8, <1>9, <1>10, <1>11, <1>12 DEF c

\* The last of the headers left is deleted; the others keep their numbers.
LEMMA DeleteStep ==
    ASSUME OneSpelling, Inv, left # <<>>
    PROVE  LET h == Last(left)
               m == MtaDelete(mta, h.name, IndexInSameHeaderName(original, h))
           IN  /\ Front(left) \in List /\ m \in List /\ InOrder(Front(left))
               /\ Placed(Front(left), m) /\ Counted(Front(left), m, next - 1)
<1> DEFINE n == Len(left)
           h == left[n]
           k == IndexInSameHeaderName(original, h)
           l == RemoveAt(left, n)
           p == MtaPosition(mta, h.name, k)
           m == RemoveAt(mta, p)
<1>1. /\ original \in List /\ headers \in List /\ left \in List /\ mta \in List
      /\ InOrder(left) /\ Placed(left, mta) /\ Counted(left, mta, next - 1)
      /\ next - 1 \in Nat
  BY DEF Inv, TypeInv, List
<1>2. n \in 1..Len(left) /\ Last(left) = h /\ Front(left) = l
  BY <1>1, FrontOf
<1>3. h \in Header /\ p \in 1..Len(mta) /\ mta[p] = h /\ Upto(mta, Called(h.name), p) = k
  BY <1>2, FoundByMta
<1>4. MtaDelete(mta, h.name, k) = m
  BY <1>3 DEF MtaDelete
<1> HIDE DEF p, n
<1>5. l \in List /\ InOrder(l)
  BY <1>1, <1>2, RemoveOf, OrderKept
<1>6. m \in List
  BY <1>1, <1>3, RemoveOf
<1>7. Placed(l, m)
  <2>1. SUFFICES ASSUME NEW a \in 1..Len(l)
                 PROVE  Stands(m, l[a], IndexInSameHeaderName(original, l[a]))
    BY DEF Placed
  <2>2. PICK b \in 1..Len(left) : b < n /\ l[a] = left[b]
    BY <1>1, <1>2, LeftBefore DEF n
  <2>3. left[b] \in Header
    BY <1>1 DEF List
  <2>4. Stands(mta, left[b], IndexInSameHeaderName(original, left[b]))
    BY <1>1 DEF Placed
  <2>5. left[b].name = h.name => IndexInSameHeaderName(original, left[b]) < k
    BY <1>1, <1>2, <2>2, Numbers
  <2>6. mta[p].name # left[b].name \/ IndexInSameHeaderName(original, left[b]) < Upto(mta, Called(left[b].name), p)
    BY <1>3, <2>5
  <2>7. Stands(m, left[b], IndexInSameHeaderName(original, left[b]))
    BY <1>1, <1>3, <2>3, <2>4, <2>6, StandsRemoved
  <2> QED BY <2>2, <2>7
<1>8. Counted(l, m, next - 1)
  <2>1. SUFFICES ASSUME NEW x \in Header
                 PROVE  All(m, {x}) = Upto(headers, {x}, next - 1) + All(l, {x})
    BY DEF Counted
  <2>2. All(left, {x}) = All(l, {x}) + One(h, {x})
    BY <1>1, <1>2, AllRemoved
  <2>3. All(mta, {x}) = All(m, {x}) + One(h, {x})
    BY <1>1, <1>3, AllRemoved
  <2>4. All(mta, {x}) = Upto(headers, {x}, next - 1) + All(left, {x})
    BY <1>1 DEF Counted
  <2>5. Len(l) \in Nat /\ Len(m) \in Nat
    BY <1>5, <1>6 DEF List
  <2>6. All(l, {x}) \in Nat /\ All(m, {x}) \in Nat /\ One(h, {x}) \in Nat
    BY <1>5, <1>6, <2>5, UptoNat DEF All, One
  <2>7. Upto(headers, {x}, next - 1) \in Nat
    BY <1>1, UptoNat
  <2> HIDE DEF l, m, h
  <2> QED BY <2>2, <2>3, <2>4, <2>6, <2>7
<1> QED BY <1>2, <1>4, <1>5, <1>6, <1>7, <1>8

\* An edit of a child changes the list before anything is emitted.
LEMMA EditStep ==
    ASSUME Inv, NEW l \in List, Edit(l)
    PROVE  Inv'
<1>1. /\ phase = "edit" /\ phase' = phase /\ original' = original /\ left' = left /\ next' = next
      /\ mta' = mta /\ left = original /\ mta = original /\ next = 1 /\ headers' \in List
  BY DEF Edit, Inv, TypeInv, Phases
<1>2. TypeInv' /\ Phases'
  <2>1. Len(headers') \in Nat
    BY <1>1 DEF List
  <2> QED BY <1>1, <2>1 DEF Inv, TypeInv, Phases
<1>3. InOrder(left)' /\ Placed(left, mta)'
  BY <1>1 DEF Inv, InOrder, Placed
<1>4. Counted(left, mta, next - 1)'
  <2>1. SUFFICES ASSUME NEW x \in Header
                 PROVE  All(original, {x}) = Upto(headers', {x}, 0) + All(original, {x})
    BY <1>1 DEF Counted
  <2>2. Len(original) \in Nat /\ original \in List
    BY DEF Inv, TypeInv, List
  <2>3. All(original, {x}) \in Nat
    BY <2>2, UptoNat DEF All
  <2>4. Upto(headers', {x}, 0) = 0
    BY <1>1, UptoZero
  <2> QED BY <2>3, <2>4
<1> QED BY <1>2, <1>3, <1>4 DEF Inv

\* Every step keeps the invariant.
LEMMA InvStep ==
    ASSUME OneSpelling, Inv, [Next]_vars
    PROVE  Inv'
<1> DEFINE Value == [space : BOOLEAN, text : Texts]
<1>1. /\ original \in List /\ headers \in List /\ left \in List /\ mta \in List /\ Len(headers) \in Nat
      /\ next \in 1..(Len(headers) + 1) /\ next \in Nat
      /\ InOrder(left) /\ Placed(left, mta) /\ Counted(left, mta, next - 1) /\ Phases /\ TypeInv
  BY DEF Inv, TypeInv, List
<1>2. ASSUME NEW converts \in BOOLEAN, NEW t \in Texts
      PROVE  Normalized(converts, [space |-> FALSE, text |-> t]) \in Value
  BY DEF Normalized
<1>3. ASSUME NEW converts \in BOOLEAN, NEW name \in Names, NEW t \in Texts,
             CbAddHeader(converts, name, [space |-> FALSE, text |-> t])
      PROVE  Inv'
  BY <1>1, <1>2, <1>3, AddType, EditStep DEF CbAddHeader
<1>4. ASSUME NEW converts \in BOOLEAN, NEW name \in Names, NEW t \in Texts,
             NEW index \in 0..Len(headers),
             CbInsertHeader(converts, index, name, [space |-> FALSE, text |-> t])
      PROVE  Inv'
  <2>1. index \in Nat
    BY <1>1
  <2> QED BY <1>1, <1>2, <1>4, <2>1, InsertType, EditStep DEF CbInsertHeader
<1>5. ASSUME NEW converts \in BOOLEAN, NEW name \in Names, NEW t \in Texts,
             NEW index \in 0..Len(headers),
             CbChangeHeader(converts, name, index, [space |-> FALSE, text |-> t])
      PROVE  Inv'
  BY <1>1, <1>2, <1>5, ChangeType, EditStep DEF CbChangeHeader
<1>6. ASSUME NEW name \in Names, NEW index, CbDeleteHeader(name, index)
      PROVE  Inv'
  BY <1>1, <1>6, DeleteType, EditStep DEF CbDeleteHeader
<1>7. CASE EmitHeaderSignals
  <2>1. /\ UNCHANGED <<original, headers, mta>> /\ left' = left /\ next' = next /\ phase' = "emit"
    BY <1>1, <1>7 DEF EmitHeaderSignals, Phases
  <2>2. TypeInv' /\ Phases'
    BY <1>1, <2>1 DEF TypeInv, Phases
  <2> QED BY <1>1, <2>1, <2>2 DEF Inv, InOrder, Placed, Counted
<1>8. CASE Compare
  <2>1. /\ UNCHANGED <<original, headers>> /\ phase' = "emit" /\ phase = "emit"
        /\ next' = next + 1 /\ next <= Len(headers) /\ next' - 1 = next
        /\ next' \in 1..(Len(headers) + 1)
    BY <1>1, <1>8 DEF Compare
  <2>2. left' \in List /\ mta' \in List /\ InOrder(left') /\ Placed(left', mta') /\ Counted(left', mta', next)
    <3> DEFINE h == headers[next]
    <3>1. Keep(h) \/ EmitInsert(h) \/ EmitChange(h)
      BY <1>8 DEF Compare
    <3>2. CASE Keep(h)
      BY <1>1, <2>1, <3>2, KeepStep DEF Keep
    <3>3. CASE EmitInsert(h)
      BY <1>1, <2>1, <3>3, InsertStep DEF EmitInsert
    <3>4. CASE EmitChange(h)
      BY <2>1, <3>4, ChangeStep DEF EmitChange
    <3> QED BY <3>1, <3>2, <3>3, <3>4
  <2>3. TypeInv' /\ Phases'
    BY <1>1, <2>1, <2>2 DEF TypeInv, Phases
  <2> QED BY <2>1, <2>2, <2>3 DEF Inv, InOrder, Placed, Counted
<1>9. CASE EmitDelete
  <2>1. /\ UNCHANGED <<original, headers, next, phase>> /\ phase = "emit" /\ left # <<>>
        /\ left' = Front(left)
        /\ mta' = MtaDelete(mta, Last(left).name, IndexInSameHeaderName(original, Last(left)))
    BY <1>9 DEF EmitDelete, Delete
  <2>2. left' \in List /\ mta' \in List /\ InOrder(left') /\ Placed(left', mta') /\ Counted(left', mta', next - 1)
    BY <2>1, DeleteStep
  <2>3. TypeInv' /\ Phases'
    BY <1>1, <2>1, <2>2 DEF TypeInv, Phases
  <2> QED BY <2>1, <2>2, <2>3 DEF Inv, InOrder, Placed, Counted
<1>10. CASE Emitted
  <2>1. UNCHANGED <<original, headers, left, next, mta>> /\ phase' = "done" /\ left = <<>> /\ next = Len(headers) + 1
    BY <1>1, <1>10 DEF Emitted
  <2>2. TypeInv' /\ Phases'
    BY <1>1, <2>1 DEF TypeInv, Phases
  <2> QED BY <1>1, <2>1, <2>2 DEF Inv, InOrder, Placed, Counted
<1>11. CASE UNCHANGED vars
  BY <1>11 DEF vars, Inv, TypeInv, Phases, InOrder, Placed, Counted
<1> QED BY <1>3, <1>4, <1>5, <1>6, <1>7, <1>8, <1>9, <1>10, <1>11 DEF Next

\* Lists with each header as often are the same bag.
LEMMA SameBag ==
    ASSUME NEW l \in List, NEW d \in List, \A x \in Header : All(l, {x}) = All(d, {x})
    PROVE  ToBag(l) = ToBag(d)
<1>1. /\ DOMAIN l = 1..Len(l) /\ Len(l) \in Nat /\ \A i \in 1..Len(l) : l[i] \in Header
      /\ DOMAIN d = 1..Len(d) /\ Len(d) \in Nat /\ \A i \in 1..Len(d) : d[i] \in Header
  BY DEF List
<1>2. ASSUME NEW s \in List, NEW x
      PROVE  All(s, {x}) = Cardinality({i \in DOMAIN s : s[i] = x})
  <2>1. Places(s, {x}, Len(s)) = {i \in DOMAIN s : s[i] = x}
    BY DEF Places, List
  <2> QED BY <2>1 DEF All, Upto
<1>3. ASSUME NEW s \in List, NEW x
      PROVE  x \in Range(s) <=> All(s, {x}) # 0
  <2>1. Len(s) \in Nat /\ DOMAIN s = 1..Len(s)
    BY DEF List
  <2>2. IsFiniteSet(Places(s, {x}, Len(s)))
    BY <2>1, UptoNat
  <2>3. Places(s, {x}, Len(s)) # {} <=> \E i \in DOMAIN s : s[i] = x
    BY <2>1 DEF Places
  <2>4. All(s, {x}) # 0 <=> Places(s, {x}, Len(s)) # {}
    BY <2>2, FS_EmptySet DEF All, Upto
  <2> QED BY <2>3, <2>4 DEF Range
<1>4. Range(l) \subseteq Header /\ Range(d) \subseteq Header
  BY <1>1 DEF Range
<1>5. Range(l) = Range(d)
  BY <1>3, <1>4
<1>6. \A x \in Range(l) : Cardinality({i \in DOMAIN l : l[i] = x}) = Cardinality({i \in DOMAIN d : d[i] = x})
  <2>1. SUFFICES ASSUME NEW x \in Range(l)
                 PROVE  Cardinality({i \in DOMAIN l : l[i] = x}) = Cardinality({i \in DOMAIN d : d[i] = x})
    OBVIOUS
  <2>2. All(l, {x}) = All(d, {x})
    BY <1>4
  <2>3. All(l, {x}) = Cardinality({i \in DOMAIN l : l[i] = x})
    BY <1>2
  <2>4. All(d, {x}) = Cardinality({i \in DOMAIN d : d[i] = x})
    BY <1>2
  <2> QED BY <2>2, <2>3, <2>4, Zenon
<1> QED BY <1>5, <1>6 DEF ToBag

\* After the end of the message the MTA has the headers the children left, each
\* as often, whatever the message had and whatever the children did to it, if no
\* header came twice and every name has one spelling.
THEOREM HeadersArrive ==
    ASSUME NoneTwice, OneSpelling
    PROVE  Spec => []SameHeaders
<1>1. Init => Inv
  BY InitInv
<1>2. Inv /\ [Next]_vars => Inv'
  BY InvStep
<1>3. Inv => SameHeaders
  <2>1. SUFFICES ASSUME Inv, phase = "done" PROVE ToBag(mta) = ToBag(headers)
    BY DEF SameHeaders
  <2>2. /\ headers \in List /\ mta \in List /\ left = <<>> /\ left \in List /\ Len(headers) \in Nat
        /\ next - 1 = Len(headers) /\ Counted(left, mta, next - 1)
    BY <2>1 DEF Inv, TypeInv, Phases, List
  <2>3. ASSUME NEW x \in Header PROVE All(mta, {x}) = All(headers, {x})
    <3>1. All(left, {x}) = 0
      <4>1. Len(left) = 0
        BY <2>2
      <4> QED BY <2>2, <4>1, UptoZero DEF All
    <3>2. All(mta, {x}) = All(headers, {x}) + All(left, {x})
      BY <2>2 DEF Counted, All
    <3>3. All(headers, {x}) \in Nat
      BY <2>2, UptoNat DEF All
    <3> QED BY <3>1, <3>2, <3>3
  <2> QED BY <2>2, <2>3, SameBag
<1> QED BY <1>1, <1>2, <1>3, PTL DEF Spec
=============================================================================
