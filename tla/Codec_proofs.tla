---------------------------- MODULE Codec_proofs ----------------------------
(* Machine-checked proofs about Codec. *)
EXTENDS Codec, SequenceTheorems, FiniteSetTheorems, NaturalsInduction, WellFoundedInduction, TLAPS

-----------------------------------------------------------------------------
(* Numbers *)

\* Induction, for a set of numbers: what holds of 0 and passes from a number to
\* the next holds of all.
LEMMA Inductive ==
    ASSUME NEW T \in SUBSET Nat, 0 \in T, \A n \in T : n + 1 \in T
    PROVE  T = Nat
<1>1. SUFFICES ASSUME Nat \ T # {} PROVE FALSE
  OBVIOUS
<1>2. PICK m \in Nat \ T : \A j \in Nat \ T : <<j, m>> \notin OpToRel(<, Nat)
  BY <1>1, NatLessThanWellFounded, WFMin
<1>3. \A j \in Nat : j < m => j \in T
  BY <1>2 DEF OpToRel
<1>4. m \in Nat /\ m \notin T
  BY <1>2
<1>5. m # 0 /\ m - 1 \in Nat /\ m - 1 < m
  BY <1>4
<1>6. (m - 1) + 1 \in T /\ (m - 1) + 1 = m
  BY <1>3, <1>4, <1>5
<1> QED BY <1>4, <1>6

-----------------------------------------------------------------------------
(* Flattening *)

\* Concatenation of bytes is associative.
LEMMA AssocBytes ==
    \A s, t, u \in Seq(Byte) : (s \o t) \o u = s \o (t \o u)
BY ConcatAssociative

\* f has the flattened beginnings of s.
Sums(s, f) == /\ f = [i \in 1..Len(s) |-> f[i]]
              /\ \A i \in 1..Len(s) : f[i] = IF i = 1 THEN s[i] ELSE f[i - 1] \o s[i]

\* Partial concatenations of the same sequence agree.
LEMMA SumsUnique ==
    ASSUME NEW S, NEW s \in Seq(Seq(S)), NEW f, NEW g, Sums(s, f), Sums(s, g)
    PROVE  f = g
<1> DEFINE T == {n \in Nat : n + 1 \in 1..Len(s) => f[n + 1] = g[n + 1]}
<1>1. Len(s) \in Nat
  OBVIOUS
<1>a. \A i \in 1..Len(s) : /\ f[i] = IF i = 1 THEN s[i] ELSE f[i - 1] \o s[i]
                           /\ g[i] = IF i = 1 THEN s[i] ELSE g[i - 1] \o s[i]
  BY Zenon DEF Sums
<1>b. f = [i \in 1..Len(s) |-> f[i]] /\ g = [i \in 1..Len(s) |-> g[i]]
  BY Zenon DEF Sums
<1>2. 0 \in T
  BY <1>1, <1>a
<1>3. ASSUME NEW n \in T PROVE n + 1 \in T
  <2>1. SUFFICES ASSUME (n + 1) + 1 \in 1..Len(s) PROVE f[(n + 1) + 1] = g[(n + 1) + 1]
    OBVIOUS
  <2>2. n + 1 \in 1..Len(s) /\ (n + 1) + 1 # 1 /\ ((n + 1) + 1) - 1 = n + 1
    BY <1>1, <2>1
  <2>3. f[n + 1] = g[n + 1]
    BY <2>2
  <2> QED BY <1>a, <2>1, <2>2, <2>3
<1>4. T = Nat
  <2> HIDE DEF T
  <2>1. T \in SUBSET Nat
    BY DEF T
  <2> QED BY <1>2, <1>3, <2>1, Inductive
<1>5. ASSUME NEW i \in 1..Len(s) PROVE f[i] = g[i]
  <2>1. i - 1 \in Nat /\ (i - 1) + 1 = i
    BY <1>1
  <2>2. i - 1 \in T
    BY <1>4, <2>1
  <2>3. (i - 1) + 1 \in 1..Len(s) => f[(i - 1) + 1] = g[(i - 1) + 1]
    BY <2>2
  <2> QED BY <2>1, <2>3
<1> QED BY <1>5, <1>b, Zenon

\* FlattenSeq is the last of them.
LEMMA FlattenIs ==
    ASSUME NEW S, NEW s \in Seq(Seq(S)), s # <<>>, NEW f, Sums(s, f)
    PROVE  FlattenSeq(s) = f[Len(s)]
<1>1. Len(s) \in Nat /\ Len(s) # 0
  OBVIOUS
<1> DEFINE Is(g) == g = [i \in 1..Len(s) |-> IF i = 1 THEN s[i] ELSE g[i - 1] \o s[i]]
<1>2. FlattenSeq(s) = (CHOOSE g : Is(g))[Len(s)]
  BY <1>1 DEF FlattenSeq
<1>3. \A g : Is(g) => Sums(s, g)
  BY DEF Sums
<1>4. Is(f)
  BY DEF Sums
<1> HIDE DEF Is
<1>5. Is(CHOOSE g : Is(g))
  BY <1>4
<1>6. (CHOOSE g : Is(g)) = f
  BY <1>3, <1>5, SumsUnique
<1> QED BY <1>2, <1>6

\* There is such an f.
LEMMA SumsExist ==
    ASSUME NEW S, NEW s \in Seq(Seq(S))
    PROVE  \E f \in [1..Len(s) -> Seq(S)] : Sums(s, f)
<1> DEFINE T == {n \in Nat : \A t \in Seq(Seq(S)) : Len(t) = n =>
                    \E f \in [1..Len(t) -> Seq(S)] : Sums(t, f)}
<1>1. 0 \in T
  <2>1. SUFFICES ASSUME NEW t \in Seq(Seq(S)), Len(t) = 0
                 PROVE  \E f \in [1..Len(t) -> Seq(S)] : Sums(t, f)
    OBVIOUS
  <2> DEFINE f == [i \in 1..Len(t) |-> t[i]]
  <2>2. f \in [1..Len(t) -> Seq(S)] /\ Sums(t, f)
    BY <2>1 DEF Sums
  <2> QED BY <2>2
<1>2. ASSUME NEW n \in T PROVE n + 1 \in T
  <2>1. SUFFICES ASSUME NEW t \in Seq(Seq(S)), Len(t) = n + 1
                 PROVE  \E f \in [1..Len(t) -> Seq(S)] : Sums(t, f)
    OBVIOUS
  <2> DEFINE u == SubSeq(t, 1, n)
  <2>2. u \in Seq(Seq(S)) /\ Len(u) = n /\ \A i \in 1..n : u[i] = t[i]
    BY <2>1, SubSeqProperties
  <2>3. PICK g \in [1..n -> Seq(S)] : Sums(u, g)
    BY <2>2
  <2> HIDE DEF u
  <2>4. t[n + 1] \in Seq(S) /\ \A i \in 1..n : t[i] \in Seq(S)
    BY <2>1
  <2> DEFINE v == IF n = 0 THEN t[1] ELSE g[n] \o t[n + 1]
             f == [i \in 1..(n + 1) |-> IF i <= n THEN g[i] ELSE v]
  <2>5. v \in Seq(S)
    <3>1. n # 0 => g[n] \in Seq(S)
      BY <2>3
    <3>2. CASE n = 0
      BY <2>4, <3>2
    <3>3. CASE n # 0
      BY <2>4, <3>1, <3>3
    <3> QED BY <3>2, <3>3
  <2>6. f \in [1..Len(t) -> Seq(S)]
    BY <2>1, <2>5
  <2>7. ASSUME NEW i \in 1..Len(t)
        PROVE  f[i] = IF i = 1 THEN t[i] ELSE f[i - 1] \o t[i]
    <3>1. CASE i <= n
      <4>1. i \in 1..Len(u) /\ u[i] = t[i] /\ f[i] = g[i]
        BY <2>1, <2>2, <3>1
      <4>2. i # 1 => f[i - 1] = g[i - 1]
        BY <2>1, <3>1
      <4>3. g[i] = IF i = 1 THEN u[i] ELSE g[i - 1] \o u[i]
        BY <2>3, <4>1 DEF Sums
      <4> QED BY <4>1, <4>2, <4>3
    <3>2. CASE i = n + 1
      <4>1. f[i] = v
        BY <2>1, <3>2
      <4>2. n # 0 => f[n] = g[n] /\ i # 1 /\ i - 1 = n
        BY <2>1, <3>2
      <4>3. n = 0 => i = 1
        BY <3>2
      <4> QED BY <3>2, <4>1, <4>2, <4>3
    <3> QED BY <2>1, <3>1, <3>2
  <2>8. Sums(t, f)
    <3>1. f = [i \in 1..Len(t) |-> f[i]]
      BY <2>1
    <3> HIDE DEF f
    <3> QED BY <2>7, <3>1 DEF Sums
  <2> QED BY <2>6, <2>8
<1>3. T = Nat
  <2> HIDE DEF T
  <2>1. T \in SUBSET Nat
    BY DEF T
  <2> QED BY <1>1, <1>2, <2>1, Inductive
<1>4. Len(s) \in T
  BY <1>3
<1> QED BY <1>4

\* Nothing is flattened to nothing.
LEMMA FlattenEmpty == FlattenSeq(<<>>) = <<>>
BY DEF FlattenSeq

\* One sequence more.
LEMMA FlattenAppend ==
    ASSUME NEW S, NEW s \in Seq(Seq(S)), NEW x \in Seq(S)
    PROVE  /\ FlattenSeq(s) \in Seq(S)
           /\ FlattenSeq(Append(s, x)) = FlattenSeq(s) \o x
<1> DEFINE t == Append(s, x)
<1>1. PICK f \in [1..Len(t) -> Seq(S)] : Sums(t, f)
  <2>1. t \in Seq(Seq(S))
    OBVIOUS
  <2> QED BY <2>1, SumsExist
<1>2. /\ t \in Seq(Seq(S)) /\ t # <<>> /\ Len(t) = Len(s) + 1 /\ t[Len(s) + 1] = x
      /\ \A i \in 1..Len(s) : t[i] = s[i]
      /\ Len(s) \in Nat
  BY AppendProperties
<1> HIDE DEF t
<1>3. FlattenSeq(t) = f[Len(s) + 1]
  BY <1>1, <1>2, FlattenIs
<1>4. CASE s = <<>>
  <2>1. Len(s) = 0
    BY <1>4
  <2>2. f[1] = t[1]
    BY <1>1, <1>2, <2>1 DEF Sums
  <2>3. <<>> \o x = x /\ <<>> \in Seq(S)
    OBVIOUS
  <2>4. FlattenSeq(t) = x
    BY <1>2, <1>3, <2>1, <2>2
  <2>5. FlattenSeq(s) = <<>>
    BY <1>4, FlattenEmpty
  <2> QED BY <2>3, <2>4, <2>5 DEF t
<1>5. CASE s # <<>>
  <2>1. Len(s) # 0
    BY <1>5
  <2>2. f[Len(s) + 1] = f[Len(s)] \o x
    <3>1. Len(s) + 1 \in 1..Len(t) /\ Len(s) + 1 # 1 /\ (Len(s) + 1) - 1 = Len(s)
      BY <1>2, <2>1
    <3> QED BY <1>1, <1>2, <3>1 DEF Sums
  <2> DEFINE g == [i \in 1..Len(s) |-> f[i]]
  <2>3. Sums(s, g)
    <3>1. ASSUME NEW i \in 1..Len(s) PROVE g[i] = IF i = 1 THEN s[i] ELSE g[i - 1] \o s[i]
      <4>1. i \in 1..Len(t) /\ t[i] = s[i] /\ g[i] = f[i]
        BY <1>2
      <4>2. i # 1 => g[i - 1] = f[i - 1]
        BY <1>2
      <4>3. f[i] = IF i = 1 THEN t[i] ELSE f[i - 1] \o t[i]
        BY <1>1, <4>1 DEF Sums
      <4> QED BY <4>1, <4>2, <4>3
    <3>2. g = [i \in 1..Len(s) |-> g[i]]
      OBVIOUS
    <3> HIDE DEF g
    <3> QED BY <3>1, <3>2 DEF Sums
  <2>4. FlattenSeq(s) = g[Len(s)]
    <3> HIDE DEF g
    <3> QED BY <1>5, <2>3, FlattenIs
  <2>5. g[Len(s)] = f[Len(s)] /\ f[Len(s)] \in Seq(S)
    BY <1>1, <1>2, <2>1
  <2> QED BY <1>3, <2>2, <2>4, <2>5 DEF t
<1> QED BY <1>4, <1>5

\* A single sequence is itself.
LEMMA FlattenOne ==
    ASSUME NEW S, NEW x \in Seq(S)
    PROVE  FlattenSeq(<<x>>) = x
<1>1. <<>> \in Seq(Seq(S)) /\ Append(<<>>, x) = <<x>> /\ <<>> \o x = x
  OBVIOUS
<1>2. FlattenSeq(Append(<<>>, x)) = FlattenSeq(<<>>) \o x
  BY <1>1, FlattenAppend
<1> QED BY <1>1, <1>2, FlattenEmpty

\* What holds of t holds of t and one sequence more.
LEMMA FlattenConcatStep ==
    ASSUME NEW S, NEW s \in Seq(Seq(S)), NEW t \in Seq(Seq(S)), NEW x \in Seq(S)
    PROVE  FlattenSeq(s \o t) = FlattenSeq(s) \o FlattenSeq(t)
           => FlattenSeq(s \o Append(t, x)) = FlattenSeq(s) \o FlattenSeq(Append(t, x))
<1>1. s \o t \in Seq(Seq(S)) /\ <<x>> \in Seq(Seq(S))
  OBVIOUS
<1>2. FlattenSeq(s) \in Seq(S) /\ FlattenSeq(t) \in Seq(S)
  BY FlattenAppend
<1>3. (FlattenSeq(s) \o FlattenSeq(t)) \o x = FlattenSeq(s) \o (FlattenSeq(t) \o x)
  BY <1>2, ConcatAssociative, SMTT(60)
<1>4. Append(t, x) = t \o <<x>> /\ Append(s \o t, x) = (s \o t) \o <<x>>
  BY <1>1, AppendIsConcat
<1>5. (s \o t) \o <<x>> = s \o (t \o <<x>>)
  BY <1>1, ConcatAssociative, SMTT(60)
<1>6. FlattenSeq(Append(s \o t, x)) = FlattenSeq(s \o t) \o x
  BY <1>1, FlattenAppend
<1>7. FlattenSeq(Append(t, x)) = FlattenSeq(t) \o x
  BY FlattenAppend
<1>8. s \o Append(t, x) = Append(s \o t, x)
  BY <1>4, <1>5, Zenon
<1> QED BY <1>3, <1>6, <1>7, <1>8, Zenon

\* Flattening passes through concatenation.
LEMMA FlattenConcat ==
    ASSUME NEW S, NEW s \in Seq(Seq(S)), NEW t \in Seq(Seq(S))
    PROVE  FlattenSeq(s \o t) = FlattenSeq(s) \o FlattenSeq(t)
<1> DEFINE T == {n \in Nat : \A u \in Seq(Seq(S)) : Len(u) = n =>
                    FlattenSeq(s \o u) = FlattenSeq(s) \o FlattenSeq(u)}
<1>1. 0 \in T
  <2>1. SUFFICES ASSUME NEW u \in Seq(Seq(S)), Len(u) = 0
                 PROVE  FlattenSeq(s \o u) = FlattenSeq(s) \o FlattenSeq(u)
    OBVIOUS
  <2>2. u = <<>>
    BY <2>1
  <2>3. FlattenSeq(s) \in Seq(S)
    <3>1. <<>> \in Seq(S)
      OBVIOUS
    <3> QED BY <3>1, FlattenAppend
  <2>4. s \o u = s
    BY <2>2
  <2>5. FlattenSeq(s) \o <<>> = FlattenSeq(s)
    BY <2>3
  <2> QED BY <2>2, <2>4, <2>5, FlattenEmpty
<1>2. ASSUME NEW n \in T PROVE n + 1 \in T
  <2>1. SUFFICES ASSUME NEW u \in Seq(Seq(S)), Len(u) = n + 1
                 PROVE  FlattenSeq(s \o u) = FlattenSeq(s) \o FlattenSeq(u)
    OBVIOUS
  <2>2. u # <<>>
    BY <2>1
  <2>3. PICK v \in Seq(Seq(S)), x \in Seq(S) : u = Append(v, x)
    BY <2>2, SequenceEmptyOrAppend
  <2>4. Len(v) = n
    BY <2>1, <2>3, AppendProperties
  <2>5. FlattenSeq(s \o v) = FlattenSeq(s) \o FlattenSeq(v)
    BY <2>4
  <2>6. FlattenSeq(s \o Append(v, x)) = FlattenSeq(s) \o FlattenSeq(Append(v, x))
    <3> HIDE DEF T
    <3> QED BY <2>5, FlattenConcatStep
  <2> QED BY <2>3, <2>6, Zenon
<1>3. T = Nat
  <2> HIDE DEF T
  <2>1. T \in SUBSET Nat
    BY DEF T
  <2> QED BY <1>1, <1>2, <2>1, Inductive
<1>4. Len(t) \in T
  BY <1>3
<1> QED BY <1>4

-----------------------------------------------------------------------------
(* Cutting a stream *)

\* What is behind the first n elements.
LEMMA FromOf ==
    ASSUME NEW S, NEW s \in Seq(S), NEW n \in 0..Len(s)
    PROVE  /\ SubSeq(s, 1, n) \in Seq(S) /\ Len(SubSeq(s, 1, n)) = n
           /\ From(s, n + 1) \in Seq(S) /\ Len(From(s, n + 1)) = Len(s) - n
           /\ SubSeq(s, 1, n) \o From(s, n + 1) = s
<1>1. Len(s) \in Nat /\ n \in Nat /\ n <= Len(s) /\ \A i \in 1..Len(s) : s[i] \in S
  OBVIOUS
<1>2. SubSeq(s, 1, n) \in Seq(S) /\ Len(SubSeq(s, 1, n)) = n
  <2>1. \A i \in 1..n : s[i] \in S
    BY <1>1
  <2> QED BY <1>1, <2>1, SubSeqProperties
<1>3. SubSeq(s, n + 1, Len(s)) \in Seq(S) /\ Len(SubSeq(s, n + 1, Len(s))) = Len(s) - n
  <2>1. \A i \in (n + 1)..Len(s) : s[i] \in S
    BY <1>1
  <2> QED BY <1>1, <2>1, SubSeqProperties
<1>4. SubSeq(s, 1, n) \o SubSeq(s, n + 1, Len(s)) = SubSeq(s, 1, Len(s))
  <2>1. 1 \in 1..(Len(s) + 1) /\ n \in (1 - 1)..Len(s) /\ Len(s) \in n..Len(s)
    BY <1>1
  <2> QED BY <2>1, ConcatAdjacentSubSeq
<1>5. SubSeq(s, 1, Len(s)) = s
  BY SubSeqFull
<1> QED BY <1>2, <1>3, <1>4, <1>5 DEF From

\* Two ways to cut a stream in two, when the first piece of the one is no longer
\* than that of the other.
CutAt(S, x, y, u, z) ==
    /\ SubSeq(x, 1, Len(u)) = u
    /\ From(x, Len(u) + 1) \in Seq(S)
    /\ From(x, Len(u) + 1) \o y = z
    /\ x = u \o From(x, Len(u) + 1)

\* Where a stream is cut into a held part and the rest.
LEMMA Cut ==
    ASSUME NEW S, NEW x \in Seq(S), NEW y \in Seq(S), NEW u \in Seq(S), NEW z \in Seq(S),
           x \o y = u \o z, Len(u) <= Len(x)
    PROVE  CutAt(S, x, y, u, z)
<1>1. Len(x) \in Nat /\ Len(u) \in Nat /\ Len(u) \in 0..Len(x)
  OBVIOUS
<1> DEFINE a == SubSeq(x, 1, Len(u))
           b == From(x, Len(u) + 1)
<1>2. a \in Seq(S) /\ Len(a) = Len(u) /\ b \in Seq(S) /\ a \o b = x
  BY <1>1, FromOf
<1>3. \A i \in 1..Len(u) : a[i] = x[i]
  <2>1. \A i \in 1..Len(u) : x[i] \in S
    BY <1>1
  <2> QED BY <1>1, <2>1, SubSeqProperties
<1> HIDE DEF a, b
<1>4. \A i \in 1..Len(u) : (x \o y)[i] = x[i] /\ (u \o z)[i] = u[i]
  <2>1. \A i \in 1..(Len(x) + Len(y)) : (x \o y)[i] = IF i <= Len(x) THEN x[i] ELSE y[i - Len(x)]
    BY ConcatProperties
  <2>2. \A i \in 1..(Len(u) + Len(z)) : (u \o z)[i] = IF i <= Len(u) THEN u[i] ELSE z[i - Len(u)]
    BY ConcatProperties
  <2>3. Len(y) \in Nat /\ Len(z) \in Nat
    OBVIOUS
  <2>4. \A i \in 1..Len(u) : i \in 1..(Len(x) + Len(y)) /\ i \in 1..(Len(u) + Len(z)) /\ i <= Len(x) /\ i <= Len(u)
    BY <1>1, <2>3
  <2> QED BY <2>1, <2>2, <2>4
<1>5. \A i \in 1..Len(a) : a[i] = u[i]
  BY <1>2, <1>3, <1>4
<1>6. a = u
  BY <1>2, <1>5, SeqEqual
<1>7. u \o (b \o y) = u \o z
  <2>1. b \in Seq(S)
    BY <1>2
  <2>2. (u \o b) \o y = u \o (b \o y)
    BY ONLY <2>1, ConcatAssociative, SMTT(60)
  <2> QED BY <1>2, <1>6, <2>2, Zenon
<1>8. b \o y = z
  <2>1. b \o y \in Seq(S)
    BY <1>2
  <2> QED BY <1>7, <2>1, ConcatSimplifications
<1> QED BY <1>2, <1>6, <1>8 DEF CutAt, a, b

-----------------------------------------------------------------------------
(* Packets *)

\* What F makes of the elements of s, one after the other.
Mapped(F, s) == [i \in DOMAIN s |-> F[s[i]]]
FlatMap(F, s) == FlattenSeq(Mapped(F, s))
Maps(F, P, R) == F \in [P -> R]

\* A function applied to two sequences behind each other.
LEMMA MapConcat ==
    ASSUME NEW P, NEW R, NEW F, Maps(F, P, R), NEW s \in Seq(P), NEW t \in Seq(P)
    PROVE  Mapped(F, s) \in Seq(R) /\ Mapped(F, s \o t) = Mapped(F, s) \o Mapped(F, t)
<1> DEFINE M(q) == [i \in DOMAIN q |-> F[q[i]]]
<1>a. F \in [P -> R]
  BY DEF Maps
<1>1. ASSUME NEW q \in Seq(P)
      PROVE  M(q) \in Seq(R) /\ Len(M(q)) = Len(q) /\ \A i \in 1..Len(q) : M(q)[i] = F[q[i]]
  <2>1. DOMAIN q = 1..Len(q) /\ Len(q) \in Nat /\ \A i \in 1..Len(q) : q[i] \in P
    OBVIOUS
  <2>2. \A i \in 1..Len(q) : F[q[i]] \in R
    BY <1>a, <2>1
  <2>3. M(q) = [i \in 1..Len(q) |-> F[q[i]]]
    BY <2>1
  <2> QED BY <2>1, <2>2, <2>3
<1>2. /\ s \o t \in Seq(P) /\ Len(s \o t) = Len(s) + Len(t)
      /\ \A i \in 1..(Len(s) + Len(t)) :
           (s \o t)[i] = IF i <= Len(s) THEN s[i] ELSE t[i - Len(s)]
  BY ConcatProperties
<1>3. /\ M(s) \in Seq(R) /\ Len(M(s)) = Len(s) /\ \A i \in 1..Len(s) : M(s)[i] = F[s[i]]
      /\ M(t) \in Seq(R) /\ Len(M(t)) = Len(t) /\ \A i \in 1..Len(t) : M(t)[i] = F[t[i]]
      /\ M(s \o t) \in Seq(R) /\ Len(M(s \o t)) = Len(s) + Len(t)
      /\ \A i \in 1..(Len(s) + Len(t)) : M(s \o t)[i] = F[(s \o t)[i]]
  BY <1>1, <1>2
<1>4. Len(s) \in Nat /\ Len(t) \in Nat
  OBVIOUS
<1> DEFINE a == M(s)
           b == M(t)
           c == M(s \o t)
<1>5. M(s) = a /\ M(t) = b /\ M(s \o t) = c
  OBVIOUS
<1> HIDE DEF M, a, b, c
<1>6. /\ a \o b \in Seq(R) /\ Len(a \o b) = Len(a) + Len(b)
      /\ \A i \in 1..(Len(a) + Len(b)) : (a \o b)[i] = IF i <= Len(a) THEN a[i] ELSE b[i - Len(a)]
  BY <1>3, <1>5, ConcatProperties
<1>7. ASSUME NEW i \in 1..(Len(s) + Len(t)) PROVE c[i] = (a \o b)[i]
  <2>1. c[i] = F[(s \o t)[i]]
    BY <1>3, <1>5
  <2>2. CASE i <= Len(s)
    <3>1. i \in 1..Len(s)
      BY <1>4, <2>2
    <3> QED BY <1>2, <1>3, <1>4, <1>5, <1>6, <2>1, <2>2, <3>1
  <2>3. CASE ~(i <= Len(s))
    <3>1. i - Len(s) \in 1..Len(t)
      BY <1>4, <2>3
    <3>2. (s \o t)[i] = t[i - Len(s)]
      BY <1>2, <2>3
    <3>3. Len(a) = Len(s) /\ Len(b) = Len(t) /\ b[i - Len(s)] = F[t[i - Len(s)]]
      BY <1>3, <1>5, <3>1
    <3>4. (a \o b)[i] = b[i - Len(s)]
      BY <1>6, <2>3, <3>3
    <3> QED BY <2>1, <3>2, <3>3, <3>4
  <2> QED BY <2>2, <2>3
<1>8. c = a \o b
  <2>1. c \in Seq(R) /\ a \o b \in Seq(R) /\ Len(c) = Len(s) + Len(t) /\ Len(a \o b) = Len(s) + Len(t)
    BY <1>3, <1>5, <1>6
  <2> QED BY <1>7, <2>1, SeqEqual
<1>9. M(s) \in Seq(R) /\ M(s \o t) = M(s) \o M(t)
  BY <1>3, <1>5, <1>8
<1> QED BY <1>9 DEF M, Mapped

\* The contributions of two sequences behind each other.
LEMMA FlatMapOf ==
    ASSUME NEW P, NEW S, NEW F, Maps(F, P, Seq(S)), NEW s \in Seq(P), NEW t \in Seq(P)
    PROVE  /\ FlatMap(F, s) \in Seq(S)
           /\ FlatMap(F, s \o t) = FlatMap(F, s) \o FlatMap(F, t)
<1> DEFINE a == Mapped(F, s)
           b == Mapped(F, t)
           R == Seq(S)
<1>1. a \in Seq(Seq(S)) /\ b \in Seq(Seq(S)) /\ Mapped(F, s \o t) = a \o b
  <2>1. Maps(F, P, R)
    OBVIOUS
  <2> HIDE DEF R
  <2>2. a \in Seq(R) /\ Mapped(F, s \o t) = a \o b
    BY <2>1, MapConcat
  <2>3. b \in Seq(R)
    BY <2>1, MapConcat
  <2> QED BY <2>2, <2>3 DEF R
<1>2. FlatMap(F, s) = FlattenSeq(a) /\ FlatMap(F, t) = FlattenSeq(b)
      /\ FlatMap(F, s \o t) = FlattenSeq(Mapped(F, s \o t))
  BY DEF FlatMap
<1> HIDE DEF a, b
<1>3. <<>> \in Seq(S)
  OBVIOUS
<1>4. FlattenSeq(a) \in Seq(S)
  BY <1>1, <1>3, FlattenAppend
<1>5. FlattenSeq(a \o b) = FlattenSeq(a) \o FlattenSeq(b)
  BY <1>1, FlattenConcat
<1> QED BY <1>1, <1>2, <1>4, <1>5

\* The contribution of a single element.
LEMMA FlatMapOne ==
    ASSUME NEW P, NEW S, NEW F, Maps(F, P, Seq(S)), NEW p \in P
    PROVE  FlatMap(F, <<>>) = <<>> /\ FlatMap(F, <<p>>) = F[p]
<1>1. [i \in DOMAIN <<>> |-> F[<<>>[i]]] = <<>>
  OBVIOUS
<1>2. [i \in DOMAIN <<p>> |-> F[<<p>>[i]]] = <<F[p]>>
  OBVIOUS
<1>3. F[p] \in Seq(S)
  BY DEF Maps
<1>4. FlattenSeq(<<F[p]>>) = F[p]
  BY <1>3, FlattenOne
<1> QED BY <1>1, <1>2, <1>4, FlattenEmpty DEF FlatMap, Mapped

\* A remainder is a byte.
LEMMA Mod256 ==
    ASSUME NEW n \in Nat
    PROVE  n % 256 \in Nat /\ n \div 256 \in Nat /\ n % 256 = n - 256 * (n \div 256)
BY SMT

\* A number below 2^24 and its four bytes, of which the first is zero.
Length == {n \in Nat : n < 16777216}

\* The four bytes of a number give it back.
LEMMA U32Of ==
    ASSUME NEW n \in Length
    PROVE  /\ U32(n) \in Bytes /\ Len(U32(n)) = 4 /\ Number(U32(n)) = n
           /\ U32(n)[1] = 0
<1> DEFINE a == n \div 256
           b == n \div 65536
           c == n \div 16777216
           x == n % 256
           y == a % 256
           z == b % 256
<1>0. n \in Nat /\ n < 16777216
  BY SMT DEF Length
<1>1. a \in Nat /\ x \in Byte /\ x = n - 256 * a
  <2>1. x \in 0..255
    BY <1>0, SMT
  <2> QED BY <1>0, <2>1, Mod256, SMT DEF Byte
<1>2. a \div 256 = b /\ b \div 256 = c
  BY <1>0, SMT
<1>c. c = 0
  BY <1>0, SMT
<1> HIDE DEF a, b, c
<1>3. b \in Nat /\ y \in Byte /\ y = a - 256 * b
  <2>1. y \in 0..255
    BY <1>1, SMT
  <2> QED BY <1>1, <1>2, <2>1, Mod256, SMT DEF Byte
<1>4. z \in Byte /\ z = b - 256 * c
  <2>1. z \in 0..255
    BY <1>3, SMT
  <2>2. z = b - 256 * (b \div 256)
    BY <1>3, Mod256
  <2> HIDE DEF z
  <2> QED BY <1>2, <2>1, <2>2 DEF Byte
<1> HIDE DEF x, y, z
<1>5. c * 16777216 + z * 65536 + y * 256 + x = n
  BY <1>0, <1>c, <1>1, <1>3, <1>4, SMT DEF Byte
<1>6. U32(n) = <<c, z, y, x>>
  BY SMT DEF U32, a, b, c, x, y, z
<1>7. U32(n) \in Bytes /\ Len(U32(n)) = 4 /\ U32(n)[1] = 0
  BY <1>1, <1>c, <1>3, <1>4, <1>6, SMT DEF Bytes, Byte
<1>8. Number(U32(n)) = n
  <2>1. Number(U32(n)) = c * 16777216 + z * 65536 + y * 256 + x
    BY <1>1, <1>3, <1>4, <1>6, SMT DEF Number
  <2> QED BY <1>5, <2>1, SMT
<1> QED BY <1>7, <1>8

\* Nothing, or something whose first byte is zero.
Behind(r) == r = <<>> \/ r[1] = 0

\* The length of what can be packed.
LEMMA PackableOf ==
    ASSUME NEW c, Packable(c)
    PROVE  c \in Bytes /\ c \in Seq(Byte) /\ Len(c) \in Nat /\ Len(c) \in Length
<1>1. c \in Seq(Byte) /\ c \in Bytes
  BY SMT DEF Packable, Bytes
<1>2. Len(c) \in Nat
  BY <1>1
<1> QED BY <1>1, <1>2, SMT DEF Packable, Length

\* A packet is its length and its content.
LEMMA PackOf ==
    ASSUME NEW c, Packable(c)
    PROVE  /\ Pack(c) \in Bytes /\ Pack(c) = U32(Len(c)) \o c /\ Len(Pack(c)) = Len(c) + 4
           /\ \A r \in Bytes : Behind(Pack(c) \o r)
<1>1. Len(c) \in Nat /\ Len(c) \in Length /\ c \in Seq(Byte)
  BY PackableOf
<1> DEFINE u == U32(Len(c))
           p == u \o c
<1>2. u \in Seq(Byte) /\ Len(u) = 4 /\ u[1] = 0
  BY <1>1, U32Of DEF Bytes
<1> HIDE DEF u
<1>3. /\ p \in Seq(Byte) /\ Len(p) = Len(u) + Len(c)
      /\ \A i \in 1..(Len(u) + Len(c)) : p[i] = IF i <= Len(u) THEN u[i] ELSE c[i - Len(u)]
  BY <1>1, <1>2, ConcatProperties
<1>4. p[1] = 0 /\ Len(p) = Len(c) + 4
  <2>1. 1 \in 1..(Len(u) + Len(c)) /\ 1 <= Len(u)
    BY <1>1, <1>2
  <2> QED BY <1>1, <1>2, <1>3, <2>1
<1> HIDE DEF p
<1>5. ASSUME NEW r \in Seq(Byte) PROVE (p \o r)[1] = 0
  <2>1. \A i \in 1..(Len(p) + Len(r)) : (p \o r)[i] = IF i <= Len(p) THEN p[i] ELSE r[i - Len(p)]
    BY <1>3, ConcatProperties
  <2>2. 1 \in 1..(Len(p) + Len(r)) /\ 1 <= Len(p) /\ Len(r) \in Nat
    BY <1>1, <1>4
  <2> QED BY <1>4, <2>1, <2>2
<1>6. Pack(c) = p
  BY DEF Pack, p, u
<1> QED BY <1>3, <1>4, <1>5, <1>6 DEF Bytes, Behind, p, u

-----------------------------------------------------------------------------
(* The pieces of a message *)

\* The bytes of a body, one by one.
Chars(n, s) == [i \in 1..Len(s) |-> [name |-> n, byte |-> s[i]]]
Char(n) == [name : {n}, byte : Byte]

\* What a body says, byte by byte.
LEMMA CharsOf ==
    ASSUME NEW n, NEW s \in Bytes
    PROVE  /\ Chars(n, s) \in Seq(Char(n)) /\ Len(Chars(n, s)) = Len(s)
           /\ \A i \in 1..Len(s) : Chars(n, s)[i] = [name |-> n, byte |-> s[i]]
<1>1. Len(s) \in Nat /\ \A i \in 1..Len(s) : s[i] \in Byte
  BY DEF Bytes
<1>2. \A i \in 1..Len(s) : [name |-> n, byte |-> s[i]] \in Char(n)
  BY <1>1 DEF Char
<1> QED BY <1>1, <1>2 DEF Chars

\* Where the i-th chunk ends: the chunks are as long as they may be, but the last.
LEMMA ChunkNumbers ==
    ASSUME NEW c \in Nat \ {0}, NEW l \in Nat, c < l, NEW n, n = (l + c - 1) \div c
    PROVE  n \in Nat /\ n > 1 /\ (n - 1) * c < l /\ l <= n * c
<1>1. n \in Int /\ c * n <= l + c - 1 /\ l + c - 1 < c * (n + 1)
  OBVIOUS
<1>2. n > 1
  <2>1. SUFFICES ASSUME n <= 1 PROVE FALSE
    BY <1>1
  <2>2. c * (n + 1) <= c * 2
    BY <1>1, <2>1
  <2> QED BY <1>1, <2>2
<1>3. c * (n + 1) = c * n + c /\ (n - 1) * c = c * n - c /\ n * c = c * n
  BY <1>1
<1>4. c * n \in Int
  BY <1>1
<1> QED BY <1>1, <1>2, <1>3, <1>4

\* The i-th of the n chunks of l bytes.
LEMMA ChunkEnds ==
    ASSUME NEW c \in Nat \ {0}, NEW l \in Nat, NEW n \in Nat, n > 1,
           (n - 1) * c < l, l <= n * c, NEW i \in 1..n
    PROVE  /\ (i - 1) * c \in Nat
           /\ (i - 1) * c < (IF i < n THEN i * c ELSE l)
           /\ (IF i < n THEN i * c ELSE l) \in Nat
           /\ (IF i < n THEN i * c ELSE l) <= l
           /\ i # 1 => (IF i - 1 < n THEN (i - 1) * c ELSE l) = (i - 1) * c
<1>1. i * c = (i - 1) * c + c /\ (i - 1) * c \in Nat /\ i * c \in Nat
  OBVIOUS
<1>2. i < n => i * c <= (n - 1) * c
  <2>1. SUFFICES ASSUME i < n PROVE i * c <= (n - 1) * c
    OBVIOUS
  <2>2. PICK k \in Nat : n - 1 = i + k
    <3>1. (n - 1) - i \in Nat /\ n - 1 = i + ((n - 1) - i)
      BY <2>1
    <3> QED BY <3>1
  <2>3. (n - 1) * c = i * c + k * c /\ k * c \in Nat
    BY <2>2
  <2> QED BY <1>1, <2>3
<1>3. (n - 1) * c \in Nat
  OBVIOUS
<1>4. CASE i < n
  BY <1>1, <1>2, <1>3, <1>4
<1>5. CASE i = n
  BY <1>1, <1>3, <1>5
<1> QED BY <1>4, <1>5

\* Two neighbouring parts of a body.
LEMMA CharsConcat ==
    ASSUME NEW n, NEW s \in Bytes, NEW a \in Nat, NEW e \in Nat, a <= e, e <= Len(s)
    PROVE  Chars(n, SubSeq(s, 1, e)) = Chars(n, SubSeq(s, 1, a)) \o Chars(n, SubSeq(s, a + 1, e))
<1>1. Len(s) \in Nat /\ \A i \in 1..Len(s) : s[i] \in Byte
  BY DEF Bytes
<1> DEFINE x == SubSeq(s, 1, a)
           y == SubSeq(s, a + 1, e)
           z == SubSeq(s, 1, e)
<1>2. x \in Bytes /\ Len(x) = a /\ \A i \in 1..a : x[i] = s[i]
  <2>1. \A i \in 1..a : s[i] \in Byte
    BY <1>1
  <2> QED BY <1>1, <2>1, SubSeqProperties DEF Bytes
<1>3. y \in Bytes /\ Len(y) = e - a /\ \A i \in 1..(e - a) : y[i] = s[a + i]
  <2>1. \A i \in (a + 1)..e : s[i] \in Byte
    BY <1>1
  <2>2. /\ y \in Seq(Byte) /\ Len(y) = IF a + 1 <= e THEN e - (a + 1) + 1 ELSE 0
        /\ \A i \in 1..(e - (a + 1) + 1) : y[i] = s[(a + 1) + i - 1]
    BY <1>1, <2>1, SubSeqProperties
  <2> QED BY <1>1, <2>2 DEF Bytes
<1>4. z \in Bytes /\ Len(z) = e /\ \A i \in 1..e : z[i] = s[i]
  <2>1. \A i \in 1..e : s[i] \in Byte
    BY <1>1
  <2> QED BY <1>1, <2>1, SubSeqProperties DEF Bytes
<1> HIDE DEF x, y, z
<1>5. /\ Chars(n, x) \in Seq(Char(n)) /\ Len(Chars(n, x)) = a
      /\ \A i \in 1..a : Chars(n, x)[i] = [name |-> n, byte |-> s[i]]
  BY <1>2, CharsOf
<1>6. /\ Chars(n, y) \in Seq(Char(n)) /\ Len(Chars(n, y)) = e - a
      /\ \A i \in 1..(e - a) : Chars(n, y)[i] = [name |-> n, byte |-> s[a + i]]
  BY <1>3, CharsOf
<1>7. /\ Chars(n, z) \in Seq(Char(n)) /\ Len(Chars(n, z)) = e
      /\ \A i \in 1..e : Chars(n, z)[i] = [name |-> n, byte |-> s[i]]
  BY <1>4, CharsOf
<1>8. /\ Chars(n, x) \o Chars(n, y) \in Seq(Char(n))
      /\ Len(Chars(n, x) \o Chars(n, y)) = a + (e - a)
      /\ \A i \in 1..(a + (e - a)) : (Chars(n, x) \o Chars(n, y))[i]
             = IF i <= a THEN Chars(n, x)[i] ELSE Chars(n, y)[i - a]
  BY <1>5, <1>6, ConcatProperties
<1>9. ASSUME NEW i \in 1..e PROVE Chars(n, z)[i] = (Chars(n, x) \o Chars(n, y))[i]
  <2>1. i \in 1..(a + (e - a))
    OBVIOUS
  <2>2. CASE i <= a
    <3>1. i \in 1..a
      BY <2>2
    <3>2. (Chars(n, x) \o Chars(n, y))[i] = Chars(n, x)[i]
      BY <1>8, <2>1, <2>2
    <3> QED BY <1>5, <1>7, <3>1, <3>2
  <2>3. CASE ~(i <= a)
    <3>1. i - a \in 1..(e - a) /\ a + (i - a) = i
      BY <2>3
    <3>2. (Chars(n, x) \o Chars(n, y))[i] = Chars(n, y)[i - a]
      BY <1>8, <2>1, <2>3
    <3> QED BY <1>6, <1>7, <3>1, <3>2
  <2> QED BY <2>2, <2>3
<1>10. Len(Chars(n, x) \o Chars(n, y)) = e
  BY <1>8
<1>11. Chars(n, z) = Chars(n, x) \o Chars(n, y)
  BY <1>7, <1>8, <1>9, <1>10, SeqEqual
<1> QED BY <1>11 DEF x, y, z

\* What a body means.
LEMMA BodyMeaning ==
    ASSUME NEW n \in {"body", "replace_body"}, NEW s \in Bytes
    PROVE  Meaning([name |-> n, args |-> <<s>>]) = Chars(n, s)
<1>1. DOMAIN s = 1..Len(s)
  BY DEF Bytes
<1> QED BY <1>1 DEF Meaning, Chars

\* A message that is not cut.
LEMMA MeaningOfOne ==
    ASSUME NEW V, NEW m, Meaning(m) \in Seq(V)
    PROVE  Meanings(<<m>>) = Meaning(m)
<1>1. [i \in DOMAIN <<m>> |-> Meaning(<<m>>[i])] = <<Meaning(m)>>
  OBVIOUS
<1> QED BY <1>1, FlattenOne DEF Meanings

\* The pieces of a message say what the message says.
LEMMA PiecesOf ==
    ASSUME ChunkSize \in Nat \ {0}, NEW V, NEW m, Meaning(m) \in Seq(V),
           m.name \in {"body", "replace_body"} => IsBody(m)
    PROVE  /\ Meanings(Pieces(m)) = Meaning(m)
           /\ m.name \notin {"body", "replace_body"} => Pieces(m) = <<m>>
           /\ \E n \in Nat \ {0} : \E f : Pieces(m) = [i \in 1..n |-> f[i]]
           /\ \A i \in DOMAIN Pieces(m) :
                /\ Pieces(m)[i].name = m.name
                /\ m.name \in {"body", "replace_body"} => IsBody(Pieces(m)[i])
<1>1. CASE Pieces(m) = <<m>>
  <2>1. Pieces(m) = [i \in 1..1 |-> <<m>>[i]] /\ DOMAIN Pieces(m) = {1} /\ Pieces(m)[1] = m
    BY <1>1
  <2> QED BY <1>1, <2>1, MeaningOfOne
<1>2. CASE Pieces(m) # <<m>>
  <2>1. m.name \in {"body", "replace_body"} /\ ~(Len(m.args[1]) <= ChunkSize)
    BY <1>2 DEF Pieces
  <2>2. PICK s \in Bytes : m = [name |-> m.name, args |-> <<s>>]
    BY <2>1 DEF IsBody
  <2>3. m.args[1] = s /\ Len(s) \in Nat /\ ChunkSize < Len(s)
    BY <2>1, <2>2 DEF Bytes
  <2>a. ASSUME NEW a \in Nat, NEW e \in Nat, a <= e, e <= Len(s)
        PROVE  Chars(m.name, SubSeq(s, 1, e))
                 = Chars(m.name, SubSeq(s, 1, a)) \o Chars(m.name, SubSeq(s, a + 1, e))
    BY <2>a, CharsConcat, ZenonT(90)
  <2> DEFINE c == ChunkSize
             l == Len(s)
             n == (l + c - 1) \div c
             End(i) == IF i < n THEN i * c ELSE l
             chunk(i) == SubSeq(s, (i - 1) * c + 1, End(i))
             piece(i) == [name |-> m.name, args |-> <<chunk(i)>>]
  <2>4. n \in Nat /\ n > 1 /\ (n - 1) * c < l /\ l <= n * c
    BY <2>3, ChunkNumbers
  <2>5. Pieces(m) = [i \in 1..n |-> piece(i)]
    <3>1. ASSUME NEW x PROVE [m EXCEPT !.args = <<x>>] = [name |-> m.name, args |-> <<x>>]
      <4> DEFINE nm == m.name
      <4>1. m = [name |-> nm, args |-> <<s>>]
        BY <2>2
      <4> HIDE DEF nm
      <4>2. [m EXCEPT !.args = <<x>>] = [name |-> nm, args |-> <<x>>]
        BY <4>1
      <4> QED BY <4>2 DEF nm
    <3>2. Pieces(m) = [i \in 1..n |-> [m EXCEPT !.args = <<chunk(i)>>]]
      BY <2>1, <2>3 DEF Pieces
    <3> HIDE DEF n, chunk
    <3> QED BY <3>1, <3>2
  <2> HIDE DEF n
  <2>6. ASSUME NEW i \in 1..n
        PROVE  /\ (i - 1) * c \in Nat /\ (i - 1) * c <= End(i) /\ End(i) \in Nat /\ End(i) <= l
               /\ i # 1 => End(i - 1) = (i - 1) * c
    BY <2>3, <2>4, ChunkEnds
  <2> HIDE DEF End
  <2>7. ASSUME NEW i \in 1..n
        PROVE  /\ chunk(i) \in Bytes /\ SubSeq(s, 1, End(i)) \in Bytes
               /\ Chars(m.name, SubSeq(s, 1, End(i)))
                    = Chars(m.name, SubSeq(s, 1, (i - 1) * c)) \o Chars(m.name, chunk(i))
    <3> DEFINE a == (i - 1) * c
               e == End(i)
    <3>1. a \in Nat /\ e \in Nat /\ a <= e /\ e <= Len(s)
      BY <2>6
    <3> DEFINE nm == m.name
    <3> HIDE DEF a, e, nm
    <3>2. Chars(nm, SubSeq(s, 1, e)) = Chars(nm, SubSeq(s, 1, a)) \o Chars(nm, SubSeq(s, a + 1, e))
      BY <3>1, <2>a DEF nm
    <3>3. SubSeq(s, a + 1, e) \in Bytes /\ SubSeq(s, 1, e) \in Bytes
      <4>1. \A j \in 1..e : s[j] \in Byte
        BY <3>1 DEF Bytes
      <4>2. \A j \in (a + 1)..e : s[j] \in Byte
        BY <3>1, <4>1
      <4> QED BY <3>1, <4>1, <4>2, SubSeqProperties DEF Bytes
    <3> QED BY <3>2, <3>3 DEF a, e, nm
  <2> HIDE DEF chunk
  <2> DEFINE meant == [i \in 1..n |-> Chars(m.name, chunk(i))]
             f == [i \in 1..n |-> Chars(m.name, SubSeq(s, 1, End(i)))]
  <2>8. Meanings(Pieces(m)) = FlattenSeq(meant)
    <3>1. ASSUME NEW i \in 1..n PROVE Meaning(piece(i)) = Chars(m.name, chunk(i))
      BY <2>1, <2>7, BodyMeaning
    <3> DEFINE p == Pieces(m)
    <3>2. DOMAIN p = 1..n /\ \A i \in 1..n : p[i] = piece(i)
      BY <2>5
    <3> HIDE DEF piece, p
    <3>3. [i \in DOMAIN p |-> Meaning(p[i])] = meant
      BY <3>1, <3>2
    <3> QED BY <3>3 DEF Meanings, p
  <2>9. meant \in Seq(Seq(Char(m.name))) /\ Len(meant) = n /\ meant # <<>>
    <3>1. \A i \in 1..n : Chars(m.name, chunk(i)) \in Seq(Char(m.name))
      BY <2>7, CharsOf
    <3> DEFINE R == Seq(Char(m.name))
    <3>2. meant \in [1..n -> R]
      BY <3>1
    <3> HIDE DEF R, meant
    <3>3. meant \in Seq(R) /\ Len(meant) = n
      BY <2>4, <3>2
    <3> QED BY <2>4, <3>3 DEF R
  <2>10. Sums(meant, f)
    <3>1. f = [i \in 1..Len(meant) |-> f[i]]
      BY <2>9
    <3>2. ASSUME NEW i \in 1..Len(meant)
          PROVE  f[i] = IF i = 1 THEN meant[i] ELSE f[i - 1] \o meant[i]
      <4>1. i \in 1..n
        BY <2>9
      <4>2. f[i] = Chars(m.name, SubSeq(s, 1, End(i))) /\ meant[i] = Chars(m.name, chunk(i))
        BY <4>1
      <4>3. CASE i = 1
        <5>1. (i - 1) * c = 0
          BY <4>3, <2>3
        <5>2. SubSeq(s, 1, 0) = <<>> /\ <<>> \in Bytes
          BY SubSeqEmpty DEF Bytes
        <5>3. Chars(m.name, <<>>) = <<>>
          BY DEF Chars
        <5>4. Chars(m.name, chunk(i)) \in Seq(Char(m.name))
          BY <2>7, <4>1, CharsOf
        <5>5. <<>> \o Chars(m.name, chunk(i)) = Chars(m.name, chunk(i))
          BY <5>4, ConcatEmptySeq
        <5> QED BY <2>7, <4>1, <4>2, <4>3, <5>1, <5>2, <5>3, <5>5
      <4>4. CASE i # 1
        <5>1. i - 1 \in 1..n
          BY <4>1, <4>4, <2>4
        <5>2. f[i - 1] = Chars(m.name, SubSeq(s, 1, (i - 1) * c))
          BY <2>6, <4>1, <4>4, <5>1
        <5> HIDE DEF f, meant
        <5> QED BY <2>7, <4>1, <4>2, <4>4, <5>2
      <4> QED BY <4>3, <4>4
    <3> HIDE DEF f, meant
    <3> QED BY <3>1, <3>2 DEF Sums
  <2>11. FlattenSeq(meant) = f[n]
    <3> HIDE DEF f, meant
    <3> QED BY <2>9, <2>10, FlattenIs
  <2>12. f[n] = Chars(m.name, s)
    <3>1. n \in 1..n /\ End(n) = l
      BY <2>4 DEF End
    <3>2. SubSeq(s, 1, l) = s
      BY SubSeqFull DEF Bytes
    <3> QED BY <3>1, <3>2
  <2>13. Meaning(m) = Chars(m.name, s)
    BY <2>1, <2>2, BodyMeaning
  <2>14. \A i \in DOMAIN Pieces(m) : Pieces(m)[i].name = m.name /\ IsBody(Pieces(m)[i])
    BY <2>5, <2>7 DEF IsBody
  <2>15. \E k \in Nat \ {0} : \E g : Pieces(m) = [i \in 1..k |-> g[i]]
    <3> DEFINE g == [i \in 1..n |-> piece(i)]
    <3>1. Pieces(m) = [i \in 1..n |-> g[i]] /\ n \in Nat \ {0}
      BY <2>4, <2>5
    <3> QED BY <3>1
  <2> QED BY <2>1, <2>8, <2>11, <2>12, <2>13, <2>14, <2>15
<1> QED BY <1>1, <1>2

-----------------------------------------------------------------------------
(* The messages before the first foreign packet *)

\* A set of numbers that is not empty has a least one, and Min is it.
LEMMA MinOf ==
    ASSUME NEW T \in SUBSET Nat, T # {}
    PROVE  Min(T) \in T /\ \A j \in T : Min(T) <= j
<1>1. PICK n \in T : \A j \in T : <<j, n>> \notin OpToRel(<, Nat)
  BY NatLessThanWellFounded, WFMin
<1>2. n \in Nat /\ \A j \in T : j \in Nat
  OBVIOUS
<1>3. \A j \in T : ~(j < n)
  BY <1>1, <1>2 DEF OpToRel
<1> DEFINE ok(x) == \A y \in T : x <= y
<1>4. ok(n)
  BY <1>2, <1>3
<1>5. Min(T) = CHOOSE x \in T : ok(x)
  BY DEF Min
<1> HIDE DEF ok
<1>6. Min(T) \in T /\ ok(Min(T))
  BY <1>4, <1>5
<1> QED BY <1>6 DEF ok

\* Where the foreign packets are.
ForeignAt(ms) == {i \in 1..Len(ms) : ms[i].name = "foreign"}

\* The messages before the first foreign one, by its place.
LEMMA BeforeIs ==
    ASSUME NEW M, NEW ms \in Seq(M)
    PROVE  /\ ForeignAt(ms) = {} => Before(ms) = ms
           /\ ForeignAt(ms) # {} =>
                /\ Min(ForeignAt(ms)) \in 1..Len(ms)
                /\ Before(ms) = SubSeq(ms, 1, Min(ForeignAt(ms)) - 1)
                /\ Before(ms) # ms
<1>1. ForeignAt(ms) \in SUBSET Nat /\ Len(ms) \in Nat
  BY DEF ForeignAt
<1> DEFINE p == IF ForeignAt(ms) # {} THEN Min(ForeignAt(ms)) ELSE 0
<1>2. Before(ms) = IF p = 0 THEN ms ELSE SubSeq(ms, 1, p - 1)
  BY DEF Before, SelectInSeq, ForeignAt
<1>3. ASSUME ForeignAt(ms) # {}
      PROVE  /\ Min(ForeignAt(ms)) \in 1..Len(ms)
             /\ Before(ms) = SubSeq(ms, 1, Min(ForeignAt(ms)) - 1)
             /\ Before(ms) # ms
  <2>1. Min(ForeignAt(ms)) \in ForeignAt(ms)
    BY <1>1, <1>3, MinOf
  <2>2. Min(ForeignAt(ms)) \in 1..Len(ms)
    BY <2>1 DEF ForeignAt
  <2>3. p = Min(ForeignAt(ms)) /\ p \in 1..Len(ms) /\ p # 0
    BY <1>1, <1>3, <2>2
  <2> HIDE DEF p
  <2>4. \A i \in 1..(p - 1) : ms[i] \in M
    BY <1>1, <2>3
  <2>5. Len(SubSeq(ms, 1, p - 1)) = p - 1
    BY <1>1, <2>3, <2>4, SubSeqProperties
  <2>6. SubSeq(ms, 1, p - 1) # ms
    BY <1>1, <2>3, <2>5
  <2> QED BY <1>2, <2>2, <2>3, <2>6
<1> QED BY <1>2, <1>3

\* One more message.
LEMMA BeforeAppend ==
    ASSUME NEW M, NEW ms \in Seq(M), NEW x \in M
    PROVE  /\ Before(ms) # ms => /\ Before(Append(ms, x)) = Before(ms)
                                 /\ Before(Append(ms, x)) # Append(ms, x)
           /\ Before(ms) = ms /\ x.name = "foreign" =>
                /\ Before(Append(ms, x)) = ms
                /\ Before(Append(ms, x)) # Append(ms, x)
           /\ Before(ms) = ms /\ x.name # "foreign" =>
                Before(Append(ms, x)) = Append(ms, x)
<1> DEFINE t == Append(ms, x)
           n == Len(ms)
<1>1. /\ t \in Seq(M) /\ Len(t) = n + 1 /\ n \in Nat /\ t[n + 1] = x
      /\ \A i \in 1..n : t[i] = ms[i] /\ ms[i] \in M
  BY AppendProperties
<1> HIDE DEF t
<1>2. \A i \in Nat : i \in ForeignAt(ms) <=> (i \in 1..n /\ t[i].name = "foreign")
  BY <1>1 DEF ForeignAt
<1>3. \A i \in Nat : i \in ForeignAt(t) <=> i \in ForeignAt(ms) \/ (i = n + 1 /\ x.name = "foreign")
  BY <1>1, <1>2 DEF ForeignAt
<1>4. ForeignAt(t) \in SUBSET Nat /\ ForeignAt(ms) \in SUBSET Nat
  BY <1>1 DEF ForeignAt
<1>5. CASE ForeignAt(ms) # {}
  <2> DEFINE p == Min(ForeignAt(ms))
             q == Min(ForeignAt(t))
  <2>1. p \in ForeignAt(ms) /\ \A j \in ForeignAt(ms) : p <= j
    BY <1>4, <1>5, MinOf
  <2>2. p \in 1..n /\ Before(ms) = SubSeq(ms, 1, p - 1) /\ Before(ms) # ms
    BY <1>5, BeforeIs
  <2>3. ForeignAt(t) # {}
    BY <1>3, <1>4, <2>1
  <2>4. q \in ForeignAt(t) /\ \A j \in ForeignAt(t) : q <= j
    BY <1>4, <2>3, MinOf
  <2>5. q \in 1..Len(t) /\ Before(t) = SubSeq(t, 1, q - 1) /\ Before(t) # t
    BY <1>1, <2>3, BeforeIs
  <2> HIDE DEF p, q
  <2>6. p = q
    <3>1. p \in Nat /\ q \in Nat /\ p \in ForeignAt(t)
      BY <1>3, <1>4, <2>1, <2>4
    <3>2. q <= p
      BY <2>4, <3>1
    <3>3. p <= q
      BY <1>1, <1>3, <2>1, <2>2, <2>4, <3>1
    <3> QED BY <3>1, <3>2, <3>3
  <2>7. SubSeq(t, 1, p - 1) = SubSeq(ms, 1, p - 1)
    <3>1. \A i \in 1..(p - 1) : t[i] = ms[i] /\ t[i] \in M
      BY <1>1, <2>2
    <3>2. p - 1 \in Int /\ p - 1 >= 0
      BY <1>1, <2>2
    <3>3. /\ SubSeq(t, 1, p - 1) \in Seq(M) /\ Len(SubSeq(t, 1, p - 1)) = p - 1
          /\ \A i \in 1..(p - 1) : SubSeq(t, 1, p - 1)[i] = t[i]
      BY <3>1, <3>2, SubSeqProperties
    <3>4. /\ SubSeq(ms, 1, p - 1) \in Seq(M) /\ Len(SubSeq(ms, 1, p - 1)) = p - 1
          /\ \A i \in 1..(p - 1) : SubSeq(ms, 1, p - 1)[i] = ms[i]
      BY <3>1, <3>2, SubSeqProperties
    <3> QED BY <3>1, <3>3, <3>4, SeqEqual
  <2> QED BY <2>2, <2>5, <2>6, <2>7 DEF t
<1>6. CASE ForeignAt(ms) = {} /\ x.name = "foreign"
  <2>1. ForeignAt(t) = {n + 1}
    BY <1>1, <1>3, <1>4, <1>6
  <2>2. Min(ForeignAt(t)) = n + 1
    BY <1>4, <2>1, MinOf
  <2>3. Before(t) = SubSeq(t, 1, (n + 1) - 1) /\ Before(t) # t
    BY <1>1, <2>1, <2>2, BeforeIs
  <2>4. Before(ms) = ms
    BY <1>6, BeforeIs
  <2>5. SubSeq(t, 1, n) = ms
    <3>1. \A i \in 1..n : t[i] \in M
      BY <1>1
    <3>2. /\ SubSeq(t, 1, n) \in Seq(M) /\ Len(SubSeq(t, 1, n)) = n
          /\ \A i \in 1..n : SubSeq(t, 1, n)[i] = t[i]
      BY <1>1, <3>1, SubSeqProperties
    <3> QED BY <1>1, <3>2, SeqEqual
  <2>6. (n + 1) - 1 = n
    BY <1>1
  <2> QED BY <1>6, <2>3, <2>4, <2>5, <2>6 DEF t
<1>7. CASE ForeignAt(ms) = {} /\ x.name # "foreign"
  <2>1. ForeignAt(t) = {}
    BY <1>3, <1>4, <1>7
  <2>2. Before(t) = t /\ Before(ms) = ms
    BY <1>1, <1>7, <2>1, BeforeIs
  <2> QED BY <1>7, <2>2 DEF t
<1> QED BY <1>5, <1>6, <1>7

-----------------------------------------------------------------------------
(* What the messages must be like *)

\* What is said is made of values in V.
SoundIn(V) ==
    /\ Sound
    /\ \A d \in DOMAIN Messages :
         /\ \A m \in Encoded(d) : Meaning(m) \in Seq(V)
         /\ \A p \in Part(d) : Meaning(p) \in Seq(V)

-----------------------------------------------------------------------------
(* Sequences of messages and of packets *)

\* The packets of ps.
Packed(ps) == FlattenSeq([i \in DOMAIN ps |-> Pack(Content(ps[i]))])

AllBytes(Q) == \A q \in Q : Packable(Content(q))
AllMeant(Q, V) == \A q \in Q : Meaning(q) \in Seq(V)

\* What is packed, as a concatenation.
LEMMA PackedIs ==
    ASSUME NEW Q, NEW s \in Seq(Q)
    PROVE  Packed(s) = FlatMap([q \in Q |-> Pack(Content(q))], s)
<1> DEFINE F == [q \in Q |-> Pack(Content(q))]
<1>1. \A i \in DOMAIN s : F[s[i]] = Pack(Content(s[i]))
  <2>1. \A i \in DOMAIN s : s[i] \in Q
    OBVIOUS
  <2> QED BY <2>1
<1> HIDE DEF F
<1>2. [i \in DOMAIN s |-> F[s[i]]] = [i \in DOMAIN s |-> Pack(Content(s[i]))]
  BY <1>1
<1>3. Packed(s) = FlatMap(F, s)
  BY <1>2 DEF Packed, FlatMap, Mapped
<1> QED BY <1>3 DEF F

\* The packets of two sequences of messages.
LEMMA PackedOf ==
    ASSUME NEW Q, AllBytes(Q), NEW s \in Seq(Q), NEW t \in Seq(Q)
    PROVE  Packed(s) \in Bytes /\ Packed(s \o t) = Packed(s) \o Packed(t)
<1> DEFINE F == [q \in Q |-> Pack(Content(q))]
<1>1. Maps(F, Q, Seq(Byte))
  BY PackOf DEF AllBytes, Maps, Bytes
<1>2. s \o t \in Seq(Q)
  OBVIOUS
<1> HIDE DEF F
<1>3. FlatMap(F, s) \in Seq(Byte) /\ FlatMap(F, s \o t) = FlatMap(F, s) \o FlatMap(F, t)
  BY <1>1, FlatMapOf
<1>4. Packed(s) = FlatMap(F, s) /\ Packed(t) = FlatMap(F, t) /\ Packed(s \o t) = FlatMap(F, s \o t)
  BY <1>2, PackedIs DEF F
<1> QED BY <1>3, <1>4 DEF Bytes

\* The packets of one message.
LEMMA PackedOne ==
    ASSUME NEW p, Packable(Content(p))
    PROVE  Packed(<<>>) = <<>> /\ Packed(<<p>>) = Pack(Content(p))
<1>1. Pack(Content(p)) \in Seq(Byte)
  BY PackOf DEF Bytes
<1>2. [i \in DOMAIN <<>> |-> Pack(Content(<<>>[i]))] = <<>>
  OBVIOUS
<1>3. [i \in DOMAIN <<p>> |-> Pack(Content(<<p>>[i]))] = <<Pack(Content(p))>>
  OBVIOUS
<1> QED BY <1>1, <1>2, <1>3, FlattenOne, FlattenEmpty DEF Packed

\* What messages say, as a concatenation.
LEMMA MeaningsIs ==
    ASSUME NEW Q, NEW s \in Seq(Q)
    PROVE  Meanings(s) = FlatMap([q \in Q |-> Meaning(q)], s)
<1> DEFINE F == [q \in Q |-> Meaning(q)]
<1>1. \A i \in DOMAIN s : F[s[i]] = Meaning(s[i])
  <2>1. \A i \in DOMAIN s : s[i] \in Q
    OBVIOUS
  <2> QED BY <2>1
<1> HIDE DEF F
<1>2. [i \in DOMAIN s |-> F[s[i]]] = [i \in DOMAIN s |-> Meaning(s[i])]
  BY <1>1
<1>3. Meanings(s) = FlatMap(F, s)
  BY <1>2 DEF Meanings, FlatMap, Mapped
<1> QED BY <1>3 DEF F

\* What two sequences of messages say.
LEMMA MeaningsOf ==
    ASSUME NEW Q, NEW V, AllMeant(Q, V), NEW s \in Seq(Q), NEW t \in Seq(Q)
    PROVE  Meanings(s) \in Seq(V) /\ Meanings(s \o t) = Meanings(s) \o Meanings(t)
<1> DEFINE F == [q \in Q |-> Meaning(q)]
<1>1. Maps(F, Q, Seq(V))
  BY DEF AllMeant, Maps
<1>2. s \o t \in Seq(Q)
  OBVIOUS
<1> HIDE DEF F
<1>3. FlatMap(F, s) \in Seq(V) /\ FlatMap(F, s \o t) = FlatMap(F, s) \o FlatMap(F, t)
  BY <1>1, FlatMapOf
<1>4. Meanings(s) = FlatMap(F, s) /\ Meanings(t) = FlatMap(F, t) /\ Meanings(s \o t) = FlatMap(F, s \o t)
  BY <1>2, MeaningsIs DEF F
<1> QED BY <1>3, <1>4

\* No message says nothing.
LEMMA MeaningsEmpty == Meanings(<<>>) = <<>>
<1>1. [i \in DOMAIN <<>> |-> Meaning(<<>>[i])] = <<>>
  OBVIOUS
<1> QED BY <1>1, FlattenEmpty DEF Meanings

\* Facts about concatenation, with the sequences as parameters.
LEMMA CatOf ==
    ASSUME NEW S, NEW a \in Seq(S), NEW b \in Seq(S)
    PROVE  /\ a \o b \in Seq(S) /\ Len(a \o b) = Len(a) + Len(b)
           /\ a \o <<>> = a /\ <<>> \o a = a /\ <<>> \in Seq(S)
BY ConcatProperties

\* Both parts of nothing are nothing.
LEMMA EmptyCat ==
    ASSUME NEW S, NEW a, NEW b, a \in Seq(S), b \in Seq(S), a \o b = <<>>
    PROVE  a = <<>> /\ b = <<>>
BY ConcatEqualIffEmpty

-----------------------------------------------------------------------------
(* The stream *)

\* What is left of the stream, left, are the packets ps of messages and then b, which
\* starts with a malformed packet if one was written; what was said and the meaning
\* of ps are what the owner was told to send, own, and the reply codes in ps
\* are some of the messages sent.
Stream(d, left, said, own, kind, codes) ==
    \E ps \in Seq(Part(d)), b \in Bytes :
      /\ left = Packed(ps) \o b
      /\ said \o Meanings(ps) = own
      /\ kind = "whole" => b = <<>>
      /\ kind = "broken" => \E c \in Malformed[d], r \in Bytes : b = Pack(c) \o r /\ Behind(r)
      /\ \A i \in DOMAIN ps : ps[i].name = "reply_code" => ps[i] \in codes

\* The parts are sound.
LEMMA PartsSound ==
    ASSUME NEW V, SoundIn(V), NEW d \in DOMAIN Messages
    PROVE  /\ AllBytes(Part(d)) /\ AllMeant(Part(d), V)
           /\ \A c \in Malformed[d] : Packable(c)
BY DEF SoundIn, Sound, RoundTrip, Refused, AllBytes, AllMeant

\* The messages qs are written.
LEMMA StreamGrows ==
    ASSUME NEW V, SoundIn(V), NEW d \in DOMAIN Messages,
           NEW left, NEW said \in Seq(V), NEW own, NEW codes, NEW more,
           Stream(d, left, said, own, "whole", codes), codes \subseteq more,
           NEW qs \in Seq(Part(d)),
           \A i \in DOMAIN qs : qs[i].name = "reply_code" => qs[i] \in more
    PROVE  Stream(d, left \o Packed(qs), said, own \o Meanings(qs), "whole", more)
<1>1. PICK ps \in Seq(Part(d)), b \in Bytes :
        /\ left = Packed(ps) \o b /\ said \o Meanings(ps) = own /\ b = <<>>
        /\ \A i \in DOMAIN ps : ps[i].name = "reply_code" => ps[i] \in codes
  BY DEF Stream
<1>2. AllBytes(Part(d)) /\ AllMeant(Part(d), V)
  BY PartsSound
<1>3. /\ Packed(ps) \in Seq(Byte) /\ Packed(qs) \in Seq(Byte)
      /\ Packed(ps \o qs) = Packed(ps) \o Packed(qs)
  BY <1>2, PackedOf DEF Bytes
<1>4. /\ Meanings(ps) \in Seq(V) /\ Meanings(qs) \in Seq(V)
      /\ Meanings(ps \o qs) = Meanings(ps) \o Meanings(qs)
  BY <1>2, MeaningsOf
<1>5. Packed(ps) \o <<>> = Packed(ps) /\ Packed(ps \o qs) \o <<>> = Packed(ps \o qs)
  <2>1. Packed(ps) \o Packed(qs) \in Seq(Byte)
    BY <1>3, CatOf
  <2>2. Packed(ps) \o <<>> = Packed(ps)
    BY <1>3, CatOf
  <2>3. (Packed(ps) \o Packed(qs)) \o <<>> = Packed(ps) \o Packed(qs)
    BY <2>1, CatOf
  <2> QED BY <1>3, <2>2, <2>3
<1>6. left \o Packed(qs) = Packed(ps \o qs) \o <<>>
  BY <1>1, <1>3, <1>5, Zenon
<1>7. said \o Meanings(ps \o qs) = own \o Meanings(qs)
  <2>1. (said \o Meanings(ps)) \o Meanings(qs) = said \o (Meanings(ps) \o Meanings(qs))
    BY <1>4, ConcatAssociative, SMTT(60)
  <2> QED BY <1>1, <1>4, <2>1, Zenon
<1>8. ps \o qs \in Seq(Part(d)) /\ <<>> \in Bytes
  BY DEF Bytes
<1>9. ASSUME NEW i \in DOMAIN (ps \o qs), (ps \o qs)[i].name = "reply_code"
      PROVE  (ps \o qs)[i] \in more
  <2>1. /\ Len(ps) \in Nat /\ Len(qs) \in Nat /\ i \in 1..(Len(ps) + Len(qs))
        /\ DOMAIN ps = 1..Len(ps) /\ DOMAIN qs = 1..Len(qs)
    OBVIOUS
  <2>2. (ps \o qs)[i] = IF i <= Len(ps) THEN ps[i] ELSE qs[i - Len(ps)]
    BY <2>1, ConcatProperties
  <2>3. CASE i <= Len(ps)
    BY <1>1, <1>9, <2>1, <2>2, <2>3
  <2>4. CASE ~(i <= Len(ps))
    <3>1. i - Len(ps) \in DOMAIN qs
      BY <2>1, <2>4
    <3> QED BY <1>9, <2>2, <2>4, <3>1
  <2> QED BY <2>3, <2>4
<1> QED BY <1>6, <1>7, <1>8, <1>9 DEF Stream

\* What is behind a packet stays so when the stream grows.
LEMMA BehindCat ==
    ASSUME NEW r \in Bytes, NEW z \in Bytes, Behind(r), Behind(z)
    PROVE  Behind(r \o z)
<1>1. CASE r = <<>>
  <2>1. <<>> \o z = z
    BY CatOf DEF Bytes
  <2> QED BY <1>1, <2>1
<1>2. CASE r # <<>>
  <2>1. \A i \in 1..(Len(r) + Len(z)) : (r \o z)[i] = IF i <= Len(r) THEN r[i] ELSE z[i - Len(r)]
    BY ConcatProperties DEF Bytes
  <2>2. 1 \in 1..(Len(r) + Len(z)) /\ 1 <= Len(r)
    BY <1>2 DEF Bytes
  <2>3. (r \o z)[1] = r[1]
    BY <2>1, <2>2
  <2> QED BY <1>2, <2>3 DEF Behind
<1> QED BY <1>1, <1>2

\* Something is written behind a malformed packet.
LEMMA StreamIgnores ==
    ASSUME NEW V, SoundIn(V), NEW d \in DOMAIN Messages,
           NEW left, NEW said, NEW own, NEW codes, NEW more,
           Stream(d, left, said, own, "broken", codes), codes \subseteq more,
           NEW z \in Bytes, Behind(z)
    PROVE  Stream(d, left \o z, said, own, "broken", more)
<1>1. PICK ps \in Seq(Part(d)), b \in Bytes :
        /\ left = Packed(ps) \o b /\ said \o Meanings(ps) = own
        /\ \E c \in Malformed[d], r \in Bytes : b = Pack(c) \o r /\ Behind(r)
        /\ \A i \in DOMAIN ps : ps[i].name = "reply_code" => ps[i] \in codes
  BY DEF Stream
<1>2. PICK c \in Malformed[d], r \in Bytes : b = Pack(c) \o r /\ Behind(r)
  BY <1>1
<1>3. Pack(c) \in Seq(Byte) /\ Packed(ps) \in Seq(Byte) /\ r \in Seq(Byte) /\ z \in Seq(Byte)
  BY PartsSound, PackOf, PackedOf DEF Bytes
<1>4. r \o z \in Bytes /\ Pack(c) \o (r \o z) \in Bytes /\ Behind(r \o z)
  BY <1>2, <1>3, CatOf, BehindCat DEF Bytes
<1>5. left \o z = Packed(ps) \o (Pack(c) \o (r \o z))
  <2>1. (Packed(ps) \o (Pack(c) \o r)) \o z = Packed(ps) \o (Pack(c) \o (r \o z))
    <3> DEFINE x == Packed(ps)
               y == Pack(c)
    <3>1. x \in Seq(Byte) /\ y \in Seq(Byte) /\ r \in Seq(Byte) /\ z \in Seq(Byte)
      BY <1>3
    <3> HIDE DEF x, y
    <3> DEFINE u == y \o r
    <3>2. u \in Seq(Byte)
      BY <3>1, CatOf
    <3>3. (y \o r) \o z = y \o (r \o z)
      BY ONLY <3>1, AssocBytes, ZenonT(60)
    <3> HIDE DEF u
    <3>4. (x \o u) \o z = x \o (u \o z)
      BY ONLY <3>1, <3>2, AssocBytes, ZenonT(60)
    <3> QED BY <3>3, <3>4 DEF u, x, y
  <2> QED BY <1>1, <1>2, <2>1, Zenon
<1>6. \A i \in DOMAIN ps : ps[i].name = "reply_code" => ps[i] \in more
  BY <1>1
<1> QED BY <1>1, <1>4, <1>5, <1>6 DEF Stream

\* A malformed packet is written.
LEMMA StreamBreaks ==
    ASSUME NEW V, SoundIn(V), NEW d \in DOMAIN Messages,
           NEW left, NEW said, NEW own, NEW codes, NEW more,
           Stream(d, left, said, own, "whole", codes), codes \subseteq more, NEW c \in Malformed[d]
    PROVE  Stream(d, left \o Pack(c), said, own, "broken", more)
<1>1. PICK ps \in Seq(Part(d)), b \in Bytes :
        /\ left = Packed(ps) \o b /\ said \o Meanings(ps) = own /\ b = <<>>
        /\ \A i \in DOMAIN ps : ps[i].name = "reply_code" => ps[i] \in codes
  BY DEF Stream
<1>2. Pack(c) \in Seq(Byte) /\ Packed(ps) \in Seq(Byte) /\ <<>> \in Bytes
  <2>1. Packable(c) /\ AllBytes(Part(d))
    BY PartsSound
  <2>2. Pack(c) \in Bytes
    BY <2>1, PackOf
  <2>3. Packed(ps) \in Bytes
    BY <2>1, PackedOf
  <2> QED BY <2>2, <2>3 DEF Bytes
<1>3. Packed(ps) \o <<>> = Packed(ps) /\ Pack(c) \o <<>> = Pack(c)
  BY <1>2, CatOf
<1>4. left \o Pack(c) = Packed(ps) \o (Pack(c) \o <<>>) /\ Pack(c) \o <<>> \in Bytes
  <2>1. left \o Pack(c) = Packed(ps) \o (Pack(c) \o <<>>)
    BY <1>1, <1>3, Zenon
  <2>2. Pack(c) \o <<>> \in Bytes
    BY <1>2, <1>3 DEF Bytes
  <2> QED BY <2>1, <2>2
<1>5. \A i \in DOMAIN ps : ps[i].name = "reply_code" => ps[i] \in more
  BY <1>1
<1>6. Behind(<<>>)
  BY DEF Behind
<1> QED BY <1>1, <1>2, <1>4, <1>5, <1>6 DEF Stream

\* The first packet of the stream: one of a message, which is said next, or the
\* malformed one, when everything was said.
First(d, left, said, own, kind, codes) ==
    \E c \in Bytes, z \in Bytes :
       /\ left = Pack(c) \o z /\ Packable(c)
       /\ \/ \E p \in Part(d) :
               /\ c = Content(p)
               /\ p.name = "reply_code" => p \in codes
               /\ Stream(d, z, said \o Meaning(p), own, kind, codes)
          \/ kind = "broken" /\ c \in Malformed[d] /\ said = own /\ Behind(z)

\* The first packet of a stream.
LEMMA StreamFirst ==
    ASSUME NEW V, SoundIn(V), NEW d \in DOMAIN Messages,
           NEW left, NEW said \in Seq(V), NEW own, NEW kind \in {"whole", "broken"}, NEW codes,
           Stream(d, left, said, own, kind, codes), left # <<>>
    PROVE  First(d, left, said, own, kind, codes)
<1>1. PICK ps \in Seq(Part(d)), b \in Bytes :
        /\ left = Packed(ps) \o b /\ said \o Meanings(ps) = own
        /\ kind = "whole" => b = <<>>
        /\ kind = "broken" => \E c \in Malformed[d], r \in Bytes : b = Pack(c) \o r /\ Behind(r)
        /\ \A i \in DOMAIN ps : ps[i].name = "reply_code" => ps[i] \in codes
  BY DEF Stream
<1>2. AllBytes(Part(d)) /\ AllMeant(Part(d), V) /\ \A c \in Malformed[d] : Packable(c)
  BY PartsSound
<1>3. CASE ps = <<>>
  <2>1. Packed(ps) = <<>> /\ Meanings(ps) = <<>>
    <3>1. Packed(<<>>) = <<>>
      <4>1. [i \in DOMAIN <<>> |-> Pack(Content(<<>>[i]))] = <<>>
        OBVIOUS
      <4> QED BY <4>1, FlattenEmpty DEF Packed
    <3> QED BY <1>3, <3>1, MeaningsEmpty
  <2>2. left = b /\ said = own
    <3>1. <<>> \o b = b /\ said \o <<>> = said
      BY CatOf DEF Bytes
    <3> QED BY <1>1, <2>1, <3>1
  <2>3. kind = "broken"
    BY <1>1, <2>2
  <2>4. PICK c \in Malformed[d], r \in Bytes : b = Pack(c) \o r /\ Behind(r)
    BY <1>1, <2>3
  <2>5. Packable(c) /\ c \in Bytes
    BY <1>2, PackableOf
  <2> QED BY <2>2, <2>3, <2>4, <2>5 DEF First
<1>4. CASE ps # <<>>
  <2> DEFINE p == Head(ps)
             tl == Tail(ps)
             z == Packed(tl) \o b
  <2>1. p \in Part(d) /\ tl \in Seq(Part(d)) /\ ps = <<p>> \o tl /\ <<p>> \in Seq(Part(d))
    BY <1>4
  <2>2. ps[1] = p /\ 1 \in DOMAIN ps
    BY <1>4
  <2>3. Len(tl) = Len(ps) - 1 /\ \A i \in DOMAIN tl : i + 1 \in DOMAIN ps /\ tl[i] = ps[i + 1]
    BY <1>4, HeadTailProperties
  <2> HIDE DEF p, tl
  <2>4. Packable(Content(p)) /\ Meaning(p) \in Seq(V)
    BY <1>2, <2>1 DEF AllBytes, AllMeant
  <2>5. Packed(ps) = Pack(Content(p)) \o Packed(tl)
    <3>1. Packed(<<p>> \o tl) = Packed(<<p>>) \o Packed(tl)
      BY <1>2, <2>1, PackedOf
    <3>2. Packed(<<p>>) = Pack(Content(p))
      BY <2>4, PackedOne
    <3> QED BY <2>1, <3>1, <3>2
  <2>6. Meanings(ps) = Meaning(p) \o Meanings(tl)
    <3>1. Meanings(<<p>> \o tl) = Meanings(<<p>>) \o Meanings(tl)
      BY <1>2, <2>1, MeaningsOf
    <3>2. Meanings(<<p>>) = Meaning(p)
      BY <2>4, MeaningOfOne
    <3> QED BY <2>1, <3>1, <3>2
  <2>7. Packed(tl) \in Seq(Byte) /\ Pack(Content(p)) \in Seq(Byte) /\ b \in Seq(Byte)
    BY <1>2, <2>1, <2>4, PackedOf, PackOf DEF Bytes
  <2>8. left = Pack(Content(p)) \o z /\ z \in Bytes
    <3>1. (Pack(Content(p)) \o Packed(tl)) \o b = Pack(Content(p)) \o (Packed(tl) \o b)
      <4> DEFINE x == Pack(Content(p))
                 y == Packed(tl)
      <4>1. x \in Seq(Byte) /\ y \in Seq(Byte) /\ b \in Seq(Byte)
        BY <2>7
      <4> HIDE DEF x, y
      <4>2. (x \o y) \o b = x \o (y \o b)
        BY ONLY <4>1, AssocBytes, ZenonT(60)
      <4> QED BY <4>2 DEF x, y
    <3>2. Packed(tl) \o b \in Bytes
      BY <2>7, CatOf DEF Bytes
    <3> QED BY <1>1, <2>5, <3>1, <3>2
  <2>9. Meanings(tl) \in Seq(V)
    BY <1>2, <2>1, MeaningsOf
  <2>10. (said \o Meaning(p)) \o Meanings(tl) = own
    <3>1. (said \o Meaning(p)) \o Meanings(tl) = said \o (Meaning(p) \o Meanings(tl))
      BY <2>4, <2>9, ConcatAssociative, SMTT(60)
    <3> QED BY <1>1, <2>6, <3>1
  <2>11. \A i \in DOMAIN tl : tl[i].name = "reply_code" => tl[i] \in codes
    BY <1>1, <2>3
  <2>12. Stream(d, z, said \o Meaning(p), own, kind, codes)
    BY <1>1, <2>1, <2>10, <2>11 DEF Stream
  <2>13. p.name = "reply_code" => p \in codes
    BY <1>1, <2>2
  <2> HIDE DEF z
  <2>14. Content(p) \in Bytes
    BY <2>4, PackableOf
  <2> QED BY <2>1, <2>4, <2>8, <2>12, <2>13, <2>14 DEF First
<1> QED BY <1>3, <1>4

\* Nothing is left.
Ended(said, own, kind) == kind = "whole" /\ said = own

\* An empty stream has no packet.
LEMMA StreamEnds ==
    ASSUME NEW V, SoundIn(V), NEW d \in DOMAIN Messages,
           NEW said \in Seq(V), NEW own, NEW kind \in {"whole", "broken"}, NEW codes,
           Stream(d, <<>>, said, own, kind, codes)
    PROVE  Ended(said, own, kind)
<1>1. PICK ps \in Seq(Part(d)), b \in Bytes :
        /\ <<>> = Packed(ps) \o b /\ said \o Meanings(ps) = own
        /\ kind = "broken" => \E c \in Malformed[d], r \in Bytes : b = Pack(c) \o r /\ Behind(r)
  BY DEF Stream
<1>2. AllBytes(Part(d)) /\ AllMeant(Part(d), V) /\ \A c \in Malformed[d] : Packable(c)
  BY PartsSound
<1>3. Packed(ps) \in Seq(Byte) /\ b \in Seq(Byte)
  BY <1>2, PackedOf DEF Bytes
<1>4. Packed(ps) = <<>> /\ b = <<>>
  BY <1>1, <1>3, EmptyCat
<1>5. ps = <<>>
  <2>1. SUFFICES ASSUME ps # <<>> PROVE FALSE
    OBVIOUS
  <2> DEFINE p == Head(ps)
             tl == Tail(ps)
  <2>2. p \in Part(d) /\ tl \in Seq(Part(d)) /\ ps = <<p>> \o tl /\ <<p>> \in Seq(Part(d))
    BY <2>1
  <2> HIDE DEF p, tl
  <2>3. Packable(Content(p))
    BY <1>2, <2>2 DEF AllBytes
  <2>4. Packed(ps) = Packed(<<p>>) \o Packed(tl)
    BY <1>2, <2>2, PackedOf
  <2>5. Packed(<<p>>) = Pack(Content(p))
    BY <2>3, PackedOne
  <2>6. /\ Pack(Content(p)) \in Seq(Byte) /\ Packed(tl) \in Seq(Byte)
        /\ Len(Pack(Content(p))) = Len(Content(p)) + 4 /\ Len(Content(p)) \in Nat
    BY <1>2, <2>2, <2>3, PackOf, PackableOf, PackedOf DEF Bytes
  <2>7. Pack(Content(p)) = <<>>
    BY <1>4, <2>4, <2>5, <2>6, EmptyCat
  <2> QED BY <2>6, <2>7
<1>6. said = own
  <2>1. said \o <<>> = said
    BY CatOf
  <2> QED BY <1>1, <1>5, <2>1, MeaningsEmpty
<1>7. kind = "whole"
  <2>1. SUFFICES ASSUME kind # "whole" PROVE FALSE
    OBVIOUS
  <2>2. PICK c \in Malformed[d], r \in Bytes : b = Pack(c) \o r /\ Behind(r)
    BY <1>1, <2>1
  <2>3. Packable(c)
    BY <1>2
  <2>4. Pack(c) \in Seq(Byte) /\ Len(Pack(c)) = Len(c) + 4 /\ Len(c) \in Nat /\ r \in Seq(Byte)
    BY <2>3, PackOf, PackableOf DEF Bytes
  <2>5. Pack(c) = <<>>
    BY <1>4, <2>2, <2>4, EmptyCat
  <2> QED BY <2>4, <2>5
<1> QED BY <1>6, <1>7 DEF Ended

\* What is left is nothing or starts with a length.
LEMMA StreamBehind ==
    ASSUME NEW V, SoundIn(V), NEW d \in DOMAIN Messages,
           NEW left, NEW said \in Seq(V), NEW own, NEW kind \in {"whole", "broken"}, NEW codes,
           Stream(d, left, said, own, kind, codes)
    PROVE  Behind(left)
<1>1. SUFFICES ASSUME left # <<>> PROVE Behind(left)
  BY DEF Behind
<1>2. First(d, left, said, own, kind, codes)
  BY <1>1, StreamFirst
<1>3. PICK c \in Bytes, z \in Bytes : left = Pack(c) \o z /\ Packable(c)
  BY <1>2 DEF First
<1> QED BY <1>3, PackOf

\* Packets only.
LEMMA PackedBehind ==
    ASSUME NEW V, SoundIn(V), NEW d \in DOMAIN Messages, NEW qs \in Seq(Part(d))
    PROVE  Packed(qs) \in Bytes /\ Behind(Packed(qs)) /\ Meanings(qs) \in Seq(V)
<1>1. AllBytes(Part(d)) /\ AllMeant(Part(d), V)
  BY PartsSound
<1>2. Packed(qs) \in Bytes /\ Meanings(qs) \in Seq(V)
  BY <1>1, PackedOf, MeaningsOf
<1>3. Packed(qs) \o <<>> = Packed(qs) /\ <<>> \o Meanings(qs) = Meanings(qs) /\ <<>> \in Bytes /\ <<>> \in Seq(V)
  BY <1>2, CatOf DEF Bytes
<1>4. \A i \in DOMAIN qs : qs[i].name = "reply_code" => qs[i] \in Range(qs)
  BY DEF Range
<1>5. Stream(d, Packed(qs), <<>>, Meanings(qs), "whole", Range(qs))
  BY <1>3, <1>4 DEF Stream
<1> QED BY <1>2, <1>3, <1>5, StreamBehind

\* What a message says is a sequence.
LEMMA MeaningSeq ==
    ASSUME NEW m, m.name \in {"body", "replace_body"} => IsBody(m)
    PROVE  \E V : Meaning(m) \in Seq(V)
<1>1. CASE m.name \in {"body", "replace_body"}
  <2>1. m = [name |-> m.name, args |-> <<m.args[1]>>] /\ m.args[1] \in Bytes
    BY <1>1 DEF IsBody
  <2>2. Meaning(m) = Chars(m.name, m.args[1])
    BY <1>1, <2>1, BodyMeaning
  <2>3. Chars(m.name, m.args[1]) \in Seq(Char(m.name))
    BY <2>1, CharsOf
  <2> QED BY <2>2, <2>3
<1>2. CASE m.name \notin {"body", "replace_body"}
  <2>1. \E x : Meaning(m) = <<x>>
    BY <1>2 DEF Meaning
  <2>2. PICK x : Meaning(m) = <<x>>
    BY <2>1
  <2>3. Meaning(m) \in Seq({x})
    BY <2>2
  <2> QED BY <2>3
<1> QED BY <1>1, <1>2

\* There is a set of what may be said.
LEMMA SoundSomewhere ==
    ASSUME ChunkSize \in Nat \ {0}, Sound
    PROVE  \E V : SoundIn(V)
<1> DEFINE M == UNION {Encoded(d) \cup Part(d) : d \in DOMAIN Messages}
           V == UNION {{Meaning(m)[i] : i \in DOMAIN Meaning(m)} : m \in M}
<1>1. ASSUME NEW d \in DOMAIN Messages, NEW m \in Encoded(d)
      PROVE  m.name \in {"body", "replace_body"} => IsBody(m)
  BY DEF Sound
<1>2. ASSUME NEW d \in DOMAIN Messages, NEW p \in Part(d)
      PROVE  p.name \in {"body", "replace_body"} => IsBody(p)
  <2>1. PICK m \in Encoded(d) : p \in Range(Pieces(m))
    BY DEF Part
  <2>2. m.name \in {"body", "replace_body"} => IsBody(m)
    BY <1>1
  <2>3. PICK W : Meaning(m) \in Seq(W)
    BY <2>2, MeaningSeq
  <2>4. \A i \in DOMAIN Pieces(m) :
          /\ Pieces(m)[i].name = m.name
          /\ m.name \in {"body", "replace_body"} => IsBody(Pieces(m)[i])
    BY <2>2, <2>3, PiecesOf
  <2>5. PICK i \in DOMAIN Pieces(m) : p = Pieces(m)[i]
    BY <2>1 DEF Range
  <2> QED BY <2>4, <2>5
<1>3. ASSUME NEW m \in M PROVE Meaning(m) \in Seq(V)
  <2>1. m.name \in {"body", "replace_body"} => IsBody(m)
    BY <1>1, <1>2
  <2>2. PICK W : Meaning(m) \in Seq(W)
    BY <2>1, MeaningSeq
  <2>3. \A i \in 1..Len(Meaning(m)) : Meaning(m)[i] \in V
    BY <2>2
  <2> DEFINE x == Meaning(m)
  <2>4. x \in Seq(W) /\ \A i \in 1..Len(x) : x[i] \in V
    BY <2>2, <2>3
  <2> HIDE DEF x, V
  <2>5. x \in Seq(V)
    BY <2>4
  <2> QED BY <2>5 DEF x
<1>4. SoundIn(V)
  <2> HIDE DEF V
  <2> QED BY <1>3 DEF SoundIn
<1> QED BY <1>4

-----------------------------------------------------------------------------
(* The inductive invariant *)

\* What is written, and the signals that may be emitted.
Foreign(c) == [name |-> "foreign", content |-> c]
Written(d) == Encoded(d) \cup {Foreign(c) : c \in Malformed[d]}
Told(d) == {Decode(d, Content(p), b).signal[1] : p \in Part(d), b \in Beyond}

\* A malformed packet is among those written.
Kind == IF Own = sent THEN "whole" ELSE "broken"

\* The length that was taken from the buffer, the buffer and the wire.
Taken == IF decoder.state = "content" THEN U32(decoder.command_length) ELSE <<>>
Held == Taken \o decoder.buffer
Left == Held \o wire

\* The types, and nothing in the encoder before the first message.
Typed ==
    /\ direction \in DOMAIN Messages
    /\ sent \in Seq(Written(direction))
    /\ Own \in Seq(Encoded(direction))
    /\ sent = <<>> => buffer = <<>>
    /\ wire \in Bytes
    /\ decoder \in [state : {"start", "length", "content", "error"},
                    buffer : Bytes, command_length : Length]
    /\ loop \in {"idle", "decoding", "failed"}
    /\ heard \in Seq(Told(direction))

\* The decoder, its buffer and the wire hold the rest of the stream.
Framed ==
    decoder.state # "error" =>
      /\ Stream(direction, Left, Meanings(heard), Meanings(Own), Kind, Range(sent))
      /\ reported = 0 /\ loop # "failed"

\* The decoder stops at the malformed packet, and that is reported at the end of the loop.
Stopped ==
    decoder.state = "error" =>
      /\ Kind = "broken" /\ Meanings(heard) = Meanings(Own)
      /\ \/ reported = 1 /\ loop # "failed"
         \/ reported = 0 /\ loop = "failed"

\* The loop ends where bytes are missing.
Resting == loop = "idle" => NeedsMore(decoder)

Invariant == Typed /\ Framed /\ Stopped /\ Resting /\ ReplyRelayed

\* What is encoded are the packets of the pieces.
LEMMA SendPackets ==
    ASSUME ChunkSize \in Nat \ {0}, NEW V, SoundIn(V), NEW d \in DOMAIN Messages,
           NEW m \in Encoded(d), NEW buf, m.name = "negotiate" => buf = <<>>
    PROVE  /\ Pieces(m) \in Seq(Part(d))
           /\ Meanings(Pieces(m)) = Meaning(m)
           /\ FlattenSeq([i \in DOMAIN Pieces(m) |-> Encode(buf, Pieces(m)[i])]) = Packed(Pieces(m))
           /\ \A i \in DOMAIN Pieces(m) : Pieces(m)[i].name = "reply_code" => Pieces(m)[i] = m
<1> DEFINE q == Pieces(m)
<1>1. Meaning(m) \in Seq(V) /\ (m.name \in {"body", "replace_body"} => IsBody(m))
  BY DEF SoundIn, Sound
<1>2. /\ Meanings(q) = Meaning(m)
      /\ m.name \notin {"body", "replace_body"} => q = <<m>>
      /\ \E n \in Nat \ {0} : \E f : q = [i \in 1..n |-> f[i]]
      /\ \A i \in DOMAIN q : q[i].name = m.name
  BY <1>1, PiecesOf
<1>3. \A i \in DOMAIN q : q[i] \in Part(d)
  BY DEF Part, Range
<1> HIDE DEF q
<1>4. q \in Seq(Part(d))
  <2>1. PICK n \in Nat \ {0} : \E f : q = [i \in 1..n |-> f[i]]
    BY <1>2
  <2>2. DOMAIN q = 1..n /\ q = [i \in 1..n |-> q[i]]
    BY <2>1
  <2>3. q \in [1..n -> Part(d)]
    BY <1>3, <2>2
  <2> QED BY <2>3
<1>5. AllBytes(Part(d))
  BY PartsSound
<1>6. ASSUME NEW i \in DOMAIN q PROVE Encode(buf, q[i]) = Pack(Content(q[i]))
  <2>1. Packable(Content(q[i]))
    BY <1>3, <1>5 DEF AllBytes
  <2>2. Content(q[i]) \in Seq(Byte)
    BY <2>1, PackableOf
  <2>3. <<>> \o Content(q[i]) = Content(q[i])
    BY <2>2, CatOf
  <2>4. (IF q[i].name = "negotiate" THEN buf ELSE <<>>) = <<>>
    BY <1>2
  <2> QED BY <2>3, <2>4 DEF Encode
<1>7. [i \in DOMAIN q |-> Encode(buf, q[i])] = [i \in DOMAIN q |-> Pack(Content(q[i]))]
  BY <1>6
<1>8. ASSUME NEW i \in DOMAIN q, q[i].name = "reply_code" PROVE q[i] = m
  <2>1. q = <<m>>
    BY <1>2, <1>8
  <2> QED BY <1>8, <2>1
<1> QED BY <1>2, <1>4, <1>7, <1>8 DEF Packed, q

\* One more is written.
LEMMA AppendOf ==
    ASSUME NEW M, NEW ms \in Seq(M), NEW x \in M
    PROVE  /\ Append(ms, x) \in Seq(M) /\ Append(ms, x) = ms \o <<x>>
           /\ Append(ms, x) # <<>>
           /\ Range(ms) \subseteq Range(Append(ms, x)) /\ x \in Range(Append(ms, x))
           /\ \A i \in DOMAIN ms : i \in DOMAIN Append(ms, x) /\ Append(ms, x)[i] = ms[i]
<1> DEFINE t == Append(ms, x)
<1>1. /\ t \in Seq(M) /\ Len(t) = Len(ms) + 1 /\ Len(ms) \in Nat /\ t[Len(ms) + 1] = x
      /\ \A i \in 1..Len(ms) : t[i] = ms[i]
  BY AppendProperties
<1>2. t = ms \o <<x>>
  OBVIOUS
<1>3. DOMAIN t = 1..Len(t) /\ DOMAIN ms = 1..Len(ms)
  OBVIOUS
<1> HIDE DEF t
<1>4. \A i \in DOMAIN ms : i \in DOMAIN t /\ t[i] = ms[i]
  BY <1>1, <1>3
<1>5. Len(ms) + 1 \in DOMAIN t /\ t # <<>>
  BY <1>1, <1>3
<1>6. Range(ms) \subseteq Range(t) /\ x \in Range(t)
  BY <1>1, <1>4, <1>5 DEF Range
<1> QED BY <1>1, <1>2, <1>4, <1>5, <1>6 DEF t

\* Signals and messages say values in V.
LEMMA AllSay ==
    ASSUME NEW V, SoundIn(V), NEW d \in DOMAIN Messages
    PROVE  AllMeant(Told(d), V) /\ AllMeant(Encoded(d), V)
<1>1. AllMeant(Encoded(d), V)
  BY DEF SoundIn, AllMeant
<1>2. ASSUME NEW x \in Told(d) PROVE Meaning(x) \in Seq(V)
  <2>1. PICK p \in Part(d), b \in Beyond : x = Decode(d, Content(p), b).signal[1]
    BY DEF Told
  <2>2. RoundTrip(d, p)
    BY DEF SoundIn, Sound
  <2>3. Meaning(x) = Meaning(p)
    BY <2>1, <2>2 DEF RoundTrip
  <2> QED BY <2>3 DEF SoundIn
<1> QED BY <1>1, <1>2 DEF AllMeant

\* The parts of the stream are bytes, the lists are of what may be said.
LEMMA TypedOf ==
    ASSUME NEW V, SoundIn(V), Typed
    PROVE  /\ Taken \in Seq(Byte) /\ decoder.buffer \in Seq(Byte)
           /\ Held \in Seq(Byte) /\ wire \in Seq(Byte)
           /\ Meanings(heard) \in Seq(V) /\ Meanings(Own) \in Seq(V)
           /\ Kind \in {"whole", "broken"}
<1>1. decoder.buffer \in Seq(Byte) /\ wire \in Seq(Byte) /\ decoder.command_length \in Length
  BY DEF Typed, Bytes
<1>2. Taken \in Seq(Byte)
  BY <1>1, U32Of DEF Taken, Bytes
<1>3. Held \in Seq(Byte)
  BY <1>1, <1>2, CatOf DEF Held
<1>4. direction \in DOMAIN Messages /\ heard \in Seq(Told(direction)) /\ Own \in Seq(Encoded(direction))
  BY DEF Typed
<1>5. AllMeant(Told(direction), V) /\ AllMeant(Encoded(direction), V)
  BY <1>4, AllSay
<1>6. Meanings(heard) \in Seq(V)
  BY <1>4, <1>5, MeaningsOf
<1>7. Meanings(Own) \in Seq(V)
  BY <1>4, <1>5, MeaningsOf
<1> QED BY <1>1, <1>2, <1>3, <1>6, <1>7 DEF Kind

\* x, whose packets are z, is written behind everything.
LEMMA WriteKeeps ==
    ASSUME NEW V, SoundIn(V), Invariant, NEW x \in Written(direction), NEW z \in Bytes,
           Behind(z),
           sent' = Append(sent, x), wire' = wire \o z,
           UNCHANGED <<direction, decoder, loop, heard, reported>>,
           \/ /\ x \in Encoded(direction)
              /\ \E qs \in Seq(Part(direction)) :
                   /\ z = Packed(qs) /\ Meanings(qs) = Meaning(x)
                   /\ \A i \in DOMAIN qs : qs[i].name = "reply_code" => qs[i] = x
           \/ \E c \in Malformed[direction] : x = Foreign(c) /\ z = Pack(c)
    PROVE  Invariant'
<1> DEFINE d == direction
<1>1. Typed /\ Framed /\ Stopped /\ Resting /\ ReplyRelayed
  BY DEF Invariant
<1>2. /\ d \in DOMAIN Messages /\ sent \in Seq(Written(d)) /\ Own \in Seq(Encoded(d))
  BY <1>1 DEF Typed
<1>3. /\ Held \in Seq(Byte) /\ wire \in Seq(Byte) /\ z \in Seq(Byte)
      /\ Meanings(heard) \in Seq(V) /\ Meanings(Own) \in Seq(V)
  BY <1>1, TypedOf DEF Bytes
<1>4. /\ sent' \in Seq(Written(d)) /\ sent' = sent \o <<x>> /\ sent' # <<>>
      /\ Range(sent) \subseteq Range(sent') /\ x \in Range(sent')
      /\ \A i \in DOMAIN sent : i \in DOMAIN sent' /\ sent'[i] = sent[i]
  BY <1>2, AppendOf
<1>5. wire' \in Bytes /\ Left' = Left \o z
  <2>1. wire \o z \in Seq(Byte)
    BY <1>3, CatOf
  <2>2. Left' = Held \o (wire \o z)
    BY DEF Left, Held, Taken
  <2>3. (Held \o wire) \o z = Held \o (wire \o z)
    BY ONLY <1>3, AssocBytes, ZenonT(60)
  <2> QED BY <2>1, <2>2, <2>3 DEF Left, Bytes
<1>6. /\ Own # sent => Own' = Own /\ Own' # sent'
      /\ Own = sent /\ x.name = "foreign" => Own' = Own /\ Own' # sent'
      /\ Own = sent /\ x.name # "foreign" => Own' = sent'
  BY <1>2, BeforeAppend DEF Own
<1>7. /\ x \in Encoded(d) => x.name # "foreign"
      /\ \A c \in Malformed[d] : x = Foreign(c) => x.name = "foreign"
  BY <1>2 DEF SoundIn, Sound, Foreign
<1>8. Own' \in Seq(Encoded(d))
  <2>1. CASE x \in Encoded(d) /\ Own = sent
    <3>1. Own' = sent \o <<x>>
      BY <1>4, <1>6, <1>7, <2>1
    <3>2. sent \in Seq(Encoded(d)) /\ <<x>> \in Seq(Encoded(d))
      BY <1>2, <2>1
    <3> QED BY <3>1, <3>2, CatOf
  <2>2. CASE ~(x \in Encoded(d) /\ Own = sent)
    BY <1>2, <1>6, <1>7, <2>2
  <2> QED BY <2>1, <2>2
<1>9. Typed'
  BY <1>1, <1>4, <1>5, <1>8 DEF Typed
<1>10. Framed'
  <2>1. SUFFICES ASSUME decoder.state # "error"
                 PROVE  Stream(d, Left \o z, Meanings(heard), Meanings(Own'), Kind', Range(sent'))
    BY <1>1, <1>5 DEF Framed
  <2>2. Stream(d, Left, Meanings(heard), Meanings(Own), Kind, Range(sent))
    BY <1>1, <2>1 DEF Framed
  <2>3. CASE Own # sent
    <3>1. Kind = "broken" /\ Kind' = "broken" /\ Own' = Own
      BY <1>6, <2>3 DEF Kind
    <3> QED BY <1>2, <1>4, <2>2, <3>1, StreamIgnores
  <2>4. CASE Own = sent /\ x \in Encoded(d)
    <3>1. Kind = "whole" /\ Kind' = "whole" /\ Own' = sent'
      BY <1>6, <1>7, <2>4 DEF Kind
    <3>2. PICK qs \in Seq(Part(d)) :
            /\ z = Packed(qs) /\ Meanings(qs) = Meaning(x)
            /\ \A i \in DOMAIN qs : qs[i].name = "reply_code" => qs[i] = x
      BY <1>7, <2>4
    <3>3. Meanings(Own') = Meanings(Own) \o Meanings(qs)
      <4>1. AllMeant(Encoded(d), V)
        BY <1>2, AllSay
      <4>2. sent \in Seq(Encoded(d)) /\ <<x>> \in Seq(Encoded(d))
        BY <1>2, <2>4
      <4>3. Meanings(sent \o <<x>>) = Meanings(sent) \o Meanings(<<x>>)
        BY <4>1, <4>2, MeaningsOf
      <4>4. Meaning(x) \in Seq(V)
        BY <2>4, <4>1 DEF AllMeant
      <4>5. Meanings(<<x>>) = Meaning(x)
        BY <4>4, MeaningOfOne
      <4> QED BY <1>4, <2>4, <3>1, <3>2, <4>3, <4>5
    <3>4. \A i \in DOMAIN qs : qs[i].name = "reply_code" => qs[i] \in Range(sent')
      BY <1>4, <3>2
    <3>5. Stream(d, Left, Meanings(heard), Meanings(Own), "whole", Range(sent))
      BY <2>2, <3>1
    <3>6. Stream(d, Left \o Packed(qs), Meanings(heard), Meanings(Own) \o Meanings(qs), "whole", Range(sent'))
      <4> DEFINE left == Left
                 said == Meanings(heard)
                 own == Meanings(Own)
                 codes == Range(sent)
                 more == Range(sent')
      <4>1. /\ Stream(d, left, said, own, "whole", codes) /\ codes \subseteq more /\ said \in Seq(V)
            /\ \A i \in DOMAIN qs : qs[i].name = "reply_code" => qs[i] \in more
        BY <1>3, <1>4, <3>4, <3>5
      <4> HIDE DEF left, said, own, codes, more
      <4>2. Stream(d, left \o Packed(qs), said, own \o Meanings(qs), "whole", more)
        BY <1>2, <4>1, StreamGrows
      <4> QED BY <4>2 DEF left, said, own, codes, more
    <3> QED BY <3>1, <3>2, <3>3, <3>6
  <2>5. CASE Own = sent /\ x \notin Encoded(d)
    <3>1. PICK c \in Malformed[d] : x = Foreign(c) /\ z = Pack(c)
      BY <2>5
    <3>2. Kind = "whole" /\ Kind' = "broken" /\ Own' = Own
      BY <1>6, <1>7, <2>5, <3>1 DEF Kind
    <3> QED BY <1>2, <1>4, <2>2, <3>1, <3>2, StreamBreaks
  <2> QED BY <2>3, <2>4, <2>5
<1>11. Stopped'
  <2>1. SUFFICES ASSUME decoder.state = "error"
                 PROVE  Kind' = "broken" /\ Own' = Own
    BY <1>1 DEF Stopped
  <2>2. Own # sent
    BY <1>1, <2>1 DEF Stopped, Kind
  <2> QED BY <1>6, <2>2 DEF Kind
<1>12. Resting'
  BY <1>1 DEF Resting, NeedsMore
<1>13. ReplyRelayed'
  <2>1. SUFFICES ASSUME NEW i \in DOMAIN heard, heard[i].name = "reply_code"
                 PROVE  /\ SetReply(heard[i])
                        /\ \E j \in DOMAIN sent' : /\ sent'[j].name = "reply_code"
                                                   /\ FormatReply(heard[i]) = FormatReply(sent'[j])
    BY DEF ReplyRelayed
  <2>2. SetReply(heard[i])
    BY <1>1, <2>1 DEF ReplyRelayed
  <2>3. PICK j \in DOMAIN sent : sent[j].name = "reply_code" /\ FormatReply(heard[i]) = FormatReply(sent[j])
    BY <1>1, <2>1 DEF ReplyRelayed
  <2> QED BY <1>4, <2>2, <2>3
<1> QED BY <1>9, <1>10, <1>11, <1>12, <1>13 DEF Invariant

\* The invariant holds at first.
LEMMA InitInvariant ==
    ASSUME Init PROVE Invariant
<1>1. Own = <<>> /\ Own = sent
  <2>1. ForeignAt(<<>>) = {}
    BY DEF ForeignAt
  <2>2. <<>> \in Seq({})
    OBVIOUS
  <2>3. Before(<<>>) = <<>>
    BY <2>1, <2>2, BeforeIs
  <2> QED BY <2>3 DEF Own, Init
<1>2. Left = <<>>
  <2>1. <<>> \o <<>> = <<>>
    OBVIOUS
  <2> QED BY <2>1 DEF Left, Held, Taken, Init
<1>3. Typed
  <2>1. 0 \in Length
    BY SMT DEF Length
  <2>2. <<>> \in Bytes
    BY DEF Bytes
  <2>3. decoder \in [state : {"start", "length", "content", "error"},
                     buffer : Bytes, command_length : Length]
    BY <2>1, <2>2 DEF Init
  <2> QED BY <1>1, <2>2, <2>3 DEF Typed, Init
<1>4. Framed
  <2>1. Packed(<<>>) = <<>> /\ Meanings(<<>>) = <<>>
    <3>1. [i \in DOMAIN <<>> |-> Pack(Content(<<>>[i]))] = <<>>
      OBVIOUS
    <3> QED BY <3>1, FlattenEmpty, MeaningsEmpty DEF Packed
  <2>2. <<>> \o <<>> = <<>> /\ <<>> \in Seq(Part(direction)) /\ <<>> \in Bytes /\ DOMAIN <<>> = {}
    BY DEF Bytes
  <2>3. Stream(direction, <<>>, <<>>, <<>>, "whole", Range(sent))
    BY <2>1, <2>2 DEF Stream
  <2>4. heard = <<>> /\ reported = 0 /\ loop = "idle"
    BY DEF Init
  <2> QED BY <1>1, <1>2, <2>1, <2>3, <2>4 DEF Framed, Kind
<1>5. Stopped /\ Resting /\ ReplyRelayed
  BY DEF Stopped, Resting, ReplyRelayed, NeedsMore, Init
<1> QED BY <1>3, <1>4, <1>5 DEF Invariant

\* A message that is sent keeps the invariant,
LEMMA SendKeeps ==
    ASSUME ChunkSize \in Nat \ {0}, Renegotiates = FALSE, NEW V, SoundIn(V), Invariant,
           NEW m \in Messages[direction], Send(m)
    PROVE  Invariant'
<1> DEFINE qs == Pieces(m)
<1>1. /\ Encodable(m) /\ (m.name = "negotiate" => sent = <<>>)
      /\ sent' = Append(sent, m)
      /\ wire' = wire \o FlattenSeq([i \in DOMAIN qs |-> Encode(buffer, qs[i])])
      /\ UNCHANGED <<direction, decoder, loop, heard, reported>>
  BY DEF Send
<1>2. direction \in DOMAIN Messages /\ (sent = <<>> => buffer = <<>>)
  BY DEF Invariant, Typed
<1>3. m \in Encoded(direction) /\ m \in Written(direction)
  BY <1>1 DEF Encoded, Written
<1>4. /\ qs \in Seq(Part(direction)) /\ Meanings(qs) = Meaning(m)
      /\ FlattenSeq([i \in DOMAIN qs |-> Encode(buffer, qs[i])]) = Packed(qs)
      /\ \A i \in DOMAIN qs : qs[i].name = "reply_code" => qs[i] = m
  BY <1>1, <1>2, <1>3, SendPackets
<1> HIDE DEF qs
<1>5. Packed(qs) \in Bytes /\ Behind(Packed(qs))
  BY <1>2, <1>4, PackedBehind
<1>6. wire' = wire \o Packed(qs)
  BY <1>1, <1>4
<1> QED BY <1>1, <1>3, <1>4, <1>5, <1>6, WriteKeeps

\* so does a foreign packet,
LEMMA SendForeignKeeps ==
    ASSUME NEW V, SoundIn(V), Invariant, NEW c \in Malformed[direction], SendForeign(c)
    PROVE  Invariant'
<1>1. /\ sent' = Append(sent, Foreign(c)) /\ wire' = wire \o Pack(c)
      /\ UNCHANGED <<direction, decoder, loop, heard, reported>>
  BY DEF SendForeign, Foreign
<1>2. direction \in DOMAIN Messages /\ Foreign(c) \in Written(direction)
  BY DEF Invariant, Typed, Written
<1>3. Packable(c)
  BY <1>2, PartsSound
<1>4. Pack(c) \in Bytes /\ <<>> \in Bytes /\ Behind(Pack(c) \o <<>>)
  <2>1. <<>> \in Bytes
    BY DEF Bytes
  <2> QED BY <1>3, <2>1, PackOf
<1>5. Pack(c) \o <<>> = Pack(c)
  BY <1>4, CatOf DEF Bytes
<1>6. Behind(Pack(c))
  BY <1>4, <1>5
<1> QED BY <1>1, <1>2, <1>4, <1>6, WriteKeeps

\* Nothing is sent or heard, and the stream is the same.
LEMMA TurnKeeps ==
    ASSUME Invariant, Typed', Left' = Left, Resting',
           UNCHANGED <<direction, sent, heard, reported>>,
           decoder.state # "error", decoder'.state # "error", loop' # "failed"
    PROVE  Invariant'
<1>1. Framed /\ ReplyRelayed
  BY DEF Invariant
<1>2. Own' = Own /\ Kind' = Kind
  BY DEF Own, Kind
<1>3. Framed' /\ Stopped'
  BY <1>1, <1>2 DEF Framed, Stopped
<1>4. ReplyRelayed'
  BY <1>1 DEF ReplyRelayed
<1> QED BY <1>3, <1>4 DEF Invariant

\* After an error nothing is decoded.
LEMMA ErrorStays ==
    ASSUME Invariant, decoder.state = "error", Typed', decoder'.state = "error",
           UNCHANGED <<direction, sent, heard, reported>>, loop # "failed", loop' # "failed"
    PROVE  Invariant'
<1>1. Stopped /\ ReplyRelayed
  BY DEF Invariant
<1>2. Own' = Own /\ Kind' = Kind
  BY DEF Own, Kind
<1>3. Framed' /\ Stopped'
  BY <1>1, <1>2 DEF Framed, Stopped
<1>4. ReplyRelayed'
  BY <1>1 DEF ReplyRelayed
<1>5. Resting'
  BY DEF Resting, NeedsMore
<1> QED BY <1>3, <1>4, <1>5 DEF Invariant

\* a read of any size,
LEMMA ReadKeeps ==
    ASSUME NEW V, SoundIn(V), Invariant, NEW size \in 1..Len(wire), Read(size)
    PROVE  Invariant'
<1> DEFINE a == SubSeq(wire, 1, size)
           w == From(wire, size + 1)
           buf == decoder.buffer
<1>1. Typed /\ Framed /\ Stopped
  BY DEF Invariant
<1>2. /\ Taken \in Seq(Byte) /\ buf \in Seq(Byte) /\ wire \in Seq(Byte)
  BY <1>1, TypedOf
<1>3. /\ wire' = w /\ decoder' = [decoder EXCEPT !.buffer = buf \o a]
      /\ loop = "idle" /\ loop' = "decoding"
      /\ UNCHANGED <<direction, sent, buffer, heard, reported>>
  BY DEF Read
<1>4. a \in Seq(Byte) /\ w \in Seq(Byte) /\ a \o w = wire
  <2>1. size \in 0..Len(wire)
    BY <1>2
  <2> QED BY <1>2, <2>1, FromOf
<1>5. /\ decoder \in [state : {"start", "length", "content", "error"},
                      buffer : Bytes, command_length : Length]
  BY <1>1 DEF Typed
<1> HIDE DEF a, w
<1>6. /\ decoder' \in [state : {"start", "length", "content", "error"},
                       buffer : Bytes, command_length : Length]
      /\ decoder'.state = decoder.state /\ decoder'.buffer = buf \o a
      /\ decoder'.command_length = decoder.command_length
  <2>1. buf \o a \in Bytes
    BY <1>2, <1>4, CatOf DEF Bytes
  <2> QED BY <1>3, <1>5, <2>1
<1>7. Typed'
  BY <1>1, <1>3, <1>4, <1>6 DEF Typed, Bytes, Own
<1>8. Left' = Left
  <2>1. Taken' = Taken
    BY <1>6 DEF Taken
  <2>2. Left' = (Taken \o (buf \o a)) \o w /\ Left = (Taken \o buf) \o wire
    BY <1>3, <1>6, <2>1 DEF Left, Held
  <2> DEFINE t == Taken
             u == t \o buf
  <2>3. t \in Seq(Byte) /\ buf \in Seq(Byte) /\ a \in Seq(Byte) /\ w \in Seq(Byte)
    BY <1>2, <1>4
  <2> HIDE DEF t, buf
  <2>4. u \in Seq(Byte)
    BY <2>3, CatOf
  <2>5. (t \o buf) \o a = t \o (buf \o a)
    BY ONLY <2>3, AssocBytes
  <2> HIDE DEF u
  <2>6. (u \o a) \o w = u \o (a \o w)
    BY ONLY <2>3, <2>4, AssocBytes
  <2> QED BY <1>4, <2>2, <2>5, <2>6 DEF t, u
<1>9. CASE decoder.state = "error"
  BY <1>1, <1>3, <1>6, <1>7, <1>9, ErrorStays DEF Stopped
<1>10. CASE decoder.state # "error"
  <2>1. Resting'
    BY <1>3 DEF Resting
  <2> QED BY <1>3, <1>6, <1>7, <1>8, <1>10, <2>1, TurnKeeps
<1> QED BY <1>9, <1>10

\* the turns of the decoder's loop: IN_START,
LEMMA StartKeeps ==
    ASSUME NEW V, SoundIn(V), Invariant, DecodeStart
    PROVE  Invariant'
<1>1. Typed /\ Framed
  BY DEF Invariant
<1>2. /\ loop # "idle" /\ decoder.state = "start" /\ decoder' = [decoder EXCEPT !.state = "length"]
      /\ UNCHANGED <<direction, sent, buffer, wire, loop, heard, reported>>
  BY DEF DecodeStart
<1>3. decoder \in [state : {"start", "length", "content", "error"},
                   buffer : Bytes, command_length : Length]
  BY <1>1 DEF Typed
<1>4. /\ decoder' \in [state : {"start", "length", "content", "error"},
                       buffer : Bytes, command_length : Length]
      /\ decoder'.state = "length" /\ decoder'.buffer = decoder.buffer
  BY <1>2, <1>3
<1>5. Typed'
  BY <1>1, <1>2, <1>4 DEF Typed, Own
<1>6. Left' = Left
  BY <1>2, <1>4 DEF Left, Held, Taken
<1>7. Resting' /\ loop' # "failed"
  BY <1>1, <1>2 DEF Resting, Framed
<1> QED BY <1>2, <1>4, <1>5, <1>6, <1>7, TurnKeeps

\* The packet the decoder is at.
LEMMA AtPacket ==
    ASSUME NEW V, SoundIn(V), Invariant, decoder.state # "error", Left # <<>>
    PROVE  First(direction, Left, Meanings(heard), Meanings(Own), Kind, Range(sent))
<1>1. Typed /\ Framed
  BY DEF Invariant
<1>2. direction \in DOMAIN Messages
  BY <1>1 DEF Typed
<1>3. Meanings(heard) \in Seq(V) /\ Kind \in {"whole", "broken"}
  BY <1>1, TypedOf
<1>4. Stream(direction, Left, Meanings(heard), Meanings(Own), Kind, Range(sent))
  BY <1>1 DEF Framed
<1> DEFINE said == Meanings(heard)
           own == Meanings(Own)
<1> HIDE DEF said, own
<1>5. First(direction, Left, said, own, Kind, Range(sent))
  BY <1>2, <1>3, <1>4, StreamFirst DEF said, own
<1> QED BY <1>5 DEF said, own

\* IN_COMMAND_LENGTH,
LEMMA LengthKeeps ==
    ASSUME NEW V, SoundIn(V), Invariant, DecodeLength
    PROVE  Invariant'
<1> DEFINE buf == decoder.buffer
           rest == From(buf, 5)
           n == Number(SubSeq(buf, 1, 4))
<1>1. Typed /\ Framed
  BY DEF Invariant
<1>2. /\ loop # "idle" /\ decoder.state = "length" /\ ~(Len(buf) < 4)
      /\ decoder' = [state |-> "content", buffer |-> rest, command_length |-> n]
      /\ UNCHANGED <<direction, sent, buffer, wire, loop, heard, reported>>
  BY DEF DecodeLength, NeedsMore
<1>3. buf \in Seq(Byte) /\ wire \in Seq(Byte) /\ Len(buf) \in Nat
  <2>1. buf \in Seq(Byte) /\ wire \in Seq(Byte)
    BY <1>1, TypedOf
  <2> QED BY <2>1
<1>4. Left = buf \o wire
  <2>1. <<>> \o buf = buf
    BY <1>3, CatOf
  <2> QED BY <1>2, <2>1 DEF Left, Held, Taken
<1>5. Left # <<>>
  <2>1. Len(buf \o wire) = Len(buf) + Len(wire) /\ Len(wire) \in Nat
    BY <1>3, CatOf
  <2>2. Len(buf \o wire) # 0
    BY <1>2, <1>3, <2>1
  <2> QED BY <1>4, <2>2
<1>6. PICK c \in Bytes, z \in Bytes : Left = Pack(c) \o z /\ Packable(c)
  BY <1>2, <1>5, AtPacket DEF First
<1> DEFINE u == U32(Len(c))
<1>7. /\ Len(c) \in Length /\ c \in Seq(Byte) /\ z \in Seq(Byte) /\ Pack(c) = u \o c
      /\ u \in Seq(Byte) /\ Len(u) = 4 /\ Number(u) = Len(c)
  <2>1. Len(c) \in Length /\ c \in Seq(Byte) /\ Pack(c) = U32(Len(c)) \o c
    BY <1>6, PackableOf, PackOf
  <2>2. u \in Seq(Byte) /\ Len(u) = 4 /\ Number(u) = Len(c)
    BY <2>1, U32Of DEF Bytes
  <2> QED BY <2>1, <2>2 DEF Bytes
<1> HIDE DEF u
<1>8. buf \o wire = u \o (c \o z) /\ c \o z \in Seq(Byte)
  <2>1. (u \o c) \o z = u \o (c \o z)
    BY ONLY <1>7, AssocBytes
  <2>2. c \o z \in Seq(Byte)
    BY <1>7, CatOf
  <2> QED BY <1>4, <1>6, <1>7, <2>1, <2>2
<1>9. /\ SubSeq(buf, 1, Len(u)) = u /\ From(buf, Len(u) + 1) \in Seq(Byte)
      /\ buf = u \o From(buf, Len(u) + 1)
  <2> DEFINE y == c \o z
  <2>1. /\ buf \in Seq(Byte) /\ wire \in Seq(Byte) /\ u \in Seq(Byte) /\ y \in Seq(Byte)
        /\ buf \o wire = u \o y /\ Len(u) <= Len(buf)
    BY <1>2, <1>3, <1>7, <1>8
  <2> HIDE DEF y, buf, rest, n
  <2>2. CutAt(Byte, buf, wire, u, y)
    BY ONLY <2>1, Cut
  <2> QED BY <2>2 DEF CutAt
<1>10. SubSeq(buf, 1, 4) = u /\ rest \in Seq(Byte) /\ buf = u \o rest /\ n = Len(c)
  <2>1. Len(u) + 1 = 5
    BY <1>7
  <2> HIDE DEF buf
  <2> QED BY <1>7, <1>9, <2>1
<1> HIDE DEF rest, n
<1>11. /\ decoder' \in [state : {"start", "length", "content", "error"},
                        buffer : Bytes, command_length : Length]
       /\ decoder'.state = "content" /\ decoder'.buffer = rest /\ decoder'.command_length = n
  BY <1>2, <1>7, <1>10 DEF Bytes
<1>12. Typed'
  BY <1>1, <1>2, <1>11 DEF Typed, Own
<1>13. Left' = Left
  <2>1. Taken' = u
    BY <1>10, <1>11 DEF Taken, u
  <2> QED BY <1>2, <1>4, <1>10, <1>11, <2>1 DEF Left, Held
<1>14. Resting' /\ loop' # "failed"
  BY <1>1, <1>2 DEF Resting, Framed
<1> QED BY <1>2, <1>11, <1>12, <1>13, <1>14, TurnKeeps

\* the end of the loop,
LEMMA EndKeeps ==
    ASSUME Invariant, DecodeEnd
    PROVE  Invariant'
<1>1. Typed /\ Framed /\ Stopped /\ ReplyRelayed
  BY DEF Invariant
<1>2. /\ loop # "idle" /\ NeedsMore(decoder) /\ loop' = "idle"
      /\ reported' = reported + (IF loop = "failed" THEN 1 ELSE 0)
      /\ UNCHANGED <<direction, sent, buffer, wire, decoder, heard>>
  BY DEF DecodeEnd
<1>3. Own' = Own /\ Kind' = Kind /\ Left' = Left
  BY <1>2 DEF Own, Kind, Left, Held, Taken
<1>4. Typed'
  BY <1>1, <1>2, <1>3 DEF Typed
<1>5. Framed'
  BY <1>1, <1>2, <1>3 DEF Framed
<1>6. Stopped'
  BY <1>1, <1>2, <1>3 DEF Stopped
<1>7. Resting'
  BY <1>2 DEF Resting, NeedsMore
<1>8. ReplyRelayed'
  BY <1>1, <1>2 DEF ReplyRelayed
<1> QED BY <1>4, <1>5, <1>6, <1>7, <1>8 DEF Invariant

\* The two bytes behind a content.
LEMMA BeyondOf ==
    ASSUME NEW rest \in Seq(Byte), NEW w \in Seq(Byte), Behind(rest \o w)
    PROVE  SubSeq(rest \o <<NUL, NUL>>, 1, 2) \in Beyond
<1> DEFINE s == rest \o <<NUL, NUL>>
           t == SubSeq(s, 1, 2)
<1>1. 0 \in Byte /\ NUL = 0
  BY DEF Byte, NUL
<1>2. /\ s \in Seq(Byte) /\ Len(s) = Len(rest) + 2 /\ Len(rest) \in Nat
      /\ s[1] = IF 1 <= Len(rest) THEN rest[1] ELSE 0
  BY <1>1
<1>3. s[1] = 0
  <2>1. CASE rest = <<>>
    BY <1>2, <2>1
  <2>2. CASE rest # <<>>
    <3>1. Len(rest) # 0 /\ Len(rest) \in Nat /\ Len(w) \in Nat
      BY <2>2
    <3>2. 1 <= Len(rest) /\ 1 \in 1..(Len(rest) + Len(w))
      BY <3>1
    <3>3. \A i \in 1..(Len(rest) + Len(w)) : (rest \o w)[i] = IF i <= Len(rest) THEN rest[i] ELSE w[i - Len(rest)]
      BY ConcatProperties
    <3>4. (rest \o w)[1] = rest[1] /\ rest \o w # <<>>
      <4>1. Len(rest \o w) = Len(rest) + Len(w)
        BY CatOf
      <4> QED BY <3>1, <3>2, <3>3, <4>1
    <3>5. rest[1] = 0
      BY <3>4 DEF Behind
    <3> QED BY <1>2, <3>2, <3>5
  <2> QED BY <2>1, <2>2
<1> HIDE DEF s
<1>4. t \in Seq(Byte) /\ Len(t) = 2 /\ t[1] = s[1]
  <2>1. \A i \in 1..2 : s[i] \in Byte
    BY <1>2
  <2> QED BY <1>2, <2>1, SubSeqProperties
<1>5. t = <<t[1], t[2]>> /\ t[2] \in Byte
  <2> HIDE DEF t
  <2> QED BY <1>4
<1>6. t = <<0, t[2]>>
  BY <1>3, <1>4, <1>5
<1> HIDE DEF t
<1>7. t \in Beyond
  BY <1>1, <1>5, <1>6 DEF Beyond
<1> QED BY <1>7 DEF t, s

\* The same number in front.
LEMMA SameLength ==
    ASSUME NEW k \in Length, NEW n \in Length, NEW x \in Seq(Byte), NEW y \in Seq(Byte),
           U32(k) \o x = U32(n) \o y
    PROVE  k = n /\ x = y
<1> DEFINE u == U32(k)
           v == U32(n)
<1>1. /\ u \in Seq(Byte) /\ Len(u) = 4 /\ Number(u) = k
      /\ v \in Seq(Byte) /\ Len(v) = 4 /\ Number(v) = n
  BY U32Of DEF Bytes
<1>2. u \o x = v \o y
  OBVIOUS
<1> HIDE DEF u, v
<1>3. CutAt(Byte, u, x, v, y)
  <2>1. Len(v) <= Len(u)
    BY <1>1
  <2>2. u \in Seq(Byte) /\ v \in Seq(Byte)
    BY <1>1
  <2> QED BY ONLY <1>2, <2>1, <2>2, x \in Seq(Byte), y \in Seq(Byte), Cut
<1>4. SubSeq(u, 1, 4) = v
  BY <1>1, <1>3 DEF CutAt
<1>5. SubSeq(u, 1, 4) = u
  BY <1>1, SubSeqFull
<1>6. u = v /\ k = n
  BY <1>1, <1>4, <1>5
<1>7. x = y
  <2>1. v \o x = v \o y
    BY <1>2, <1>6
  <2> QED BY <1>1, <2>1, ConcatSimplifications
<1> QED BY <1>6, <1>7

\* and IN_COMMAND_CONTENT, where a packet is decoded.
LEMMA ContentKeeps ==
    ASSUME NEW V, SoundIn(V), Invariant, DecodeContent
    PROVE  Invariant'
<1> DEFINE d == direction
           buf == decoder.buffer
           n == decoder.command_length
           rest == From(buf, n + 1)
           beyond == SubSeq(rest \o <<NUL, NUL>>, 1, 2)
           r == Decode(d, SubSeq(buf, 1, n), beyond)
<1>1. Typed /\ Framed /\ ReplyRelayed
  BY DEF Invariant
<1>2. /\ loop # "idle" /\ decoder.state = "content" /\ ~(Len(buf) < n)
      /\ heard' = heard \o r.signal
      /\ loop' = IF r.error THEN "failed" ELSE loop
      /\ decoder' = IF r.ok THEN [decoder EXCEPT !.state = "start", !.buffer = rest]
                    ELSE [decoder EXCEPT !.state = "error"]
      /\ UNCHANGED <<direction, sent, buffer, wire, reported>>
  BY DEF DecodeContent, NeedsMore
<1>3. /\ buf \in Seq(Byte) /\ wire \in Seq(Byte) /\ Len(buf) \in Nat /\ n \in Length /\ n \in Nat
      /\ decoder \in [state : {"start", "length", "content", "error"},
                      buffer : Bytes, command_length : Length]
      /\ d \in DOMAIN Messages /\ heard \in Seq(Told(d))
      /\ Meanings(heard) \in Seq(V)
  <2>1. buf \in Seq(Byte) /\ wire \in Seq(Byte) /\ Meanings(heard) \in Seq(V)
    BY <1>1, TypedOf
  <2>2. /\ decoder \in [state : {"start", "length", "content", "error"},
                        buffer : Bytes, command_length : Length]
        /\ d \in DOMAIN Messages /\ heard \in Seq(Told(d))
    BY <1>1 DEF Typed
  <2>3. n \in Length
    BY <2>2
  <2>4. n \in Nat
    BY <2>3, SMT DEF Length
  <2> QED BY <2>1, <2>2, <2>3, <2>4
<1>4. loop # "failed" /\ reported = 0
  BY <1>1, <1>2 DEF Framed
<1>5. Left = U32(n) \o (buf \o wire) /\ Left # <<>> /\ buf \o wire \in Seq(Byte)
  <2> DEFINE u == U32(n)
  <2>1. u \in Seq(Byte) /\ Len(u) = 4
    BY <1>3, U32Of DEF Bytes
  <2>2. Left = (u \o buf) \o wire
    BY <1>2 DEF Left, Held, Taken
  <2>3. buf \in Seq(Byte) /\ wire \in Seq(Byte)
    BY <1>3
  <2> HIDE DEF u, buf
  <2>4. (u \o buf) \o wire = u \o (buf \o wire)
    BY ONLY <2>1, <2>3, AssocBytes
  <2>5. buf \o wire \in Seq(Byte)
    BY <2>3, CatOf
  <2> DEFINE y == buf \o wire
  <2>6. Left = u \o y /\ y \in Seq(Byte)
    BY <2>2, <2>4, <2>5
  <2> HIDE DEF y
  <2>7. Left # <<>>
    BY <2>1, <2>6, EmptyCat
  <2> QED BY <2>6, <2>7 DEF u, y
<1>6. First(d, Left, Meanings(heard), Meanings(Own), Kind, Range(sent))
  BY <1>2, <1>5, AtPacket
<1> DEFINE IsMessage(c, z) ==
             \E p \in Part(d) :
               /\ c = Content(p)
               /\ p.name = "reply_code" => p \in Range(sent)
               /\ Stream(d, z, Meanings(heard) \o Meaning(p), Meanings(Own), Kind, Range(sent))
           IsMalformed(c, z) ==
             /\ Kind = "broken" /\ c \in Malformed[d] /\ Meanings(heard) = Meanings(Own) /\ Behind(z)
<1>7. PICK c \in Bytes, z \in Bytes :
        /\ Left = Pack(c) \o z /\ Packable(c)
        /\ IsMessage(c, z) \/ IsMalformed(c, z)
  BY <1>6 DEF First
<1> HIDE DEF IsMessage, IsMalformed
<1>8. n = Len(c) /\ buf \o wire = c \o z /\ c \in Seq(Byte) /\ z \in Seq(Byte)
  <2>1. Len(c) \in Length /\ c \in Seq(Byte) /\ Pack(c) = U32(Len(c)) \o c
    BY <1>7, PackableOf, PackOf
  <2> DEFINE v == U32(Len(c))
  <2>2. v \in Seq(Byte) /\ z \in Seq(Byte)
    BY <2>1, U32Of DEF Bytes
  <2>3. Pack(c) = v \o c
    BY <2>1
  <2> HIDE DEF v
  <2>4. (v \o c) \o z = v \o (c \o z)
    BY ONLY <2>1, <2>2, AssocBytes
  <2>5. c \o z \in Seq(Byte)
    BY <2>1, <2>2, CatOf
  <2> DEFINE y == c \o z
             x == buf \o wire
  <2>6. U32(n) \o x = U32(Len(c)) \o y /\ x \in Seq(Byte) /\ y \in Seq(Byte)
    BY ONLY <1>5, <1>7, <2>3, <2>4, <2>5, ZenonT(60) DEF v
  <2> HIDE DEF x, y, n, buf
  <2>7. n = Len(c) /\ x = y
    BY <1>3, <2>1, <2>6, SameLength
  <2> QED BY <2>1, <2>2, <2>7 DEF x, y
<1>9. SubSeq(buf, 1, n) = c /\ rest \in Seq(Byte) /\ rest \o wire = z
  <2>1. CutAt(Byte, buf, wire, c, z)
    <3>1. /\ buf \in Seq(Byte) /\ wire \in Seq(Byte) /\ c \in Seq(Byte) /\ z \in Seq(Byte)
          /\ buf \o wire = c \o z /\ Len(c) <= Len(buf)
      BY <1>2, <1>3, <1>8
    <3> HIDE DEF buf, n, rest, beyond, r
    <3> QED BY ONLY <3>1, Cut
  <2> HIDE DEF buf, n
  <2> QED BY <1>8, <2>1 DEF CutAt
<1> HIDE DEF rest
<1>10. r = Decode(d, c, beyond)
  BY <1>9
<1>11. ASSUME Behind(z) PROVE beyond \in Beyond
  BY <1>3, <1>9, <1>11, BeyondOf
<1> HIDE DEF beyond, r
<1>12. CASE IsMessage(c, z)
  <2>1. PICK p \in Part(d) :
          /\ c = Content(p)
          /\ p.name = "reply_code" => p \in Range(sent)
          /\ Stream(d, z, Meanings(heard) \o Meaning(p), Meanings(Own), Kind, Range(sent))
    BY <1>12 DEF IsMessage
  <2>2. RoundTrip(d, p) /\ Meaning(p) \in Seq(V)
    BY <1>3 DEF SoundIn, Sound
  <2>3. Behind(z)
    <3> DEFINE said == Meanings(heard) \o Meaning(p)
               own == Meanings(Own)
    <3>1. said \in Seq(V)
      BY <1>3, <2>2, CatOf
    <3>2. Stream(d, z, said, own, Kind, Range(sent)) /\ Kind \in {"whole", "broken"}
      BY <2>1 DEF Kind
    <3> HIDE DEF said, own
    <3> QED BY <1>3, <3>1, <3>2, StreamBehind
  <2> DEFINE x == r.signal[1]
  <2>4. beyond \in Beyond
    BY <1>11, <2>3
  <2>5. /\ r = Ok(x) /\ Meaning(x) = Meaning(p)
        /\ x.name = "reply_code" => x = p /\ SetReply(x)
    BY <1>10, <2>1, <2>2, <2>4 DEF RoundTrip
  <2>6. x \in Told(d)
    BY <1>10, <2>1, <2>4 DEF Told
  <2> HIDE DEF x
  <2>7. r.ok = TRUE /\ r.error = FALSE /\ r.signal = <<x>>
    BY <2>5 DEF Ok
  <2>8. /\ heard' = heard \o <<x>> /\ loop' = loop
        /\ decoder' = [decoder EXCEPT !.state = "start", !.buffer = rest]
    BY <1>2, <2>7
  <2>9. /\ decoder' \in [state : {"start", "length", "content", "error"},
                         buffer : Bytes, command_length : Length]
        /\ decoder'.state = "start" /\ decoder'.buffer = rest
    BY <1>3, <1>9, <2>8 DEF Bytes
  <2>10. heard' \in Seq(Told(d)) /\ <<x>> \in Seq(Told(d))
    BY <1>3, <2>6, <2>8, CatOf
  <2>11. Own' = Own /\ Kind' = Kind
    BY <1>2 DEF Own, Kind
  <2>12. Typed'
    BY <1>1, <1>2, <2>8, <2>9, <2>10, <2>11 DEF Typed
  <2>13. Left' = z
    <3>1. Taken' = <<>>
      BY <2>9 DEF Taken
    <3>2. <<>> \o rest = rest
      BY <1>9, CatOf
    <3>3. Left' = (<<>> \o rest) \o wire
      BY <1>2, <2>9, <3>1 DEF Left, Held
    <3> QED BY <1>9, <3>2, <3>3
  <2>14. Meanings(heard') = Meanings(heard) \o Meaning(p)
    <3>1. AllMeant(Told(d), V)
      BY <1>3, AllSay
    <3>2. Meanings(heard \o <<x>>) = Meanings(heard) \o Meanings(<<x>>)
      BY <1>3, <2>10, <3>1, MeaningsOf
    <3>3. Meanings(<<x>>) = Meaning(x)
      BY <2>2, <2>5, MeaningOfOne
    <3> QED BY <2>5, <2>8, <3>2, <3>3
  <2>15. Framed' /\ Stopped'
    <3>1. Stream(d, Left', Meanings(heard'), Meanings(Own'), Kind', Range(sent'))
      BY <1>2, <2>1, <2>11, <2>13, <2>14
    <3> QED BY <1>2, <1>4, <2>8, <2>9, <3>1 DEF Framed, Stopped
  <2>16. Resting'
    BY <1>2, <2>8 DEF Resting
  <2>17. ReplyRelayed'
    <3>1. SUFFICES ASSUME NEW i \in DOMAIN heard', heard'[i].name = "reply_code"
                   PROVE  /\ SetReply(heard'[i])
                          /\ \E j \in DOMAIN sent : /\ sent[j].name = "reply_code"
                                                    /\ FormatReply(heard'[i]) = FormatReply(sent[j])
      BY <1>2 DEF ReplyRelayed
    <3>2. /\ Len(heard) \in Nat /\ DOMAIN heard = 1..Len(heard) /\ i \in 1..(Len(heard) + 1)
          /\ heard'[i] = IF i <= Len(heard) THEN heard[i] ELSE x
      <4>1. heard' = Append(heard, x)
        BY <1>3, <2>6, <2>8
      <4> QED BY <1>3, <2>6, <3>1, <4>1
    <3>3. CASE i <= Len(heard)
      <4>1. i \in DOMAIN heard /\ heard'[i] = heard[i]
        BY <3>2, <3>3
      <4> QED BY <1>1, <3>1, <4>1 DEF ReplyRelayed
    <3>4. CASE ~(i <= Len(heard))
      <4>1. heard'[i] = x
        BY <3>2, <3>4
      <4>2. x = p /\ SetReply(x) /\ p \in Range(sent)
        BY <2>1, <2>5, <3>1, <4>1
      <4>3. PICK j \in DOMAIN sent : sent[j] = p
        BY <4>2 DEF Range
      <4> QED BY <3>1, <4>1, <4>2, <4>3
    <3> QED BY <3>3, <3>4
  <2> QED BY <2>12, <2>15, <2>16, <2>17 DEF Invariant
<1>13. CASE IsMalformed(c, z)
  <2>1. Kind = "broken" /\ c \in Malformed[d] /\ Meanings(heard) = Meanings(Own) /\ Behind(z)
    BY <1>13 DEF IsMalformed
  <2>2. Refused(d, c)
    BY <1>3, <2>1 DEF SoundIn, Sound
  <2>3. r = Bad
    BY <1>10, <1>11, <2>1, <2>2 DEF Refused
  <2>4. r.ok = FALSE /\ r.error = TRUE /\ r.signal = <<>>
    BY <2>3 DEF Bad
  <2>5. heard \o <<>> = heard
    BY <1>3, CatOf
  <2>6. heard' = heard /\ loop' = "failed" /\ decoder' = [decoder EXCEPT !.state = "error"]
    BY <1>2, <2>4, <2>5
  <2>7. /\ decoder' \in [state : {"start", "length", "content", "error"},
                         buffer : Bytes, command_length : Length]
        /\ decoder'.state = "error"
    BY <1>3, <2>6
  <2>8. Own' = Own /\ Kind' = Kind
    BY <1>2 DEF Own, Kind
  <2>9. Typed'
    BY <1>1, <1>2, <2>6, <2>7, <2>8 DEF Typed
  <2>10. Framed' /\ Stopped' /\ Resting'
    BY <1>2, <1>4, <2>1, <2>6, <2>7, <2>8 DEF Framed, Stopped, Resting
  <2>11. ReplyRelayed'
    BY <1>1, <1>2, <2>6 DEF ReplyRelayed
  <2> QED BY <2>9, <2>10, <2>11 DEF Invariant
<1> QED BY <1>7, <1>12, <1>13

-----------------------------------------------------------------------------
(* The theorems *)

\* Every step keeps the invariant.
LEMMA NextKeeps ==
    ASSUME Sound, Renegotiates = FALSE, Invariant, [Next]_vars
    PROVE  Invariant'
<1>1. ChunkSize \in Nat \ {0}
  BY CodecAssumption
<1>2. PICK V : SoundIn(V)
  BY <1>1, SoundSomewhere
<1>3. ASSUME NEW m \in Messages[direction], Send(m) PROVE Invariant'
  BY <1>1, <1>2, <1>3, SendKeeps
<1>4. ASSUME NEW c \in Malformed[direction], SendForeign(c) PROVE Invariant'
  BY <1>2, <1>4, SendForeignKeeps
<1>5. ASSUME NEW size \in 1..Len(wire), Read(size) PROVE Invariant'
  BY <1>2, <1>5, ReadKeeps
<1>6. ASSUME DecodeStart PROVE Invariant'
  BY <1>2, <1>6, StartKeeps
<1>7. ASSUME DecodeLength PROVE Invariant'
  BY <1>2, <1>7, LengthKeeps
<1>8. ASSUME DecodeContent PROVE Invariant'
  BY <1>2, <1>8, ContentKeeps
<1>9. ASSUME DecodeEnd PROVE Invariant'
  BY <1>9, EndKeeps
<1>10. ASSUME UNCHANGED vars PROVE Invariant'
  <2>1. UNCHANGED <<direction, sent, buffer, wire, decoder, loop, heard, reported>>
    BY <1>10 DEF vars
  <2>2. Own' = Own
    BY <2>1 DEF Own
  <2>3. Typed' /\ Kind' = Kind /\ Left' = Left
    BY <2>1, <2>2 DEF Invariant, Typed, Kind, Left, Held, Taken
  <2>4. Framed' /\ Stopped'
    BY <2>1, <2>2, <2>3 DEF Invariant, Framed, Stopped
  <2>5. Resting'
    BY <2>1 DEF Invariant, Resting, NeedsMore
  <2>6. ReplyRelayed'
    BY <2>1 DEF Invariant, ReplyRelayed
  <2> QED BY <2>3, <2>4, <2>5, <2>6 DEF Invariant
<1> QED BY <1>3, <1>4, <1>5, <1>6, <1>7, <1>8, <1>9, <1>10 DEF Next

\* Codec keeps the invariant, for all messages that are decoded one by one as they were
\* encoded, however the stream is cut.
THEOREM CodecInvariant ==
    ASSUME Sound, Renegotiates = FALSE
    PROVE  Spec => []Invariant
<1>1. Init => Invariant
  BY InitInvariant
<1>2. Invariant /\ [Next]_vars => Invariant'
  BY NextKeeps
<1> QED BY <1>1, <1>2, PTL DEF Spec

\* What was said is the beginning of what was sent.
LEMMA StreamPrefix ==
    ASSUME NEW V, SoundIn(V), NEW d \in DOMAIN Messages,
           NEW left, NEW said \in Seq(V), NEW own, NEW kind, NEW codes,
           Stream(d, left, said, own, kind, codes)
    PROVE  IsPrefix(said, own)
<1>1. PICK ps \in Seq(Part(d)) : said \o Meanings(ps) = own
  BY DEF Stream
<1>2. Meanings(ps) \in Seq(V)
  BY PackedBehind
<1> DEFINE t == Meanings(ps)
<1>3. t \in Seq(V) /\ own = said \o t
  BY <1>1, <1>2
<1> HIDE DEF t
<1>4. /\ own \in Seq(V) /\ Len(own) = Len(said) + Len(t) /\ Len(said) \in Nat /\ Len(t) \in Nat
      /\ \A i \in 1..Len(said) : own[i] = said[i]
  BY <1>3
<1>5. SubSeq(said, 1, Len(said)) = said
  BY SubSeqFull
<1>6. SubSeq(own, 1, Len(said)) = said
  <2> DEFINE x == SubSeq(own, 1, Len(said))
  <2>1. \A i \in 1..Len(said) : own[i] \in V
    BY <1>4
  <2>2. x \in Seq(V) /\ Len(x) = Len(said) /\ \A i \in 1..Len(said) : x[i] = own[i]
    BY <1>4, <2>1, SubSeqProperties
  <2> HIDE DEF x
  <2>3. x = said
    BY <1>4, <2>2, SeqEqual
  <2> QED BY <2>3 DEF x
<1>7. Len(said) <= Len(own)
  BY <1>4
<1> QED BY <1>5, <1>6, <1>7 DEF IsPrefix

\* The invariant says that what was heard is what was sent.
LEMMA InvariantFaithful ==
    ASSUME Sound, Invariant
    PROVE  Faithful
<1>1. PICK V : SoundIn(V)
  BY CodecAssumption, SoundSomewhere
<1>2. direction \in DOMAIN Messages /\ Typed /\ Framed /\ Stopped
  BY DEF Invariant, Typed
<1>3. Meanings(heard) \in Seq(V)
  BY <1>1, <1>2, TypedOf
<1>4. CASE decoder.state # "error"
  <2>1. Stream(direction, Left, Meanings(heard), Meanings(Own), Kind, Range(sent))
    BY <1>2, <1>4 DEF Framed
  <2> DEFINE said == Meanings(heard)
             own == Meanings(Own)
  <2>2. said \in Seq(V) /\ Stream(direction, Left, said, own, Kind, Range(sent))
    BY <1>3, <2>1
  <2> HIDE DEF said, own
  <2>3. IsPrefix(said, own)
    BY <1>1, <1>2, <2>2, StreamPrefix
  <2> QED BY <2>3 DEF said, own, Faithful
<1>5. CASE decoder.state = "error"
  <2>1. Meanings(heard) = Meanings(Own)
    BY <1>2, <1>5 DEF Stopped
  <2>2. IsPrefix(Meanings(heard), Meanings(heard))
    BY <1>3 DEF IsPrefix
  <2> QED BY <2>1, <2>2 DEF Faithful
<1> QED BY <1>4, <1>5

\* Outside the loop with nothing on the wire nothing is left.
LEMMA InvariantEnds ==
    ASSUME Sound, Invariant, wire = <<>>, loop = "idle", decoder.state # "error"
    PROVE  Own = sent /\ Meanings(heard) = Meanings(Own)
<1>1. PICK V : SoundIn(V)
  BY CodecAssumption, SoundSomewhere
<1>2. direction \in DOMAIN Messages /\ Typed /\ Framed /\ NeedsMore(decoder)
  BY DEF Invariant, Typed, Resting
<1>3. /\ Meanings(heard) \in Seq(V) /\ Kind \in {"whole", "broken"}
      /\ Held \in Seq(Byte) /\ decoder.buffer \in Seq(Byte) /\ Taken \in Seq(Byte)
  BY <1>1, <1>2, TypedOf
<1>4. /\ Stream(direction, Left, Meanings(heard), Meanings(Own), Kind, Range(sent))
  BY <1>2 DEF Framed
<1>5. Left = Held
  <2>1. Held \o <<>> = Held
    BY <1>3, CatOf
  <2> QED BY <2>1 DEF Left
<1>6. Held = <<>>
  <2>1. SUFFICES ASSUME Held # <<>> PROVE FALSE
    OBVIOUS
  <2>2. PICK c \in Bytes, z \in Bytes : Held = Pack(c) \o z /\ Packable(c)
    <3>1. First(direction, Left, Meanings(heard), Meanings(Own), Kind, Range(sent))
      BY <1>1, <1>5, <2>1, AtPacket
    <3> QED BY <1>5, <3>1 DEF First
  <2>3. /\ Len(c) \in Length /\ Len(c) \in Nat /\ c \in Seq(Byte) /\ z \in Seq(Byte)
        /\ Pack(c) \in Seq(Byte) /\ Len(Pack(c)) = Len(c) + 4 /\ Pack(c) = U32(Len(c)) \o c
    BY <2>2, PackableOf, PackOf DEF Bytes
  <2>4. Len(Held) = Len(Pack(c)) + Len(z) /\ Len(z) \in Nat
    <3> DEFINE x == Pack(c)
    <3>1. x \in Seq(Byte) /\ z \in Seq(Byte) /\ Held = x \o z
      BY <2>2, <2>3
    <3> HIDE DEF x
    <3>2. Len(x \o z) = Len(x) + Len(z)
      BY <3>1, CatOf
    <3> QED BY <3>1, <3>2 DEF x
  <2>5. Len(Held) >= Len(c) + 4
    BY <2>3, <2>4
  <2>6. CASE decoder.state # "content"
    <3>1. Held = decoder.buffer
      <4>1. <<>> \o decoder.buffer = decoder.buffer
        BY <1>3, CatOf
      <4> QED BY <2>6, <4>1 DEF Held, Taken
    <3>2. decoder.state \in {"start", "length"}
      BY <1>2, <2>6 DEF Typed
    <3>3. Len(decoder.buffer) < 4
      BY <1>2, <1>3, <3>2 DEF NeedsMore
    <3> QED BY <1>3, <2>3, <2>5, <3>1, <3>3
  <2>7. CASE decoder.state = "content"
    <3> DEFINE n == decoder.command_length
               u == U32(n)
               buf == decoder.buffer
               v == U32(Len(c))
    <3>1. n \in Length
      BY <1>2 DEF Typed
    <3>2. u \in Seq(Byte) /\ Len(u) = 4 /\ v \in Seq(Byte) /\ buf \in Seq(Byte)
      BY <1>3, <2>3, <3>1, U32Of DEF Bytes
    <3>3. Held = u \o buf
      BY <2>7 DEF Held, Taken
    <3>4. Pack(c) = v \o c
      BY <2>3
    <3> HIDE DEF v, buf
    <3>5. (v \o c) \o z = v \o (c \o z)
      <4>1. v \in Seq(Byte) /\ c \in Seq(Byte) /\ z \in Seq(Byte)
        BY <2>3, <3>2
      <4> QED BY ONLY <4>1, AssocBytes
    <3>6. c \o z \in Seq(Byte)
      BY <2>3, CatOf
    <3> DEFINE y == c \o z
    <3>7. U32(n) \o buf = U32(Len(c)) \o y /\ y \in Seq(Byte)
      BY <2>2, <3>3, <3>4, <3>5, <3>6 DEF v
    <3>8. n = Len(c) /\ buf = y
      <4> DEFINE k == Len(c)
      <4>1. /\ k \in Length /\ n \in Length /\ buf \in Seq(Byte) /\ y \in Seq(Byte)
            /\ U32(n) \o buf = U32(k) \o y
        BY <2>3, <3>1, <3>2, <3>7
      <4> HIDE DEF y, n, u, k
      <4>2. n = k /\ buf = y
        BY ONLY <4>1, SameLength
      <4> QED BY <4>2 DEF k
    <3> HIDE DEF y, n, u
    <3>9. Len(y) = Len(c) + Len(z)
      BY <2>3, CatOf DEF y
    <3>10. Len(buf) < n
      BY <1>2, <2>7 DEF NeedsMore, n, buf
    <3> QED BY <2>3, <2>4, <3>8, <3>9, <3>10
  <2> QED BY <2>6, <2>7
<1>7. Kind = "whole" /\ Meanings(heard) = Meanings(Own)
  <2> DEFINE said == Meanings(heard)
             own == Meanings(Own)
  <2>1. said \in Seq(V) /\ Stream(direction, <<>>, said, own, Kind, Range(sent))
    BY <1>3, <1>4, <1>5, <1>6
  <2> HIDE DEF said, own
  <2>2. Kind = "whole" /\ said = own
    <3>1. Kind \in {"whole", "broken"} /\ direction \in DOMAIN Messages /\ SoundIn(V)
      BY <1>1, <1>2, <1>3
    <3> DEFINE kind == Kind
               codes == Range(sent)
               dir == direction
    <3>2. /\ kind \in {"whole", "broken"} /\ dir \in DOMAIN Messages
          /\ said \in Seq(V) /\ Stream(dir, <<>>, said, own, kind, codes)
      BY <2>1, <3>1
    <3> HIDE DEF kind, codes, dir
    <3>3. Ended(said, own, kind)
      BY <3>1, <3>2, StreamEnds
    <3> QED BY <3>3 DEF Ended, kind
  <2> QED BY <2>2 DEF said, own
<1> QED BY <1>7 DEF Kind

\* However the stream is cut, what the decoder tells its owner is a beginning of what
\* the encoder was told to send, and nothing that follows a malformed packet
\* (milter_decoder_decode).
THEOREM FaithfulAlways ==
    ASSUME Sound, Renegotiates = FALSE
    PROVE  Spec => []Faithful
<1>1. Invariant => Faithful
  BY InvariantFaithful
<1> QED BY <1>1, CodecInvariant, PTL

\* When the last byte has been read every message has been heard (milter_decoder_decode,
\* milter_encoder_pack).
THEOREM CompleteAlways ==
    ASSUME Sound, Renegotiates = FALSE
    PROVE  Spec => []Complete
<1>1. Invariant => Complete
  BY InvariantEnds DEF Complete, Invariant, Stopped
<1> QED BY <1>1, CodecInvariant, PTL

\* A malformed packet is reported once and nothing else is (cb_reader_flow).
THEOREM ErrorsReportedOnce ==
    ASSUME Sound, Renegotiates = FALSE
    PROVE  Spec => []ErrorsReported
<1>1. Invariant => ErrorsReported
  BY InvariantEnds DEF ErrorsReported, Invariant, Framed, Stopped
<1> QED BY <1>1, CodecInvariant, PTL

\* A refusal in a child's own words reaches the MTA in these words (cb_reply_code,
\* milter_client_context_format_reply).
THEOREM ReplyRelayedAlways ==
    ASSUME Sound, Renegotiates = FALSE
    PROVE  Spec => []ReplyRelayed
<1>1. Invariant => ReplyRelayed
  BY DEF Invariant
<1> QED BY <1>1, CodecInvariant, PTL

-----------------------------------------------------------------------------
(* One packet *)

\* A string, and one that is not empty.
Strings == {t \in Bytes : \A i \in DOMAIN t : t[i] # NUL}
Words == Strings \ {<<>>}

\* A command byte stands for one name.
LEMMA TagOne ==
    ASSUME NEW x \in DOMAIN Tag, NEW y \in DOMAIN Tag, Tag[x] = Tag[y]
    PROVE  x = y
BY SMTT(240) DEF Tag

\* The names with the command byte of x are x, if it is among them.
LEMMA NamedOne ==
    ASSUME NEW x \in DOMAIN Tag, NEW names \in SUBSET DOMAIN Tag
    PROVE  Named(names, Tag[x]) = IF x \in names THEN {x} ELSE {}
BY TagOne DEF Named

\* The groups are made of tags, and apart.
LEMMA Groups ==
    /\ EnvelopeNames \in SUBSET DOMAIN Tag /\ MessageNames \in SUBSET DOMAIN Tag
    /\ StatusNames \in SUBSET DOMAIN Tag /\ HeaderEdits \in SUBSET DOMAIN Tag
    /\ EnvelopeEdits \cup {"add_recipient_with_parameters"} \in SUBSET DOMAIN Tag
    /\ OtherReplies \in SUBSET DOMAIN Tag
    /\ {"negotiate"} \in SUBSET DOMAIN Tag /\ {"define_macro"} \in SUBSET DOMAIN Tag
    /\ {"connect"} \in SUBSET DOMAIN Tag /\ {"reply_code"} \in SUBSET DOMAIN Tag
BY DEF Tag, EnvelopeNames, MessageNames, StatusNames, HeaderEdits, EnvelopeEdits, OtherReplies

\* The decoder finds the name of a command byte.
LEMMA ChosenTag ==
    ASSUME NEW n \in DOMAIN Tag
    PROVE  (CHOOSE x \in Named(DOMAIN Tag, Tag[n]) : TRUE) = n
<1>1. Named(DOMAIN Tag, Tag[n]) = {n}
  BY NamedOne
<1> QED BY <1>1

\* Which function decodes a command.
LEMMA CommandOf ==
    ASSUME NEW n \in DOMAIN Tag, NEW s
    PROVE  /\ n = "negotiate" => DecodeCommand(Tag[n], s) = DecodeNegotiate("commands", s)
           /\ n = "define_macro" => DecodeCommand(Tag[n], s) = DecodeDefineMacro(s)
           /\ n = "connect" => DecodeCommand(Tag[n], s) = DecodeConnect(s)
           /\ n \in EnvelopeNames => DecodeCommand(Tag[n], s) = DecodeEnvelope(n, s)
           /\ n \in MessageNames => DecodeCommand(Tag[n], s) = DecodeMessage(n, s)
<1> DEFINE t == Tag[n]
           c == CHOOSE x \in Named(DOMAIN Tag, t) : TRUE
           Is(names) == Named(names, t) # {}
<1>1. c = n
  BY ChosenTag
<1>2. /\ Is({"negotiate"}) <=> n = "negotiate"
      /\ Is({"define_macro"}) <=> n = "define_macro"
      /\ Is({"connect"}) <=> n = "connect"
      /\ Is(EnvelopeNames) <=> n \in EnvelopeNames
      /\ Is(MessageNames) <=> n \in MessageNames
  BY NamedOne, Groups, SMTT(60)
<1>3. DecodeCommand(t, s) = CASE Is({"negotiate"})    -> DecodeNegotiate("commands", s)
        [] Is({"define_macro"}) -> DecodeDefineMacro(s)
        [] Is({"connect"})      -> DecodeConnect(s)
        [] Is(EnvelopeNames)    -> DecodeEnvelope(c, s)
        [] Is(MessageNames)     -> DecodeMessage(c, s)
        [] OTHER                -> Bad
  BY DEF DecodeCommand
<1> HIDE DEF c, Is, t
<1>4. DecodeCommand(t, s) = CASE n = "negotiate"    -> DecodeNegotiate("commands", s)
        [] n = "define_macro" -> DecodeDefineMacro(s)
        [] n = "connect"      -> DecodeConnect(s)
        [] n \in EnvelopeNames    -> DecodeEnvelope(n, s)
        [] n \in MessageNames     -> DecodeMessage(n, s)
        [] OTHER                -> Bad
  BY <1>1, <1>2, <1>3
<1> QED BY <1>4 DEF t, EnvelopeNames, MessageNames

\* Which function decodes a reply.
LEMMA ReplyOf ==
    ASSUME NEW n \in DOMAIN Tag, NEW s, NEW b
    PROVE  /\ n = "negotiate" => DecodeReply(Tag[n], s, b) = DecodeNegotiate("replies", s)
           /\ n = "reply_code" => DecodeReply(Tag[n], s, b) = DecodeReplyCode(s)
           /\ n \in StatusNames => DecodeReply(Tag[n], s, b) = DecodeStatus(n, s)
           /\ n \in HeaderEdits => DecodeReply(Tag[n], s, b) = DecodeHeaderEdit(n, s, b)
           /\ n \in EnvelopeEdits \cup {"add_recipient_with_parameters"}
                => DecodeReply(Tag[n], s, b) = DecodeEnvelopeEdit(n, s)
           /\ n \in OtherReplies => DecodeReply(Tag[n], s, b) = DecodeOther(n, s)
<1> DEFINE t == Tag[n]
           c == CHOOSE x \in Named(DOMAIN Tag, t) : TRUE
           Is(names) == Named(names, t) # {}
           Env == EnvelopeEdits \cup {"add_recipient_with_parameters"}
<1>1. c = n
  BY ChosenTag
<1>2. /\ Is({"negotiate"}) <=> n = "negotiate"
      /\ Is({"reply_code"}) <=> n = "reply_code"
      /\ Is(StatusNames) <=> n \in StatusNames
      /\ Is(HeaderEdits) <=> n \in HeaderEdits
      /\ Is(Env) <=> n \in Env
      /\ Is(OtherReplies) <=> n \in OtherReplies
  BY NamedOne, Groups
<1>3. DecodeReply(t, s, b) = CASE Is({"negotiate"})  -> DecodeNegotiate("replies", s)
        [] Is({"reply_code"}) -> DecodeReplyCode(s)
        [] Is(StatusNames)    -> DecodeStatus(c, s)
        [] Is(HeaderEdits)    -> DecodeHeaderEdit(c, s, b)
        [] Is(Env) -> DecodeEnvelopeEdit(c, s)
        [] Is(OtherReplies)   -> DecodeOther(c, s)
        [] OTHER              -> Bad
  BY DEF DecodeReply
<1> HIDE DEF c, Is, t, Env
<1>4. DecodeReply(t, s, b) = CASE n = "negotiate"  -> DecodeNegotiate("replies", s)
        [] n = "reply_code" -> DecodeReplyCode(s)
        [] n \in StatusNames    -> DecodeStatus(n, s)
        [] n \in HeaderEdits    -> DecodeHeaderEdit(n, s, b)
        [] n \in Env -> DecodeEnvelopeEdit(n, s)
        [] n \in OtherReplies   -> DecodeOther(n, s)
        [] OTHER              -> Bad
  BY <1>1, <1>2, <1>3
<1> QED BY <1>4 DEF t, Env, StatusNames, HeaderEdits, EnvelopeEdits, OtherReplies

\* What may be behind a content is bytes.
LEMMA BeyondBytes ==
    ASSUME NEW b \in Beyond
    PROVE  b \in Seq(Byte) /\ Len(b) = 2
<1>1. PICK k \in Byte : b = <<NUL, k>>
  BY DEF Beyond
<1>2. NUL \in Byte
  BY DEF NUL, Byte
<1> QED BY <1>1, <1>2

\* The command byte and what is behind it.
LEMMA HeadOf ==
    ASSUME NEW t \in Byte, NEW s \in Seq(Byte), NEW b \in Seq(Byte)
    PROVE  Head((<<t>> \o s) \o b) = t /\ From(<<t>> \o s, 2) = s
<1> DEFINE u == <<t>>
           x == u \o s
<1>1. u \in Seq(Byte) /\ Len(u) = 1 /\ u[1] = t
  OBVIOUS
<1> HIDE DEF u
<1>2. /\ x \in Seq(Byte) /\ Len(x) = 1 + Len(s) /\ x[1] = t
  <2>1. /\ x \in Seq(Byte) /\ Len(x) = Len(u) + Len(s)
        /\ \A i \in 1..(Len(u) + Len(s)) : x[i] = IF i <= Len(u) THEN u[i] ELSE s[i - Len(u)]
    BY <1>1, ConcatProperties
  <2>2. 1 \in 1..(Len(u) + Len(s)) /\ Len(s) \in Nat
    BY <1>1
  <2> QED BY <1>1, <2>1, <2>2
<1>3. CutAt(Byte, x, <<>>, u, s)
  <2>1. x \o <<>> = x /\ <<>> \in Seq(Byte)
    BY <1>2, CatOf
  <2>2. /\ x \in Seq(Byte) /\ <<>> \in Seq(Byte) /\ u \in Seq(Byte) /\ s \in Seq(Byte)
        /\ x \o <<>> = u \o s /\ Len(u) <= Len(x)
    BY <1>1, <1>2, <2>1
  <2> HIDE DEF x
  <2> QED BY ONLY <2>2, Cut
<1>4. From(x, 2) = s
  <2>1. From(x, 2) \in Seq(Byte) /\ From(x, 2) \o <<>> = s
    BY <1>1, <1>3 DEF CutAt
  <2> DEFINE y == From(x, 2)
  <2>2. y \in Seq(Byte) /\ y \o <<>> = s
    BY <2>1
  <2> HIDE DEF y
  <2>3. y \o <<>> = y
    BY <2>2, CatOf
  <2> QED BY <2>2, <2>3 DEF y
<1>5. Head(x \o b) = t
  <2> HIDE DEF x
  <2>1. /\ x \o b \in Seq(Byte) /\ Len(x \o b) = Len(x) + Len(b)
        /\ \A i \in 1..(Len(x) + Len(b)) : (x \o b)[i] = IF i <= Len(x) THEN x[i] ELSE b[i - Len(x)]
    BY <1>2, ConcatProperties, ZenonT(90)
  <2>2. 1 \in 1..(Len(x) + Len(b)) /\ 1 <= Len(x)
    BY <1>2
  <2>3. (x \o b)[1] = t
    BY <1>2, <2>1, <2>2
  <2> QED BY <2>1, <2>2, <2>3
<1> QED BY <1>4, <1>5 DEF x, u

\* A command byte is a byte.
LEMMA TagByte ==
    ASSUME NEW n \in DOMAIN Tag
    PROVE  Tag[n] \in Byte
<1>1. Tag[n] \in {65, 66, 67, 68, 69, 72, 76, 77, 78, 79, 81, 82, 84, 85, 43, 45, 50, 52,
                  97, 98, 99, 100, 101, 102, 104, 105, 109, 112, 113, 114, 115, 116, 121}
  BY DEF Tag
<1> HIDE DEF Tag
<1>2. \A t \in {65, 66, 67, 68, 69, 72, 76, 77, 78, 79, 81, 82, 84, 85, 43, 45, 50, 52,
                97, 98, 99, 100, 101, 102, 104, 105, 109, 112, 113, 114, 115, 116, 121} : t \in 0..255
  OBVIOUS
<1> QED BY <1>1, <1>2 DEF Byte

\* A packet is decoded by its command byte.
LEMMA DecodeOf ==
    ASSUME NEW d, NEW n \in DOMAIN Tag, NEW s \in Seq(Byte), NEW b \in Beyond
    PROVE  Decode(d, <<Tag[n]>> \o s, b) =
             IF d = "commands" THEN DecodeCommand(Tag[n], s) ELSE DecodeReply(Tag[n], s, b)
<1>1. Tag[n] \in Byte
  BY TagByte
<1>2. b \in Seq(Byte)
  BY BeyondBytes
<1> DEFINE t == Tag[n]
<1>3. t \in Byte
  BY <1>1
<1> HIDE DEF t
<1>4. Head((<<t>> \o s) \o b) = t /\ From(<<t>> \o s, 2) = s
  BY <1>2, <1>3, HeadOf
<1>5. Decode(d, <<t>> \o s, b) =
             IF d = "commands" THEN DecodeCommand(t, s) ELSE DecodeReply(t, s, b)
  BY <1>4 DEF Decode
<1> QED BY <1>5 DEF t

\* A string and what is behind its NUL.
TextOf(t, s, r) ==
    /\ NulAt(s) = Len(t) + 1
    /\ NulAt(s) # 0
    /\ CString(s) = t
    /\ From(s, NulAt(s) + 1) = r

\* Where a text ends, whatever is behind it.
LEMMA NulOf ==
    ASSUME NEW t \in Strings, NEW r \in Seq(Byte)
    PROVE  TextOf(t, Text(t) \o r, r) /\ Text(t) \in Seq(Byte)
<1> DEFINE u == Text(t)
           s == u \o r
           I == {i \in 1..Len(s) : s[i] = NUL}
<1>1. t \in Seq(Byte) /\ Len(t) \in Nat /\ DOMAIN t = 1..Len(t) /\ \A i \in 1..Len(t) : t[i] # NUL
  BY DEF Strings, Bytes
<1>2. NUL \in Byte
  BY DEF NUL, Byte
<1>3. /\ u \in Seq(Byte) /\ Len(u) = Len(t) + 1 /\ u[Len(t) + 1] = NUL
      /\ \A i \in 1..Len(t) : u[i] = t[i]
  BY <1>1, <1>2, AppendProperties DEF Text
<1> HIDE DEF u
<1>4. /\ s \in Seq(Byte) /\ Len(s) = Len(u) + Len(r) /\ Len(r) \in Nat
      /\ \A i \in 1..(Len(u) + Len(r)) : s[i] = IF i <= Len(u) THEN u[i] ELSE r[i - Len(u)]
  BY <1>3, ConcatProperties
<1>5. s[Len(t) + 1] = NUL /\ \A i \in 1..Len(t) : s[i] = t[i] /\ i \in 1..Len(s)
  <2>1. \A i \in 1..(Len(t) + 1) : i \in 1..(Len(u) + Len(r)) /\ i <= Len(u)
    BY <1>1, <1>3, <1>4
  <2>2. Len(t) + 1 \in 1..(Len(t) + 1) /\ \A i \in 1..Len(t) : i \in 1..(Len(t) + 1)
    BY <1>1
  <2> QED BY <1>3, <1>4, <2>1, <2>2
<1> HIDE DEF s
<1>6. NulAt(s) = Len(t) + 1
  <2>1. I \in SUBSET Nat /\ Len(t) + 1 \in I
    BY <1>1, <1>3, <1>4, <1>5
  <2>2. \A i \in I : Len(t) + 1 <= i
    <3>1. SUFFICES ASSUME NEW i \in I, ~(Len(t) + 1 <= i) PROVE FALSE
      OBVIOUS
    <3>2. i \in 1..Len(t) /\ s[i] = NUL
      BY <1>1, <1>4, <3>1
    <3> QED BY <1>1, <1>5, <3>2
  <2>3. NulAt(s) = Min(I)
    BY <2>1 DEF NulAt, SelectInSeq
  <2> HIDE DEF I
  <2>4. Min(I) \in I /\ \A j \in I : Min(I) <= j
    BY <2>1, MinOf
  <2>5. Min(I) \in Nat /\ Min(I) <= Len(t) + 1 /\ Len(t) + 1 <= Min(I)
    BY <2>1, <2>2, <2>4
  <2> QED BY <1>1, <2>3, <2>5
<1>7. CString(s) = t
  <2> DEFINE x == SubSeq(s, 1, Len(t))
  <2>1. \A i \in 1..Len(t) : s[i] \in Byte
    BY <1>1, <1>5
  <2>2. x \in Seq(Byte) /\ Len(x) = Len(t) /\ \A i \in 1..Len(t) : x[i] = s[i]
    BY <1>1, <2>1, <1>3, <1>4, SubSeqProperties
  <2> HIDE DEF x
  <2>3. x = t
    BY <1>1, <1>5, <2>2, SeqEqual
  <2>4. NulAt(s) # 0 /\ NulAt(s) - 1 = Len(t)
    BY <1>1, <1>6
  <2> QED BY <2>3, <2>4 DEF CString, x
<1>8. From(s, NulAt(s) + 1) = r
  <2>1. CutAt(Byte, s, <<>>, u, r)
    <3>1. s \o <<>> = s /\ <<>> \in Seq(Byte)
      BY <1>4, CatOf
    <3>2. /\ s \in Seq(Byte) /\ <<>> \in Seq(Byte) /\ u \in Seq(Byte) /\ r \in Seq(Byte)
          /\ s \o <<>> = u \o r /\ Len(u) <= Len(s)
      BY <1>1, <1>3, <1>4, <3>1 DEF s
    <3> QED BY ONLY <3>2, Cut
  <2> DEFINE y == From(s, Len(u) + 1)
  <2>2. y \in Seq(Byte) /\ y \o <<>> = r
    BY <2>1 DEF CutAt
  <2> HIDE DEF y
  <2>3. y \o <<>> = y
    BY <2>2, CatOf
  <2>4. Len(u) = NulAt(s)
    BY <1>3, <1>6
  <2> QED BY <2>2, <2>3, <2>4 DEF y
<1>9. NulAt(s) # 0
  BY <1>1, <1>6
<1> QED BY <1>3, <1>6, <1>7, <1>8, <1>9 DEF TextOf, s, u

\* One or two arguments.
LEMMA TextsOf ==
    ASSUME NEW a \in Strings, NEW b \in Strings
    PROVE  /\ Texts(<<a>>) = Text(a) /\ Texts(<<a, b>>) = Text(a) \o Text(b)
           /\ Text(a) \in Seq(Byte) /\ Text(b) \in Seq(Byte)
<1> DEFINE x == Text(a)
           y == Text(b)
<1>1. x \in Seq(Byte) /\ y \in Seq(Byte)
  BY NulOf, EmptySeq
<1>2. [i \in DOMAIN <<a>> |-> Text(<<a>>[i])] = <<x>>
  OBVIOUS
<1>3. [i \in DOMAIN <<a, b>> |-> Text(<<a, b>>[i])] = <<x, y>>
  OBVIOUS
<1> HIDE DEF x, y
<1>4. FlattenSeq(<<x>>) = x /\ FlattenSeq(<<y>>) = y
  BY <1>1, FlattenOne
<1>5. FlattenSeq(<<x, y>>) = x \o y
  <2>1. <<x, y>> = Append(<<x>>, y) /\ <<x>> \in Seq(Seq(Byte))
    BY <1>1
  <2>2. FlattenSeq(Append(<<x>>, y)) = FlattenSeq(<<x>>) \o y
    BY <1>1, <2>1, FlattenAppend
  <2> QED BY <1>4, <2>1, <2>2
<1> QED BY <1>1, <1>2, <1>3, <1>4, <1>5 DEF Texts, x, y

\* Where a text ends with nothing behind it.
LEMMA TextEnds ==
    ASSUME NEW t \in Strings
    PROVE  TextOf(t, Text(t), <<>>) /\ Text(t) \in Seq(Byte)
<1>1. <<>> \in Seq(Byte)
  OBVIOUS
<1>2. TextOf(t, Text(t) \o <<>>, <<>>) /\ Text(t) \in Seq(Byte)
  BY <1>1, NulOf
<1>3. Text(t) \o <<>> = Text(t)
  BY <1>2, CatOf
<1> QED BY <1>2, <1>3

\* Where a word ends.
LEMMA WordOf ==
    ASSUME NEW t \in Words
    PROVE  t \in Strings /\ Len(t) + 1 # 1 /\ Len(t) \in Nat /\ t # <<>>
<1>1. t \in Strings /\ t # <<>> /\ t \in Seq(Byte)
  BY DEF Words, Strings, Bytes
<1>2. Len(t) \in Nat /\ Len(t) # 0
  BY <1>1
<1> QED BY <1>1, <1>2

\* A packet of one word.
LEMMA OneTextOf ==
    ASSUME NEW n, NEW t \in Words
    PROVE  OneText(n, Text(t)) = Ok([name |-> n, args |-> <<t>>])
<1> DEFINE s == Text(t)
<1>1. TextOf(t, s, <<>>)
  BY WordOf, TextEnds
<1>2. NulAt(s) # 1 /\ NulAt(s) # 0 /\ CString(s) = t
  BY <1>1, WordOf DEF TextOf
<1> HIDE DEF s
<1>3. OneText(n, s) = Ok([name |-> n, args |-> <<t>>])
  BY <1>2 DEF OneText, WithText, WithValue
<1> QED BY <1>3 DEF s

\* A packet of a name and a value.
LEMMA HeaderOf ==
    ASSUME NEW n, NEW a \in Words, NEW b \in Strings
    PROVE  DecodeHeader(n, Text(a) \o Text(b)) = Ok([name |-> n, args |-> <<a, b>>])
<1> DEFINE r == Text(b)
           s == Text(a) \o r
<1>1. TextOf(b, r, <<>>) /\ r \in Seq(Byte)
  BY TextEnds
<1>2. TextOf(a, s, r)
  BY <1>1, WordOf, NulOf
<1>3. NulAt(s) # 1 /\ NulAt(s) # 0 /\ CString(s) = a /\ From(s, NulAt(s) + 1) = r
  BY <1>2, WordOf DEF TextOf
<1>4. NulAt(r) # 0 /\ CString(r) = b
  BY <1>1 DEF TextOf
<1> HIDE DEF s, r
<1>5. DecodeHeader(n, s) = Ok([name |-> n, args |-> <<a, b>>])
  BY <1>3, <1>4 DEF DecodeHeader, WithText, WithValue
<1> QED BY <1>5 DEF s, r

\* A packet of one word or of two.
LEMMA TwoOf ==
    ASSUME NEW n, NEW a \in Words
    PROVE  /\ DecodeTwo(n, Text(a)) = Ok([name |-> n, args |-> <<a>>])
           /\ \A b \in Words : DecodeTwo(n, Text(a) \o Text(b)) = Ok([name |-> n, args |-> <<a, b>>])
<1>1. ASSUME NEW s, NEW r, TextOf(a, s, r)
      PROVE  NulAt(s) # 1 /\ NulAt(s) # 0 /\ CString(s) = a /\ From(s, NulAt(s) + 1) = r
  BY <1>1, WordOf DEF TextOf
<1>2. DecodeTwo(n, Text(a)) = Ok([name |-> n, args |-> <<a>>])
  <2> DEFINE s == Text(a)
  <2>1. TextOf(a, s, <<>>)
    BY WordOf, TextEnds
  <2> HIDE DEF s
  <2>2. NulAt(s) # 1 /\ NulAt(s) # 0 /\ CString(s) = a /\ From(s, NulAt(s) + 1) = <<>>
    BY <1>1, <2>1
  <2>3. DecodeTwo(n, s) = Ok([name |-> n, args |-> <<a>>])
    BY <2>2 DEF DecodeTwo, WithText, WithValue
  <2> QED BY <2>3 DEF s
<1>3. ASSUME NEW b \in Words
      PROVE  DecodeTwo(n, Text(a) \o Text(b)) = Ok([name |-> n, args |-> <<a, b>>])
  <2> DEFINE r == Text(b)
             s == Text(a) \o r
  <2>1. TextOf(b, r, <<>>) /\ r \in Seq(Byte)
    BY WordOf, TextEnds
  <2>2. TextOf(a, s, r)
    BY <2>1, WordOf, NulOf
  <2>3. NulAt(r) # 1 /\ NulAt(r) # 0 /\ CString(r) = b
    BY <2>1, WordOf DEF TextOf
  <2>4. r # <<>>
    BY DEF Text, Words, Strings, Bytes
  <2> HIDE DEF s, r
  <2>5. NulAt(s) # 1 /\ NulAt(s) # 0 /\ CString(s) = a /\ From(s, NulAt(s) + 1) = r
    BY <1>1, <2>2
  <2>6. DecodeTwo(n, s) = Ok([name |-> n, args |-> <<a, b>>])
    BY <2>3, <2>4, <2>5 DEF DecodeTwo, WithText, WithValue
  <2> QED BY <2>6 DEF s, r
<1> QED BY <1>2, <1>3

\* The front of a sequence and the rest.
Parted(u, r, s) ==
    /\ SubSeq(s, 1, Len(u)) = u /\ From(s, Len(u) + 1) = r
    /\ s \in Seq(Byte) /\ Len(s) = Len(u) + Len(r)

\* A concatenation falls apart where it was put together.
LEMMA FrontOf ==
    ASSUME NEW u \in Seq(Byte), NEW r \in Seq(Byte)
    PROVE  Parted(u, r, u \o r)
<1> DEFINE s == u \o r
<1>1. s \in Seq(Byte) /\ Len(s) = Len(u) + Len(r) /\ Len(u) \in Nat /\ Len(r) \in Nat
  BY CatOf
<1>2. s \o <<>> = s /\ <<>> \in Seq(Byte)
  BY <1>1, CatOf
<1>3. CutAt(Byte, s, <<>>, u, r)
  <2>1. /\ s \in Seq(Byte) /\ <<>> \in Seq(Byte) /\ s \o <<>> = u \o r /\ Len(u) <= Len(s)
    BY <1>1, <1>2
  <2> HIDE DEF s
  <2> QED BY ONLY u \in Seq(Byte), r \in Seq(Byte), <2>1, Cut
<1> DEFINE y == From(s, Len(u) + 1)
<1>4. y \in Seq(Byte) /\ y \o <<>> = r /\ SubSeq(s, 1, Len(u)) = u
  BY <1>3 DEF CutAt
<1> HIDE DEF y
<1>5. y \o <<>> = y
  BY <1>4, CatOf
<1>6. From(s, Len(u) + 1) = r
  BY <1>4, <1>5 DEF y
<1> HIDE DEF s
<1>7. Parted(u, r, s)
  BY <1>1, <1>4, <1>6 DEF Parted
<1> QED BY <1>7 DEF s

\* Four bytes in front.
LEMMA NumberedOf ==
    ASSUME NEW i \in Length, NEW r \in Seq(Byte), NEW s, s = U32(i) \o r
    PROVE  /\ SubSeq(s, 1, 4) = U32(i) /\ Number(SubSeq(s, 1, 4)) = i /\ From(s, 5) = r
           /\ s \in Seq(Byte) /\ Len(s) = 4 + Len(r)
<1> DEFINE u == U32(i)
<1>1. u \in Seq(Byte) /\ Len(u) = 4 /\ Number(u) = i
  BY U32Of DEF Bytes
<1>2. s = u \o r
  OBVIOUS
<1> HIDE DEF u
<1>3. Parted(u, r, s)
  BY <1>1, <1>2, FrontOf
<1>4. /\ SubSeq(s, 1, 4) = u /\ From(s, 5) = r /\ s \in Seq(Byte) /\ Len(s) = 4 + Len(r)
  BY <1>1, <1>3 DEF Parted
<1>5. Number(SubSeq(s, 1, 4)) = i
  BY <1>1, <1>4
<1> QED BY <1>4, <1>5 DEF u

\* A header edit with an index; the bytes behind it are not looked at.
LEMMA IndexedOf ==
    ASSUME NEW n, NEW i \in Length, NEW a \in Words, NEW b \in Strings, NEW beyond \in Seq(Byte)
    PROVE  DecodeIndexed(n, (U32(i) \o (Text(a) \o Text(b))) \o beyond) =
             Ok([name |-> IF n = "change_header" /\ b = <<>> THEN "delete_header" ELSE n,
                 index |-> i, args |-> <<a, b>>])
<1> DEFINE u == U32(i)
           x == Text(a)
           y == Text(b)
           r == y \o beyond
           q == x \o r
           s == u \o q
<1>1. u \in Seq(Byte) /\ x \in Seq(Byte) /\ y \in Seq(Byte)
  <2>1. a \in Strings
    BY WordOf
  <2>2. x \in Seq(Byte) /\ y \in Seq(Byte)
    BY <2>1, TextEnds
  <2>3. u \in Seq(Byte)
    BY U32Of DEF Bytes
  <2> QED BY <2>2, <2>3
<1>2. TextOf(b, r, beyond) /\ r \in Seq(Byte)
  BY <1>1, NulOf, CatOf
<1>3. TextOf(a, q, r) /\ q \in Seq(Byte)
  <2>1. r \in Seq(Byte) /\ a \in Strings
    BY <1>2, WordOf
  <2> HIDE DEF r
  <2> QED BY <1>1, <2>1, NulOf, CatOf
<1>4. NulAt(r) # 0 /\ CString(r) = b
  BY <1>2 DEF TextOf
<1>5. NulAt(q) # 1 /\ NulAt(q) # 0 /\ CString(q) = a /\ From(q, NulAt(q) + 1) = r
  BY <1>3, WordOf DEF TextOf
<1>6. (u \o (x \o y)) \o beyond = s
  <2> HIDE DEF u, x, y
  <2> DEFINE v == x \o y
  <2>1. v \in Seq(Byte)
    BY <1>1, CatOf
  <2>2. (x \o y) \o beyond = x \o (y \o beyond)
    BY ONLY <1>1, beyond \in Seq(Byte), AssocBytes, ZenonT(60)
  <2> HIDE DEF v
  <2>3. (u \o v) \o beyond = u \o (v \o beyond)
    BY ONLY <1>1, <2>1, beyond \in Seq(Byte), AssocBytes, ZenonT(60)
  <2> QED BY <2>2, <2>3 DEF v
<1> HIDE DEF r, x, y
<1>7. Number(SubSeq(s, 1, 4)) = i /\ From(s, 5) = q /\ Len(s) = 4 + Len(q) /\ Len(q) \in Nat
  <2> HIDE DEF q
  <2>1. Number(SubSeq(s, 1, 4)) = i /\ From(s, 5) = q /\ Len(s) = 4 + Len(q)
    BY <1>3, NumberedOf
  <2> QED BY <1>3, <2>1
<1>8. ~(Len(s) < 4)
  BY <1>7
<1> HIDE DEF s, q, u
<1>9. DecodeIndexed(n, s) = Ok([name |-> IF n = "change_header" /\ b = <<>> THEN "delete_header" ELSE n,
                                index |-> i, args |-> <<a, b>>])
  BY <1>4, <1>5, <1>7, <1>8 DEF DecodeIndexed, WithText, WithValue
<1> QED BY <1>6, <1>9 DEF u, x, y

\* How the arguments are encoded, by group.
LEMMA ArgumentsOf ==
    ASSUME NEW p
    PROVE  /\ p.name \in EnvelopeNames => EncodeArguments(p) = EncodeEnvelope(p)
           /\ p.name \in MessageNames => EncodeArguments(p) = EncodeMessage(p)
           /\ p.name \in HeaderEdits => EncodeArguments(p) = EncodeHeaderEdit(p)
           /\ p.name \in EnvelopeEdits => EncodeArguments(p) = EncodeEnvelopeEdit(p)
           /\ p.name \in OtherReplies => EncodeArguments(p) = EncodeOther(p)
           /\ p.name = "connect" => EncodeArguments(p) = EncodeConnect(p)
           /\ p.name = "define_macro" => EncodeArguments(p) = EncodeDefineMacro(p)
           /\ p.name = "negotiate" => EncodeArguments(p) = EncodeNegotiate(p)
           /\ p.name \in StatusNames \cup {"reply_code"} => EncodeArguments(p) = EncodeStatus(p)
<1> DEFINE n == p.name
<1>1. EncodeArguments(p) =
        CASE n \in EnvelopeNames -> EncodeEnvelope(p)
          [] n \in MessageNames  -> EncodeMessage(p)
          [] n \in HeaderEdits   -> EncodeHeaderEdit(p)
          [] n \in EnvelopeEdits -> EncodeEnvelopeEdit(p)
          [] n \in OtherReplies  -> EncodeOther(p)
          [] n = "connect"       -> EncodeConnect(p)
          [] n = "define_macro"  -> EncodeDefineMacro(p)
          [] n = "negotiate"     -> EncodeNegotiate(p)
          [] OTHER               -> EncodeStatus(p)
  BY DEF EncodeArguments
<1> HIDE DEF n
<1>2. /\ n \in EnvelopeNames => EncodeArguments(p) = EncodeEnvelope(p)
      /\ n \in MessageNames => EncodeArguments(p) = EncodeMessage(p)
      /\ n \in HeaderEdits => EncodeArguments(p) = EncodeHeaderEdit(p)
      /\ n \in EnvelopeEdits => EncodeArguments(p) = EncodeEnvelopeEdit(p)
      /\ n \in OtherReplies => EncodeArguments(p) = EncodeOther(p)
      /\ n = "connect" => EncodeArguments(p) = EncodeConnect(p)
      /\ n = "define_macro" => EncodeArguments(p) = EncodeDefineMacro(p)
      /\ n = "negotiate" => EncodeArguments(p) = EncodeNegotiate(p)
      /\ n \in StatusNames \cup {"reply_code"} => EncodeArguments(p) = EncodeStatus(p)
  BY <1>1 DEF EnvelopeNames, MessageNames, HeaderEdits, EnvelopeEdits, OtherReplies, StatusNames
<1> QED BY <1>2 DEF n

\* A message without parameters is decoded by its name.
LEMMA ContentOf ==
    ASSUME NEW d, NEW p, p.name \in DOMAIN Tag, p.name # "add_recipient",
           NEW s \in Seq(Byte), EncodeArguments(p) = s, NEW b \in Beyond
    PROVE  /\ d = "commands" => Decode(d, Content(p), b) = DecodeCommand(Tag[p.name], s)
           /\ d = "replies" => Decode(d, Content(p), b) = DecodeReply(Tag[p.name], s, b)
<1>1. Content(p) = <<Tag[p.name]>> \o s
  BY DEF Content, Command, WithParameters
<1>2. Decode(d, <<Tag[p.name]>> \o s, b) =
        IF d = "commands" THEN DecodeCommand(Tag[p.name], s) ELSE DecodeReply(Tag[p.name], s, b)
  BY DecodeOf
<1> QED BY <1>1, <1>2

\* The decoded message is always the same.
LEMMA TripOf ==
    ASSUME NEW d, NEW p, Packable(Content(p)), NEW x,
           \A b \in Beyond : Decode(d, Content(p), b) = Ok(x),
           Meaning(x) = Meaning(p), x.name = "reply_code" => x = p /\ SetReply(x)
    PROVE  RoundTrip(d, p)
<1>1. Ok(x).signal[1] = x
  BY DEF Ok
<1> QED BY <1>1 DEF RoundTrip

\* Commands without arguments, and bytes.
LEMMA BareCommands ==
    ASSUME NEW p, Packable(Content(p)),
           NEW n \in {"data", "end_of_header", "abort", "quit"}, p = [name |-> n]
    PROVE  RoundTrip("commands", p)
<1>0. p.name = n
  OBVIOUS
<1>1. n \in DOMAIN Tag /\ n # "add_recipient" /\ n # "reply_code"
  BY DEF Tag
<1>2. EncodeArguments(p) = <<>> /\ <<>> \in Seq(Byte)
  BY <1>0, ArgumentsOf DEF EncodeEnvelope, EncodeMessage, EnvelopeNames, MessageNames
<1>3. DecodeCommand(Tag[n], <<>>) = Ok(p)
  <2>1. CASE n = "data"
    BY <1>1, <2>1, CommandOf DEF DecodeEnvelope, Exactly, EnvelopeNames
  <2>2. CASE n # "data"
    BY <1>1, <2>2, CommandOf DEF DecodeMessage, Exactly, MessageNames
  <2> QED BY <2>1, <2>2
<1>4. \A b \in Beyond : Decode("commands", Content(p), b) = Ok(p)
  BY <1>0, <1>1, <1>2, <1>3, ContentOf
<1> QED BY <1>0, <1>1, <1>4, TripOf

\* A chunk of the body.
LEMMA BytesCommands ==
    ASSUME NEW p, Packable(Content(p)), NEW s \in Seq(Byte),
           NEW n \in {"body", "end_of_message"}, p = [name |-> n, args |-> <<s>>]
    PROVE  RoundTrip("commands", p)
<1>0. p.name = n
  OBVIOUS
<1>1. n \in DOMAIN Tag /\ n # "add_recipient" /\ n # "reply_code"
  BY DEF Tag
<1>2. EncodeArguments(p) = s
  <2>1. p.args[1] = s
    OBVIOUS
  <2> QED BY <1>0, <2>1, ArgumentsOf DEF EncodeMessage, EnvelopeNames, MessageNames
<1>3. DecodeCommand(Tag[n], s) = Ok(p)
  BY <1>1, CommandOf DEF DecodeMessage, MessageNames
<1>4. \A b \in Beyond : Decode("commands", Content(p), b) = Ok(p)
  BY <1>0, <1>1, <1>2, <1>3, ContentOf
<1> QED BY <1>0, <1>1, <1>4, TripOf

\* Commands of one word.
LEMMA TextCommands ==
    ASSUME NEW p, Packable(Content(p)), NEW t \in Words,
           NEW n \in {"helo", "envelope_from", "envelope_recipient", "unknown"},
           p = [name |-> n, args |-> <<t>>]
    PROVE  RoundTrip("commands", p)
<1>0. p.name = n
  OBVIOUS
<1>1. n \in DOMAIN Tag /\ n # "add_recipient" /\ n # "reply_code"
  BY DEF Tag
<1>2. EncodeArguments(p) = Text(t) /\ Text(t) \in Seq(Byte)
  <2>1. p.args = <<t>>
    OBVIOUS
  <2>2. EncodeArguments(p) = Texts(p.args)
    BY <1>0, ArgumentsOf DEF EncodeMessage, EncodeEnvelope, EnvelopeNames, MessageNames
  <2> QED BY <2>1, <2>2, WordOf, TextsOf
<1>3. DecodeCommand(Tag[n], Text(t)) = Ok(p)
  <2>1. CASE n = "unknown"
    BY <1>1, <2>1, CommandOf, OneTextOf DEF DecodeMessage, MessageNames
  <2>2. CASE n # "unknown"
    BY <1>1, <2>2, CommandOf, OneTextOf DEF DecodeEnvelope, EnvelopeNames
  <2> QED BY <2>1, <2>2
<1>4. \A b \in Beyond : Decode("commands", Content(p), b) = Ok(p)
  BY <1>0, <1>1, <1>2, <1>3, ContentOf
<1> QED BY <1>0, <1>1, <1>4, TripOf

\* A header.
LEMMA HeaderCommand ==
    ASSUME NEW p, Packable(Content(p)), NEW a \in Words, NEW v \in Strings,
           NEW n, n = "header", p = [name |-> n, args |-> <<a, v>>]
    PROVE  RoundTrip("commands", p)
<1>0. p.name = n
  OBVIOUS
<1>1. n \in DOMAIN Tag /\ n # "add_recipient" /\ n # "reply_code"
  BY DEF Tag
<1> DEFINE s == Text(a) \o Text(v)
<1>2. EncodeArguments(p) = s /\ s \in Seq(Byte)
  <2>1. p.args = <<a, v>>
    OBVIOUS
  <2>2. EncodeArguments(p) = Texts(p.args)
    BY <1>0, ArgumentsOf DEF EncodeEnvelope, EnvelopeNames
  <2>3. Texts(<<a, v>>) = s /\ Text(a) \in Seq(Byte) /\ Text(v) \in Seq(Byte)
    BY WordOf, TextsOf
  <2> QED BY <2>1, <2>2, <2>3, CatOf
<1>3. DecodeCommand(Tag[n], s) = Ok(p)
  BY <1>1, CommandOf, HeaderOf DEF DecodeEnvelope, EnvelopeNames
<1> HIDE DEF s
<1>4. \A b \in Beyond : Decode("commands", Content(p), b) = Ok(p)
  BY <1>0, <1>1, <1>2, <1>3, ContentOf
<1> QED BY <1>0, <1>1, <1>4, TripOf

\* Replies without arguments, a new body, a word, and a header.
LEMMA BareReplies ==
    ASSUME NEW p, Packable(Content(p)),
           NEW n \in StatusNames \cup {"progress", "connection_failure", "shutdown", "skip"},
           p = [name |-> n]
    PROVE  RoundTrip("replies", p)
<1>0. p.name = n
  OBVIOUS
<1>1. n \in DOMAIN Tag /\ n # "add_recipient" /\ n # "reply_code"
  BY DEF Tag, StatusNames
<1>2. EncodeArguments(p) = <<>> /\ <<>> \in Seq(Byte)
  <2>1. CASE n \in StatusNames
    BY <1>0, <1>1, <2>1, ArgumentsOf DEF EncodeStatus
  <2>2. CASE n \notin StatusNames
    BY <1>0, <2>2, ArgumentsOf DEF EncodeOther, OtherReplies
  <2> QED BY <2>1, <2>2
<1>3. \A b : DecodeReply(Tag[n], <<>>, b) = Ok(p)
  <2>1. CASE n \in StatusNames
    BY <1>1, <2>1, ReplyOf DEF DecodeStatus, Exactly
  <2>2. CASE n \notin StatusNames
    BY <1>1, <2>2, ReplyOf DEF DecodeOther, Exactly, OtherReplies
  <2> QED BY <2>1, <2>2
<1>4. \A b \in Beyond : Decode("replies", Content(p), b) = Ok(p)
  BY <1>0, <1>1, <1>2, <1>3, ContentOf, ZenonT(90)
<1> QED BY <1>0, <1>1, <1>4, TripOf

\* A new body.
LEMMA BytesReply ==
    ASSUME NEW p, Packable(Content(p)), NEW s \in Seq(Byte),
           NEW n, n = "replace_body", p = [name |-> n, args |-> <<s>>]
    PROVE  RoundTrip("replies", p)
<1>0. p.name = n
  OBVIOUS
<1>1. n \in DOMAIN Tag /\ n # "add_recipient" /\ n # "reply_code"
  BY DEF Tag
<1>2. EncodeArguments(p) = s
  <2>1. p.args[1] = s
    OBVIOUS
  <2> QED BY <1>0, <2>1, ArgumentsOf DEF EncodeOther, OtherReplies
<1>3. \A b : DecodeReply(Tag[n], s, b) = Ok(p)
  BY <1>1, ReplyOf DEF DecodeOther, OtherReplies
<1>4. \A b \in Beyond : Decode("replies", Content(p), b) = Ok(p)
  BY <1>0, <1>1, <1>2, <1>3, ContentOf
<1> QED BY <1>0, <1>1, <1>4, TripOf

\* Replies of one word.
LEMMA TextReplies ==
    ASSUME NEW p, Packable(Content(p)), NEW t \in Words,
           NEW n \in {"delete_recipient", "quarantine"}, p = [name |-> n, args |-> <<t>>]
    PROVE  RoundTrip("replies", p)
<1>0. p.name = n
  OBVIOUS
<1>1. n \in DOMAIN Tag /\ n # "add_recipient" /\ n # "reply_code"
  BY DEF Tag
<1>2. EncodeArguments(p) = Text(t) /\ Text(t) \in Seq(Byte)
  <2>1. p.args = <<t>> /\ p.args[1] = t
    OBVIOUS
  <2>2. Texts(<<t>>) = Text(t) /\ Text(t) \in Seq(Byte)
    BY WordOf, TextsOf
  <2>3. CASE n = "quarantine"
    BY <1>0, <2>1, <2>2, <2>3, ArgumentsOf DEF EncodeOther, OtherReplies
  <2>4. CASE n = "delete_recipient"
    BY <1>0, <2>1, <2>2, <2>4, ArgumentsOf DEF EncodeEnvelopeEdit, EnvelopeEdits, WithParameters
  <2> QED BY <2>3, <2>4
<1>3. \A b : DecodeReply(Tag[n], Text(t), b) = Ok(p)
  <2>1. CASE n = "quarantine"
    <3>1. \A b : DecodeReply(Tag[n], Text(t), b) = OneText(n, Text(t))
      BY <1>1, <2>1, ReplyOf DEF DecodeOther, OtherReplies
    <3> QED BY <3>1, OneTextOf
  <2>2. CASE n = "delete_recipient"
    <3>1. \A b : DecodeReply(Tag[n], Text(t), b) = OneText(n, Text(t))
      BY <1>1, <2>2, ReplyOf DEF DecodeEnvelopeEdit, EnvelopeEdits
    <3> QED BY <3>1, OneTextOf
  <2> QED BY <2>1, <2>2
<1>4. \A b \in Beyond : Decode("replies", Content(p), b) = Ok(p)
  BY <1>0, <1>1, <1>2, <1>3, ContentOf
<1> QED BY <1>0, <1>1, <1>4, TripOf

\* A header to add.
LEMMA AddHeaderReply ==
    ASSUME NEW p, Packable(Content(p)), NEW a \in Words, NEW v \in Strings,
           NEW n, n = "add_header", p = [name |-> n, args |-> <<a, v>>]
    PROVE  RoundTrip("replies", p)
<1>0. p.name = n
  OBVIOUS
<1>1. n \in DOMAIN Tag /\ n # "add_recipient" /\ n # "reply_code"
  BY DEF Tag
<1> DEFINE s == Text(a) \o Text(v)
<1>2. EncodeArguments(p) = s /\ s \in Seq(Byte)
  <2>1. p.args = <<a, v>>
    OBVIOUS
  <2>2. Texts(<<a, v>>) = s /\ Text(a) \in Seq(Byte) /\ Text(v) \in Seq(Byte)
    BY WordOf, TextsOf
  <2>3. s \in Seq(Byte) /\ <<>> \o s = s
    <3>1. s \in Seq(Byte)
      BY <2>2, CatOf
    <3> HIDE DEF s
    <3> QED BY <3>1, CatOf
  <2>4. EncodeArguments(p) = <<>> \o Texts(p.args)
    BY <1>0, ArgumentsOf DEF EncodeHeaderEdit, HeaderEdits
  <2> QED BY <2>1, <2>2, <2>3, <2>4
<1>3. \A b : DecodeReply(Tag[n], s, b) = Ok(p)
  BY <1>1, ReplyOf, HeaderOf DEF DecodeHeaderEdit, HeaderEdits
<1> HIDE DEF s
<1>4. \A b \in Beyond : Decode("replies", Content(p), b) = Ok(p)
  BY <1>0, <1>1, <1>2, <1>3, ContentOf
<1> QED BY <1>0, <1>1, <1>4, TripOf

\* Headers with an index; an empty value deletes.
LEMMA IndexedReplies ==
    ASSUME NEW p, Packable(Content(p)), NEW i \in Length, NEW a \in Words, NEW v \in Strings,
           NEW n \in {"insert_header", "change_header"},
           p = [name |-> n, index |-> i, args |-> <<a, v>>]
    PROVE  RoundTrip("replies", p)
<1>0. p.name = n /\ p.index = i /\ p.args = <<a, v>>
  OBVIOUS
<1>1. n \in DOMAIN Tag /\ n # "add_recipient" /\ n # "reply_code"
  BY DEF Tag
<1> DEFINE s == U32(i) \o (Text(a) \o Text(v))
           x == [name |-> IF n = "change_header" /\ v = <<>> THEN "delete_header" ELSE n,
                 index |-> i, args |-> <<a, v>>]
<1>2. EncodeArguments(p) = s /\ s \in Seq(Byte)
  <2>1. Texts(<<a, v>>) = Text(a) \o Text(v) /\ Text(a) \in Seq(Byte) /\ Text(v) \in Seq(Byte)
    BY WordOf, TextsOf
  <2> DEFINE y == Text(a) \o Text(v)
  <2>2. y \in Seq(Byte)
    BY <2>1, CatOf
  <2> HIDE DEF y
  <2>3. U32(i) \o y \in Seq(Byte)
    BY <2>2, NumberedOf
  <2>4. EncodeArguments(p) = U32(i) \o Texts(p.args)
    BY <1>0, ArgumentsOf DEF EncodeHeaderEdit, HeaderEdits
  <2> QED BY <1>0, <2>1, <2>3, <2>4 DEF y
<1>3. \A b \in Seq(Byte) : DecodeReply(Tag[n], s, b) = Ok(x)
  <2>1. ASSUME NEW b \in Seq(Byte) PROVE DecodeIndexed(n, s \o b) = Ok(x)
    BY <2>1, IndexedOf
  <2> HIDE DEF s, x
  <2>2. \A b : DecodeReply(Tag[n], s, b) = DecodeIndexed(n, s \o b)
    BY <1>1, ReplyOf DEF DecodeHeaderEdit, HeaderEdits
  <2> QED BY <2>1, <2>2
<1>4. Meaning(x) = Meaning(p) /\ x.name # "reply_code"
  <2>1. CASE n = "change_header" /\ v = <<>>
    <3>1. p.args[2] = <<>> /\ x.name = "delete_header" /\ [p EXCEPT !.name = "delete_header"] = x
      BY <2>1
    <3>2. Meaning(p) = <<[p EXCEPT !.name = "delete_header"]>>
      BY <1>0, <2>1, <3>1 DEF Meaning
    <3>3. Meaning(x) = <<x>>
      BY <3>1 DEF Meaning
    <3> QED BY <3>1, <3>2, <3>3
  <2>2. CASE ~(n = "change_header" /\ v = <<>>)
    BY <1>0, <1>1, <2>2
  <2> QED BY <2>1, <2>2
<1> HIDE DEF s, x
<1>5. \A b \in Beyond : Decode("replies", Content(p), b) = Ok(x)
  <2>1. SUFFICES ASSUME NEW b \in Beyond PROVE Decode("replies", Content(p), b) = Ok(x)
    OBVIOUS
  <2>2. Decode("replies", Content(p), b) = DecodeReply(Tag[n], s, b)
    BY <1>0, <1>1, <1>2, ContentOf
  <2>3. b \in Seq(Byte)
    BY BeyondBytes
  <2> QED BY <1>3, <2>2, <2>3
<1> QED BY <1>4, <1>5, TripOf

\* A new sender, with or without parameters.
LEMMA ChangeFromReply ==
    ASSUME NEW p, Packable(Content(p)), NEW n, n = "change_from", NEW a \in Words,
           \/ p = [name |-> n, args |-> <<a>>]
           \/ \E v \in Words : p = [name |-> n, args |-> <<a, v>>]
    PROVE  RoundTrip("replies", p)
<1>0. p.name = n
  OBVIOUS
<1>1. n \in DOMAIN Tag /\ n # "add_recipient" /\ n # "reply_code"
  BY DEF Tag
<1>2. EncodeArguments(p) = Texts(p.args)
  BY <1>0, ArgumentsOf DEF EncodeEnvelopeEdit, EnvelopeEdits
<1>3. \A s, b : DecodeReply(Tag[n], s, b) = DecodeTwo(n, s)
  BY <1>1, ReplyOf DEF DecodeEnvelopeEdit, EnvelopeEdits
<1>4. EncodeArguments(p) \in Seq(Byte) /\ DecodeTwo(n, EncodeArguments(p)) = Ok(p)
  <2>1. CASE p = [name |-> n, args |-> <<a>>]
    <3>1. p.args = <<a>>
      BY <2>1
    <3>2. Texts(<<a>>) = Text(a) /\ Text(a) \in Seq(Byte)
      BY WordOf, TextsOf
    <3>3. DecodeTwo(n, Text(a)) = Ok(p)
      BY <2>1, TwoOf
    <3> QED BY <1>2, <3>1, <3>2, <3>3
  <2>2. CASE \E v \in Words : p = [name |-> n, args |-> <<a, v>>]
    <3>1. PICK v \in Words : p = [name |-> n, args |-> <<a, v>>]
      BY <2>2
    <3>2. p.args = <<a, v>>
      BY <3>1
    <3>3. Texts(<<a, v>>) = Text(a) \o Text(v) /\ Text(a) \in Seq(Byte) /\ Text(v) \in Seq(Byte)
      BY WordOf, TextsOf
    <3>4. DecodeTwo(n, Text(a) \o Text(v)) = Ok(p)
      BY <3>1, TwoOf
    <3>5. Text(a) \o Text(v) \in Seq(Byte)
      BY <3>3, CatOf
    <3> QED BY <1>2, <3>2, <3>3, <3>4, <3>5
  <2> QED BY <2>1, <2>2
<1> DEFINE s == EncodeArguments(p)
<1>5. s \in Seq(Byte) /\ EncodeArguments(p) = s /\ DecodeTwo(n, s) = Ok(p)
  BY <1>4
<1> HIDE DEF s
<1>6. \A b \in Beyond : Decode("replies", Content(p), b) = Ok(p)
  BY <1>0, <1>1, <1>3, <1>5, ContentOf
<1> QED BY <1>0, <1>1, <1>6, TripOf

\* A recipient, without parameters, with empty ones, and with others.
LEMMA AddRecipientReply ==
    ASSUME NEW p, Packable(Content(p)), NEW n, n = "add_recipient", NEW a \in Words,
           \/ p = [name |-> n, args |-> <<a>>]
           \/ \E v \in Strings : p = [name |-> n, args |-> <<a, v>>]
    PROVE  RoundTrip("replies", p)
<1>0. p.name = n /\ EncodeArguments(p) = EncodeEnvelopeEdit(p)
  BY ArgumentsOf DEF EnvelopeEdits
<1>1. Tag[n] = Tag.add_recipient /\ {n, "add_recipient_with_parameters"} \subseteq DOMAIN Tag
  BY DEF Tag
<1>2. /\ a \in Strings /\ a # <<>> /\ Text(a) \in Seq(Byte)
      /\ NulAt(Text(a)) # 0 /\ CString(Text(a)) = a
  BY WordOf, TextEnds DEF TextOf
<1>3. ASSUME ~WithParameters(p), p.args[1] = a
      PROVE  \A b \in Beyond : Decode("replies", Content(p), b) = Ok([name |-> n, args |-> <<a>>])
  <2>1. Content(p) = <<Tag[n]>> \o Text(a)
    BY <1>0, <1>3 DEF Content, Command, EncodeEnvelopeEdit
  <2>2. \A b : DecodeReply(Tag[n], Text(a), b) = DecodeEnvelopeEdit(n, Text(a))
    BY <1>1, ReplyOf DEF EnvelopeEdits
  <2>3. DecodeEnvelopeEdit(n, Text(a)) = [Ok([name |-> n, args |-> <<a>>]) EXCEPT !.error = FALSE]
    BY <1>2 DEF DecodeEnvelopeEdit
  <2>4. DecodeEnvelopeEdit(n, Text(a)) = Ok([name |-> n, args |-> <<a>>])
    BY <2>3 DEF Ok
  <2>5. \A b \in Beyond : Decode("replies", <<Tag[n]>> \o Text(a), b) = DecodeReply(Tag[n], Text(a), b)
    BY <1>1, <1>2, DecodeOf
  <2> QED BY <2>1, <2>2, <2>4, <2>5
<1>4. CASE p = [name |-> n, args |-> <<a>>]
  <2>1. p.args = <<a>> /\ p.args[1] = a /\ Len(p.args) = 1
    BY <1>4
  <2>2. ~WithParameters(p)
    BY <2>1 DEF WithParameters
  <2>3. \A b \in Beyond : Decode("replies", Content(p), b) = Ok(p)
    BY <1>3, <1>4, <2>1, <2>2
  <2> QED BY <1>0, <2>3, TripOf
<1>5. CASE p = [name |-> n, args |-> <<a, <<>>>>]
  <2> DEFINE x == [name |-> n, args |-> <<a>>]
  <2>1. p.args = <<a, <<>>>> /\ p.args[1] = a /\ p.args[2] = <<>>
    BY <1>5
  <2>2. ~WithParameters(p)
    BY <2>1 DEF WithParameters
  <2>3. \A b \in Beyond : Decode("replies", Content(p), b) = Ok(x)
    BY <1>3, <2>1, <2>2
  <2>4. Meaning(p) = <<x>>
    <3>1. Last(p.args) = <<>> /\ Front(p.args) = <<a>>
      <4>1. Len(<<a, <<>>>>) = 2 /\ <<a, <<>>>>[2] = <<>>
        OBVIOUS
      <4> DEFINE y == <<a, <<>>>>
                 u == SubSeq(y, 1, 1)
      <4>2. y \in Seq(Bytes) /\ y[1] = a /\ Len(y) = 2
        BY <1>2 DEF Strings, Bytes
      <4> HIDE DEF y
      <4>4. u \in Seq(Bytes) /\ Len(u) = 1 /\ u[1] = a
        BY <4>2, SMTT(60)
      <4> HIDE DEF u
      <4>5. u = <<a>>
        BY <4>4
      <4> QED BY <2>1, <4>1, <4>5 DEF Last, Front, y, u
    <3>2. [p EXCEPT !.args = Front(@)] = x
      BY <1>5, <3>1
    <3> QED BY <1>0, <3>1, <3>2 DEF Meaning
  <2>5. Meaning(x) = <<x>>
    <3>1. Last(x.args) = a /\ x.name = "add_recipient"
      BY DEF Last
    <3> QED BY <1>2, <3>1 DEF Meaning
  <2>6. x.name # "reply_code"
    OBVIOUS
  <2> HIDE DEF x
  <2> QED BY <2>3, <2>4, <2>5, <2>6, TripOf
<1>6. CASE \E v \in Words : p = [name |-> n, args |-> <<a, v>>]
  <2>1. PICK v \in Words : p = [name |-> n, args |-> <<a, v>>]
    BY <1>6
  <2> DEFINE w == "add_recipient_with_parameters"
             s == Text(a) \o Text(v)
  <2>2. p.args = <<a, v>> /\ p.args[2] = v /\ Len(p.args) = 2 /\ v # <<>>
    BY <2>1, WordOf
  <2>3. WithParameters(p)
    BY <1>0, <2>2 DEF WithParameters
  <2>4. Texts(<<a, v>>) = s /\ Text(a) \in Seq(Byte) /\ Text(v) \in Seq(Byte)
    BY WordOf, TextsOf
  <2>5. s \in Seq(Byte)
    BY <2>4, CatOf
  <2>6. DecodeTwo("add_recipient", s) = Ok(p)
    BY <2>1, TwoOf
  <2> HIDE DEF s
  <2>7. Content(p) = <<Tag[w]>> \o s
    BY <1>0, <2>2, <2>3, <2>4 DEF Content, Command, EncodeEnvelopeEdit
  <2>8. \A b : DecodeReply(Tag[w], s, b) = DecodeEnvelopeEdit(w, s)
    BY <1>1, ReplyOf
  <2>9. DecodeEnvelopeEdit(w, s) = Ok(p)
    BY <2>6 DEF DecodeEnvelopeEdit
  <2>10. \A b \in Beyond : Decode("replies", <<Tag[w]>> \o s, b) = DecodeReply(Tag[w], s, b)
    BY <1>1, <2>5, DecodeOf
  <2>11. \A b \in Beyond : Decode("replies", Content(p), b) = Ok(p)
    BY <2>7, <2>8, <2>9, <2>10
  <2> QED BY <1>0, <2>11, TripOf
<1> QED BY <1>4, <1>5, <1>6 DEF Words

\* Three bytes and a word, behind the name of the host.
Located(x, y, z, w, r) ==
    /\ r \in Seq(Byte) /\ r # <<>> /\ r[1] = x /\ SubSeq(r, 2, 3) = <<y, z>> /\ ~(Len(r) < 3)
    /\ NulAt(From(r, 4)) # 0 /\ NulAt(From(r, 4)) # 1 /\ CString(From(r, 4)) = w

\* What the decoder finds in it.
LEMMA AddressOf ==
    ASSUME NEW x \in Byte, NEW y \in Byte, NEW z \in Byte, NEW w \in Words,
           NEW r, r = <<x, y, z>> \o Text(w)
    PROVE  Located(x, y, z, w, r)
<1> DEFINE u == <<x, y, z>>
           t == Text(w)
<1>1. u \in Seq(Byte) /\ Len(u) = 3 /\ u[1] = x /\ u[2] = y /\ u[3] = z
  OBVIOUS
<1>2. TextOf(w, t, <<>>) /\ t \in Seq(Byte) /\ Len(t) \in Nat
  BY WordOf, TextEnds
<1>3. r = u \o t
  OBVIOUS
<1> HIDE DEF u, t
<1>4. /\ r \in Seq(Byte) /\ Len(r) = Len(u) + Len(t)
      /\ \A i \in 1..(Len(u) + Len(t)) : r[i] = IF i <= Len(u) THEN u[i] ELSE t[i - Len(u)]
  <2> DEFINE s == u \o t
  <2>1. /\ s \in Seq(Byte) /\ Len(s) = Len(u) + Len(t)
        /\ \A i \in 1..(Len(u) + Len(t)) : s[i] = IF i <= Len(u) THEN u[i] ELSE t[i - Len(u)]
    BY ONLY <1>1, <1>2, ConcatProperties
  <2>2. r = s
    BY <1>3
  <2> HIDE DEF s
  <2> QED BY ONLY <2>1, <2>2
<1>5. Parted(u, t, r)
  BY <1>1, <1>2, <1>3, FrontOf
<1>6. From(r, 4) = t
  BY <1>1, <1>5 DEF Parted
<1>7. NulAt(t) # 1 /\ NulAt(t) # 0 /\ CString(t) = w
  BY <1>2, WordOf DEF TextOf
<1>8. r[1] = x /\ r[2] = y /\ r[3] = z /\ ~(Len(r) < 3) /\ r # <<>>
  BY <1>1, <1>2, <1>4
<1>9. SubSeq(r, 2, 3) = <<y, z>>
  <2> DEFINE v == SubSeq(r, 2, 3)
  <2>1. v \in Seq(Byte) /\ Len(v) = 2 /\ v[1] = r[2] /\ v[2] = r[3]
    <3>1. 2 \in 1..(Len(r) + 1) /\ 3 \in 1..Len(r)
      BY <1>2, <1>4
    <3> QED BY <1>4, <3>1
  <2> HIDE DEF v
  <2>2. v = <<y, z>>
    BY <1>8, <2>1
  <2> QED BY <2>2 DEF v
<1> QED BY <1>4, <1>6, <1>7, <1>8, <1>9 DEF Located

\* What a connect is decoded to.
Connects(h, r, f, q, a) ==
    DecodeConnect(Text(h) \o r) =
      Ok([name |-> "connect", args |-> <<h>>, family |-> f, port |-> q, address |-> a])

\* A connect of each family.
LEMMA FamiliesOf ==
    ASSUME NEW h \in Words, NEW r \in Seq(Byte)
    PROVE  /\ r = <<UNKNOWN>> => Connects(h, r, UNKNOWN, <<>>, <<>>)
           /\ \A y \in Byte, z \in Byte, w \in Words :
                /\ r = <<UNIX, y, z>> \o Text(w) => Connects(h, r, UNIX, <<>>, w)
                /\ r = <<INET, y, z>> \o Text(w) /\ IsAddress(w) =>
                     Connects(h, r, INET, <<y, z>>, w)
                /\ r = <<INET6, y, z>> \o Text(w) /\ w[1] = IPV6PREFIX /\ IsAddress(Tail(w)) =>
                     Connects(h, r, INET6, <<y, z>>, Tail(w))
<1> DEFINE s == Text(h) \o r
<1>1. TextOf(h, s, r)
  BY WordOf, NulOf
<1> HIDE DEF s
<1>2. NulAt(s) # 1 /\ NulAt(s) # 0 /\ CString(s) = h /\ From(s, NulAt(s) + 1) = r
  BY <1>1, WordOf DEF TextOf
<1>3. UNKNOWN \in Byte /\ UNIX \in Byte /\ INET \in Byte /\ INET6 \in Byte
      /\ UNKNOWN \notin {UNIX, INET, INET6} /\ UNIX \notin {INET, INET6} /\ INET # INET6
  BY DEF Byte, UNKNOWN, UNIX, INET, INET6
<1>4. ASSUME r = <<UNKNOWN>>
      PROVE  DecodeConnect(s) = Ok([name |-> "connect", args |-> <<h>>, family |-> UNKNOWN,
                                    port |-> <<>>, address |-> <<>>])
  BY <1>2, <1>4 DEF DecodeConnect, WithText, WithValue
<1>5. ASSUME NEW x \in {UNIX, INET, INET6}, NEW y \in Byte, NEW z \in Byte, NEW w \in Words,
             r = <<x, y, z>> \o Text(w), NEW a,
             a = IF x = INET6 /\ w[1] = IPV6PREFIX THEN Tail(w) ELSE w,
             x = UNIX \/ IsAddress(a)
      PROVE  DecodeConnect(s) = Ok([name |-> "connect", args |-> <<h>>, family |-> x,
                                    port |-> IF x = UNIX THEN <<>> ELSE <<y, z>>,
                                    address |-> a])
  <2>1. x \in Byte /\ x # UNKNOWN
    BY <1>3
  <2>2. /\ r # <<>> /\ r[1] = x /\ SubSeq(r, 2, 3) = <<y, z>> /\ ~(Len(r) < 3)
        /\ NulAt(From(r, 4)) # 0 /\ NulAt(From(r, 4)) # 1 /\ CString(From(r, 4)) = w
    <3>1. x \in Byte /\ y \in Byte /\ z \in Byte /\ w \in Words /\ r = <<x, y, z>> \o Text(w)
      BY <1>5, <2>1
    <3>2. Located(x, y, z, w, r)
      BY ONLY <3>1, AddressOf
    <3> QED BY <3>2 DEF Located
  <2>3. DecodeConnect(s) = DecodeAddress(h, r)
    <3>1. r # <<UNKNOWN>>
      BY <2>1, <2>2
    <3> QED BY <1>2, <2>2, <3>1 DEF DecodeConnect, WithText, WithValue
  <2> QED BY <1>5, <2>2, <2>3 DEF DecodeAddress, WithText, WithValue
<1>6. ASSUME NEW y \in Byte, NEW z \in Byte, NEW w \in Words, r = <<UNIX, y, z>> \o Text(w)
      PROVE  DecodeConnect(s) = Ok([name |-> "connect", args |-> <<h>>, family |-> UNIX,
                                    port |-> <<>>, address |-> w])
  BY <1>3, <1>5, <1>6
<1>7. ASSUME NEW y \in Byte, NEW z \in Byte, NEW w \in Words, r = <<INET, y, z>> \o Text(w), IsAddress(w)
      PROVE  DecodeConnect(s) = Ok([name |-> "connect", args |-> <<h>>, family |-> INET,
                                    port |-> <<y, z>>, address |-> w])
  BY <1>3, <1>5, <1>7
<1>8. ASSUME NEW y \in Byte, NEW z \in Byte, NEW w \in Words, r = <<INET6, y, z>> \o Text(w),
             w[1] = IPV6PREFIX, IsAddress(Tail(w))
      PROVE  DecodeConnect(s) = Ok([name |-> "connect", args |-> <<h>>, family |-> INET6,
                                    port |-> <<y, z>>, address |-> Tail(w)])
  BY <1>3, <1>5, <1>8
<1> QED BY <1>4, <1>6, <1>7, <1>8 DEF Connects, s

\* A byte and two are three.
LEMMA ThreeOf ==
    ASSUME NEW x \in Byte, NEW y \in Byte, NEW z \in Byte
    PROVE  <<x>> \o <<y, z>> = <<x, y, z>>
<1> DEFINE a == <<x>>
           b == <<y, z>>
           c == <<x, y, z>>
           d == a \o b
<1>1. /\ a \in Seq(Byte) /\ Len(a) = 1 /\ a[1] = x
      /\ b \in Seq(Byte) /\ Len(b) = 2 /\ b[1] = y /\ b[2] = z
      /\ c \in Seq(Byte) /\ Len(c) = 3 /\ c[1] = x /\ c[2] = y /\ c[3] = z
  OBVIOUS
<1> HIDE DEF a, b, c
<1>2. /\ d \in Seq(Byte) /\ Len(d) = Len(a) + Len(b)
      /\ \A i \in 1..(Len(a) + Len(b)) : d[i] = IF i <= Len(a) THEN a[i] ELSE b[i - Len(a)]
  BY <1>1, ConcatProperties
<1> HIDE DEF d
<1>3. Len(d) = 3 /\ d[1] = x /\ d[2] = y /\ d[3] = z
  BY <1>1, <1>2
<1>4. \A i \in 1..3 : i = 1 \/ i = 2 \/ i = 3
  OBVIOUS
<1>5. \A i \in 1..3 : d[i] = c[i]
  BY <1>1, <1>3, <1>4
<1>6. d = c
  BY <1>1, <1>2, <1>3, <1>5, SeqEqual
<1> QED BY <1>6 DEF a, b, c, d

\* A connect, by family.
Address(f, q, a) ==
    \/ f = UNKNOWN /\ q = <<>> /\ a = <<>>
    \/ f = UNIX /\ q = <<>> /\ a \in Words
    \/ f \in {INET, INET6} /\ q \in Byte \X Byte /\ a \in Words /\ IsAddress(a)

\* A connect arrives.
LEMMA ConnectCommand ==
    ASSUME NEW p, Packable(Content(p)), NEW h \in Words, NEW f, NEW q, NEW a, Address(f, q, a),
           NEW n, n = "connect",
           p = [name |-> n, args |-> <<h>>, family |-> f, port |-> q, address |-> a]
    PROVE  RoundTrip("commands", p)
<1>0. p.name = n /\ p.args = <<h>> /\ p.family = f /\ p.port = q /\ p.address = a
  OBVIOUS
<1>1. n \in DOMAIN Tag /\ n # "add_recipient" /\ n # "reply_code"
  BY DEF Tag
<1>2. UNKNOWN \in Byte /\ UNIX \in Byte /\ INET \in Byte /\ INET6 \in Byte /\ 0 \in Byte /\ IPV6PREFIX \in Byte
      /\ UNKNOWN \notin {UNIX, INET, INET6} /\ UNIX \notin {INET, INET6} /\ INET # INET6 /\ IPV6PREFIX # NUL
  BY DEF Byte, UNKNOWN, UNIX, INET, INET6, IPV6PREFIX, NUL
<1> DEFINE r == EncodeAddress(p)
           s == Text(h) \o r
<1>3. r \in Seq(Byte) /\ DecodeConnect(s) = Ok(p)
  <2>1. CASE f = UNKNOWN
    <3>1. q = <<>> /\ a = <<>>
      BY <1>2, <2>1 DEF Address
    <3>2. r = <<UNKNOWN>> /\ r \in Seq(Byte)
      BY <1>0, <1>2, <2>1 DEF EncodeAddress
    <3> QED BY <2>1, <3>1, <3>2, FamiliesOf DEF Connects
  <2>2. CASE f = UNIX
    <3>1. q = <<>> /\ a \in Words
      BY <1>2, <2>2 DEF Address
    <3>2. r = <<UNIX, 0, 0>> \o Text(a)
      BY <1>0, <1>2, <2>2 DEF EncodeAddress
    <3>3. Located(UNIX, 0, 0, a, r)
      BY <1>2, <3>1, <3>2, AddressOf
    <3>4. r \in Seq(Byte)
      BY <3>3 DEF Located
    <3> HIDE DEF r
    <3>5. Connects(h, r, UNIX, <<>>, a)
      BY <1>2, <3>1, <3>2, <3>4, FamiliesOf
    <3> QED BY <2>2, <3>1, <3>4, <3>5 DEF Connects
  <2>3. CASE f = INET
    <3>1. q \in Byte \X Byte /\ a \in Words /\ IsAddress(a)
      BY <1>2, <2>3 DEF Address
    <3>2. PICK y \in Byte, z \in Byte : q = <<y, z>>
      BY <3>1
    <3>3. r = (<<INET>> \o <<y, z>>) \o Text(a)
      BY <1>0, <1>2, <2>3, <3>2 DEF EncodeAddress
    <3>4. <<INET>> \o <<y, z>> = <<INET, y, z>>
      BY <1>2, ThreeOf
    <3>5. r = <<INET, y, z>> \o Text(a)
      BY <3>3, <3>4
    <3>6. Located(INET, y, z, a, r)
      BY <1>2, <3>1, <3>5, AddressOf
    <3>7. r \in Seq(Byte)
      BY <3>6 DEF Located
    <3> HIDE DEF r
    <3>8. Connects(h, r, INET, <<y, z>>, a)
      BY <3>1, <3>5, <3>7, FamiliesOf
    <3> QED BY <2>3, <3>2, <3>7, <3>8 DEF Connects
  <2>4. CASE f = INET6
    <3>1. q \in Byte \X Byte /\ a \in Words /\ IsAddress(a)
      BY <1>2, <2>4 DEF Address
    <3>2. PICK y \in Byte, z \in Byte : q = <<y, z>>
      BY <3>1
    <3> DEFINE w == <<IPV6PREFIX>> \o a
    <3>3. r = (<<INET6>> \o <<y, z>>) \o Text(w)
      BY <1>0, <1>2, <2>4, <3>2 DEF EncodeAddress
    <3>4. <<INET6>> \o <<y, z>> = <<INET6, y, z>>
      BY <1>2, ThreeOf
    <3>5. w \in Words /\ w[1] = IPV6PREFIX /\ Tail(w) = a
      <4>1. a \in Seq(Byte) /\ DOMAIN a = 1..Len(a) /\ Len(a) \in Nat /\ \A i \in 1..Len(a) : a[i] # NUL
        BY <3>1 DEF Words, Strings, Bytes
      <4>2. /\ w \in Seq(Byte) /\ Len(w) = 1 + Len(a) /\ w[1] = IPV6PREFIX
            /\ \A i \in 2..Len(w) : w[i] = a[i - 1]
        <5> DEFINE o == <<IPV6PREFIX>>
        <5>1. o \in Seq(Byte) /\ Len(o) = 1 /\ o[1] = IPV6PREFIX
          BY <1>2
        <5> HIDE DEF o
        <5>2. /\ o \o a \in Seq(Byte) /\ Len(o \o a) = Len(o) + Len(a)
              /\ \A i \in 1..(Len(o) + Len(a)) : (o \o a)[i] = IF i <= Len(o) THEN o[i] ELSE a[i - Len(o)]
          BY <4>1, <5>1, ConcatProperties
        <5>3. w = o \o a
          BY DEF o
        <5> HIDE DEF w
        <5> QED BY <4>1, <5>1, <5>2, <5>3
      <4> HIDE DEF w
      <4>3. w # <<>> /\ DOMAIN w = 1..Len(w)
        BY <4>1, <4>2
      <4>4. \A i \in 1..Len(w) : w[i] # NUL
        <5>1. \A i \in 2..Len(w) : i - 1 \in 1..Len(a)
          BY <4>1, <4>2
        <5>2. \A i \in 1..Len(w) : i = 1 \/ i \in 2..Len(w)
          BY <4>1, <4>2
        <5> QED BY <1>2, <4>1, <4>2, <5>1, <5>2
      <4>5. Tail(w) = a
        <5> DEFINE t == Tail(w)
        <5>1. t \in Seq(Byte) /\ Len(t) = Len(a) /\ \A i \in 1..Len(a) : t[i] = w[i + 1]
          BY <4>1, <4>2, <4>3, HeadTailProperties
        <5> HIDE DEF t
        <5>2. \A i \in 1..Len(a) : i + 1 \in 2..Len(w) /\ (i + 1) - 1 = i
          BY <4>1, <4>2
        <5>3. \A i \in 1..Len(a) : t[i] = a[i]
          BY <4>2, <5>1, <5>2
        <5>4. t = a
          BY <4>1, <5>1, <5>3, SeqEqual
        <5> QED BY <5>4 DEF t
      <4> QED BY <4>2, <4>3, <4>4, <4>5 DEF Words, Strings, Bytes
    <3> HIDE DEF w
    <3>6. r = <<INET6, y, z>> \o Text(w)
      BY <3>3, <3>4
    <3>7. Located(INET6, y, z, w, r)
      BY <1>2, <3>5, <3>6, AddressOf
    <3>8. r \in Seq(Byte)
      BY <3>7 DEF Located
    <3> HIDE DEF r
    <3>9. Connects(h, r, INET6, <<y, z>>, Tail(w))
      BY <3>1, <3>5, <3>6, <3>8, FamiliesOf
    <3> QED BY <2>4, <3>2, <3>5, <3>8, <3>9 DEF Connects
  <2> QED BY <2>1, <2>2, <2>3, <2>4 DEF Address
<1>4. Texts(<<h>>) = Text(h) /\ Text(h) \in Seq(Byte)
  BY WordOf, TextsOf
<1>5. EncodeArguments(p) = s
  BY <1>0, <1>4, ArgumentsOf DEF EncodeConnect
<1> HIDE DEF r
<1>6. s \in Seq(Byte)
  BY <1>3, <1>4, CatOf
<1> HIDE DEF s
<1>7. DecodeCommand(Tag[n], s) = Ok(p)
  BY <1>1, <1>3, CommandOf
<1>8. \A b \in Beyond : Decode("commands", Content(p), b) = Ok(p)
  BY <1>0, <1>1, <1>5, <1>6, <1>7, ContentOf
<1> QED BY <1>0, <1>1, <1>8, TripOf

\* What is in the middle of a sequence.
Middle(u, m, r, s) ==
    /\ SubSeq(s, Len(u) + 1, Len(u) + Len(m)) = m
    /\ s \in Seq(Byte) /\ Len(s) = Len(u) + Len(m) + Len(r)

\* The middle of three sequences.
LEMMA MiddleOf ==
    ASSUME NEW u \in Seq(Byte), NEW m \in Seq(Byte), NEW r \in Seq(Byte), NEW s, s = (u \o m) \o r
    PROVE  Middle(u, m, r, s)
<1> DEFINE x == u \o m
           y == SubSeq(s, Len(u) + 1, Len(u) + Len(m))
<1>1. Len(u) \in Nat /\ Len(m) \in Nat /\ Len(r) \in Nat
  OBVIOUS
<1>2. /\ x \in Seq(Byte) /\ Len(x) = Len(u) + Len(m)
      /\ \A i \in 1..(Len(u) + Len(m)) : x[i] = IF i <= Len(u) THEN u[i] ELSE m[i - Len(u)]
  BY ConcatProperties
<1> HIDE DEF x
<1>3. /\ s \in Seq(Byte) /\ Len(s) = Len(x) + Len(r)
      /\ \A i \in 1..(Len(x) + Len(r)) : s[i] = IF i <= Len(x) THEN x[i] ELSE r[i - Len(x)]
  <2> DEFINE t == x \o r
  <2>1. /\ t \in Seq(Byte) /\ Len(t) = Len(x) + Len(r)
        /\ \A i \in 1..(Len(x) + Len(r)) : t[i] = IF i <= Len(x) THEN x[i] ELSE r[i - Len(x)]
    <3>1. x \in Seq(Byte) /\ r \in Seq(Byte)
      BY <1>2
    <3> QED BY ONLY <3>1, ConcatProperties
  <2>2. s = t
    BY DEF x
  <2> HIDE DEF t
  <2> QED BY ONLY <2>1, <2>2
<1>4. \A i \in 1..Len(m) : s[Len(u) + i] = m[i]
  <2>1. SUFFICES ASSUME NEW i \in 1..Len(m) PROVE s[Len(u) + i] = m[i]
    OBVIOUS
  <2>2. /\ Len(u) + i \in 1..(Len(x) + Len(r)) /\ Len(u) + i <= Len(x) /\ ~(Len(u) + i <= Len(u))
        /\ Len(u) + i \in 1..(Len(u) + Len(m)) /\ (Len(u) + i) - Len(u) = i
    BY <1>1, <1>2
  <2> QED BY <1>2, <1>3, <2>2
<1>5. /\ y \in Seq(Byte) /\ Len(y) = Len(m)
      /\ \A i \in 1..Len(m) : y[i] = s[Len(u) + i]
  <2> DEFINE j == Len(u) + 1
             k == Len(u) + Len(m)
  <2>1. j \in Int /\ k \in Int /\ \A i \in j..k : s[i] \in Byte
    <3>1. j \in Int /\ k \in Int /\ \A i \in j..k : i \in 1..Len(s)
      BY <1>1, <1>2, <1>3
    <3> QED BY <1>3, <3>1
  <2>2. k - j + 1 = Len(m) /\ (j <= k <=> Len(m) # 0)
    BY <1>1
  <2>3. \A i \in 1..Len(m) : j + i - 1 = Len(u) + i
    BY <1>1
  <2> HIDE DEF j, k
  <2>4. /\ SubSeq(s, j, k) \in Seq(Byte) /\ Len(SubSeq(s, j, k)) = IF j <= k THEN k - j + 1 ELSE 0
        /\ \A i \in 1..(k - j + 1) : SubSeq(s, j, k)[i] = s[j + i - 1]
    BY ONLY <2>1, SubSeqProperties
  <2>5. y = SubSeq(s, j, k)
    BY DEF j, k
  <2> HIDE DEF y
  <2> QED BY <1>1, <2>2, <2>3, <2>4, <2>5
<1> HIDE DEF y
<1>6. y = m
  BY <1>4, <1>5, SeqEqual
<1> QED BY <1>1, <1>2, <1>3, <1>6 DEF Middle, y

\* Nothing to order.
LEMMA NoElements == SetToSeq({}) = <<>>
<1>1. Cardinality({}) = 0
  BY FS_EmptySet
<1>2. 1..0 = {}
  OBVIOUS
<1>3. \A f \in [{} -> {}] : f = <<>>
  OBVIOUS
<1>4. <<>> \in [{} -> {}] /\ IsInjective(<<>>)
  BY DEF IsInjective
<1>5. SetToSeq({}) = CHOOSE f \in [{} -> {}] : IsInjective(f)
  BY <1>1, <1>2 DEF SetToSeq
<1> QED BY <1>3, <1>4, <1>5

\* No requests.
LEMMA NoRequests == EncodeRequests(<<>>) = <<>> /\ DecodeRequests(<<>>) = Ok(<<>>)
<1>1. DOMAIN <<>> = {}
  OBVIOUS
<1>2. EncodeRequests(<<>>) = <<>>
  <2>1. DOMAIN <<>> \cap DOMAIN Stage = {}
    BY <1>1
  <2> DEFINE G(stages) == [i \in DOMAIN stages |-> U32(Stage[stages[i]]) \o Text(Join(<<>>[stages[i]], <<SPACE>>))]
  <2>2. G(<<>>) = <<>>
    BY <1>1
  <2>3. EncodeRequests(<<>>) = FlattenSeq(G(SetToSeq(DOMAIN <<>> \cap DOMAIN Stage)))
    BY SMT DEF EncodeRequests
  <2> HIDE DEF G
  <2> QED BY <2>1, <2>2, <2>3, NoElements, FlattenEmpty
<1>3. DecodeRequests(<<>>) = Ok(<<>>)
  BY SMT DEF DecodeRequests
<1> QED BY <1>2, <1>3

\* The three numbers of an option.
Optioned(v, a, e, s) ==
    /\ s \in Seq(Byte) /\ Len(s) = 12 /\ From(s, 13) = <<>>
    /\ Number(SubSeq(s, 1, 4)) = v /\ Number(SubSeq(s, 5, 8)) = a
    /\ Number(SubSeq(s, 9, 12)) = e

\* The three numbers are found again.
LEMMA OptionOf ==
    ASSUME NEW v \in Length, NEW a \in Length, NEW e \in Length, NEW s,
           s = (U32(v) \o U32(a)) \o U32(e)
    PROVE  Optioned(v, a, e, s)
<1> DEFINE x == U32(v)
           y == U32(a)
           z == U32(e)
           w == x \o y
<1>1. /\ x \in Seq(Byte) /\ Len(x) = 4 /\ Number(x) = v
      /\ y \in Seq(Byte) /\ Len(y) = 4 /\ Number(y) = a
      /\ z \in Seq(Byte) /\ Len(z) = 4 /\ Number(z) = e
  BY U32Of DEF Bytes
<1>2. s = (x \o y) \o z
  OBVIOUS
<1> HIDE DEF x, y, z
<1>3. s \in Seq(Byte)
  <2>1. Middle(x, y, z, s)
    BY <1>1, <1>2, MiddleOf
  <2> QED BY <2>1 DEF Middle
<1>4. SubSeq(s, 5, 8) = y /\ Len(s) = 12
  <2>1. Middle(x, y, z, s)
    BY <1>1, <1>2, MiddleOf
  <2>2. Len(x) + 1 = 5 /\ Len(x) + Len(y) = 8 /\ Len(x) + Len(y) + Len(z) = 12
    BY <1>1
  <2> QED BY <2>1, <2>2 DEF Middle
<1>5. w \in Seq(Byte) /\ Len(w) = 8
  <2>1. w \in Seq(Byte) /\ Len(w) = Len(x) + Len(y)
    BY <1>1, CatOf
  <2> HIDE DEF w
  <2> QED BY <1>1, <2>1
<1>6. SubSeq(s, 1, 4) = x
  <2> DEFINE r == y \o z
  <2>1. s = x \o r /\ r \in Seq(Byte)
    <3>1. (x \o y) \o z = x \o (y \o z)
      BY ONLY <1>1, AssocBytes
    <3>2. y \o z \in Seq(Byte)
      BY <1>1, CatOf
    <3> QED BY <1>2, <3>1, <3>2
  <2> HIDE DEF r
  <2>2. Parted(x, r, s)
    BY <1>1, <2>1, FrontOf
  <2> QED BY <1>1, <2>2 DEF Parted
<1>7. SubSeq(s, 9, 12) = z
  <2>1. s = w \o z
    BY <1>2
  <2> HIDE DEF w
  <2>2. Parted(w, z, s)
    BY <1>1, <1>5, <2>1, FrontOf
  <2>3. From(s, 9) = z
    BY <1>5, <2>2 DEF Parted
  <2> QED BY <1>4, <2>3 DEF From
<1>8. From(s, 13) = <<>>
  <2>1. 13 \in Int /\ 12 \in Int /\ 12 < 13
    OBVIOUS
  <2>2. SubSeq(s, 13, 12) = <<>>
    BY ONLY <2>1, SubSeqEmpty
  <2> QED BY <1>4, <2>2 DEF From
<1> QED BY <1>1, <1>3, <1>4, <1>6, <1>7, <1>8 DEF Optioned

\* An option without requests, in both directions.
LEMMA NegotiateBoth ==
    ASSUME NEW d \in {"commands", "replies"}, NEW p, Packable(Content(p)), NEW v \in Length,
           NEW a \in Length, NEW e \in Length, NEW n, n = "negotiate",
           p = [name |-> n, version |-> v, action |-> a, step |-> e, requests |-> <<>>]
    PROVE  RoundTrip(d, p)
<1>0. p.name = n /\ p.version = v /\ p.action = a /\ p.step = e /\ p.requests = <<>>
  OBVIOUS
<1>1. n \in DOMAIN Tag /\ n # "add_recipient" /\ n # "reply_code"
  BY DEF Tag
<1> DEFINE s == (U32(v) \o U32(a)) \o U32(e)
<1>2. /\ s \in Seq(Byte) /\ Len(s) = 12 /\ From(s, 13) = <<>>
      /\ Number(SubSeq(s, 1, 4)) = v /\ Number(SubSeq(s, 5, 8)) = a
      /\ Number(SubSeq(s, 9, 12)) = e
  <2>1. Optioned(v, a, e, s)
    BY OptionOf
  <2> QED BY <2>1 DEF Optioned
<1>3. EncodeArguments(p) = s
  <2>1. EncodeArguments(p) = s \o EncodeRequests(p.requests)
    BY <1>0, ArgumentsOf DEF EncodeNegotiate
  <2>2. EncodeRequests(p.requests) = <<>>
    BY <1>0, NoRequests
  <2> HIDE DEF s
  <2>3. s \o <<>> = s
    BY <1>2, CatOf
  <2> QED BY <2>1, <2>2, <2>3
<1> HIDE DEF s
<1>4. \A c : DecodeNegotiate(c, s) = Ok(p)
  <2>1. DecodeRequests(From(s, 13)) = Ok(<<>>)
    BY <1>2, NoRequests
  <2>2. Ok(<<>>).ok /\ Ok(<<>>).signal[1] = <<>>
    BY DEF Ok
  <2>3. ~(Len(s) < 12) /\ ~(Len(s) > 12)
    BY <1>2
  <2> HIDE DEF s
  <2> QED BY <1>2, <2>1, <2>2, <2>3 DEF DecodeNegotiate
<1>5. \A b \in Beyond : Decode(d, Content(p), b) = Ok(p)
  <2>1. DecodeCommand(Tag[n], s) = Ok(p) /\ \A b : DecodeReply(Tag[n], s, b) = Ok(p)
    BY <1>1, <1>4, CommandOf, ReplyOf
  <2> QED BY <1>0, <1>1, <1>2, <1>3, <2>1, ContentOf
<1> QED BY <1>0, <1>1, <1>5, TripOf

\* A text without line breaks is one line.
LEMMA OneLine ==
    ASSUME NEW t \in Seq(Byte), \A i \in DOMAIN t : t[i] # NL
    PROVE  Split(t, NL) = <<t>>
<1> DEFINE at == {i \in DOMAIN t : t[i] = NL}
           Cut1(k) == IF k = 0 THEN 0
                     ELSE IF k > Cardinality(at) THEN Len(t) + 1
                     ELSE CHOOSE i \in at : Cardinality({j \in at : j <= i}) = k
<1>1. Split(t, NL) = [k \in 1..(Cardinality(at) + 1) |-> SubSeq(t, Cut1(k - 1) + 1, Cut1(k) - 1)]
  BY DEF Split
<1>2. at = {}
  OBVIOUS
<1>3. Cardinality(at) = 0
  BY <1>2, FS_EmptySet
<1>4. Cut1(0) + 1 = 1 /\ Cut1(1) - 1 = Len(t)
  BY <1>3
<1> HIDE DEF at, Cut1
<1>5. SubSeq(t, 1, Len(t)) = t
  BY SubSeqFull
<1>6. Split(t, NL) = [k \in 1..1 |-> t]
  <2>1. \A k \in 1..1 : k = 1 /\ k - 1 = 0
    OBVIOUS
  <2>2. \A k \in 1..1 : SubSeq(t, Cut1(k - 1) + 1, Cut1(k) - 1) = t
    BY <1>4, <1>5, <2>1
  <2>3. Cardinality(at) + 1 = 1
    BY <1>3
  <2> QED BY <1>1, <2>2, <2>3
<1> QED BY <1>6

\* Nothing is cut off a string.
LEMMA NoNul ==
    ASSUME NEW t \in Strings
    PROVE  CString(t) = t
<1>1. \A i \in 1..Len(t) : t[i] # NUL
  BY DEF Strings, Bytes
<1>2. NulAt(t) = 0
  BY <1>1 DEF NulAt, SelectInSeq
<1> QED BY <1>2 DEF CString

\* A reply of one line: a code, an extended code of its class, and a text.
Worded(q, e, t) ==
    /\ q \in Strings /\ Len(q) = 3 /\ q[1] \in {52, 53} /\ {q[2], q[3]} \subseteq Digit
    /\ e \in Strings /\ Len(e) = 5 /\ e[2] = DOT /\ e[4] = DOT
    /\ {e[1], e[3], e[5]} \subseteq Digit /\ e[1] = q[1]
    /\ t \in Words /\ (\A i \in DOMAIN t : t[i] # NL) /\ t[Len(t)] # CR

\* The line, and its bytes.
Line(q, e, t) == (q \o (<<SPACE>> \o e)) \o (<<SPACE>> \o t)

Laid(q, e, t, f) ==
    /\ f \in Seq(Byte) /\ Len(f) = 10 + Len(t) /\ f[4] = SPACE /\ f[10] = SPACE
    /\ \A i \in 1..3 : f[i] = q[i]
    /\ \A i \in 1..5 : f[4 + i] = e[i]
    /\ \A i \in 1..Len(t) : f[10 + i] = t[i]

\* A space in front.
LEMMA SpacedOf ==
    ASSUME NEW e \in Seq(Byte), NEW x, x = <<SPACE>> \o e
    PROVE  x \in Seq(Byte) /\ Len(x) = 1 + Len(e) /\ x[1] = SPACE /\ \A i \in 1..Len(e) : x[1 + i] = e[i]
<1> DEFINE o == <<SPACE>>
           y == o \o e
<1>1. SPACE \in Byte
  BY DEF SPACE, Byte
<1>2. o \in Seq(Byte) /\ Len(o) = 1 /\ o[1] = SPACE
  BY <1>1
<1>3. x = y
  OBVIOUS
<1> HIDE DEF o
<1>4. /\ y \in Seq(Byte) /\ Len(y) = Len(o) + Len(e)
      /\ \A i \in 1..(Len(o) + Len(e)) : y[i] = IF i <= Len(o) THEN o[i] ELSE e[i - Len(o)]
  BY <1>2, ConcatProperties
<1> HIDE DEF y
<1>5. Len(e) \in Nat
  OBVIOUS
<1>6. \A i \in 1..Len(e) : y[1 + i] = e[i]
  <2>1. SUFFICES ASSUME NEW i \in 1..Len(e) PROVE y[1 + i] = e[i]
    OBVIOUS
  <2>2. 1 + i \in 1..(Len(o) + Len(e)) /\ ~(1 + i <= Len(o)) /\ (1 + i) - Len(o) = i
    BY <1>2, <1>5
  <2> QED BY <1>4, <2>2
<1>7. y[1] = SPACE /\ Len(y) = 1 + Len(e)
  BY <1>2, <1>4, <1>5
<1> QED BY ONLY <1>3, <1>4, <1>6, <1>7

\* The bytes of a line are those of its parts.
LEMMA LineOf ==
    ASSUME NEW q, NEW e, NEW t, Worded(q, e, t)
    PROVE  Laid(q, e, t, Line(q, e, t))
<1> DEFINE x == <<SPACE>> \o e
           y == <<SPACE>> \o t
           z == q \o x
           f == z \o y
<1>1. /\ q \in Seq(Byte) /\ Len(q) = 3 /\ e \in Seq(Byte) /\ Len(e) = 5
      /\ t \in Seq(Byte) /\ Len(t) \in Nat
  BY DEF Worded, Words, Strings, Bytes
<1>2. x \in Seq(Byte) /\ Len(x) = 6 /\ x[1] = SPACE /\ \A i \in 1..5 : x[1 + i] = e[i]
  <2>1. x \in Seq(Byte) /\ Len(x) = 1 + Len(e) /\ x[1] = SPACE /\ \A i \in 1..Len(e) : x[1 + i] = e[i]
    BY <1>1, SpacedOf
  <2> HIDE DEF x
  <2> QED BY <1>1, <2>1
<1>3. y \in Seq(Byte) /\ Len(y) = 1 + Len(t) /\ y[1] = SPACE /\ \A i \in 1..Len(t) : y[1 + i] = t[i]
  <2>1. t \in Seq(Byte) /\ y = <<SPACE>> \o t
    BY <1>1
  <2> HIDE DEF y
  <2> QED BY ONLY <2>1, SpacedOf
<1> HIDE DEF x, y
<1>4. /\ z \in Seq(Byte) /\ Len(z) = Len(q) + Len(x)
      /\ \A i \in 1..(Len(q) + Len(x)) : z[i] = IF i <= Len(q) THEN q[i] ELSE x[i - Len(q)]
  BY <1>1, <1>2, ConcatProperties
<1> HIDE DEF z
<1>5. /\ f \in Seq(Byte) /\ Len(f) = Len(z) + Len(y)
      /\ \A i \in 1..(Len(z) + Len(y)) : f[i] = IF i <= Len(z) THEN z[i] ELSE y[i - Len(z)]
  <2>1. z \in Seq(Byte) /\ y \in Seq(Byte)
    BY <1>3, <1>4
  <2> QED BY ONLY <2>1, ConcatProperties
<1> HIDE DEF f
<1>6. Len(z) = 9 /\ Len(f) = 10 + Len(t)
  BY <1>1, <1>2, <1>3, <1>4, <1>5
<1>7. \A i \in 1..9 : f[i] = z[i]
  <2>1. \A i \in 1..9 : i \in 1..(Len(z) + Len(y)) /\ i <= Len(z)
    BY <1>1, <1>3, <1>6
  <2> QED BY <1>5, <2>1
<1>8. \A i \in 1..(1 + Len(t)) : f[9 + i] = y[i]
  <2>1. SUFFICES ASSUME NEW i \in 1..(1 + Len(t)) PROVE f[9 + i] = y[i]
    OBVIOUS
  <2>2. 9 + i \in 1..(Len(z) + Len(y)) /\ ~(9 + i <= Len(z)) /\ (9 + i) - Len(z) = i
    BY <1>1, <1>3, <1>6
  <2> QED BY <1>5, <2>2
<1>9. f[10] = SPACE /\ \A i \in 1..Len(t) : f[10 + i] = t[i]
  <2>1. 1 \in 1..(1 + Len(t)) /\ 9 + 1 = 10
    BY <1>1
  <2>2. \A i \in 1..Len(t) : 1 + i \in 1..(1 + Len(t)) /\ 9 + (1 + i) = 10 + i
    BY <1>1
  <2>3. f[10] = y[1]
    BY <1>8, <2>1
  <2>4. \A i \in 1..Len(t) : f[10 + i] = y[1 + i]
    BY <1>8, <2>2
  <2> QED BY <1>3, <2>3, <2>4
<1>10. \A i \in 1..3 : f[i] = q[i]
  <2>1. \A i \in 1..3 : i \in 1..9 /\ i \in 1..(Len(q) + Len(x)) /\ i <= Len(q)
    BY <1>1, <1>2
  <2> QED BY <1>4, <1>7, <2>1
<1>11. \A i \in 1..6 : f[3 + i] = x[i]
  <2>1. SUFFICES ASSUME NEW i \in 1..6 PROVE f[3 + i] = x[i]
    OBVIOUS
  <2>2. 3 + i \in 1..9 /\ 3 + i \in 1..(Len(q) + Len(x)) /\ ~(3 + i <= Len(q)) /\ (3 + i) - Len(q) = i
    BY <1>1, <1>2
  <2> QED BY <1>4, <1>7, <2>2
<1>12. f[4] = SPACE /\ \A i \in 1..5 : f[4 + i] = e[i]
  <2>1. 1 \in 1..6 /\ 3 + 1 = 4 /\ \A i \in 1..5 : 1 + i \in 1..6 /\ 3 + (1 + i) = 4 + i
    OBVIOUS
  <2>2. f[4] = x[1]
    BY <1>11, <2>1
  <2>3. \A i \in 1..5 : f[4 + i] = x[1 + i]
    BY <1>11, <2>1
  <2> QED BY <1>2, <2>2, <2>3
<1>13. Laid(q, e, t, f)
  BY <1>5, <1>6, <1>9, <1>10, <1>12 DEF Laid
<1> QED BY <1>13 DEF Line, f, z, x, y

\* What the decoder finds in the line.
LEMMA WordedOf ==
    ASSUME NEW q, NEW e, NEW t, Worded(q, e, t), NEW f, Laid(q, e, t, f)
    PROVE  DecodeReplyCode(Text(f)) =
             Ok([name |-> "reply_code", code |-> q, extended |-> <<e>>, message |-> <<t>>])
<1> DEFINE s == Text(f)
           r == From(s, 5)
           I == {i \in 1..Len(r) : r[i] = SPACE}
<1>1. /\ q \in Seq(Byte) /\ Len(q) = 3 /\ e \in Seq(Byte) /\ Len(e) = 5
      /\ t \in Seq(Byte) /\ Len(t) \in Nat /\ e \in Strings /\ t \in Strings
      /\ (\A i \in 1..3 : q[i] # NUL) /\ (\A i \in 1..5 : e[i] # NUL)
      /\ (\A i \in 1..Len(t) : t[i] # NUL)
  BY DEF Worded, Words, Strings, Bytes
<1>2. /\ f \in Seq(Byte) /\ Len(f) = 10 + Len(t) /\ f[4] = SPACE /\ f[10] = SPACE
      /\ (\A i \in 1..3 : f[i] = q[i]) /\ (\A i \in 1..5 : f[4 + i] = e[i])
      /\ \A i \in 1..Len(t) : f[10 + i] = t[i]
  BY DEF Laid
<1>3. NUL \in Byte /\ SPACE # NUL /\ DOT # SPACE /\ \A i \in Digit : i # SPACE
  BY DEF NUL, SPACE, DOT, Digit, Byte
<1>4. \A i \in 1..Len(f) : f[i] # NUL
  <2>1. SUFFICES ASSUME NEW i \in 1..Len(f) PROVE f[i] # NUL
    OBVIOUS
  <2>2. CASE i \in 1..3
    BY <1>1, <1>2, <2>2
  <2>3. CASE i \in {4, 10}
    BY <1>2, <1>3, <2>3
  <2>4. CASE i \in 5..9
    <3>1. i - 4 \in 1..5 /\ 4 + (i - 4) = i
      BY <2>4
    <3> QED BY <1>1, <1>2, <3>1
  <2>5. CASE i \in 11..Len(f)
    <3> DEFINE j == i - 10
    <3>1. j \in 1..Len(t) /\ 10 + j = i
      BY <1>1, <1>2, <2>5
    <3> HIDE DEF j
    <3>2. f[10 + j] = t[j] /\ t[j] # NUL
      BY <1>1, <1>2, <3>1
    <3> QED BY <3>1, <3>2
  <2> QED BY <1>1, <1>2, <2>2, <2>3, <2>4, <2>5
<1>5. f \in Strings /\ f # <<>>
  BY <1>1, <1>2, <1>4 DEF Strings, Bytes
<1>6. NulAt(s) # 1 /\ NulAt(s) # 0
  <2>1. f \in Words
    BY <1>5 DEF Words
  <2>2. TextOf(f, s, <<>>)
    BY <1>5, TextEnds
  <2> HIDE DEF s
  <2> QED BY <2>1, <2>2, WordOf DEF TextOf
<1>7. /\ s \in Seq(Byte) /\ Len(s) = 11 + Len(t) /\ s[11 + Len(t)] = NUL
      /\ \A i \in 1..(10 + Len(t)) : s[i] = f[i]
  <2>1. /\ s \in Seq(Byte) /\ Len(s) = Len(f) + 1 /\ s[Len(f) + 1] = NUL
        /\ \A i \in 1..Len(f) : s[i] = f[i]
    BY <1>2, <1>3, AppendProperties DEF Text
  <2> HIDE DEF s
  <2>2. Len(f) + 1 = 11 + Len(t)
    BY <1>1, <1>2
  <2> QED BY <1>2, <2>1, <2>2
<1> HIDE DEF s
<1>8. (\A i \in 1..3 : s[i] = q[i]) /\ s[4] = SPACE
  <2>1. 4 \in 1..(10 + Len(t)) /\ \A i \in 1..3 : i \in 1..(10 + Len(t))
    BY <1>1
  <2> QED BY <1>2, <1>7, <2>1
<1>9. SubSeq(s, 1, 3) = q
  <2> DEFINE y == SubSeq(s, 1, 3)
  <2>1. 1 \in Int /\ 3 \in Int /\ \A i \in 1..3 : s[i] \in Byte
    <3>1. \A i \in 1..3 : q[i] \in Byte
      <4>1. \A i \in 1..Len(q) : q[i] \in Byte
        BY <1>1, ElementOfSeq
      <4> QED BY <1>1, <4>1
    <3> QED BY <1>8, <3>1
  <2>2. y \in Seq(Byte) /\ Len(y) = 3 /\ \A i \in 1..3 : y[i] = s[i]
    BY <1>1, <1>7, <2>1, SubSeqProperties
  <2> HIDE DEF y
  <2>3. y = q
    <3>1. Len(y) = Len(q) /\ \A i \in 1..Len(q) : y[i] = q[i]
      BY <1>1, <1>8, <2>2
    <3> QED BY <1>1, <2>2, <3>1, SeqEqual
  <2> QED BY <2>3 DEF y
<1>10. r \in Seq(Byte) /\ Len(r) = 7 + Len(t) /\ \A i \in 1..(7 + Len(t)) : r[i] = s[4 + i]
  <2> DEFINE k == Len(s)
  <2>1. 5 \in Int /\ k \in Int /\ k = 11 + Len(t)
    BY <1>1, <1>7
  <2>2. \A i \in 5..k : s[i] \in Byte
    BY <1>7
  <2> HIDE DEF k
  <2>3. /\ SubSeq(s, 5, k) \in Seq(Byte) /\ Len(SubSeq(s, 5, k)) = IF 5 <= k THEN k - 5 + 1 ELSE 0
        /\ \A i \in 1..(k - 5 + 1) : SubSeq(s, 5, k)[i] = s[5 + i - 1]
    BY ONLY <2>1, <2>2, SubSeqProperties
  <2>4. r = SubSeq(s, 5, k)
    BY DEF From, k
  <2>5. k - 5 + 1 = 7 + Len(t) /\ 5 <= k /\ \A i \in 1..(7 + Len(t)) : 5 + i - 1 = 4 + i
    BY <1>1, <2>1
  <2> HIDE DEF r
  <2> QED BY <2>3, <2>4, <2>5
<1> HIDE DEF r
<1>11. /\ (\A i \in 1..5 : r[i] = e[i]) /\ r[6] = SPACE
       /\ (\A i \in 1..Len(t) : r[6 + i] = t[i]) /\ r[7 + Len(t)] = NUL
  <2>1. \A i \in 1..(6 + Len(t)) : r[i] = f[4 + i]
    <3>1. \A i \in 1..(6 + Len(t)) : i \in 1..(7 + Len(t)) /\ 4 + i \in 1..(10 + Len(t))
      BY <1>1
    <3> QED BY <1>7, <1>10, <3>1
  <2>2. /\ \A i \in 1..5 : i \in 1..(6 + Len(t))
        /\ 6 \in 1..(6 + Len(t)) /\ 4 + 6 = 10
        /\ \A i \in 1..Len(t) : 6 + i \in 1..(6 + Len(t)) /\ 4 + (6 + i) = 10 + i
        /\ 7 + Len(t) \in 1..(7 + Len(t)) /\ 4 + (7 + Len(t)) = 11 + Len(t)
    BY <1>1
  <2>3. r[6] = f[10] /\ r[7 + Len(t)] = s[11 + Len(t)]
    BY <1>10, <2>1, <2>2
  <2>4. \A i \in 1..Len(t) : r[6 + i] = f[10 + i]
    BY <2>1, <2>2
  <2> QED BY <1>2, <1>7, <2>1, <2>2, <2>3, <2>4
<1>12. SelectInSeq(r, LAMBDA b : b = SPACE) = 6
  <2>1. I \in SUBSET Nat /\ 6 \in I
    BY <1>1, <1>10, <1>11
  <2>2. \A i \in I : 6 <= i
    <3>1. SUFFICES ASSUME NEW i \in I, ~(6 <= i) PROVE FALSE
      OBVIOUS
    <3>2. i \in 1..5 /\ r[i] = SPACE
      BY <1>1, <1>10, <3>1
    <3>3. i = 1 \/ i = 2 \/ i = 3 \/ i = 4 \/ i = 5
      BY <3>2
    <3>4. /\ e[1] # SPACE /\ e[2] # SPACE /\ e[3] # SPACE /\ e[4] # SPACE /\ e[5] # SPACE
      BY <1>3 DEF Worded
    <3> QED BY <1>11, <3>2, <3>3, <3>4
  <2>3. SelectInSeq(r, LAMBDA b : b = SPACE) = Min(I)
    BY <2>1 DEF SelectInSeq
  <2> HIDE DEF I
  <2>4. Min(I) \in I /\ \A j \in I : Min(I) <= j
    BY <2>1, MinOf
  <2>5. Min(I) \in Nat /\ Min(I) <= 6 /\ 6 <= Min(I)
    BY <2>1, <2>2, <2>4
  <2> QED BY <2>3, <2>5
<1>13. CString(SubSeq(r, 1, 5)) = e
  <2> DEFINE y == SubSeq(r, 1, 5)
  <2>1. 1 \in Int /\ 5 \in Int /\ \A i \in 1..5 : r[i] \in Byte
    <3>1. \A i \in 1..5 : e[i] \in Byte
      BY <1>1
    <3> QED BY <1>11, <3>1
  <2>2. y \in Seq(Byte) /\ Len(y) = 5 /\ \A i \in 1..5 : y[i] = r[i]
    BY <1>1, <1>10, <2>1, SubSeqProperties
  <2> HIDE DEF y
  <2>3. y = e
    <3>1. Len(y) = Len(e) /\ \A i \in 1..Len(e) : y[i] = e[i]
      BY <1>1, <1>11, <2>2
    <3> QED BY <1>1, <2>2, <3>1, SeqEqual
  <2> QED BY <1>1, <2>3, NoNul DEF y
<1>14. CString(From(r, 7)) = t
  <2> DEFINE k == Len(r)
             y == SubSeq(r, 7, k)
             u == Text(t)
  <2>1. 7 \in Int /\ k \in Int /\ k = 7 + Len(t)
    BY <1>1, <1>10
  <2>2. \A i \in 7..k : r[i] \in Byte
    BY <1>10
  <2> HIDE DEF k
  <2>3. /\ y \in Seq(Byte) /\ Len(y) = IF 7 <= k THEN k - 7 + 1 ELSE 0
        /\ \A i \in 1..(k - 7 + 1) : y[i] = r[7 + i - 1]
    BY ONLY <2>1, <2>2, SubSeqProperties
  <2> HIDE DEF y
  <2>4. k - 7 + 1 = 1 + Len(t) /\ 7 <= k /\ \A i \in 1..(1 + Len(t)) : 7 + i - 1 = 6 + i
    BY <1>1, <2>1
  <2>5. Len(y) = 1 + Len(t) /\ \A i \in 1..(1 + Len(t)) : y[i] = r[6 + i]
    BY <2>3, <2>4
  <2>6. /\ u \in Seq(Byte) /\ Len(u) = Len(t) + 1 /\ u[Len(t) + 1] = NUL
        /\ \A i \in 1..Len(t) : u[i] = t[i]
    BY <1>1, <1>3, AppendProperties DEF Text
  <2> HIDE DEF u
  <2>7. \A i \in 1..(1 + Len(t)) : y[i] = u[i]
    <3>1. SUFFICES ASSUME NEW i \in 1..(1 + Len(t)) PROVE y[i] = u[i]
      OBVIOUS
    <3>2. CASE i \in 1..Len(t)
      BY <1>11, <2>5, <2>6, <3>2
    <3>3. CASE i = 1 + Len(t)
      <4>1. 6 + i = 7 + Len(t) /\ i = Len(t) + 1
        BY <1>1, <3>3
      <4> QED BY <1>11, <2>5, <2>6, <4>1
    <3> QED BY <1>1, <3>2, <3>3
  <2>8. y = u
    <3>1. Len(y) = Len(u) /\ Len(u) = 1 + Len(t)
      BY <1>1, <2>5, <2>6
    <3> QED BY <2>3, <2>6, <2>7, <3>1, SeqEqual
  <2>9. TextOf(t, u, <<>>)
    BY <1>1, TextEnds DEF u
  <2> QED BY <2>8, <2>9 DEF TextOf, From, y, k
<1>15. ~(Len(s) < 3) /\ s[1] \in {52, 53} /\ {s[2], s[3]} \in SUBSET Digit
  <2>1. s[1] = q[1] /\ s[2] = q[2] /\ s[3] = q[3]
    BY <1>8
  <2> QED BY <1>1, <1>7, <2>1 DEF Worded
<1>16. DecodeReplyCode(s) = Ok([name |-> "reply_code", code |-> q, extended |-> <<e>>, message |-> <<t>>])
  BY <1>6, <1>8, <1>9, <1>12, <1>13, <1>14, <1>15 DEF DecodeReplyCode, WithText, WithValue, r
<1> QED BY <1>16 DEF s

\* How a reply of one line is written.
LEMMA FormatOf ==
    ASSUME NEW p, NEW q, NEW e, NEW t, Worded(q, e, t),
           p.code = q, p.extended = <<e>>, p.message = <<t>>
    PROVE  FormatReply(p) = Line(q, e, t)
<1>1. /\ q \in Seq(Byte) /\ e \in Seq(Byte) /\ t \in Seq(Byte) /\ Len(t) \in Nat /\ t # <<>>
      /\ t[Len(t)] # CR
  BY DEF Worded, Words, Strings, Bytes
<1>2. Split(t, NL) = <<t>>
  BY <1>1, OneLine DEF Worded
<1> DEFINE L(l) == p.code
                   \o (IF p.extended = <<>> THEN <<>> ELSE <<SPACE>> \o p.extended[1])
                   \o (IF l = <<>> THEN <<>>
                       ELSE <<SPACE>> \o IF Last(l) = CR THEN Front(l) ELSE l)
           x == Line(q, e, t)
<1>3. L(t) = x
  <2>1. p.extended # <<>> /\ p.extended[1] = e
    OBVIOUS
  <2>2. Last(t) # CR
    BY <1>1 DEF Last
  <2> QED BY <1>1, <2>1, <2>2 DEF Line
<1>4. x \in Seq(Byte)
  <2>1. Laid(q, e, t, x)
    BY LineOf
  <2> QED BY <2>1 DEF Laid
<1>5. FormatReply(p) = Join([i \in DOMAIN <<t>> |-> L(<<t>>[i])], <<CR, NL>>)
  <2>1. p.message # <<>> /\ p.message[1] = t
    OBVIOUS
  <2> QED BY <1>2, <2>1 DEF FormatReply
<1> HIDE DEF L, x
<1>6. [i \in DOMAIN <<t>> |-> L(<<t>>[i])] = <<x>>
  BY <1>3
<1>7. Join(<<x>>, <<CR, NL>>) = FlattenSeq(<<x>>)
  <2>1. [i \in DOMAIN <<x>> |-> IF i = 1 THEN <<x>>[i] ELSE <<CR, NL>> \o <<x>>[i]] = <<x>>
    OBVIOUS
  <2> QED BY <2>1 DEF Join
<1>8. FlattenSeq(<<x>>) = x
  BY <1>4, FlattenOne
<1> QED BY <1>5, <1>6, <1>7, <1>8 DEF x

\* A refusal in the child's words.
LEMMA ReplyCodeReply ==
    ASSUME NEW p, Packable(Content(p)), NEW q, NEW e, NEW t, Worded(q, e, t),
           NEW n, n = "reply_code",
           p = [name |-> n, code |-> q, extended |-> <<e>>, message |-> <<t>>]
    PROVE  RoundTrip("replies", p)
<1>0. p.name = n /\ p.code = q /\ p.extended = <<e>> /\ p.message = <<t>>
  OBVIOUS
<1>1. n \in DOMAIN Tag /\ n # "add_recipient"
  BY DEF Tag
<1> DEFINE f == Line(q, e, t)
           s == Text(f)
<1>2. Laid(q, e, t, f)
  BY LineOf
<1>3. FormatReply(p) = f
  BY <1>0, FormatOf
<1> HIDE DEF f
<1>4. s \in Seq(Byte)
  <2>1. f \in Seq(Byte) /\ NUL \in Byte
    BY <1>2 DEF Laid, NUL, Byte
  <2> QED BY <2>1 DEF Text
<1>5. EncodeArguments(p) = s
  <2>1. EncodeArguments(p) = EncodeStatus(p)
    BY <1>0, ArgumentsOf
  <2> QED BY <1>0, <1>3, <2>1 DEF EncodeStatus
<1>6. DecodeReplyCode(s) = Ok(p)
  BY <1>2, WordedOf
<1> HIDE DEF s
<1>7. \A b : DecodeReply(Tag[n], s, b) = Ok(p)
  BY <1>1, <1>6, ReplyOf
<1>8. \A b \in Beyond : Decode("replies", Content(p), b) = Ok(p)
  BY <1>0, <1>1, <1>4, <1>5, <1>7, ContentOf
<1>9. SetReply(p)
  <2>1. p.extended[1] = e /\ p.code[1] = q[1]
    BY <1>0
  <2> QED BY <2>1 DEF SetReply, Worded
<1> QED BY <1>8, <1>9, TripOf

-----------------------------------------------------------------------------
(* The messages that are proved to arrive, one packet at a time.             *)
Options == [name : {"negotiate"}, version : Length, action : Length, step : Length,
            requests : {<<>>}]

PlainCommands ==
    [name : {"data", "end_of_header", "abort", "quit"}]
    \cup [name : {"helo", "envelope_from", "envelope_recipient", "unknown"},
          args : {<<t>> : t \in Words}]
    \cup [name : {"header"}, args : Words \X Strings]
    \cup [name : {"body", "end_of_message"}, args : {<<s>> : s \in Bytes}]
    \cup {m \in [name : {"connect"}, args : {<<h>> : h \in Words},
                 family : {UNKNOWN, UNIX, INET, INET6}, port : {<<>>} \cup Byte \X Byte,
                 address : Strings] : Address(m.family, m.port, m.address)}
    \cup Options

PlainReplies ==
    [name : StatusNames \cup {"progress", "connection_failure", "shutdown", "skip"}]
    \cup [name : {"delete_recipient", "quarantine"}, args : {<<t>> : t \in Words}]
    \cup [name : {"replace_body"}, args : {<<s>> : s \in Bytes}]
    \cup [name : {"add_header"}, args : Words \X Strings]
    \cup [name : {"insert_header", "change_header"}, index : Length, args : Words \X Strings]
    \cup [name : {"change_from"}, args : {<<a>> : a \in Words} \cup (Words \X Words)]
    \cup [name : {"add_recipient"}, args : {<<a>> : a \in Words} \cup (Words \X Strings)]
    \cup {r \in [name : {"reply_code"}, code : Strings, extended : {<<e>> : e \in Strings},
                 message : {<<t>> : t \in Words}] :
            Worded(r.code, r.extended[1], r.message[1])}
    \cup Options

Plain(d) == IF d = "commands" THEN PlainCommands ELSE PlainReplies

\* Options arrive in both directions.
LEMMA OptionsArrive ==
    ASSUME NEW d \in {"commands", "replies"}, NEW p \in Options, Packable(Content(p))
    PROVE  RoundTrip(d, p)
<1>1. PICK v \in Length, a \in Length, e \in Length :
        p = [name |-> "negotiate", version |-> v, action |-> a, step |-> e, requests |-> <<>>]
  BY DEF Options
<1> QED BY <1>1, NegotiateBoth

\* Two arguments.
LEMMA PairOf ==
    ASSUME NEW S, NEW T, NEW n, NEW p \in [name : {n}, args : S \X T]
    PROVE  \E a \in S, b \in T : p = [name |-> n, args |-> <<a, b>>]
OBVIOUS

\* One argument.
LEMMA SingleOf ==
    ASSUME NEW S, NEW N, NEW p \in [name : N, args : {<<s>> : s \in S}]
    PROVE  \E n \in N, s \in S : p = [name |-> n, args |-> <<s>>]
OBVIOUS

\* Plain commands arrive.
LEMMA CommandsArrive ==
    ASSUME NEW p \in PlainCommands, Packable(Content(p))
    PROVE  RoundTrip("commands", p)
<1>1. CASE p \in [name : {"data", "end_of_header", "abort", "quit"}]
  <2>1. PICK n \in {"data", "end_of_header", "abort", "quit"} : p = [name |-> n]
    BY <1>1
  <2> QED BY <2>1, BareCommands
<1>2. CASE p \in [name : {"helo", "envelope_from", "envelope_recipient", "unknown"},
                  args : {<<t>> : t \in Words}]
  <2>1. PICK n \in {"helo", "envelope_from", "envelope_recipient", "unknown"}, t \in Words :
          p = [name |-> n, args |-> <<t>>]
    BY <1>2, SingleOf
  <2> QED BY <2>1, TextCommands
<1>3. CASE p \in [name : {"header"}, args : Words \X Strings]
  <2>1. PICK a \in Words, v \in Strings : p = [name |-> "header", args |-> <<a, v>>]
    BY <1>3, PairOf
  <2> QED BY <2>1, HeaderCommand
<1>4. CASE p \in [name : {"body", "end_of_message"}, args : {<<s>> : s \in Bytes}]
  <2>1. PICK n \in {"body", "end_of_message"}, s \in Bytes : p = [name |-> n, args |-> <<s>>]
    BY <1>4, SingleOf
  <2> QED BY <2>1, BytesCommands DEF Bytes
<1>5. CASE p \in {m \in [name : {"connect"}, args : {<<h>> : h \in Words},
                         family : {UNKNOWN, UNIX, INET, INET6}, port : {<<>>} \cup Byte \X Byte,
                         address : Strings] : Address(m.family, m.port, m.address)}
  <2>1. PICK h \in Words, f \in {UNKNOWN, UNIX, INET, INET6}, q \in {<<>>} \cup Byte \X Byte,
             a \in Strings :
          p = [name |-> "connect", args |-> <<h>>, family |-> f, port |-> q, address |-> a]
    BY <1>5
  <2>2. Address(f, q, a)
    <3>1. p.family = f /\ p.port = q /\ p.address = a
      BY <2>1
    <3> QED BY <1>5, <3>1
  <2> QED BY <2>1, <2>2, ConnectCommand
<1> QED BY <1>1, <1>2, <1>3, <1>4, <1>5, OptionsArrive DEF PlainCommands

\* Plain replies arrive.
LEMMA RepliesArrive ==
    ASSUME NEW p \in PlainReplies, Packable(Content(p))
    PROVE  RoundTrip("replies", p)
<1>1. CASE p \in [name : StatusNames \cup {"progress", "connection_failure", "shutdown", "skip"}]
  <2>1. PICK n \in StatusNames \cup {"progress", "connection_failure", "shutdown", "skip"} :
          p = [name |-> n]
    BY <1>1
  <2> QED BY <2>1, BareReplies
<1>2. CASE p \in [name : {"delete_recipient", "quarantine"}, args : {<<t>> : t \in Words}]
  <2>1. PICK n \in {"delete_recipient", "quarantine"}, t \in Words : p = [name |-> n, args |-> <<t>>]
    BY <1>2, SingleOf
  <2> QED BY <2>1, TextReplies
<1>3. CASE p \in [name : {"replace_body"}, args : {<<s>> : s \in Bytes}]
  <2>1. PICK n \in {"replace_body"}, s \in Bytes : p = [name |-> n, args |-> <<s>>]
    BY <1>3, SingleOf
  <2> QED BY <2>1, BytesReply DEF Bytes
<1>4. CASE p \in [name : {"add_header"}, args : Words \X Strings]
  <2>1. PICK a \in Words, v \in Strings : p = [name |-> "add_header", args |-> <<a, v>>]
    BY <1>4, PairOf
  <2> QED BY <2>1, AddHeaderReply
<1>5. CASE p \in [name : {"insert_header", "change_header"}, index : Length, args : Words \X Strings]
  <2>1. PICK n \in {"insert_header", "change_header"}, i \in Length, a \in Words, v \in Strings :
          p = [name |-> n, index |-> i, args |-> <<a, v>>]
    BY <1>5
  <2> QED BY <2>1, IndexedReplies
<1>6. CASE p \in [name : {"change_from"}, args : {<<a>> : a \in Words} \cup (Words \X Words)]
  <2>1. PICK a \in Words : \/ p = [name |-> "change_from", args |-> <<a>>]
                           \/ \E v \in Words : p = [name |-> "change_from", args |-> <<a, v>>]
    BY <1>6
  <2> QED BY <2>1, ChangeFromReply
<1>7. CASE p \in [name : {"add_recipient"}, args : {<<a>> : a \in Words} \cup (Words \X Strings)]
  <2>1. PICK a \in Words : \/ p = [name |-> "add_recipient", args |-> <<a>>]
                           \/ \E v \in Strings : p = [name |-> "add_recipient", args |-> <<a, v>>]
    BY <1>7
  <2> QED BY <2>1, AddRecipientReply
<1>8. CASE p \in {r \in [name : {"reply_code"}, code : Strings, extended : {<<e>> : e \in Strings},
                         message : {<<t>> : t \in Words}] :
                    Worded(r.code, r.extended[1], r.message[1])}
  <2>1. PICK q \in Strings, e \in Strings, t \in Words :
          p = [name |-> "reply_code", code |-> q, extended |-> <<e>>, message |-> <<t>>]
    BY <1>8
  <2>2. Worded(q, e, t)
    <3>1. p.code = q /\ p.extended[1] = e /\ p.message[1] = t
      BY <2>1
    <3> QED BY <1>8, <3>1
  <2> QED BY <2>1, <2>2, ReplyCodeReply
<1> QED BY <1>1, <1>2, <1>3, <1>4, <1>5, <1>6, <1>7, <1>8, OptionsArrive DEF PlainReplies

\* What is decoded from a packet of a plain message, whatever is behind it, says
\* what was encoded, and a refusal of one line is decoded word for word.
THEOREM PlainRoundTrips ==
    ASSUME NEW d \in {"commands", "replies"}, NEW p \in Plain(d), Packable(Content(p))
    PROVE  RoundTrip(d, p)
BY CommandsArrive, RepliesArrive DEF Plain

\* No plain message is foreign, and a body is bytes.
LEMMA PlainNames ==
    ASSUME NEW d \in {"commands", "replies"}, NEW m \in Plain(d)
    PROVE  /\ m.name # "foreign"
           /\ m.name \in {"body", "replace_body"} =>
                IsBody(m) /\ \A s \in Bytes : [name |-> m.name, args |-> <<s>>] \in Plain(d)
<1>1. ASSUME NEW n, NEW s \in Bytes, m = [name |-> n, args |-> <<s>>]
      PROVE  IsBody(m)
  <2>1. m.name = n /\ m.args[1] = s
    BY <1>1
  <2> QED BY <1>1, <2>1 DEF IsBody
<1>2. CASE d = "commands"
  <2>1. m \in PlainCommands
    BY <1>2 DEF Plain
  <2>2. CASE m \in [name : {"body", "end_of_message"}, args : {<<s>> : s \in Bytes}]
    <3>1. PICK n \in {"body", "end_of_message"}, s \in Bytes : m = [name |-> n, args |-> <<s>>]
      BY <2>2, SingleOf
    <3>2. m.name = n
      BY <3>1
    <3>3. \A z \in Bytes : [name |-> n, args |-> <<z>>] \in PlainCommands
      BY DEF PlainCommands
    <3> QED BY <1>1, <1>2, <3>1, <3>2, <3>3 DEF Plain
  <2>3. CASE m \notin [name : {"body", "end_of_message"}, args : {<<s>> : s \in Bytes}]
    <3>1. m.name \notin {"foreign", "body", "replace_body"}
      BY <2>1, <2>3 DEF PlainCommands, Options
    <3> QED BY <3>1
  <2> QED BY <2>2, <2>3
<1>3. CASE d = "replies"
  <2>1. m \in PlainReplies
    BY <1>3 DEF Plain
  <2>2. CASE m \in [name : {"replace_body"}, args : {<<s>> : s \in Bytes}]
    <3>1. PICK n \in {"replace_body"}, s \in Bytes : m = [name |-> n, args |-> <<s>>]
      BY <2>2, SingleOf
    <3>2. m.name = n
      BY <3>1
    <3>3. \A z \in Bytes : [name |-> n, args |-> <<z>>] \in PlainReplies
      BY DEF PlainReplies
    <3> QED BY <1>1, <1>3, <3>1, <3>2, <3>3 DEF Plain
  <2>3. CASE m \notin [name : {"replace_body"}, args : {<<s>> : s \in Bytes}]
    <3>1. m.name \notin {"foreign", "body", "replace_body"}
      BY <2>1, <2>3 DEF PlainReplies, Options, StatusNames
    <3> QED BY <3>1
  <2> QED BY <2>2, <2>3
<1> QED BY <1>2, <1>3

\* A piece of a plain message is plain.
LEMMA PlainParts ==
    ASSUME NEW d \in {"commands", "replies"}, NEW m \in Plain(d), NEW p \in Range(Pieces(m))
    PROVE  p \in Plain(d)
<1>1. m.name \in {"body", "replace_body"} =>
        IsBody(m) /\ \A s \in Bytes : [name |-> m.name, args |-> <<s>>] \in Plain(d)
  BY PlainNames
<1>2. PICK V : Meaning(m) \in Seq(V)
  BY <1>1, MeaningSeq
<1>3. /\ m.name \notin {"body", "replace_body"} => Pieces(m) = <<m>>
      /\ \A i \in DOMAIN Pieces(m) :
           /\ Pieces(m)[i].name = m.name
           /\ m.name \in {"body", "replace_body"} => IsBody(Pieces(m)[i])
  BY <1>1, <1>2, CodecAssumption, PiecesOf
<1>4. PICK i \in DOMAIN Pieces(m) : p = Pieces(m)[i]
  BY DEF Range
<1>5. CASE m.name \notin {"body", "replace_body"}
  <2>1. p = m
    BY <1>3, <1>4, <1>5
  <2> QED BY <2>1
<1>6. CASE m.name \in {"body", "replace_body"}
  <2>1. p.name = m.name /\ IsBody(p)
    BY <1>3, <1>4, <1>6
  <2>2. p = [name |-> m.name, args |-> <<p.args[1]>>] /\ p.args[1] \in Bytes
    BY <2>1 DEF IsBody
  <2> QED BY <1>1, <1>6, <2>2
<1> QED BY <1>5, <1>6

\* What the theorems of the codec assume of its messages holds of all plain
\* messages whose pieces can be packed, beside any packets that are refused.
THEOREM PlainSound ==
    ASSUME \A d \in DOMAIN Messages :
             /\ Encoded(d) \subseteq Plain(d)
             /\ \A p \in Part(d) : Packable(Content(p))
             /\ \A c \in Malformed[d] : Refused(d, c)
    PROVE  Sound
<1>1. SUFFICES ASSUME NEW d \in DOMAIN Messages
               PROVE  /\ \A m \in Encoded(d) :
                           /\ m.name # "foreign"
                           /\ m.name \in {"body", "replace_body"} => IsBody(m)
                      /\ \A p \in Part(d) : RoundTrip(d, p)
                      /\ \A c \in Malformed[d] : Refused(d, c)
  BY DEF Sound
<1>2. d \in {"commands", "replies"}
  BY CodecAssumption
<1>3. ASSUME NEW m \in Encoded(d)
      PROVE  m.name # "foreign" /\ (m.name \in {"body", "replace_body"} => IsBody(m))
  <2>1. m \in Plain(d)
    OBVIOUS
  <2> QED BY <1>2, <2>1, PlainNames
<1>4. ASSUME NEW p \in Part(d) PROVE RoundTrip(d, p)
  <2>1. PICK m \in Encoded(d) : p \in Range(Pieces(m))
    BY DEF Part
  <2>2. m \in Plain(d) /\ Packable(Content(p))
    BY <2>1
  <2>3. p \in Plain(d)
    BY <1>2, <2>1, <2>2, PlainParts
  <2> QED BY <1>2, <2>2, <2>3, PlainRoundTrips
<1> QED BY <1>3, <1>4
=============================================================================
