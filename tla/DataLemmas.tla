----------------------------- MODULE DataLemmas -----------------------------
(***************************************************************************)
(* Facts about numbers, finite sets and sequences that the proofs about    *)
(* the configuration and the logger share: what std::map's order and its   *)
(* loops, the bounds of ids, and a list made of pieces rest on.            *)
(***************************************************************************)
EXTENDS SequencesExt, FiniteSetTheorems, SequenceTheorems, TLAPS

\* Induction over the natural numbers, for a set in place of a predicate.
LEMMA Induction ==
    ASSUME NEW S, 0 \in S, \A n \in Nat : n \in S => n + 1 \in S
    PROVE  Nat \subseteq S
<1> SUFFICES ASSUME Nat \ S # {} PROVE FALSE
  OBVIOUS
<1>1. PICK x \in Nat \ S : \A y \in Nat \ S : <<y, x>> \notin OpToRel(<, Nat)
  <2>1. Nat \ S \subseteq Nat
    OBVIOUS
  <2> QED  BY <2>1, NatLessThanWellFounded, WFMin
<1>2. x - 1 \in Nat /\ x - 1 < x /\ (x - 1) + 1 = x
  OBVIOUS
<1>3. <<x - 1, x>> \in OpToRel(<, Nat)
  BY <1>2 DEF OpToRel
<1>4. x - 1 \in S
  BY <1>1, <1>2, <1>3
<1>5. (x - 1) + 1 \in S
  BY <1>2, <1>4
<1> QED  BY <1>2, <1>5

\* A set of natural numbers has a least element: the first listener a loop
\* over std::map comes to.
LEMMA Smallest ==
    ASSUME NEW S, S \subseteq Nat, S # {}
    PROVE  Min(S) \in S /\ \A y \in S : Min(S) <= y
<1>1. PICK x \in S : \A y \in S : <<y, x>> \notin OpToRel(<, Nat)
  BY NatLessThanWellFounded, WFMin
<1>2. ASSUME NEW y \in S PROVE x <= y
  <2>1. x \in Nat /\ y \in Nat
    OBVIOUS
  <2>2. y < x => <<y, x>> \in OpToRel(<, Nat)
    BY <2>1 DEF OpToRel
  <2>3. ~(y < x)
    BY <1>1, <2>2
  <2> QED  BY <2>1, <2>3
<1> QED  BY <1>2 DEF Min

\* A finite set of natural numbers is bounded.
LEMMA Bounded ==
    ASSUME NEW S, S \subseteq Nat, IsFiniteSet(S)
    PROVE  \E b \in Nat : \A x \in S : x <= b
<1>1. PICK n \in Nat : ExistsBijection(1 .. n, S)
  BY FS_NatBijection
<1>2. PICK f \in [1 .. n -> S] : \A x \in S : \E i \in 1 .. n : f[i] = x
  BY <1>1 DEF ExistsBijection, Bijection, Surjection
<1> DEFINE B == {m \in Nat : m <= n => \E b \in Nat : \A i \in 1 .. m : f[i] <= b}
<1>3. 0 \in B
  OBVIOUS
<1>4. ASSUME NEW m \in Nat, m \in B PROVE m + 1 \in B
  <2> SUFFICES ASSUME m + 1 <= n
               PROVE  \E b \in Nat : \A i \in 1 .. m + 1 : f[i] <= b
    OBVIOUS
  <2>1. PICK b \in Nat : \A i \in 1 .. m : f[i] <= b
    BY <1>4
  <2>2. f[m + 1] \in Nat
    <3>1. m + 1 \in 1 .. n
      OBVIOUS
    <3>2. f[m + 1] \in S
      BY <3>1
    <3> QED  BY <3>2
  <2>3. b + f[m + 1] \in Nat /\ \A i \in 1 .. m + 1 : f[i] <= b + f[m + 1]
    <3>1. ASSUME NEW i \in 1 .. m + 1 PROVE f[i] <= b + f[m + 1]
      <4>1. i \in 1 .. n /\ (i \in 1 .. m \/ i = m + 1)
        OBVIOUS
      <4>2. f[i] \in S
        BY <4>1
      <4>3. f[i] \in Nat
        BY <4>2
      <4> QED  BY <2>1, <2>2, <4>1, <4>3
    <3> QED  BY <2>2, <3>1
  <2> QED  BY <2>3
<1>5. n \in B
  <2> HIDE DEF B
  <2> QED  BY <1>3, <1>4, Induction
<1>6. PICK b \in Nat : \A i \in 1 .. n : f[i] <= b
  BY <1>5
<1> QED  BY <1>2, <1>6

\* A finite set of natural numbers has a greatest element: the last of equal
\* keys, the innermost call that catches.
LEMMA Largest ==
    ASSUME NEW S, S \subseteq Nat, IsFiniteSet(S), S # {}
    PROVE  Max(S) \in S /\ \A y \in S : y <= Max(S)
<1> DEFINE B == {b \in Nat : \A x \in S : x <= b}
<1>1. B \subseteq Nat /\ B # {}
  BY Bounded
<1>2. PICK m \in B : \A b \in B : m <= b
  <2> HIDE DEF B
  <2> QED  BY <1>1, Smallest
<1>3. m \in S
  <2> SUFFICES ASSUME m \notin S PROVE FALSE
    OBVIOUS
  <2>1. \A x \in S : x <= m - 1
    OBVIOUS
  <2>2. m # 0
    <3>1. PICK x \in S : TRUE
      OBVIOUS
    <3>2. x \in Nat /\ x <= m
      BY <1>2
    <3> QED  BY <3>2
  <2>3. m - 1 \in Nat /\ ~(m <= m - 1)
    BY <2>2
  <2> QED  BY <1>2, <2>1, <2>3
<1>4. \A x \in S : m >= x
  OBVIOUS
<1>5. Max(S) \in S /\ \A y \in S : Max(S) >= y
  BY <1>3, <1>4 DEF Max
<1> QED  BY <1>5

\* SetToSeq lists each element of a finite set once: the order std::set and
\* std::map are dumped in is some order.
LEMMA SetListed ==
    ASSUME NEW S, IsFiniteSet(S)
    PROVE  /\ SetToSeq(S) \in Seq(S)
           /\ DOMAIN SetToSeq(S) = 1 .. Len(SetToSeq(S))
           /\ Len(SetToSeq(S)) = Cardinality(S)
           /\ IsInjective(SetToSeq(S))
           /\ Range(SetToSeq(S)) = S
<1> DEFINE n == Cardinality(S)
<1>1. n \in Nat
  BY FS_CardinalityType
<1>2. PICK k \in Nat : ExistsBijection(1 .. k, S)
  BY FS_NatBijection
<1>3. k = n
  BY <1>2, FS_CountingElements
<1>4. \E f \in [1 .. n -> S] : IsInjective(f)
  BY <1>2, <1>3 DEF ExistsBijection, Bijection, Injection
<1>5. SetToSeq(S) \in [1 .. n -> S] /\ IsInjective(SetToSeq(S))
  BY <1>4 DEF SetToSeq
<1>6. SetToSeq(S) \in Surjection(1 .. n, S)
  <2>1. SetToSeq(S) \in Injection(1 .. n, S)
    BY <1>5 DEF Injection
  <2>2. IsFiniteSet(1 .. n) /\ Cardinality(1 .. n) = n
    BY <1>1, FS_Interval
  <2> QED  BY <2>1, <2>2, FS_Injection
<1>7. Range(SetToSeq(S)) = S
  BY <1>5, <1>6 DEF Surjection, Range
<1>8. SetToSeq(S) \in Seq(S) /\ Len(SetToSeq(S)) = n
  BY <1>1, <1>5
<1> QED  BY <1>1, <1>5, <1>7, <1>8

\* A function on 1 .. n is a sequence.
LEMMA FunctionIsSeq ==
    ASSUME NEW S, NEW n \in Nat, NEW f, f = [i \in 1 .. n |-> f[i]], \A i \in 1 .. n : f[i] \in S
    PROVE  f \in Seq(S) /\ Len(f) = n
<1>1. [i \in 1 .. n |-> f[i]] \in Seq(S) /\ Len([i \in 1 .. n |-> f[i]]) = n
  OBVIOUS
<1> QED  BY <1>1

----------------------------------------------------------------------------
(* Concatenation of a list's pieces.                                       *)

\* The partial concatenations of the pieces s.
IsFlatten(g, s) ==
    g = [i \in 1 .. Len(s) |-> IF i = 1 THEN s[i] ELSE g[i - 1] \o s[i]]

\* There are partial concatenations of any list of pieces.
LEMMA FlattenExists ==
    ASSUME NEW E, NEW s \in Seq(E)
    PROVE  \E g : IsFlatten(g, s)
<1> DEFINE n == Len(s)
           Upto(g, m) == g = [i \in 1 .. m |-> IF i = 1 THEN s[i] ELSE g[i - 1] \o s[i]]
           B == {m \in Nat : \E g : Upto(g, m)}
<1>1. n \in Nat
  OBVIOUS
<1>2. 0 \in B
  <2>1. Upto(<<>>, 0)
    OBVIOUS
  <2> QED  BY <2>1
<1>3. ASSUME NEW m \in Nat, m \in B PROVE m + 1 \in B
  <2>1. PICK g : Upto(g, m)
    BY <1>3
  <2> DEFINE h == [i \in 1 .. m + 1 |-> IF i \in 1 .. m THEN g[i]
                                        ELSE IF i = 1 THEN s[i] ELSE g[i - 1] \o s[i]]
  <2>2. \A i \in 1 .. m + 1 : h[i] = IF i = 1 THEN s[i] ELSE h[i - 1] \o s[i]
    <3> TAKE i \in 1 .. m + 1
    <3>1. i # 1 => i - 1 \in 1 .. m
      OBVIOUS
    <3>2. i # 1 => h[i - 1] = g[i - 1]
      BY <3>1
    <3>3. i \in 1 .. m => g[i] = IF i = 1 THEN s[i] ELSE g[i - 1] \o s[i]
      BY <2>1
    <3> HIDE DEF Upto
    <3> QED  BY <3>2, <3>3
  <2>3. h = [i \in 1 .. m + 1 |-> h[i]]
    OBVIOUS
  <2>4. Upto(h, m + 1)
    <3> HIDE DEF h
    <3> QED  BY <2>2, <2>3
  <2> HIDE DEF h, Upto
  <2> QED  BY <2>4
<1>4. n \in B
  <2> HIDE DEF B
  <2> QED  BY <1>1, <1>2, <1>3, Induction
<1> QED  BY <1>4 DEF IsFlatten

\* They are the same ones for a list and for one that continues it.
LEMMA FlattenPrefix ==
    ASSUME NEW s, NEW t, NEW g, NEW h,
           IsFlatten(g, s), IsFlatten(h, t),
           Len(s) \in Nat, Len(t) \in Nat, Len(s) <= Len(t),
           \A i \in 1 .. Len(s) : s[i] = t[i]
    PROVE  \A i \in 1 .. Len(s) : g[i] = h[i]
<1> DEFINE B == {m \in Nat : m \in 1 .. Len(s) => g[m] = h[m]}
<1>1. 0 \in B
  OBVIOUS
<1>2. ASSUME NEW m \in Nat, m \in B PROVE m + 1 \in B
  <2> SUFFICES ASSUME m + 1 \in 1 .. Len(s) PROVE g[m + 1] = h[m + 1]
    OBVIOUS
  <2>1. m + 1 \in 1 .. Len(t) /\ s[m + 1] = t[m + 1] /\ (m + 1) - 1 = m
    OBVIOUS
  <2>a. /\ \A k \in 1 .. Len(s) : g[k] = IF k = 1 THEN s[k] ELSE g[k - 1] \o s[k]
        /\ \A k \in 1 .. Len(t) : h[k] = IF k = 1 THEN t[k] ELSE h[k - 1] \o t[k]
    BY DEF IsFlatten
  <2>2. g[m + 1] = IF m + 1 = 1 THEN s[m + 1] ELSE g[m] \o s[m + 1]
    BY <2>1, <2>a
  <2>3. h[m + 1] = IF m + 1 = 1 THEN t[m + 1] ELSE h[m] \o t[m + 1]
    BY <2>1, <2>a
  <2>4. m + 1 # 1 => g[m] = h[m]
    BY <1>2
  <2> QED  BY <2>1, <2>2, <2>3, <2>4
<1>3. Nat \subseteq B
  <2> HIDE DEF B
  <2> QED  BY <1>1, <1>2, Induction
<1> QED  BY <1>3

\* FlattenSeq is the last of them.
LEMMA FlattenLast ==
    ASSUME NEW E, NEW s \in Seq(E), s # <<>>
    PROVE  \E g : IsFlatten(g, s) /\ FlattenSeq(s) = g[Len(s)]
<1>1. Len(s) # 0
  OBVIOUS
<1> DEFINE f == CHOOSE g : IsFlatten(g, s)
<1>2. IsFlatten(f, s)
  BY FlattenExists
<1>3. FlattenSeq(s) = f[Len(s)]
  BY <1>1 DEF FlattenSeq, IsFlatten
<1> QED  BY <1>2, <1>3

\* The concatenation of sequences over S is one.
LEMMA FlattenType ==
    ASSUME NEW S, NEW s \in Seq(Seq(S))
    PROVE  FlattenSeq(s) \in Seq(S)
<1>1. CASE s = <<>>
  BY <1>1 DEF FlattenSeq
<1>2. CASE s # <<>>
  <2>1. PICK g : IsFlatten(g, s) /\ FlattenSeq(s) = g[Len(s)]
    BY <1>2, FlattenLast
  <2> DEFINE B == {m \in Nat : m \in 1 .. Len(s) => g[m] \in Seq(S)}
  <2>2. 0 \in B
    OBVIOUS
  <2>3. ASSUME NEW m \in Nat, m \in B PROVE m + 1 \in B
    <3> SUFFICES ASSUME m + 1 \in 1 .. Len(s) PROVE g[m + 1] \in Seq(S)
      OBVIOUS
    <3>1. g[m + 1] = IF m + 1 = 1 THEN s[m + 1] ELSE g[m] \o s[m + 1]
      <4>1. (m + 1) - 1 = m
        OBVIOUS
      <4> QED  BY <2>1, <4>1 DEF IsFlatten
    <3>2. s[m + 1] \in Seq(S)
      OBVIOUS
    <3>3. m + 1 # 1 => g[m] \in Seq(S)
      BY <2>3
    <3> QED  BY <3>1, <3>2, <3>3
  <2>4. Nat \subseteq B
    <3> HIDE DEF B
    <3> QED  BY <2>2, <2>3, Induction
  <2>5. Len(s) \in Nat /\ Len(s) \in 1 .. Len(s)
    BY <1>2
  <2> QED  BY <2>1, <2>4, <2>5
<1> QED  BY <1>1, <1>2

\* A piece put at the end of the list is put at the end of the whole.
LEMMA FlattenAppend ==
    ASSUME NEW S, NEW s \in Seq(Seq(S)), NEW e \in Seq(S)
    PROVE  FlattenSeq(Append(s, e)) = FlattenSeq(s) \o e
<1> DEFINE t == Append(s, e)
           n == Len(s)
<1>1. t \in Seq(Seq(S)) /\ t # <<>> /\ Len(t) = n + 1 /\ t[n + 1] = e /\ n \in Nat
  BY AppendProperties, LenProperties
<1>2. \A i \in 1 .. n : s[i] = t[i]
  BY AppendProperties
<1>3. PICK h : IsFlatten(h, t) /\ FlattenSeq(t) = h[n + 1]
  <2> HIDE DEF t
  <2> QED  BY <1>1, FlattenLast
<1>4. h[n + 1] = IF n + 1 = 1 THEN e ELSE h[n] \o e
  <2>1. n + 1 \in 1 .. Len(t) /\ (n + 1) - 1 = n
    BY <1>1
  <2> HIDE DEF t, n
  <2> QED  BY <1>1, <1>3, <2>1 DEF IsFlatten
<1>5. CASE s = <<>>
  <2>1. FlattenSeq(s) = <<>> /\ n = 0 /\ <<>> \o e = e
    BY <1>5 DEF FlattenSeq
  <2> QED  BY <1>3, <1>4, <2>1
<1>6. CASE s # <<>>
  <2>1. PICK g : IsFlatten(g, s) /\ FlattenSeq(s) = g[n]
    BY <1>6, FlattenLast
  <2>2. n # 0 /\ n \in 1 .. n
    BY <1>6
  <2>3. \A i \in 1 .. n : g[i] = h[i]
    <3>1. /\ Len(s) \in Nat /\ Len(t) \in Nat /\ Len(s) <= Len(t)
          /\ \A i \in 1 .. Len(s) : s[i] = t[i]
      BY <1>1, <1>2
    <3>2. IsFlatten(g, s) /\ IsFlatten(h, t)
      BY <1>3, <2>1
    <3> HIDE DEF t
    <3>3. \A i \in 1 .. Len(s) : g[i] = h[i]
      BY <3>1, <3>2, FlattenPrefix, SMTT(30)
    <3> QED  BY <3>3
  <2>4. g[n] = h[n]
    BY <2>2, <2>3
  <2> QED  BY <1>3, <1>4, <2>1, <2>2, <2>4
<1> QED  BY <1>5, <1>6

\* A list of pieces of one element each is the list of those elements.
LEMMA FlattenOnes ==
    ASSUME NEW S, NEW t \in Seq(S)
    PROVE  FlattenSeq([i \in DOMAIN t |-> <<t[i]>>]) = t
<1> DEFINE s == [i \in DOMAIN t |-> <<t[i]>>]
           n == Len(t)
<1>1. DOMAIN t = 1 .. n /\ n \in Nat /\ t = [i \in 1 .. n |-> t[i]] /\ \A i \in 1 .. n : t[i] \in S
  BY ElementOfSeq
<1>2. s \in Seq(Seq(S)) /\ Len(s) = n /\ \A i \in 1 .. n : s[i] = <<t[i]>>
  <2>1. \A i \in 1 .. n : s[i] = <<t[i]>> /\ s[i] \in Seq(S)
    BY <1>1
  <2>2. s = [i \in 1 .. n |-> s[i]]
    BY <1>1
  <2> HIDE DEF s, n
  <2> QED  BY <1>1, <2>1, <2>2, FunctionIsSeq
<1> HIDE DEF s, n
<1>3. CASE n = 0
  <2>1. s = <<>> /\ t = <<>>
    BY <1>1, <1>2, <1>3
  <2> QED  BY <2>1 DEF FlattenSeq, s
<1>4. CASE n # 0
  <2>1. PICK g : IsFlatten(g, s) /\ FlattenSeq(s) = g[n]
    <3>1. s # <<>>
      BY <1>2, <1>4
    <3> QED  BY <1>2, <3>1, FlattenLast
  <2> DEFINE B == {m \in Nat : m \in 1 .. n => g[m] \in Seq(S) /\ Len(g[m]) = m
                                              /\ \A i \in 1 .. m : g[m][i] = t[i]}
  <2>2. 0 \in B
    OBVIOUS
  <2>3. ASSUME NEW m \in Nat, m \in B PROVE m + 1 \in B
    <3> SUFFICES ASSUME m + 1 \in 1 .. n
                 PROVE  g[m + 1] \in Seq(S) /\ Len(g[m + 1]) = m + 1
                        /\ \A i \in 1 .. m + 1 : g[m + 1][i] = t[i]
      OBVIOUS
    <3>1. g[m + 1] = IF m + 1 = 1 THEN s[m + 1] ELSE g[m] \o s[m + 1]
      <4>1. (m + 1) - 1 = m
        OBVIOUS
      <4> QED  BY <1>2, <2>1, <4>1 DEF IsFlatten
    <3>2. s[m + 1] = <<t[m + 1]>> /\ t[m + 1] \in S
      BY <1>1, <1>2
    <3>3. CASE m = 0
      BY <3>1, <3>2, <3>3
    <3>4. CASE m # 0
      <4>1. g[m] \in Seq(S) /\ Len(g[m]) = m /\ \A i \in 1 .. m : g[m][i] = t[i]
        <5>1. m \in 1 .. n
          BY <1>1, <3>4
        <5> QED  BY <2>3, <5>1
      <4>2. g[m + 1] = g[m] \o <<t[m + 1]>>
        BY <3>1, <3>2, <3>4
      <4> QED  BY <3>2, <4>1, <4>2
    <3> QED  BY <3>3, <3>4
  <2>4. n \in B
    <3> HIDE DEF B
    <3> QED  BY <1>1, <2>2, <2>3, Induction
  <2>5. g[n] \in Seq(S) /\ Len(g[n]) = n /\ \A i \in 1 .. n : g[n][i] = t[i]
    BY <1>1, <1>4, <2>4
  <2>6. g[n] = t
    BY <1>1, <2>5
  <2> QED  BY <2>1, <2>6 DEF s
<1> QED  BY <1>3, <1>4

\* An element appended to the second of two concatenated sequences.
LEMMA ConcatAppend ==
    ASSUME NEW T, NEW s \in Seq(T), NEW v \in Seq(T), NEW e, e \in T
    PROVE  s \o Append(v, e) = Append(s \o v, e)
<1>1. PICK w : w = <<e>>
  OBVIOUS
<1>2. w \in Seq(T) /\ Append(v, e) = v \o w
  BY <1>1, AppendIsConcat
<1>3. s \o v \in Seq(T)
  BY ConcatProperties
<1>4. Append(s \o v, e) = (s \o v) \o w
  BY <1>1, <1>3, AppendIsConcat
<1>5. (s \o v) \o w = s \o (v \o w)
  BY <1>2, ConcatAssociative, SMTT(30)
<1> QED
  BY <1>2, <1>4, <1>5, Zenon

\* FlattenSeq of two lists, one after the other.
LEMMA FlattenConcat ==
    ASSUME NEW S, NEW s \in Seq(Seq(S)), NEW t \in Seq(Seq(S))
    PROVE  FlattenSeq(s \o t) = FlattenSeq(s) \o FlattenSeq(t)
<1> DEFINE n == Len(t)
           u(m) == SubSeq(t, 1, m)
           B == {m \in Nat : m <= n => FlattenSeq(s \o u(m)) = FlattenSeq(s) \o FlattenSeq(u(m))}
<1>1. n \in Nat /\ \A m \in 1 .. n : t[m] \in Seq(S)
  BY ElementOfSeq
<1>2. ASSUME NEW m \in Nat, m <= n PROVE u(m) \in Seq(Seq(S))
  <2>1. \A x \in 1 .. m : t[x] \in Seq(S)
    BY <1>1, <1>2
  <2> QED
    BY <2>1, SubSeqProperties
<1>3. FlattenSeq(s) \in Seq(S)
  BY FlattenType
<1>assoc. ASSUME NEW x \in Seq(S), NEW y \in Seq(S), NEW z \in Seq(S)
      PROVE  (x \o y) \o z = x \o (y \o z)
  BY ConcatAssociative, SMTT(30)
<1>4. 0 \in B
  <2>1. u(0) = <<>>
    BY SubSeqEmpty
  <2>2. s \o <<>> = s
    BY ConcatEmptySeq
  <2>3. FlattenSeq(<<>>) = <<>>
    BY DEF FlattenSeq
  <2>4. FlattenSeq(s) \o <<>> = FlattenSeq(s)
    BY <1>3, ConcatEmptySeq
  <2> QED
    BY <2>1, <2>2, <2>3, <2>4
<1>5. ASSUME NEW m \in Nat, m \in B PROVE m + 1 \in B
  <2> SUFFICES ASSUME m + 1 <= n
               PROVE FlattenSeq(s \o u(m + 1)) = FlattenSeq(s) \o FlattenSeq(u(m + 1))
    OBVIOUS
  <2>1. m <= n /\ m + 1 \in 1 .. n /\ t[m + 1] \in Seq(S)
    BY <1>1
  <2>2. u(m) \in Seq(Seq(S)) /\ FlattenSeq(s \o u(m)) = FlattenSeq(s) \o FlattenSeq(u(m))
    BY <1>2, <1>5, <2>1
  <2>3. u(m + 1) = u(m) \o <<t[m + 1]>>
    <3>1. 1 \in 1 .. Len(t) /\ m + 1 \in 1 .. Len(t) /\ (m + 1) - 1 = m
      BY <2>1, <1>1
    <3> QED
      BY <3>1, SubSeqRecursiveSecond
  <2> DEFINE e == t[m + 1]
             v == u(m)
  <2> HIDE DEF u, n, B
  <2>4. v \in Seq(Seq(S)) /\ e \in Seq(S) /\ u(m + 1) = v \o <<e>>
    BY <2>1, <2>2, <2>3
  <2>5. FlattenSeq(s \o v) = FlattenSeq(s) \o FlattenSeq(v)
    BY <2>2
  <2> HIDE DEF e, v
  <2>6. v \o <<e>> = Append(v, e) /\ s \o v \in Seq(Seq(S)) /\ <<e>> \in Seq(Seq(S))
    BY <2>4
  <2>7. s \o Append(v, e) = Append(s \o v, e)
    BY <2>4, <2>6, ConcatAppend, SMTT(30)
  <2>8. FlattenSeq(Append(s \o v, e)) = FlattenSeq(s \o v) \o e
    BY <2>4, <2>6, FlattenAppend
  <2>9. FlattenSeq(Append(v, e)) = FlattenSeq(v) \o e
    BY <2>4, FlattenAppend
  <2>10. FlattenSeq(v) \in Seq(S)
    BY <2>4, FlattenType
  <2>11. (FlattenSeq(s) \o FlattenSeq(v)) \o e = FlattenSeq(s) \o (FlattenSeq(v) \o e)
    BY <1>3, <2>4, <2>10, <1>assoc
  <2> QED
    BY <2>4, <2>5, <2>6, <2>7, <2>8, <2>9, <2>11
<1> HIDE DEF B
<1>6. \A m \in Nat : m \in B => m + 1 \in B
  BY <1>5
<1>7. Nat \subseteq B
  BY <1>4, <1>6, Induction
<1>8. n <= n /\ FlattenSeq(s \o u(n)) = FlattenSeq(s) \o FlattenSeq(u(n)) /\ u(n) = t
  <2>1. n <= n /\ FlattenSeq(s \o u(n)) = FlattenSeq(s) \o FlattenSeq(u(n))
    <3>1. n \in B
      BY <1>1, <1>7
    <3> HIDE DEF u
    <3> QED
      BY <1>1, <3>1 DEF B
  <2>2. SubSeq(t, 1, Len(t)) = t
    BY SubSeqFull
  <2> QED
    BY <2>1, <2>2
<1> HIDE DEF u
<1> QED
  BY <1>8

\* What comes last in a concatenation is a suffix of it.
LEMMA SuffixOfConcat ==
    ASSUME NEW S, NEW a \in Seq(S), NEW b \in Seq(S)
    PROVE  IsSuffix(b, a \o b)
<1> DEFINE c == a \o b
           p == Reverse(b)
           q == Reverse(c)
<1>1. /\ Len(a) \in Nat /\ Len(b) \in Nat /\ c \in Seq(S) /\ Len(c) = Len(a) + Len(b)
      /\ \A x \in 1 .. Len(b) : c[Len(a) + x] = b[x]
  BY ConcatProperties
<1> HIDE DEF c
<1>2. /\ p = [x \in 1 .. Len(b) |-> b[(Len(b) - x) + 1]] /\ q = [x \in 1 .. Len(c) |-> c[(Len(c) - x) + 1]]
  BY DEF Reverse
<1>3. p \in Seq(S) /\ Len(p) = Len(b)
  <2>1. \A x \in 1 .. Len(b) : p[x] \in S
    BY <1>1, <1>2, ElementOfSeq
  <2>2. p = [x \in 1 .. Len(b) |-> p[x]]
    BY <1>2
  <2> HIDE DEF p
  <2> QED
    BY <1>1, <2>1, <2>2, FunctionIsSeq
<1>4. q \in Seq(S) /\ Len(q) = Len(c)
  <2>1. \A x \in 1 .. Len(c) : q[x] \in S
    BY <1>1, <1>2, ElementOfSeq
  <2>2. q = [x \in 1 .. Len(c) |-> q[x]] /\ Len(c) \in Nat
    BY <1>1, <1>2
  <2> HIDE DEF q
  <2> QED
    BY <2>1, <2>2, FunctionIsSeq
<1>5. ASSUME NEW x \in 1 .. Len(b) PROVE p[x] = q[x]
  <2>1. (Len(c) - x) + 1 = Len(a) + ((Len(b) - x) + 1) /\ (Len(b) - x) + 1 \in 1 .. Len(b) /\ x \in 1 .. Len(c)
    BY <1>1
  <2> QED
    BY <1>1, <1>2, <2>1
<1> HIDE DEF p, q
<1>6. SubSeq(p, 1, Len(p)) = SubSeq(q, 1, Len(p))
  BY <1>1, <1>3, <1>4, <1>5
<1> QED
  BY <1>1, <1>3, <1>4, <1>6 DEF IsSuffix, IsPrefix, p, q, c

\* The characters of one sequence put after another.
LEMMA Concatenated ==
    ASSUME NEW S, NEW a \in Seq(S), NEW b \in Seq(S), NEW c, c = a \o b
    PROVE  /\ c \in Seq(S) /\ Len(c) = Len(a) + Len(b) /\ Len(a) \in Nat /\ Len(b) \in Nat
           /\ \A x \in 1 .. Len(a) : c[x] = a[x]
           /\ \A x \in 1 .. Len(b) : c[x + Len(a)] = b[x]
<1>1. c \in Seq(S) /\ Len(c) = Len(a) + Len(b) /\ Len(a) \in Nat /\ Len(b) \in Nat
  BY ConcatProperties
<1>2. \A x \in 1 .. Len(a) : c[x] = a[x]
  BY <1>1, ConcatProperties
<1>3. \A x \in 1 .. Len(b) : c[x + Len(a)] = b[x]
  BY <1>1, ConcatProperties
<1> QED
  BY <1>1, <1>2, <1>3

\* A piece of one character.
LEMMA OneOf ==
    ASSUME NEW S, NEW s \in Seq(S), NEW a \in 1 .. Len(s)
    PROVE  SubSeq(s, a, a) = <<s[a]>>
<1>1. a \in Nat /\ a \in Int /\ \A x \in a .. a : s[x] \in S
  BY ElementOfSeq
<1>2. PICK g, c : g = SubSeq(s, a, a) /\ c = s[a]
  OBVIOUS
<1>3. g \in Seq(S) /\ Len(g) = 1 /\ g[1] = c
  <2>1. /\ SubSeq(s, a, a) \in Seq(S)
        /\ Len(SubSeq(s, a, a)) = IF a <= a THEN a - a + 1 ELSE 0
        /\ \A x \in 1 .. a - a + 1 : SubSeq(s, a, a)[x] = s[a + x - 1]
    BY <1>1, SubSeqProperties
  <2>2. a - a + 1 = 1 /\ a + 1 - 1 = a /\ 1 \in 1 .. a - a + 1
    BY <1>1
  <2>3. SubSeq(s, a, a)[1] = s[a + 1 - 1]
    BY <2>1, <2>2, Zenon
  <2> QED
    BY <1>1, <1>2, <2>1, <2>2, <2>3
<1>4. PICK t : t = <<c>>
  OBVIOUS
<1>5. t \in Seq(S) /\ Len(t) = 1 /\ t[1] = c
  BY <1>1, <1>2, <1>4
<1>6. \A x \in 1 .. Len(g) : g[x] = t[x]
  BY <1>3, <1>5
<1>7. g = t
  BY <1>3, <1>5, <1>6, SeqEqual
<1> QED
  BY <1>2, <1>4, <1>7
=============================================================================
