---------------------------- MODULE Loops_proofs ----------------------------
(***************************************************************************)
(* Proofs about Loops, and about sequences put together (FlattenSeq).  An  *)
(* induction is on the set of the numbers for which the formula does not   *)
(* hold: it would have a least one.                                        *)
(***************************************************************************)
EXTENDS Loops, SequencesExt, SequenceTheorems, WellFoundedInduction, TLAPS

-----------------------------------------------------------------------------
(* What is kept.                                                             *)

HasLeast(T) == \E x \in T : \A y \in T : x <= y

LEMMA LeastNumber ==
  ASSUME NEW T, T \subseteq Nat, T # {}
  PROVE  HasLeast(T)
<1>1. PICK x \in T : \A y \in T : ~ (<<y, x>> \in OpToRel(<, Nat))
  BY NatLessThanWellFounded, WFMin
<1>2. \A y \in T : ~ (y < x)
  BY <1>1 DEF OpToRel
<1> QED BY <1>2 DEF HasLeast

\* f[i] is what is kept of the first i, up to n.
IsKept(f, n, s, I) ==
  f = [i \in 0 .. n |-> IF i = 0 THEN <<>> ELSE IF i \in I THEN Append(f[i - 1], s[i]) ELSE f[i - 1]]

LEMMA KeptExists ==
  ASSUME NEW s, NEW I, NEW m \in Nat
  PROVE  \E f : IsKept(f, m, s, I)
<1> DEFINE M == {n \in Nat : ~ \E f : IsKept(f, n, s, I)}
<1>1. SUFFICES ASSUME M # {} PROVE FALSE
  OBVIOUS
<1>2. PICK n \in M : \A y \in M : n <= y
  BY <1>1, LeastNumber DEF HasLeast
<1>3. CASE n = 0
  <2>1. IsKept([i \in 0 .. 0 |-> <<>>], 0, s, I)
    BY DEF IsKept
  <2> QED BY <1>3, <2>1
<1>4. CASE n # 0
  <2>1. n - 1 \in Nat /\ n - 1 \notin M
    BY <1>2, <1>4
  <2>2. PICK f : IsKept(f, n - 1, s, I)
    BY <2>1
  <2> DEFINE v == IF n \in I THEN Append(f[n - 1], s[n]) ELSE f[n - 1]
             g == [i \in 0 .. n |-> IF i = n THEN v ELSE f[i]]
  <2>3. \A i \in 0 .. n - 1 :
          f[i] = IF i = 0 THEN <<>> ELSE IF i \in I THEN Append(f[i - 1], s[i]) ELSE f[i - 1]
    BY <2>2 DEF IsKept
  <2> HIDE DEF v
  <2>4. (\A i \in 0 .. n - 1 : g[i] = f[i]) /\ g[n] = v
    BY <2>1
  <2>5. g = [i \in 0 .. n |-> g[i]]
    OBVIOUS
  <2> HIDE DEF g
  <2>6. \A i \in 0 .. n :
          g[i] = IF i = 0 THEN <<>> ELSE IF i \in I THEN Append(g[i - 1], s[i]) ELSE g[i - 1]
    <3> TAKE i \in 0 .. n
    <3>1. CASE i = n
      BY <1>4, <2>1, <2>4, <3>1 DEF v
    <3>2. CASE i # n
      <4>1. i \in 0 .. n - 1 /\ (i # 0 => i - 1 \in 0 .. n - 1)
        BY <2>1, <3>2
      <4> QED BY <2>3, <2>4, <4>1
    <3> QED BY <3>1, <3>2
  <2> QED BY <2>5, <2>6 DEF IsKept
<1> QED BY <1>3, <1>4

\* A sequence that has what s has at the places in I up to n, in its order.
Selects(t, n, S, s, I) ==
  /\ t \in Seq(S)
  /\ \A j \in 1 .. Len(t) : \E k \in 1 .. n : k \in I /\ t[j] = s[k]
  /\ \A k \in 1 .. n : k \in I => \E j \in 1 .. Len(t) : t[j] = s[k]
  /\ \A j1, j2 \in 1 .. Len(t) : j1 < j2 =>
       \E k1, k2 \in 1 .. n : k1 < k2 /\ t[j1] = s[k1] /\ t[j2] = s[k2]

LEMMA SelectsOneMore ==
  ASSUME NEW S, NEW s \in Seq(S), NEW I, NEW n \in Nat, n + 1 <= Len(s), NEW t, Selects(t, n, S, s, I)
  PROVE  Selects(IF n + 1 \in I THEN Append(t, s[n + 1]) ELSE t, n + 1, S, s, I)
<1>1. t \in Seq(S) /\ Len(t) \in Nat /\ n + 1 \in 1 .. Len(s) /\ s[n + 1] \in S
  BY DEF Selects
<1>2. CASE n + 1 \notin I
  BY <1>1, <1>2 DEF Selects
<1>3. CASE n + 1 \in I
  <2> DEFINE u == Append(t, s[n + 1])
  <2>1. /\ u \in Seq(S) /\ Len(u) = Len(t) + 1 /\ u[Len(t) + 1] = s[n + 1]
        /\ \A j \in 1 .. Len(t) : u[j] = t[j]
    BY <1>1, AppendProperties
  <2> HIDE DEF u
  <2>2. ASSUME NEW j \in 1 .. Len(u)
        PROVE  \E k \in 1 .. n + 1 : k \in I /\ u[j] = s[k]
    <3>1. CASE j \in 1 .. Len(t)
      <4>1. PICK k \in 1 .. n : k \in I /\ t[j] = s[k]
        BY <3>1 DEF Selects
      <4> QED BY <2>1, <3>1, <4>1
    <3>2. CASE j = Len(t) + 1
      BY <1>3, <2>1, <3>2
    <3> QED BY <1>1, <2>1, <3>1, <3>2
  <2>3. ASSUME NEW k \in 1 .. n + 1, k \in I
        PROVE  \E j \in 1 .. Len(u) : u[j] = s[k]
    <3>1. CASE k \in 1 .. n
      <4>1. PICK j \in 1 .. Len(t) : t[j] = s[k]
        BY <2>3, <3>1 DEF Selects
      <4> QED BY <1>1, <2>1, <4>1
    <3>2. CASE k = n + 1
      BY <1>1, <2>1, <3>2
    <3> QED BY <3>1, <3>2
  <2>4. ASSUME NEW j1 \in 1 .. Len(u), NEW j2 \in 1 .. Len(u), j1 < j2
        PROVE  \E k1, k2 \in 1 .. n + 1 : k1 < k2 /\ u[j1] = s[k1] /\ u[j2] = s[k2]
    <3>1. j1 \in 1 .. Len(t)
      BY <1>1, <2>1, <2>4
    <3>2. CASE j2 \in 1 .. Len(t)
      <4>1. PICK k1 \in 1 .. n, k2 \in 1 .. n : k1 < k2 /\ t[j1] = s[k1] /\ t[j2] = s[k2]
        BY <2>4, <3>1, <3>2 DEF Selects
      <4> QED BY <2>1, <3>1, <3>2, <4>1
    <3>3. CASE j2 = Len(t) + 1
      <4>1. PICK k1 \in 1 .. n : t[j1] = s[k1]
        BY <3>1 DEF Selects
      <4>2. k1 \in 1 .. n + 1 /\ n + 1 \in 1 .. n + 1 /\ k1 < n + 1
        OBVIOUS
      <4> QED BY <2>1, <3>1, <3>3, <4>1, <4>2
    <3> QED BY <1>1, <2>1, <3>2, <3>3
  <2>5. Selects(u, n + 1, S, s, I)
    BY <2>1, <2>2, <2>3, <2>4 DEF Selects
  <2> QED BY <1>3, <2>5 DEF u
<1> QED BY <1>2, <1>3

\* Kept keeps what is at the places in I, in its order.
LEMMA KeptSelects ==
  ASSUME NEW S, NEW s \in Seq(S), NEW I
  PROVE  Selects(Kept(s, I), Len(s), S, s, I)
<1>1. Len(s) \in Nat
  OBVIOUS
<1>2. PICK f : IsKept(f, Len(s), s, I) /\ Kept(s, I) = f[Len(s)]
  <2>1. Kept(s, I) = (CHOOSE f : IsKept(f, Len(s), s, I))[Len(s)]
    BY Zenon DEF Kept, IsKept
  <2> QED BY <1>1, <2>1, KeptExists
<1>3. \A i \in 0 .. Len(s) :
        f[i] = IF i = 0 THEN <<>> ELSE IF i \in I THEN Append(f[i - 1], s[i]) ELSE f[i - 1]
  BY <1>2 DEF IsKept
<1> DEFINE M == {n \in 0 .. Len(s) : ~ Selects(f[n], n, S, s, I)}
<1>4. ASSUME M # {}
      PROVE  FALSE
  <2>1. PICK n \in M : \A y \in M : n <= y
    <3>1. M \subseteq Nat
      BY <1>1
    <3> QED BY <1>4, <3>1, LeastNumber DEF HasLeast
  <2>2. CASE n = 0
    <3>1. f[n] = <<>>
      BY <1>1, <1>3, <2>2
    <3>2. Selects(<<>>, 0, S, s, I)
      BY DEF Selects
    <3> QED BY <2>2, <3>1, <3>2
  <2>3. CASE n # 0
    <3>1. PICK m \in Nat : n = m + 1
      <4>1. n - 1 \in Nat /\ n = (n - 1) + 1
        BY <1>1, <2>3
      <4> QED BY <4>1
    <3>2. m \in 0 .. Len(s) /\ m \notin M /\ m + 1 <= Len(s) /\ (m + 1) - 1 = m
      BY <1>1, <2>1, <3>1
    <3>3. Selects(f[m], m, S, s, I)
      BY <3>2
    <3>4. f[n] = IF m + 1 \in I THEN Append(f[m], s[m + 1]) ELSE f[m]
      BY <1>3, <2>3, <3>1, <3>2
    <3> QED BY <3>1, <3>2, <3>3, <3>4, SelectsOneMore
  <2> QED BY <2>2, <2>3
<1> QED BY <1>1, <1>2, <1>4

LEMMA KeptRange ==
  ASSUME NEW S, NEW s \in Seq(S), NEW I \in SUBSET DOMAIN s
  PROVE  Kept(s, I) \in Seq(S) /\ Range(Kept(s, I)) = {s[k] : k \in I}
<1> DEFINE t == Kept(s, I)
<1>1. Selects(t, Len(s), S, s, I) /\ DOMAIN s = 1 .. Len(s)
  BY KeptSelects
<1> HIDE DEF t
<1>2. t \in Seq(S) /\ DOMAIN t = 1 .. Len(t)
  BY <1>1 DEF Selects
<1>3. Range(t) = {t[j] : j \in 1 .. Len(t)}
  BY <1>2 DEF Range
<1>4. {t[j] : j \in 1 .. Len(t)} = {s[k] : k \in I}
  <2>1. ASSUME NEW j \in 1 .. Len(t)
        PROVE  \E k \in I : t[j] = s[k]
    BY <1>1 DEF Selects
  <2>2. ASSUME NEW k \in I
        PROVE  \E j \in 1 .. Len(t) : t[j] = s[k]
    BY <1>1 DEF Selects
  <2> QED BY <2>1, <2>2
<1> QED BY <1>2, <1>3, <1>4 DEF t

-----------------------------------------------------------------------------
(* Sequences put together.                                                 *)

\* f[i] is the first i sequences of s put together, up to n.
IsFlat(f, n, s) == f = [i \in 1 .. n |-> IF i = 1 THEN s[i] ELSE f[i - 1] \o s[i]]

LEMMA FlatExists ==
  ASSUME NEW s, NEW m \in Nat
  PROVE  \E f : IsFlat(f, m, s)
<1> DEFINE M == {n \in Nat : ~ \E f : IsFlat(f, n, s)}
<1>1. SUFFICES ASSUME M # {} PROVE FALSE
  OBVIOUS
<1>2. PICK n \in M : \A y \in M : n <= y
  BY <1>1, LeastNumber DEF HasLeast
<1>3. CASE n = 0
  <2>1. IsFlat([i \in 1 .. 0 |-> <<>>], 0, s)
    BY DEF IsFlat
  <2> QED BY <1>3, <2>1
<1>4. CASE n # 0
  <2>1. n - 1 \in Nat /\ n - 1 \notin M
    BY <1>2, <1>4
  <2>2. PICK f : IsFlat(f, n - 1, s)
    BY <2>1
  <2> DEFINE v == IF n = 1 THEN s[n] ELSE f[n - 1] \o s[n]
             g == [i \in 1 .. n |-> IF i = n THEN v ELSE f[i]]
  <2>3. \A i \in 1 .. n - 1 : f[i] = IF i = 1 THEN s[i] ELSE f[i - 1] \o s[i]
    BY <2>2 DEF IsFlat
  <2> HIDE DEF v
  <2>4. (\A i \in 1 .. n - 1 : g[i] = f[i]) /\ g[n] = v
    BY <2>1
  <2>5. g = [i \in 1 .. n |-> g[i]]
    OBVIOUS
  <2> HIDE DEF g
  <2>6. \A i \in 1 .. n : g[i] = IF i = 1 THEN s[i] ELSE g[i - 1] \o s[i]
    <3> TAKE i \in 1 .. n
    <3>1. CASE i = n
      BY <1>4, <2>1, <2>4, <3>1 DEF v
    <3>2. CASE i # n
      <4>1. i \in 1 .. n - 1 /\ (i # 1 => i - 1 \in 1 .. n - 1)
        BY <2>1, <3>2
      <4> QED BY <2>3, <2>4, <4>1
    <3> QED BY <3>1, <3>2
  <2> QED BY <2>5, <2>6, ZenonT(40) DEF IsFlat
<1> QED BY <1>3, <1>4

LEMMA FlatIs ==
  ASSUME NEW T, NEW s \in Seq(Seq(T))
  PROVE  \E f : IsFlat(f, Len(s), s) /\ (Len(s) # 0 => FlattenSeq(s) = f[Len(s)])
<1>1. Len(s) \in Nat
  OBVIOUS
<1>2. Len(s) # 0 => FlattenSeq(s) = (CHOOSE f : IsFlat(f, Len(s), s))[Len(s)]
  BY Zenon DEF FlattenSeq, IsFlat
<1>3. IsFlat(CHOOSE f : IsFlat(f, Len(s), s), Len(s), s)
  BY <1>1, FlatExists
<1> QED BY <1>2, <1>3

\* What is put together of the same first sequences is the same.
LEMMA FlatSame ==
  ASSUME NEW T, NEW s \in Seq(Seq(T)), NEW f, NEW g, NEW t, NEW m \in Nat, Len(s) <= m,
         IsFlat(f, Len(s), s), IsFlat(g, m, t), \A i \in 1 .. Len(s) : s[i] = t[i]
  PROVE  \A i \in 1 .. Len(s) : g[i] = f[i] /\ f[i] \in Seq(T)
<1>1. Len(s) \in Nat /\ \A i \in 1 .. Len(s) : s[i] \in Seq(T)
  OBVIOUS
<1>2. \A i \in 1 .. Len(s) : f[i] = IF i = 1 THEN s[i] ELSE f[i - 1] \o s[i]
  BY DEF IsFlat
<1>3. \A i \in 1 .. Len(s) : g[i] = IF i = 1 THEN s[i] ELSE g[i - 1] \o s[i]
  <2>1. \A i \in 1 .. m : g[i] = IF i = 1 THEN t[i] ELSE g[i - 1] \o t[i]
    BY DEF IsFlat
  <2> TAKE i \in 1 .. Len(s)
  <2>2. i \in 1 .. m /\ t[i] = s[i]
    BY <1>1
  <2> QED BY <2>1, <2>2
<1> DEFINE M == {n \in 1 .. Len(s) : ~ (g[n] = f[n] /\ f[n] \in Seq(T))}
<1>4. SUFFICES ASSUME M # {} PROVE FALSE
  OBVIOUS
<1>5. M \subseteq Nat
  BY <1>1
<1>6. PICK n \in M : \A y \in M : n <= y
  BY <1>4, <1>5, LeastNumber DEF HasLeast
<1>7. CASE n = 1
  <2>1. g[n] = s[n] /\ f[n] = s[n] /\ s[n] \in Seq(T)
    BY <1>1, <1>2, <1>3, <1>7
  <2> QED BY <2>1
<1>8. CASE n # 1
  <2>1. n - 1 \in 1 .. Len(s) /\ n - 1 \notin M
    BY <1>1, <1>6, <1>8
  <2>2. g[n - 1] = f[n - 1] /\ f[n - 1] \in Seq(T)
    BY <2>1
  <2>3. g[n] = g[n - 1] \o s[n] /\ f[n] = f[n - 1] \o s[n] /\ s[n] \in Seq(T)
    BY <1>1, <1>2, <1>3, <1>8
  <2>4. f[n] \in Seq(T)
    BY <2>2, <2>3, ConcatProperties
  <2> QED BY <2>2, <2>3, <2>4
<1> QED BY <1>7, <1>8

\* One sequence more comes behind those put together before.
LEMMA FlattenGrows ==
  ASSUME NEW T, NEW s \in Seq(Seq(T)), NEW x \in Seq(T)
  PROVE  FlattenSeq(s) \in Seq(T) /\ FlattenSeq(Append(s, x)) = FlattenSeq(s) \o x
<1> DEFINE t == Append(s, x)
<1>1. /\ t \in Seq(Seq(T)) /\ Len(t) = Len(s) + 1 /\ t[Len(s) + 1] = x /\ Len(s) \in Nat
      /\ \A i \in 1 .. Len(s) : t[i] = s[i]
  BY AppendProperties
<1> HIDE DEF t
<1>2. PICK f : IsFlat(f, Len(s), s) /\ (Len(s) # 0 => FlattenSeq(s) = f[Len(s)])
  BY FlatIs
<1>3. PICK g : IsFlat(g, Len(t), t) /\ (Len(t) # 0 => FlattenSeq(t) = g[Len(t)])
  BY <1>1, FlatIs
<1>4. \A i \in 1 .. Len(s) : g[i] = f[i] /\ f[i] \in Seq(T)
  <2>1. Len(t) \in Nat /\ Len(s) <= Len(t) /\ \A i \in 1 .. Len(s) : s[i] = t[i]
    BY <1>1
  <2> QED BY <1>2, <1>3, <2>1, FlatSame
<1>5. FlattenSeq(t) = IF Len(s) = 0 THEN x ELSE g[Len(s)] \o x
  <2>1. \A i \in 1 .. Len(t) : g[i] = IF i = 1 THEN t[i] ELSE g[i - 1] \o t[i]
    BY <1>3 DEF IsFlat
  <2>2. Len(t) \in 1 .. Len(t) /\ Len(t) # 0 /\ Len(t) - 1 = Len(s) /\ (Len(t) = 1 <=> Len(s) = 0)
    BY <1>1
  <2>3. FlattenSeq(t) = IF Len(t) = 1 THEN t[Len(t)] ELSE g[Len(t) - 1] \o t[Len(t)]
    BY <1>3, <2>1, <2>2
  <2> QED BY <1>1, <2>2, <2>3
<1>6. CASE Len(s) = 0
  <2>1. s = <<>> /\ FlattenSeq(s) = s
    BY <1>6 DEF FlattenSeq
  <2>2. x = <<>> \o x
    OBVIOUS
  <2>3. FlattenSeq(t) = x
    BY <1>5, <1>6
  <2>4. FlattenSeq(s) \in Seq(T) /\ FlattenSeq(s) \o x = x
    <3>1. <<>> \in Seq(T)
      OBVIOUS
    <3>2. FlattenSeq(s) = <<>>
      BY <2>1
    <3> QED BY <2>2, <3>1, <3>2
  <2> QED BY <2>3, <2>4 DEF t
<1>7. CASE Len(s) # 0
  <2>1. Len(s) \in 1 .. Len(s)
    BY <1>1, <1>7
  <2>2. FlattenSeq(s) = f[Len(s)] /\ f[Len(s)] \in Seq(T) /\ g[Len(s)] = f[Len(s)]
    BY <1>2, <1>4, <1>7, <2>1
  <2>3. FlattenSeq(t) = g[Len(s)] \o x
    BY <1>5, <1>7
  <2> QED BY <2>2, <2>3 DEF t
<1> QED BY <1>6, <1>7

\* Sequences of one length, put together.
Pieces(T, P) == {x \in Seq(T) : Len(x) = P}

\* A sequence that is not empty is its last with those before.
LEMMA LastPiece ==
  ASSUME NEW S, NEW s \in Seq(S), NEW m \in Nat, Len(s) = m + 1
  PROVE  /\ SubSeq(s, 1, m) \in Seq(S) /\ Len(SubSeq(s, 1, m)) = m /\ s[m + 1] \in S
         /\ \A i \in 1 .. m : SubSeq(s, 1, m)[i] = s[i]
         /\ s = Append(SubSeq(s, 1, m), s[m + 1])
<1> DEFINE r == SubSeq(s, 1, m)
           t == Append(r, s[m + 1])
<1>1. r \in Seq(S) /\ Len(r) = m /\ s[m + 1] \in S /\ \A i \in 1 .. m : r[i] = s[i]
  OBVIOUS
<1> HIDE DEF r
<1>2. t \in Seq(S) /\ Len(t) = m + 1 /\ t[m + 1] = s[m + 1] /\ \A i \in 1 .. m : t[i] = r[i]
  BY <1>1, AppendProperties
<1> HIDE DEF t
<1>3. \A i \in 1 .. m + 1 : t[i] = s[i]
  <2> TAKE i \in 1 .. m + 1
  <2>1. i \in 1 .. m \/ i = m + 1
    OBVIOUS
  <2> QED BY <1>1, <1>2, <2>1
<1>4. t = s
  BY <1>2, <1>3, SeqEqual
<1> QED BY <1>1, <1>4 DEF r, t

\* The n-th part of P is as long as a part.
LEMMA OnePart ==
  ASSUME NEW m \in Nat, NEW P \in Nat
  PROVE  (m + 1) * P = m * P + P /\ m * P \in Nat
OBVIOUS

\* What is in a sequence of n and l that were put together.
OfBoth(d, a, c, n, l) == \A i \in 1 .. n + l : d[i] = IF i <= n THEN a[i] ELSE c[i - n]

LEMMA OnConcat ==
  ASSUME NEW T, NEW a \in Seq(T), NEW c \in Seq(T), NEW n \in Nat, NEW l \in Nat, Len(a) = n, Len(c) = l
  PROVE  a \o c \in Seq(T) /\ Len(a \o c) = n + l /\ OfBoth(a \o c, a, c, n, l)
BY ConcatProperties DEF OfBoth

LEMMA FlattenLength ==
  ASSUME NEW T, NEW P \in Nat, NEW s \in Seq(Pieces(T, P))
  PROVE  FlattenSeq(s) \in Seq(T) /\ Len(FlattenSeq(s)) = Len(s) * P
<1> DEFINE Q(r) == FlattenSeq(r) \in Seq(T) /\ Len(FlattenSeq(r)) = Len(r) * P
           M == {n \in Nat : \E r \in Seq(Pieces(T, P)) : Len(r) = n /\ ~ Q(r)}
<1>1. ASSUME M # {} PROVE FALSE
  <2>1. PICK n \in M : \A y \in M : n <= y
    BY <1>1, LeastNumber DEF HasLeast
  <2>2. PICK r \in Seq(Pieces(T, P)) : Len(r) = n /\ ~ Q(r)
    BY <2>1
  <2>3. CASE n = 0
    <3>1. r = <<>>
      BY <2>2, <2>3
    <3>2. FlattenSeq(r) = <<>>
      BY <3>1 DEF FlattenSeq
    <3>3. Len(<<>>) = 0 /\ <<>> \in Seq(T) /\ 0 * P = 0
      OBVIOUS
    <3> QED BY <2>2, <3>1, <3>2, <3>3
  <2>4. CASE n # 0
    <3>1. PICK m \in Nat : n = m + 1
      <4>1. n - 1 \in Nat /\ n = (n - 1) + 1
        BY <2>4
      <4> QED BY <4>1
    <3> DEFINE q == SubSeq(r, 1, m)
               x == r[m + 1]
    <3>2. q \in Seq(Pieces(T, P)) /\ Len(q) = m /\ x \in Pieces(T, P) /\ r = Append(q, x)
      BY <2>2, <3>1, LastPiece
    <3> HIDE DEF q, x
    <3>3. m \notin M
      BY <2>1, <3>1
    <3>4. Q(q)
      BY <3>2, <3>3
    <3>5. q \in Seq(Seq(T)) /\ x \in Seq(T) /\ Len(x) = P
      BY <3>2 DEF Pieces
    <3>6. FlattenSeq(r) = FlattenSeq(q) \o x
      BY <3>2, <3>5, FlattenGrows
    <3>7. FlattenSeq(r) \in Seq(T) /\ Len(FlattenSeq(r)) = m * P + P
      <4> DEFINE mP == m * P
      <4>1. FlattenSeq(q) \in Seq(T) /\ Len(FlattenSeq(q)) = mP /\ mP \in Nat
        BY <3>2, <3>4, OnePart
      <4> HIDE DEF mP
      <4>2. FlattenSeq(r) \in Seq(T) /\ Len(FlattenSeq(r)) = mP + P
        <5>1. FlattenSeq(q) \o x \in Seq(T) /\ Len(FlattenSeq(q) \o x) = mP + P
          BY <3>5, <4>1, OnConcat
        <5> QED BY <3>6, <5>1
      <4> QED BY <4>2 DEF mP
    <3> QED BY <2>2, <3>1, <3>7, OnePart
  <2> QED BY <2>3, <2>4
<1> QED BY <1>1

\* A part of the sequences, put together, is where it is in the whole.
FlatPart(s, b, k, P) ==
  \A x \in 1 .. k * P : FlattenSeq([i \in 1 .. k |-> s[b + i - 1]])[x] = FlattenSeq(s)[(b - 1) * P + x]

LEMMA FlatPartGrows ==
  ASSUME NEW T, NEW P \in Nat, NEW q \in Seq(Pieces(T, P)), NEW y \in Pieces(T, P),
         \A b \in Nat \ {0}, k \in Nat : b + k - 1 <= Len(q) => FlatPart(q, b, k, P),
         NEW b \in Nat \ {0}, NEW k \in Nat, b + k - 1 <= Len(q) + 1
  PROVE  FlatPart(Append(q, y), b, k, P)
<1> DEFINE s == Append(q, y)
           m == Len(q)
           part(j) == [i \in 1 .. j |-> s[b + i - 1]]
<1>1. /\ s \in Seq(Pieces(T, P)) /\ Len(s) = m + 1 /\ s[m + 1] = y /\ m \in Nat
      /\ (\A i \in 1 .. m : s[i] = q[i]) /\ \A i \in 1 .. m + 1 : s[i] \in Pieces(T, P)
  <2>1. /\ s \in Seq(Pieces(T, P)) /\ Len(s) = m + 1 /\ s[m + 1] = y /\ m \in Nat
        /\ \A i \in 1 .. m : s[i] = q[i]
    BY AppendProperties
  <2> HIDE DEF s
  <2>2. \A i \in 1 .. m + 1 : s[i] \in Pieces(T, P)
    BY <2>1
  <2> QED BY <2>1, <2>2
<1>2. q \in Seq(Seq(T)) /\ y \in Seq(T) /\ Len(y) = P
  BY DEF Pieces
<1>3. FlattenSeq(s) = FlattenSeq(q) \o y /\ FlattenSeq(q) \in Seq(T) /\ Len(FlattenSeq(q)) = m * P
  BY <1>2, FlattenGrows, FlattenLength
<1> HIDE DEF s
<1>4. m * P \in Nat
  BY <1>1
<1>5. /\ \A x \in 1 .. m * P : FlattenSeq(s)[x] = FlattenSeq(q)[x]
      /\ \A x \in 1 .. P : FlattenSeq(s)[m * P + x] = y[x]
  <2> DEFINE mP == m * P
  <2>1. mP \in Nat /\ Len(FlattenSeq(q)) = mP
    BY <1>3, <1>4
  <2> HIDE DEF mP
  <2>2. /\ \A x \in 1 .. mP : FlattenSeq(s)[x] = FlattenSeq(q)[x]
        /\ \A x \in 1 .. P : FlattenSeq(s)[mP + x] = y[x]
    <3>1. OfBoth(FlattenSeq(q) \o y, FlattenSeq(q), y, mP, P)
      BY <1>2, <1>3, <2>1, OnConcat
    <3>2. OfBoth(FlattenSeq(s), FlattenSeq(q), y, mP, P)
      BY <1>3, <3>1
    <3>3. ASSUME NEW x \in 1 .. mP
          PROVE  FlattenSeq(s)[x] = FlattenSeq(q)[x]
      <4>1. x \in 1 .. mP + P /\ x <= mP
        BY <2>1
      <4> QED BY <3>2, <4>1 DEF OfBoth
    <3>4. ASSUME NEW z \in 1 .. P
          PROVE  FlattenSeq(s)[mP + z] = y[z]
      <4>1. mP + z \in 1 .. mP + P /\ ~ (mP + z <= mP) /\ (mP + z) - mP = z
        BY <2>1
      <4> QED BY <3>2, <4>1 DEF OfBoth
    <3> QED BY <3>3, <3>4
  <2> QED BY <2>2 DEF mP
<1>6. ASSUME NEW j \in Nat, b + j - 1 <= m, NEW x \in 1 .. j * P
      PROVE  FlattenSeq(part(j))[x] = FlattenSeq(s)[(b - 1) * P + x]
  <2>1. part(j) = [i \in 1 .. j |-> q[b + i - 1]]
    <3>1. \A i \in 1 .. j : b + i - 1 \in 1 .. m
      BY <1>1, <1>6
    <3> QED BY <1>1, <3>1
  <2>2. FlattenSeq(part(j))[x] = FlattenSeq(q)[(b - 1) * P + x]
    BY <1>6, <2>1, ZenonT(40) DEF FlatPart
  <2>3. (b - 1) * P + x \in 1 .. m * P
    <3>1. (b - 1) * P + j * P = (b - 1 + j) * P /\ (b - 1) * P \in Nat /\ j * P \in Nat
      OBVIOUS
    <3>2. (b - 1 + j) * P <= m * P
      BY <1>1, <1>6
    <3>3. \A u, v, t \in Nat : u + v <= t => \A z \in 1 .. v : u + z \in 1 .. t
      OBVIOUS
    <3> QED BY <1>4, <1>6, <3>1, <3>2, <3>3
  <2> QED BY <1>5, <2>2, <2>3
<1>7. CASE b + k - 1 <= m
  <2>1. \A x \in 1 .. k * P : FlattenSeq(part(k))[x] = FlattenSeq(s)[(b - 1) * P + x]
    BY <1>6, <1>7
  <2> QED BY <2>1 DEF FlatPart, s
<1>8. CASE k # 0 /\ b + k - 1 = m + 1
  <2>1. PICK j \in Nat : k = j + 1 /\ b + j - 1 = m
    <3>1. k - 1 \in Nat /\ k = (k - 1) + 1 /\ b + (k - 1) - 1 = m
      BY <1>1, <1>8
    <3> QED BY <3>1
  <2> DEFINE p == part(j)
  <2>2. p \in Seq(Pieces(T, P)) /\ Len(p) = j /\ \A i \in 1 .. j : p[i] = s[b + i - 1]
    <3>1. \A i \in 1 .. j : b + i - 1 \in 1 .. m + 1
      BY <1>1, <2>1
    <3>2. \A i \in 1 .. j : s[b + i - 1] \in Pieces(T, P)
      BY <1>1, <3>1
    <3> QED BY <3>2
  <2>3. part(k) = Append(p, y)
    <3>1. \A i \in 1 .. k : part(k)[i] = IF i = j + 1 THEN y ELSE p[i]
      <4> TAKE i \in 1 .. k
      <4>1. i \in 1 .. j \/ i = j + 1
        BY <2>1
      <4>2. b + (j + 1) - 1 = m + 1
        BY <1>1, <2>1
      <4> QED BY <1>1, <2>1, <2>2, <4>1, <4>2
    <3>2. part(k) \in Seq(Pieces(T, P)) /\ Len(part(k)) = j + 1
      <4>1. \A i \in 1 .. k : b + i - 1 \in 1 .. m + 1
        BY <1>1, <2>1
      <4>2. \A i \in 1 .. k : s[b + i - 1] \in Pieces(T, P)
        BY <1>1, <4>1
      <4> QED BY <2>1, <4>2
    <3> HIDE DEF p
    <3>3. /\ Append(p, y) \in Seq(Pieces(T, P)) /\ Len(Append(p, y)) = j + 1 /\ Append(p, y)[j + 1] = y
          /\ \A i \in 1 .. j : Append(p, y)[i] = p[i]
      BY <2>2, AppendProperties
    <3>4. \A i \in 1 .. j + 1 : part(k)[i] = Append(p, y)[i]
      <4> TAKE i \in 1 .. j + 1
      <4>1. i \in 1 .. j \/ i = j + 1
        OBVIOUS
      <4> QED BY <2>1, <3>1, <3>3, <4>1
    <3> QED BY <3>2, <3>3, <3>4, SeqEqual
  <2>4. \A x \in 1 .. j * P : FlattenSeq(p)[x] = FlattenSeq(s)[(b - 1) * P + x]
    <3>1. j \in Nat /\ b + j - 1 <= m
      BY <1>1, <2>1
    <3> HIDE DEF part
    <3> QED BY Zenon, <1>6, <3>1
  <2> HIDE DEF p
  <2>5. p \in Seq(Seq(T))
    BY <2>2 DEF Pieces
  <2>6. FlattenSeq(part(k)) = FlattenSeq(p) \o y /\ FlattenSeq(p) \in Seq(T) /\ Len(FlattenSeq(p)) = j * P
    BY <1>2, <2>2, <2>3, <2>5, FlattenGrows, FlattenLength
  <2>7. j * P \in Nat /\ k * P = j * P + P /\ m * P = (b - 1) * P + j * P /\ (b - 1) * P \in Nat
    <3>1. m = (b - 1) + j
      BY <1>1, <2>1
    <3> QED BY <2>1, <3>1
  <2> DEFINE kP == k * P
             jP == j * P
             mP == m * P
             bP == (b - 1) * P
  <2>8. /\ jP \in Nat /\ bP \in Nat /\ kP = jP + P /\ mP = bP + jP /\ Len(FlattenSeq(p)) = jP
        /\ \A x \in 1 .. jP : FlattenSeq(p)[x] = FlattenSeq(s)[bP + x]
        /\ \A x \in 1 .. P : FlattenSeq(s)[mP + x] = y[x]
    BY <1>5, <2>6, <2>7, <2>4
  <2> HIDE DEF kP, jP, mP, bP
  <2>9. PICK w : w = FlattenSeq(part(k))
    OBVIOUS
  <2>10. OfBoth(w, FlattenSeq(p), y, jP, P)
    <3>1. OfBoth(FlattenSeq(p) \o y, FlattenSeq(p), y, jP, P)
      BY <1>2, <2>6, <2>8, OnConcat
    <3> QED BY <2>6, <2>9, <3>1
  <2>11. ASSUME NEW x \in 1 .. kP
         PROVE  w[x] = FlattenSeq(s)[bP + x]
    <3>1. CASE x \in 1 .. jP
      <4>1. x \in 1 .. jP + P /\ x <= jP
        BY <2>8, <3>1
      <4>2. w[x] = FlattenSeq(p)[x]
        BY <2>10, <4>1 DEF OfBoth
      <4> QED BY <2>8, <3>1, <4>2
    <3>2. CASE x \notin 1 .. jP
      <4>1. x \in 1 .. jP + P /\ ~ (x <= jP) /\ x - jP \in 1 .. P /\ bP + x = mP + (x - jP)
        BY <2>8, <2>11, <3>2
      <4>2. w[x] = y[x - jP]
        BY <2>10, <4>1 DEF OfBoth
      <4>3. FlattenSeq(s)[mP + (x - jP)] = y[x - jP]
        BY <2>8, <4>1
      <4> QED BY <4>1, <4>2, <4>3
    <3> QED BY <3>1, <3>2
  <2>12. \A x \in 1 .. k * P : FlattenSeq(part(k))[x] = FlattenSeq(s)[(b - 1) * P + x]
    BY <2>9, <2>11 DEF kP, bP
  <2> QED BY <2>12 DEF FlatPart, s
<1>9. CASE k = 0
  <2>1. 0 * P = 0 /\ 1 .. 0 = {}
    OBVIOUS
  <2>2. ASSUME NEW x \in 1 .. k * P
        PROVE  FALSE
    BY <1>9, <2>1, <2>2
  <2> QED BY Zenon, <2>2 DEF FlatPart
<1>10. b + k - 1 <= m \/ (k # 0 /\ b + k - 1 = m + 1) \/ k = 0
  BY <1>1
<1> QED BY Zenon, <1>7, <1>8, <1>9, <1>10

LEMMA FlattenPart ==
  ASSUME NEW T, NEW P \in Nat, NEW s \in Seq(Pieces(T, P)), NEW b \in Nat \ {0}, NEW k \in Nat, b + k - 1 <= Len(s)
  PROVE  FlatPart(s, b, k, P)
<1> DEFINE Q(r) == \A c \in Nat \ {0}, l \in Nat : c + l - 1 <= Len(r) => FlatPart(r, c, l, P)
           M == {n \in Nat : \E r \in Seq(Pieces(T, P)) : Len(r) = n /\ ~ Q(r)}
<1>1. ASSUME M # {} PROVE FALSE
  <2>1. PICK n \in M : \A y \in M : n <= y
    BY <1>1, LeastNumber DEF HasLeast
  <2>2. PICK r \in Seq(Pieces(T, P)) : Len(r) = n /\ ~ Q(r)
    BY <2>1
  <2>3. CASE n = 0
    <3>1. ASSUME NEW c \in Nat \ {0}, NEW l \in Nat, c + l - 1 <= Len(r)
          PROVE  FlatPart(r, c, l, P)
      <4>1. l = 0 /\ 0 * P = 0
        BY <2>2, <2>3, <3>1
      <4> QED BY <4>1 DEF FlatPart
    <3> QED BY <2>2, <3>1
  <2>4. CASE n # 0
    <3>1. PICK m \in Nat : n = m + 1
      <4>1. n - 1 \in Nat /\ n = (n - 1) + 1
        BY <2>4
      <4> QED BY <4>1
    <3> DEFINE q == SubSeq(r, 1, m)
               x == r[m + 1]
    <3>2. q \in Seq(Pieces(T, P)) /\ Len(q) = m /\ x \in Pieces(T, P) /\ r = Append(q, x)
      BY <2>2, <3>1, LastPiece
    <3> HIDE DEF q, x
    <3>3. m \notin M
      BY <2>1, <3>1
    <3>4. Q(q)
      BY <3>2, <3>3
    <3> HIDE DEF M
    <3>5. ASSUME NEW c \in Nat \ {0}, NEW l \in Nat, c + l - 1 <= Len(r)
          PROVE  FlatPart(r, c, l, P)
      <4>1. c + l - 1 <= Len(q) + 1
        BY <2>2, <3>1, <3>2, <3>5
      <4> QED BY <3>2, <3>4, <4>1, FlatPartGrows
    <3> QED BY <2>2, <3>5
  <2> QED BY <2>3, <2>4
<1> HIDE DEF Q
<1>2. Len(s) \in Nat /\ Len(s) \notin M
  BY <1>1
<1>3. Q(s)
  BY <1>2
<1> QED BY <1>3 DEF Q
=============================================================================
