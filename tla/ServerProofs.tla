----------------------------- MODULE ServerProofs -----------------------------
(* Proofs about the server of avahi-core on its host: the interfaces, their  *)
(* addresses and the records they announce, for any interfaces and any       *)
(* addresses, the responder, for any records and any packets, and the tie    *)
(* between two hosts that probe, for any records and any order of them.      *)
EXTENDS Interfaces, Responder, ProbeTie, TLAPS, FiniteSetTheorems, SequenceTheorems,
        WellFoundedInduction

(* Induction over an initial segment of the naturals, as a fact about a set: every
   update of the address records walks a list from its head. *)
LEMMA SetInduction ==
    ASSUME NEW m \in Nat, NEW S, 0 \in S, \A k \in 0..(m - 1) : k \in S => k + 1 \in S
    PROVE  0..m \subseteq S
  <1> DEFINE T == (0..m) \ S
  <1>1. SUFFICES ASSUME T # {} PROVE FALSE
    OBVIOUS
  <1>2. PICK x \in T : \A y \in T : ~ (<<y, x>> \in OpToRel(<, Nat))
    <2>1. T \subseteq Nat
      OBVIOUS
    <2> HIDE DEF T
    <2> QED
      BY <1>1, <2>1, NatLessThanWellFounded, WFMin
  <1>3. x \in 0..m /\ x \notin S
    OBVIOUS
  <1>4. x # 0
    BY <1>3
  <1>5. x - 1 \in 0..(m - 1) /\ x = (x - 1) + 1
    BY <1>3, <1>4
  <1>6. x - 1 \in T
    BY <1>3, <1>5
  <1>7. <<x - 1, x>> \in OpToRel(<, Nat)
    BY <1>3, <1>5 DEF OpToRel
  <1> QED
    BY <1>2, <1>6, <1>7

(* Putting an element in front of a list, position by position *)
LEMMA InFront ==
    ASSUME NEW T, NEW s \in Seq(T), NEW a \in T, NEW m \in Nat, DOMAIN s = 1..m, Len(s) = m
    PROVE  LET r == <<a>> \o s IN
           /\ r \in Seq(T) /\ DOMAIN r = 1..(1 + m) /\ r[1] = a
           /\ \A j \in 1..m : r[j + 1] = s[j]
           /\ \A j \in 1..(1 + m) : j = 1 \/ \E i \in 1..m : j = i + 1
           /\ ToSet(r) = ToSet(s) \union {a}
  <1> DEFINE r == <<a>> \o s
  <1>2. <<a>> \in Seq(T) /\ Len(<<a>>) = 1 /\ <<a>>[1] = a
    OBVIOUS
  <1>3. /\ r \in Seq(T) /\ Len(r) = 1 + m
        /\ \A j \in 1..(1 + m) : r[j] = IF j <= 1 THEN a ELSE s[j - 1]
    <2> DEFINE o == <<a>>
    <2> HIDE DEF o
    <2>1. /\ o \o s \in Seq(T) /\ Len(o \o s) = 1 + m
          /\ \A j \in 1..(1 + m) : (o \o s)[j] = IF j <= 1 THEN o[j] ELSE s[j - 1]
      BY <1>2, ConcatProperties DEF o
    <2>2. \A j \in 1..(1 + m) : j <= 1 => o[j] = a
      BY <1>2 DEF o
    <2> QED
      BY <2>1, <2>2 DEF o
  <1> HIDE DEF r
  <1>4. DOMAIN r = 1..(1 + m)
    BY <1>3, LenProperties
  <1>5. r[1] = a /\ \A j \in 1..m : r[j + 1] = s[j]
    BY <1>3
  <1>6. \A j \in 1..(1 + m) : j = 1 \/ \E i \in 1..m : j = i + 1
    <2>1. ASSUME NEW j \in 1..(1 + m), j # 1
          PROVE  j - 1 \in 1..m /\ j = (j - 1) + 1
      BY <2>1
    <2> QED
      BY <2>1
  <1>7. ToSet(r) = ToSet(s) \union {a}
    <2>1. 1 \in 1..(1 + m) /\ \A i \in 1..m : i + 1 \in 1..(1 + m)
      OBVIOUS
    <2>2. ASSUME NEW j \in 1..(1 + m)
          PROVE  r[j] \in ToSet(s) \union {a}
      <3>1. CASE j = 1
        BY <1>5, <3>1
      <3>2. CASE j # 1
        <4>1. PICK i \in 1..m : j = i + 1
          BY <1>6, <3>2
        <4>2. r[j] = s[i] /\ s[i] \in ToSet(s)
          BY <1>5, <4>1 DEF ToSet
        <4> QED
          BY <4>2
      <3> QED
        BY <3>1, <3>2
    <2>3. a \in ToSet(r) /\ \A i \in 1..m : s[i] \in ToSet(r)
      BY <1>4, <1>5, <2>1 DEF ToSet
    <2> QED
      BY <1>4, <2>2, <2>3 DEF ToSet
  <1> QED
    BY <1>3, <1>4, <1>5, <1>6, <1>7 DEF r

(* Taking one element out of a list, position by position *)
Without(s, r, m, k, at) ==
    /\ DOMAIN r = 1..(m - 1)
    /\ \A j \in 1..(m - 1) : at[j] \in 1..m /\ at[j] # k /\ r[j] = s[at[j]]
    /\ \A i, j \in 1..(m - 1) : at[i] = at[j] => i = j
    /\ \A i \in 1..m : i # k => \E j \in 1..(m - 1) : at[j] = i

LEMMA OutOf ==
    ASSUME NEW T, NEW s \in Seq(T), NEW m \in Nat, m = Len(s), DOMAIN s = 1..m, NEW k \in 1..m
    PROVE  /\ RemoveAt(s, k) \in Seq(T)
           /\ \E at : Without(s, RemoveAt(s, k), m, k, at)
  <1> DEFINE r == RemoveAt(s, k)
             p == SubSeq(s, 1, k - 1)
             q == SubSeq(s, k + 1, m)
             at == [j \in 1..(m - 1) |-> IF j < k THEN j ELSE j + 1]
  <1>3. r = p \o q
    BY DEF RemoveAt
  <1>4. p \in Seq(T) /\ Len(p) = k - 1 /\ \A j \in 1..(k - 1) : p[j] = s[j]
    BY SubSeqProperties
  <1>5. q \in Seq(T) /\ Len(q) = m - k /\ \A j \in 1..(m - k) : q[j] = s[k + j]
    BY SubSeqProperties
  <1> HIDE DEF p, q, r
  <1>6. /\ r \in Seq(T) /\ Len(r) = m - 1
        /\ \A j \in 1..(m - 1) : r[j] = IF j <= k - 1 THEN p[j] ELSE q[j - (k - 1)]
    <2>1. /\ r \in Seq(T) /\ Len(r) = Len(p) + Len(q)
          /\ \A j \in 1..(Len(p) + Len(q)) : r[j] = IF j <= Len(p) THEN p[j] ELSE q[j - Len(p)]
      BY <1>3, <1>4, <1>5, ConcatProperties
    <2>2. (k - 1) + (m - k) = m - 1
      OBVIOUS
    <2> QED
      BY <1>4, <1>5, <2>1, <2>2
  <1>7. ASSUME NEW j \in 1..(m - 1)
        PROVE  r[j] = s[at[j]]
    <2>1. CASE j < k
      BY <1>4, <1>6, <2>1
    <2>2. CASE ~ (j < k)
      <3>1. j - (k - 1) \in 1..(m - k) /\ k + (j - (k - 1)) = j + 1 /\ ~ (j <= k - 1)
        BY <2>2
      <3> QED
        BY <1>5, <1>6, <2>2, <3>1
    <2> QED
      BY <2>1, <2>2
  <1>8. DOMAIN r = 1..(m - 1)
    BY <1>6, LenProperties
  <1>9. \A j \in 1..(m - 1) : at[j] \in 1..m /\ at[j] # k
    OBVIOUS
  <1>10. \A i, j \in 1..(m - 1) : at[i] = at[j] => i = j
    OBVIOUS
  <1>11. ASSUME NEW i \in 1..m, i # k
         PROVE  \E j \in 1..(m - 1) : at[j] = i
    <2>1. CASE i < k
      <3>1. i \in 1..(m - 1) /\ at[i] = i
        BY <2>1
      <3> QED
        BY <3>1
    <2>2. CASE ~ (i < k)
      <3>1. i - 1 \in 1..(m - 1) /\ at[i - 1] = i
        BY <1>11, <2>2
      <3> QED
        BY <3>1
    <2> QED
      BY <2>1, <2>2
  <1> HIDE DEF at
  <1>12. Without(s, r, m, k, at)
    BY <1>7, <1>8, <1>9, <1>10, <1>11 DEF Without
  <1> QED
    BY <1>6, <1>12 DEF r

(* The items of a list that is sound *)

(* A set of naturals with a member has a least one. *)
LEMMA LeastExists ==
    ASSUME NEW S \in SUBSET Nat, S # {}
    PROVE  Min(S) \in S /\ \A y \in S : Min(S) <= y
  <1>1. PICK x \in S : \A y \in S : ~ (<<y, x>> \in OpToRel(<, Nat))
    BY NatLessThanWellFounded, WFMin
  <1>2. ASSUME NEW y \in S
        PROVE  x <= y
    <2>1. x \in Nat /\ y \in Nat
      OBVIOUS
    <2>2. ~ (y < x)
      BY <1>1, <2>1 DEF OpToRel
    <2> QED
      BY <2>1, <2>2
  <1> QED
    BY <1>2 DEF Min

LEMMA Segments ==
    ASSUME NEW m \in Nat, NEW k \in 1..m
    PROVE  1..k \in SUBSET (1..m) /\ 1..k # {} /\ k \in 1..k
  OBVIOUS

(* The greatest number of a segment that is complete or ends in k. *)
LEMMA MaxOfSegment ==
    ASSUME NEW k \in Nat, NEW s \in SUBSET (1..k), k \in s
    PROVE  Max(s) = k
  <1>1. \A y \in s : k >= y
    OBVIOUS
  <1>2. \A x \in s : (\A y \in s : x >= y) => x = k
    OBVIOUS
  <1> QED
    BY <1>1, <1>2 DEF Max

(* An update of a list of addresses, one after the other: the states it goes through. *)
Walk(n, h, as, m, remove, f) ==
    f[0] = h /\ \A k \in 1..m : f[k] = AddressUpdate(n, f[k - 1], as[k], remove)

Updated(n, h, as, remove, g) == UpdateRrs(n, h, as, remove) = g

LEMMA UpdateWalks ==
    ASSUME NEW n, NEW h, NEW as, NEW m \in Nat, DOMAIN as = 1..m, NEW remove
    PROVE  \E f : Walk(n, h, as, m, remove, f) /\ Updated(n, h, as, remove, f[m])
  <1> DEFINE body(g, s) == IF s = {} THEN h
                           ELSE AddressUpdate(n, g[s \ {Max(s)}], as[Max(s)], remove)
             fold(D, g) == g = [s \in SUBSET D |-> body(g, s)]
             S == {k \in Nat : \E g : fold(1..k, g)}
  <1>1. 0 \in S
    <2> DEFINE g == [s \in SUBSET (1..0) |-> h]
    <2>1. \A s \in SUBSET (1..0) : s = {}
      OBVIOUS
    <2>2. fold(1..0, g)
      BY <2>1
    <2> HIDE DEF fold, g
    <2> QED
      BY <2>2
  <1>2. ASSUME NEW k \in Nat, k \in S
        PROVE  k + 1 \in S
    <2>1. PICK f : fold(1..k, f)
      BY <1>2
    <2> DEFINE g == [s \in SUBSET (1..(k + 1)) |->
                       IF k + 1 \in s THEN AddressUpdate(n, f[s \ {k + 1}], as[k + 1], remove)
                       ELSE f[s]]
    <2>2. ASSUME NEW s \in SUBSET (1..(k + 1))
          PROVE  g[s] = body(g, s)
      <3>1. CASE k + 1 \in s
        <4>1. Max(s) = k + 1 /\ s # {}
          BY <3>1, MaxOfSegment
        <4>2. s \ {k + 1} \in SUBSET (1..(k + 1)) /\ k + 1 \notin s \ {k + 1}
          OBVIOUS
        <4>3. g[s \ {k + 1}] = f[s \ {k + 1}]
          BY <4>2
        <4>4. g[s] = AddressUpdate(n, f[s \ {k + 1}], as[k + 1], remove)
          BY <3>1
        <4> HIDE DEF g
        <4> QED
          BY <4>1, <4>3, <4>4
      <3>2. CASE k + 1 \notin s
        <4>1. s \in SUBSET (1..k)
          BY <3>2
        <4>2. g[s] = f[s] /\ f[s] = body(f, s)
          BY <3>2, <4>1, <2>1
        <4>3. CASE s = {}
          BY <4>2, <4>3
        <4>4. CASE s # {}
          <5>1. s \ {Max(s)} \in SUBSET (1..(k + 1)) /\ k + 1 \notin s \ {Max(s)}
            BY <3>2
          <5>2. g[s \ {Max(s)}] = f[s \ {Max(s)}]
            BY <5>1
          <5> HIDE DEF g
          <5> QED
            BY <4>2, <4>4, <5>2
        <4> QED
          BY <4>3, <4>4
      <3> QED
        BY <3>1, <3>2
    <2>3. fold(1..(k + 1), g)
      BY <2>2
    <2> HIDE DEF fold, g
    <2> QED
      BY <2>3
  <1>3. m \in S
    <2> HIDE DEF S
    <2>1. \A k \in 0..(m - 1) : k \in S => k + 1 \in S
      BY <1>2
    <2>2. 0..m \subseteq S
      BY <1>1, <2>1, SetInduction
    <2>3. m \in 0..m
      OBVIOUS
    <2> QED
      BY <2>2, <2>3
  <1> DEFINE iter == CHOOSE g : fold(DOMAIN as, g)
  <1>4. fold(1..m, iter)
    <2> HIDE DEF fold
    <2> QED
      BY <1>3
  <1>5. UpdateRrs(n, h, as, remove) = iter[DOMAIN as]
    BY DEF UpdateRrs, FoldLeft, MapThenFoldSet
  <1> HIDE DEF iter
  <1> DEFINE f == [k \in 0..m |-> iter[1..k]]
  <1>6. f[0] = h
    <2>1. 1..0 = {} /\ {} \in SUBSET (1..m)
      OBVIOUS
    <2>2. iter[{}] = h
      BY <1>4, <2>1
    <2> QED
      BY <2>1, <2>2
  <1>7. ASSUME NEW k \in 1..m
        PROVE  f[k] = AddressUpdate(n, f[k - 1], as[k], remove)
    <2>0. k \in Nat /\ k \in 1..k
      OBVIOUS
    <2>1. 1..k \in SUBSET (1..m) /\ 1..k # {}
      BY Segments
    <2>9. Max(1..k) = k
      BY <2>0, MaxOfSegment
    <2>2. (1..k) \ {k} = 1..(k - 1)
      OBVIOUS
    <2>3. iter[1..k] = AddressUpdate(n, iter[1..(k - 1)], as[k], remove)
      BY <1>4, <2>1, <2>9, <2>2
    <2>4. k \in 0..m /\ k - 1 \in 0..m
      OBVIOUS
    <2> QED
      BY <2>3, <2>4
  <1>8. f[m] = iter[DOMAIN as]
    OBVIOUS
  <1> HIDE DEF f
  <1> QED
    BY <1>5, <1>6, <1>7, <1>8 DEF Walk, Updated

-----------------------------------------------------------------------------
(* The lists *)

(* The elements of two sequences, one behind the other *)
LEMMA ConcatElements ==
    ASSUME NEW T, NEW s \in Seq(T), NEW t \in Seq(T)
    PROVE  s \o t \in Seq(T) /\ ToSet(s \o t) = ToSet(s) \union ToSet(t)
  <1>1. PICK m \in Nat, k \in Nat : m = Len(s) /\ k = Len(t)
    BY LenProperties
  <1>2. DOMAIN s = 1..m /\ DOMAIN t = 1..k
    BY <1>1, LenProperties
  <1>3. /\ s \o t \in Seq(T) /\ Len(s \o t) = m + k
        /\ \A i \in 1..(m + k) : (s \o t)[i] = IF i <= m THEN s[i] ELSE t[i - m]
    BY <1>1, ConcatProperties
  <1>4. DOMAIN (s \o t) = 1..(m + k)
    BY <1>3, LenProperties
  <1> DEFINE u == s \o t
  <1> HIDE DEF u
  <1>5. /\ DOMAIN u = 1..(m + k)
        /\ \A i \in 1..(m + k) : u[i] = IF i <= m THEN s[i] ELSE t[i - m]
    BY <1>3, <1>4 DEF u
  <1>6. \A x \in ToSet(u) : x \in ToSet(s) \union ToSet(t)
    <2>1. ASSUME NEW i \in 1..(m + k)
          PROVE  u[i] \in ToSet(s) \union ToSet(t)
      <3>1. CASE i <= m
        BY <1>2, <1>5, <3>1 DEF ToSet
      <3>2. CASE ~ (i <= m)
        <4>1. i - m \in 1..k
          BY <3>2
        <4> QED
          BY <1>2, <1>5, <3>2, <4>1 DEF ToSet
      <3> QED
        BY <3>1, <3>2
    <2> QED
      BY <1>5, <2>1 DEF ToSet
  <1>7. \A i \in 1..m : u[i] = s[i] /\ i \in DOMAIN u
    BY <1>5
  <1>8. \A i \in 1..k : u[m + i] = t[i] /\ m + i \in DOMAIN u
    BY <1>5
  <1>9. ToSet(s) \union ToSet(t) \subseteq ToSet(u)
    BY <1>2, <1>7, <1>8 DEF ToSet
  <1> QED
    BY <1>3, <1>6, <1>9 DEF u

(* Sequences put one behind the other, one after the other *)
FlattenWalk(seqs, m, f) ==
    f[1] = seqs[1] /\ \A i \in 2..m : f[i] = f[i - 1] \o seqs[i]

LEMMA FlattenWalks ==
    ASSUME NEW m \in Nat, m # 0, NEW seqs, Len(seqs) = m
    PROVE  \E f : FlattenWalk(seqs, m, f) /\ FlattenSeq(seqs) = f[m]
  <1> DEFINE body(f, i) == IF i = 1 THEN seqs[i] ELSE f[i - 1] \o seqs[i]
             flat(k, f) == f = [i \in 1..k |-> body(f, i)]
             S == {k \in Nat : \E f : flat(k, f)}
  <1>1. 0 \in S
    <2> DEFINE g == [i \in 1..0 |-> seqs]
    <2>1. flat(0, g)
      OBVIOUS
    <2> HIDE DEF flat, g
    <2> QED
      BY <2>1
  <1>2. ASSUME NEW k \in Nat, k \in S
        PROVE  k + 1 \in S
    <2>1. PICK f : flat(k, f)
      BY <1>2
    <2> DEFINE g == [i \in 1..(k + 1) |-> IF i = k + 1 THEN body(f, i) ELSE f[i]]
    <2>2. ASSUME NEW i \in 1..(k + 1)
          PROVE  g[i] = body(g, i)
      <3>1. CASE i = 1
        BY <2>1, <3>1
      <3>2. CASE i # 1
        <4>1. i - 1 \in 1..(k + 1) /\ i - 1 # k + 1 /\ (i # k + 1 => i \in 1..k)
          BY <3>2
        <4>2. g[i - 1] = f[i - 1]
          BY <4>1
        <4>3. g[i] = f[i - 1] \o seqs[i]
          BY <2>1, <3>2, <4>1
        <4> HIDE DEF g
        <4> QED
          BY <3>2, <4>2, <4>3
      <3> QED
        BY <3>1, <3>2
    <2>3. flat(k + 1, g)
      BY <2>2
    <2> HIDE DEF flat, g
    <2> QED
      BY <2>3
  <1>3. m \in S
    <2> HIDE DEF S
    <2>1. \A k \in 0..(m - 1) : k \in S => k + 1 \in S
      BY <1>2
    <2>2. 0..m \subseteq S
      BY <1>1, <2>1, SetInduction
    <2> QED
      BY <2>2
  <1> DEFINE flatten == CHOOSE f : flat(m, f)
  <1>4. flat(m, flatten)
    <2> HIDE DEF flat
    <2> QED
      BY <1>3
  <1>5. FlattenSeq(seqs) = flatten[m]
    BY DEF FlattenSeq
  <1> HIDE DEF flatten
  <1>6. FlattenWalk(seqs, m, flatten)
    <2>1. 1 \in 1..m /\ \A i \in 2..m : i \in 1..m /\ i # 1
      OBVIOUS
    <2> QED
      BY <1>4, <2>1 DEF FlattenWalk
  <1> QED
    BY <1>5, <1>6

(* The elements of sequences put one behind the other are those of all of them. *)
LEMMA FlattenElements ==
    ASSUME NEW T, NEW m \in Nat, NEW seqs \in [1..m -> Seq(T)], Len(seqs) = m,
           m = 0 => seqs = <<>>
    PROVE  /\ FlattenSeq(seqs) \in Seq(T)
           /\ \A x : x \in ToSet(FlattenSeq(seqs)) <=> \E k \in 1..m : x \in ToSet(seqs[k])
  <1>1. CASE m = 0
    <2>1. FlattenSeq(seqs) = <<>>
      BY <1>1 DEF FlattenSeq
    <2>2. <<>> \in Seq(T) /\ ToSet(<<>>) = {} /\ 1..m = {}
      BY <1>1 DEF ToSet
    <2> QED
      BY <2>1, <2>2
  <1>2. CASE m # 0
    <2> DEFINE good(k, s) ==
                 /\ s \in Seq(T)
                 /\ \A x : x \in ToSet(s) <=> \E j \in 1..k : x \in ToSet(seqs[j])
    <2>1. PICK f : FlattenWalk(seqs, m, f) /\ FlattenSeq(seqs) = f[m]
      BY <1>2, FlattenWalks
    <2> DEFINE G == {k \in Nat : k > 0 => good(k, f[k])}
    <2>2. 0 \in G
      OBVIOUS
    <2>3. ASSUME NEW k \in 0..(m - 1), k \in G
          PROVE  k + 1 \in G
      <3>0. k + 1 \in 1..m /\ seqs[k + 1] \in Seq(T)
        OBVIOUS
      <3>1. CASE k = 0
        <4>1. f[1] = seqs[1]
          BY <2>1 DEF FlattenWalk
        <4>2. 1..1 = {1}
          OBVIOUS
        <4> QED
          BY <3>0, <3>1, <4>1, <4>2
      <3>2. CASE k # 0
        <4>1. f[k + 1] = f[k] \o seqs[k + 1]
          <5>1. k + 1 \in 2..m /\ (k + 1) - 1 = k
            BY <3>2
          <5> QED
            BY <2>1, <5>1 DEF FlattenWalk
        <4>2. good(k, f[k])
          BY <2>3, <3>2
        <4>3. /\ f[k + 1] \in Seq(T)
              /\ ToSet(f[k + 1]) = ToSet(f[k]) \union ToSet(seqs[k + 1])
          BY <3>0, <4>1, <4>2, ConcatElements
        <4>4. 1..(k + 1) = (1..k) \union {k + 1}
          OBVIOUS
        <4>5. good(k + 1, f[k + 1])
          BY <4>2, <4>3, <4>4
        <4> QED
          BY <4>5
      <3> QED
        BY <3>1, <3>2
    <2>4. m \in G
      <3> HIDE DEF G
      <3>1. 0..m \subseteq G
        BY <2>2, <2>3, SetInduction
      <3> QED
        BY <3>1
    <2> QED
      BY <1>2, <2>1, <2>4
  <1> QED
    BY <1>1, <1>2

(* An address belongs to one interface. *)
LEMMA OwnInterface ==
    /\ \A a \in Addresses : IfaceOf(a) \in HostIfaces /\ a \in AddressesOf[IfaceOf(a)]
    /\ \A i \in HostIfaces : \A a \in AddressesOf[i] : a \in Addresses /\ IfaceOf(a) = i
  <1>1. ASSUME NEW a \in Addresses
        PROVE  IfaceOf(a) \in HostIfaces /\ a \in AddressesOf[IfaceOf(a)]
    BY DEF Addresses, IfaceOf
  <1>2. ASSUME NEW i \in HostIfaces, NEW a \in AddressesOf[i]
        PROVE  a \in Addresses /\ IfaceOf(a) = i
    <2>1. a \in Addresses
      BY DEF Addresses
    <2> QED
      BY <2>1, <1>1, InterfacesAssumption DEF InterfacesAssumption
  <1> QED
    BY <1>1, <1>2

(* The list of the addresses of some interfaces has exactly those that are present. *)
LEMMA ListedIs ==
    ASSUME NEW n \in Nets, ListsSound(n), NEW is \in SUBSET HostIfaces
    PROVE  /\ Listed(n, is) \in Seq(Addresses)
           /\ ToSet(Listed(n, is)) = {a \in Present(n) : IfaceOf(a) \in is}
  <1> DEFINE seqs == [k \in DOMAIN IfaceList |->
                        IF IfaceList[k] \in is THEN n.addrs[IfaceList[k]] ELSE <<>>]
  <1>1. PICK m \in Nat : m = Len(IfaceList) /\ DOMAIN IfaceList = 1..m
    BY LenProperties, InterfacesAssumption DEF InterfacesAssumption
  <1>2. \A k \in 1..m : IfaceList[k] \in HostIfaces
    BY <1>1 DEF HostIfaces, ToSet
  <1>3. seqs \in [1..m -> Seq(Addresses)]
    <2>1. <<>> \in Seq(Addresses)
      OBVIOUS
    <2>2. \A i \in HostIfaces : n.addrs[i] \in Seq(Addresses)
      BY DEF Nets
    <2> QED
      BY <1>1, <1>2, <2>1, <2>2
  <1>4. Len(seqs) = m /\ (m = 0 => seqs = <<>>)
    BY <1>1
  <1> HIDE DEF seqs
  <1>5. /\ FlattenSeq(seqs) \in Seq(Addresses)
        /\ \A x : x \in ToSet(FlattenSeq(seqs)) <=> \E k \in 1..m : x \in ToSet(seqs[k])
    BY <1>3, <1>4, FlattenElements
  <1>6. Listed(n, is) = FlattenSeq(seqs)
    BY DEF Listed, seqs
  <1>7. ASSUME NEW x
        PROVE  (\E k \in 1..m : x \in ToSet(seqs[k]))
                 <=> x \in Present(n) /\ IfaceOf(x) \in is
    <2>1. ASSUME NEW k \in 1..m, x \in ToSet(seqs[k])
          PROVE  x \in Present(n) /\ IfaceOf(x) \in is
      <3> DEFINE i == IfaceList[k]
      <3>1. i \in is
        <4>1. CASE i \notin is
          BY <1>1, <2>1, <4>1 DEF seqs, ToSet
        <4> QED
          BY <4>1
      <3>2. x \in On(n, i)
        BY <1>1, <2>1, <3>1 DEF seqs, On
      <3>3. x \in AddressesOf[i]
        BY <3>1, <3>2 DEF ListsSound
      <3> QED
        BY <3>1, <3>2, <3>3, OwnInterface DEF Present
    <2>2. ASSUME x \in Present(n), IfaceOf(x) \in is
          PROVE  \E k \in 1..m : x \in ToSet(seqs[k])
      <3>1. PICK k \in 1..m : IfaceList[k] = IfaceOf(x)
        BY <1>1, <2>2 DEF HostIfaces, ToSet
      <3>2. x \in ToSet(seqs[k])
        BY <1>1, <2>2, <3>1 DEF seqs, Present, On
      <3> QED
        BY <3>2
    <2> QED
      BY <2>1, <2>2
  <1> QED
    BY <1>5, <1>6, <1>7

-----------------------------------------------------------------------------
(* One update of an address *)

RegisteringIn(h) == {a \in Addresses : h.group[a] = "registering"}

(* The counter of a server that is REGISTERING: at least c, and at most u beyond the
   groups that are being registered, of which a renaming leaves some uncounted. *)
Counted(h, c, u) ==
    IF h.state = "registering"
    THEN c <= h.pending /\ h.pending <= u + Cardinality(RegisteringIn(h))
    ELSE h.pending = c

(* The groups that are filled for an earlier name are among O. *)
NamedBut(h, O) == NamesSound(h) /\ OldNameLeft(h) \subseteq O

(* Nothing is published that should not be, ... *)
NoneStale(n, h) ==
    \A b \in Addresses : h.group[b] # "empty" => b \in Present(n) /\ Publishes(n, b)

(* ... so that an update withdraws nothing, or else each group withdrawn is counted. *)
Safe(n, h, c) ==
    h.state = "registering" => NoneStale(n, h) \/ (c = 0 /\ h.pending > 0)

LEMMA CountType ==
    ASSUME NEW h
    PROVE  IsFiniteSet(RegisteringIn(h)) /\ Cardinality(RegisteringIn(h)) \in Nat
  <1>1. RegisteringIn(h) \in SUBSET Addresses
    BY DEF RegisteringIn
  <1>2. IsFiniteSet(RegisteringIn(h))
    BY <1>1, FS_Subset, InterfacesAssumption DEF InterfacesAssumption
  <1> QED
    BY <1>2, FS_CardinalityType

(* A server that becomes RUNNING fills what it publishes and clears the rest. *)
LEMMA RunningSets ==
    ASSUME NEW n \in Nets, NEW h \in Hosts, NEW O, NamedBut(h, O)
    PROVE  LET r == SetRunning(n, h) IN
           /\ r \in Hosts /\ NamedBut(r, O)
           /\ r.state = "running" /\ r.pending = h.pending /\ r.name = h.name
           /\ \A a \in Present(n) : Current(n, r, a)
           /\ \A a \in Addresses \ Present(n) : r.group[a] = h.group[a]
  <1> DEFINE r == SetRunning(n, h)
             clears == {a \in Present(n) : ~ Publishes(n, a)}
             fills == {a \in Present(n) \ clears : h.group[a] = "empty"}
             group == [a \in Addresses |-> IF a \in fills THEN Registration(n, a)
                         ELSE IF a \in clears THEN "empty" ELSE h.group[a]]
             under == [a \in Addresses |-> IF a \in fills THEN h.name
                         ELSE IF a \in clears THEN Nowhere ELSE h.under[a]]
  <1>1. r = [h EXCEPT !.state = "running", !.group = group, !.under = under]
    BY DEF SetRunning
  <1>2. \A a : Registration(n, a) \in {"registering", "established"}
    BY DEF Registration
  <1>3. /\ group \in [Addresses -> {"empty", "registering", "established"}]
        /\ under \in [Addresses -> HostNames \union {Nowhere}]
    BY <1>2 DEF Hosts
  <1> HIDE DEF r
  <1>4. /\ r \in Hosts /\ r.state = "running" /\ r.pending = h.pending /\ r.name = h.name
        /\ r.group = group /\ r.under = under
    <2> HIDE DEF group, under
    <2> QED
      BY <1>1, <1>3 DEF Hosts
  <1>5. NamedBut(r, O)
    BY <1>2, <1>4, InterfacesAssumption
       DEF NamedBut, NamesSound, OldNameLeft, Hosts, InterfacesAssumption
  <1>6. \A a \in Present(n) : a \in Addresses
    BY DEF Present
  <1>7. \A a \in Present(n) : Current(n, r, a)
    BY <1>2, <1>4, <1>6 DEF Current
  <1>8. \A a \in Addresses \ Present(n) : r.group[a] = h.group[a]
    BY <1>4
  <1> QED
    BY <1>4, <1>5, <1>7, <1>8 DEF r

(* What the group of one address adds to the number of those being registered *)
LEMMA CountSet ==
    ASSUME NEW h \in Hosts, NEW a \in Addresses, NEW g, NEW s,
           g.group = [h.group EXCEPT ![a] = s]
    PROVE  /\ s = "registering" /\ h.group[a] # "registering" =>
                Cardinality(RegisteringIn(g)) = Cardinality(RegisteringIn(h)) + 1
           /\ s # "registering" /\ h.group[a] = "registering" =>
                Cardinality(RegisteringIn(g)) + 1 = Cardinality(RegisteringIn(h))
           /\ s # "registering" /\ h.group[a] # "registering" =>
                RegisteringIn(g) = RegisteringIn(h)
  <1>0. h.group \in [Addresses -> {"empty", "registering", "established"}]
    BY DEF Hosts
  <1>1. ASSUME s = "registering", h.group[a] # "registering"
        PROVE  Cardinality(RegisteringIn(g)) = Cardinality(RegisteringIn(h)) + 1
    <2>1. RegisteringIn(g) = RegisteringIn(h) \union {a} /\ a \notin RegisteringIn(h)
      BY <1>0, <1>1 DEF RegisteringIn
    <2> QED
      BY <2>1, CountType, FS_AddElement
  <1>2. ASSUME s # "registering", h.group[a] = "registering"
        PROVE  Cardinality(RegisteringIn(g)) + 1 = Cardinality(RegisteringIn(h))
    <2>1. RegisteringIn(h) = RegisteringIn(g) \union {a} /\ a \notin RegisteringIn(g)
      BY <1>0, <1>2 DEF RegisteringIn
    <2> QED
      BY <2>1, CountType, FS_AddElement
  <1>3. ASSUME s # "registering", h.group[a] # "registering"
        PROVE  RegisteringIn(g) = RegisteringIn(h)
    BY <1>0, <1>3 DEF RegisteringIn
  <1> QED
    BY <1>1, <1>2, <1>3

(* avahi_server_decrease_host_rr_pending() of a server that is REGISTERING *)
LEMMA DecreaseSets ==
    ASSUME NEW n \in Nets, NEW h \in Hosts, NEW O, NamedBut(h, O), h.pending > 0
    PROVE  LET d == DecreasePending(n, h) IN
           /\ d \in Hosts /\ NamedBut(d, O) /\ d.name = h.name /\ d.pending = h.pending - 1
           /\ d.pending > 0 => d.state = h.state /\ d.group = h.group /\ d.under = h.under
           /\ d.pending = 0 =>
                /\ d.state = "running" /\ \A a \in Present(n) : Current(n, d, a)
                /\ \A a \in Addresses \ Present(n) : d.group[a] = h.group[a]
  <1> DEFINE d == DecreasePending(n, h)
             less == [h EXCEPT !.pending = @ - 1]
  <1>1. /\ less \in Hosts /\ less.pending = h.pending - 1 /\ less.state = h.state
        /\ less.name = h.name /\ less.group = h.group /\ less.under = h.under
    BY DEF Hosts
  <1>2. d = IF less.pending = 0 THEN SetRunning(n, less) ELSE less
    BY DEF DecreasePending
  <1> HIDE DEF d, less
  <1>3. NamedBut(less, O)
    BY <1>1 DEF NamedBut, NamesSound, OldNameLeft
  <1>4. CASE less.pending = 0
    <2> DEFINE r == SetRunning(n, less)
    <2>1. /\ r \in Hosts /\ NamedBut(r, O)
          /\ r.state = "running" /\ r.pending = less.pending /\ r.name = less.name
          /\ \A a \in Present(n) : Current(n, r, a)
          /\ \A a \in Addresses \ Present(n) : r.group[a] = less.group[a]
      BY <1>1, <1>3, RunningSets
    <2>2. d = r
      BY <1>2, <1>4
    <2> HIDE DEF r
    <2> QED
      BY <1>1, <1>4, <2>1, <2>2 DEF d
  <1>5. CASE less.pending # 0
    <2>1. less.pending \in Nat
      BY <1>1 DEF Hosts
    <2> QED
      BY <1>1, <1>2, <1>3, <1>5, <2>1 DEF d
  <1> QED
    BY <1>4, <1>5

(* What an update of one address leaves behind *)
Stepped(n, h, g, a, c, u, O, remove) ==
    /\ g \in Hosts /\ g.name = h.name /\ NamedBut(g, O) /\ Counted(g, c, u)
    /\ IF remove THEN g.group[a] = "empty" ELSE Current(n, g, a)
    /\ h.pending > 0 /\ g.state = "registering" => g.pending > 0
    /\ \/ g.state = h.state /\ \A b \in Addresses \ {a} : g.group[b] = h.group[b]
       \/ /\ h.state = "registering" /\ g.state = "running"
          /\ remove => h.group[a] = "registering"
          /\ \A b \in Addresses \ {a} :
               IF b \in Present(n) THEN Current(n, g, b) ELSE g.group[b] = h.group[b]

LEMMA ClearedSets ==
    ASSUME NEW h \in Hosts, NEW a \in Addresses
    PROVE  LET g == Cleared(h, a) IN
           /\ g \in Hosts /\ g.state = h.state /\ g.pending = h.pending /\ g.name = h.name
           /\ g.group = [h.group EXCEPT ![a] = "empty"]
           /\ g.under = [h.under EXCEPT ![a] = Nowhere]
  BY DEF Cleared, Hosts

LEMMA CommittedSets ==
    ASSUME NEW n, NEW h \in Hosts, NEW a \in Addresses
    PROVE  LET g == Committed(n, h, a) IN
           /\ g \in Hosts /\ g.state = h.state /\ g.pending = h.pending /\ g.name = h.name
           /\ g.group = [h.group EXCEPT ![a] = Registration(n, a)]
           /\ g.under = [h.under EXCEPT ![a] = h.name]
  BY DEF Committed, Registration, Hosts

(* Names after one group was cleared or filled *)
LEMMA NamedAfter ==
    ASSUME NEW h \in Hosts, NEW O, NamedBut(h, O), NEW a \in Addresses, NEW g, NEW s,
           g.name = h.name, g.group = [h.group EXCEPT ![a] = s],
           g.under = [h.under EXCEPT ![a] = IF s = "empty" THEN Nowhere ELSE h.name]
    PROVE  NamedBut(g, O)
  BY InterfacesAssumption DEF NamedBut, NamesSound, OldNameLeft, Hosts, InterfacesAssumption

(* Clearing a group that nobody waits for *)
LEMMA ClearSteps ==
    ASSUME NEW n \in Nets, NEW h \in Hosts, NEW c \in Nat, NEW u \in Nat, NEW O,
           Counted(h, c, u), NamedBut(h, O),
           NEW a \in Present(n), NEW remove \in BOOLEAN,
           remove \/ h.state \notin {"registering", "running"} \/ ~ Publishes(n, a),
           ~ (h.group[a] = "registering" /\ h.state = "registering")
    PROVE  Stepped(n, h, Cleared(h, a), a, c, u, O, remove)
  <1> DEFINE g == Cleared(h, a)
  <1>0. a \in Addresses /\ h.group \in [Addresses -> {"empty", "registering", "established"}]
    BY DEF Present, Hosts
  <1>1. /\ g \in Hosts /\ g.state = h.state /\ g.pending = h.pending /\ g.name = h.name
        /\ g.group = [h.group EXCEPT ![a] = "empty"]
        /\ g.under = [h.under EXCEPT ![a] = Nowhere]
    BY <1>0, ClearedSets
  <1> HIDE DEF g
  <1>2. NamedBut(g, O)
    BY <1>0, <1>1, NamedAfter
  <1>3. Counted(g, c, u)
    BY <1>0, <1>1, CountSet DEF Counted
  <1>4. g.group[a] = "empty" /\ \A b \in Addresses \ {a} : g.group[b] = h.group[b]
    BY <1>0, <1>1
  <1>5. remove \/ Current(n, g, a)
    BY <1>1, <1>4 DEF Current
  <1>6. Stepped(n, h, g, a, c, u, O, remove)
    BY <1>1, <1>2, <1>3, <1>4, <1>5 DEF Stepped
  <1> QED
    BY <1>6 DEF g

(* Clearing a group that is being registered and counted *)
LEMMA ClearCountedSteps ==
    ASSUME NEW n \in Nets, NEW h \in Hosts, NEW c \in Nat, NEW u \in Nat, NEW O,
           Counted(h, c, u), NamedBut(h, O),
           NEW a \in Present(n), NEW remove \in BOOLEAN, remove \/ ~ Publishes(n, a),
           h.group[a] = "registering", h.state = "registering", h.pending > c
    PROVE  Stepped(n, h, Cleared(DecreasePending(n, h), a), a, c, u, O, remove)
  <1> DEFINE d == DecreasePending(n, h)
             g == Cleared(d, a)
  <1> SUFFICES Stepped(n, h, g, a, c, u, O, remove)
    OBVIOUS
  <1>0. a \in Addresses /\ h.group \in [Addresses -> {"empty", "registering", "established"}]
    BY DEF Present, Hosts
  <1>1. /\ h.pending \in Nat /\ h.pending > 0 /\ h.pending > c
        /\ h.pending <= u + Cardinality(RegisteringIn(h))
    BY DEF Counted, Hosts
  <1>2. /\ d \in Hosts /\ NamedBut(d, O) /\ d.name = h.name /\ d.pending = h.pending - 1
        /\ d.pending > 0 => d.state = h.state /\ d.group = h.group /\ d.under = h.under
        /\ d.pending = 0 =>
             /\ d.state = "running" /\ \A b \in Present(n) : Current(n, d, b)
             /\ \A b \in Addresses \ Present(n) : d.group[b] = h.group[b]
    BY <1>1, DecreaseSets
  <1> HIDE DEF d
  <1>3. /\ g \in Hosts /\ g.state = d.state /\ g.pending = d.pending /\ g.name = d.name
        /\ g.group = [d.group EXCEPT ![a] = "empty"]
        /\ g.under = [d.under EXCEPT ![a] = Nowhere]
    BY <1>0, <1>2, ClearedSets
  <1> HIDE DEF g
  <1>4. NamedBut(g, O)
    BY <1>0, <1>2, <1>3, NamedAfter
  <1>5. d.group \in [Addresses -> {"empty", "registering", "established"}]
    BY <1>2 DEF Hosts
  <1>6. g.group[a] = "empty" /\ \A b \in Addresses \ {a} : g.group[b] = d.group[b]
    BY <1>0, <1>3, <1>5
  <1>7. remove \/ Current(n, g, a)
    BY <1>6 DEF Current
  <1>8. CASE d.pending > 0
    <2>1. Cardinality(RegisteringIn(g)) + 1 = Cardinality(RegisteringIn(h))
      BY <1>0, <1>2, <1>3, <1>8, CountSet
    <2>2. Cardinality(RegisteringIn(g)) \in Nat /\ Cardinality(RegisteringIn(h)) \in Nat
      BY CountType
    <2>3. Counted(g, c, u)
      BY <1>1, <1>2, <1>3, <1>8, <2>1, <2>2 DEF Counted
    <2>4. g.state = h.state /\ \A b \in Addresses \ {a} : g.group[b] = h.group[b]
      BY <1>2, <1>3, <1>6, <1>8
    <2>5. g.pending > 0 /\ g.name = h.name
      BY <1>2, <1>3, <1>8
    <2> QED
      BY <1>3, <1>4, <1>6, <1>7, <2>3, <2>4, <2>5 DEF Stepped
  <1>9. CASE d.pending = 0
    <2>1. c = 0
      BY <1>1, <1>2, <1>9
    <2>2. Counted(g, c, u)
      <3>1. g.pending = 0 /\ g.state = "running"
        BY <1>2, <1>3, <1>9
      <3> QED
        BY <2>1, <3>1 DEF Counted
    <2>3. ASSUME NEW b \in Addresses \ {a}
          PROVE  IF b \in Present(n) THEN Current(n, g, b) ELSE g.group[b] = h.group[b]
      BY <1>2, <1>3, <1>6, <1>9 DEF Current
    <2>4. g.state = "running" /\ g.name = h.name
      BY <1>2, <1>3, <1>9
    <2> QED
      BY <1>3, <1>4, <1>6, <1>7, <2>2, <2>3, <2>4 DEF Stepped
  <1>10. d.pending \in Nat
    BY <1>2 DEF Hosts
  <1> QED
    BY <1>8, <1>9, <1>10

(* Filling a group without counting it *)
LEMMA CommitSteps ==
    ASSUME NEW n \in Nets, NEW h \in Hosts, NEW c \in Nat, NEW u \in Nat, NEW O,
           Counted(h, c, u), NamedBut(h, O),
           NEW a \in Present(n), h.state = "running", Publishes(n, a)
    PROVE  Stepped(n, h, Committed(n, h, a), a, c, u, O, FALSE)
  <1> DEFINE g == Committed(n, h, a)
  <1>0. a \in Addresses /\ h.group \in [Addresses -> {"empty", "registering", "established"}]
    BY DEF Present, Hosts
  <1>1. /\ g \in Hosts /\ g.state = h.state /\ g.pending = h.pending /\ g.name = h.name
        /\ g.group = [h.group EXCEPT ![a] = Registration(n, a)]
        /\ g.under = [h.under EXCEPT ![a] = h.name]
    BY <1>0, CommittedSets
  <1> HIDE DEF g
  <1>2. Registration(n, a) # "empty"
    BY DEF Registration
  <1>3. NamedBut(g, O)
    BY <1>0, <1>1, <1>2, NamedAfter
  <1>4. Counted(g, c, u)
    BY <1>1 DEF Counted
  <1>5. g.group[a] # "empty" /\ \A b \in Addresses \ {a} : g.group[b] = h.group[b]
    BY <1>0, <1>1, <1>2
  <1>6. Current(n, g, a)
    BY <1>1, <1>5 DEF Current
  <1>7. Stepped(n, h, g, a, c, u, O, FALSE)
    BY <1>1, <1>3, <1>4, <1>5, <1>6 DEF Stepped
  <1> QED
    BY <1>7 DEF g

(* Filling a group that is counted: it may be established at once *)
LEMMA CommitCountedSteps ==
    ASSUME NEW n \in Nets, NEW h \in Hosts, NEW c \in Nat, NEW u \in Nat, NEW O,
           Counted(h, c, u), NamedBut(h, O),
           NEW a \in Present(n), h.state = "registering", Publishes(n, a),
           h.group[a] = "empty"
    PROVE  Stepped(n, h, CommitCounted(n, h, a), a, c, u, O, FALSE)
  <1> DEFINE k == Committed(n, h, a)
             more == [k EXCEPT !.pending = @ + 1]
             g == CommitCounted(n, h, a)
  <1> SUFFICES Stepped(n, h, g, a, c, u, O, FALSE)
    OBVIOUS
  <1>0. /\ a \in Addresses /\ h.group \in [Addresses -> {"empty", "registering", "established"}]
        /\ h.pending \in Nat
    BY DEF Present, Hosts
  <1>1. /\ k \in Hosts /\ k.state = h.state /\ k.pending = h.pending /\ k.name = h.name
        /\ k.group = [h.group EXCEPT ![a] = Registration(n, a)]
        /\ k.under = [h.under EXCEPT ![a] = h.name]
    BY <1>0, CommittedSets
  <1>2. g = IF Probed(n, a) THEN more ELSE DecreasePending(n, more)
    BY DEF CommitCounted
  <1> HIDE DEF g, k
  <1>3. /\ more \in Hosts /\ more.state = "registering" /\ more.pending = h.pending + 1
        /\ more.name = h.name /\ more.group = [h.group EXCEPT ![a] = Registration(n, a)]
        /\ more.under = [h.under EXCEPT ![a] = h.name]
    BY <1>1 DEF Hosts
  <1> HIDE DEF more
  <1>4. Registration(n, a) # "empty"
    BY DEF Registration
  <1>5. NamedBut(more, O)
    BY <1>0, <1>3, <1>4, NamedAfter
  <1>6. more.group[a] # "empty" /\ \A b \in Addresses \ {a} : more.group[b] = h.group[b]
    BY <1>0, <1>3, <1>4
  <1>7. /\ Cardinality(RegisteringIn(h)) \in Nat /\ c <= h.pending
        /\ h.pending <= u + Cardinality(RegisteringIn(h))
    BY CountType DEF Counted
  <1>8. CASE Probed(n, a)
    <2>1. g = more /\ Registration(n, a) = "registering"
      BY <1>2, <1>8 DEF Registration
    <2>2. Cardinality(RegisteringIn(more)) = Cardinality(RegisteringIn(h)) + 1
      BY <1>0, <1>3, <2>1, CountSet
    <2>3. Counted(more, c, u)
      BY <1>0, <1>3, <1>7, <2>2 DEF Counted
    <2>4. Current(n, more, a)
      BY <1>3, <1>6 DEF Current
    <2>5. more.pending > 0
      BY <1>0, <1>3
    <2> QED
      BY <1>3, <1>5, <1>6, <2>1, <2>3, <2>4, <2>5 DEF Stepped
  <1>9. CASE ~ Probed(n, a)
    <2>1. g = DecreasePending(n, more) /\ Registration(n, a) = "established"
      BY <1>2, <1>9 DEF Registration
    <2>2. more.pending > 0
      BY <1>0, <1>3
    <2>3. /\ g \in Hosts /\ NamedBut(g, O) /\ g.name = more.name
          /\ g.pending = more.pending - 1
          /\ g.pending > 0 => g.state = more.state /\ g.group = more.group
          /\ g.pending = 0 =>
                /\ g.state = "running" /\ \A b \in Present(n) : Current(n, g, b)
                /\ \A b \in Addresses \ Present(n) : g.group[b] = more.group[b]
      BY <1>3, <1>5, <2>1, <2>2, DecreaseSets
    <2>4. g.pending = h.pending /\ g.name = h.name
      BY <1>0, <1>3, <2>3
    <2>5. RegisteringIn(more) = RegisteringIn(h)
      BY <1>0, <1>3, <2>1, CountSet
    <2>6. CASE h.pending > 0
      <3>1. g.state = "registering" /\ g.group = more.group
        BY <1>3, <2>3, <2>4, <2>6
      <3>2. RegisteringIn(g) = RegisteringIn(h)
        BY <2>5, <3>1 DEF RegisteringIn
      <3>3. Counted(g, c, u)
        BY <1>7, <2>4, <3>1, <3>2 DEF Counted
      <3>4. Current(n, g, a)
        BY <1>6, <3>1 DEF Current
      <3> QED
        BY <1>6, <2>3, <2>4, <2>6, <3>1, <3>3, <3>4 DEF Stepped
    <2>7. CASE h.pending = 0
      <3>1. g.pending = 0 /\ g.state = "running"
        BY <2>3, <2>4, <2>7
      <3>2. c = 0
        BY <1>7, <2>7
      <3>3. Counted(g, c, u)
        BY <3>1, <3>2 DEF Counted
      <3>4. Current(n, g, a)
        BY <2>3, <3>1
      <3>5. \A b \in Addresses \ {a} :
              IF b \in Present(n) THEN Current(n, g, b) ELSE g.group[b] = h.group[b]
        BY <1>6, <2>3, <3>1
      <3> QED
        BY <2>3, <2>4, <3>1, <3>3, <3>4, <3>5 DEF Stepped
    <2>8. h.pending > 0 \/ h.pending = 0
      BY <1>0
    <2> QED
      BY <2>6, <2>7, <2>8
  <1> QED
    BY <1>8, <1>9

(* avahi_interface_address_update_rrs() for an address that is present *)
LEMMA UpdateSteps ==
    ASSUME NEW n \in Nets, NEW h \in Hosts, NEW c \in Nat, NEW u \in Nat, NEW O,
           Counted(h, c, u), NamedBut(h, O),
           NEW a \in Present(n), NEW remove \in BOOLEAN,
           h.state = "registering" => \/ ~ remove /\ NoneStale(n, h)
                                      \/ c = 0 /\ h.pending > 0
    PROVE  Stepped(n, h, AddressUpdate(n, h, a, remove), a, c, u, O, remove)
  <1> DEFINE fills == ~ remove /\ h.state \in {"registering", "running"} /\ Publishes(n, a)
  <1>1. CASE fills /\ h.group[a] # "empty"
    <2>1. AddressUpdate(n, h, a, remove) = h /\ remove = FALSE
      BY <1>1 DEF AddressUpdate
    <2>2. Current(n, h, a)
      BY <1>1 DEF Current
    <2> QED
      BY <2>1, <2>2 DEF Stepped
  <1>2. CASE fills /\ h.group[a] = "empty" /\ h.state = "registering"
    <2>1. AddressUpdate(n, h, a, remove) = CommitCounted(n, h, a) /\ remove = FALSE
      BY <1>2 DEF AddressUpdate
    <2> QED
      BY <1>2, <2>1, CommitCountedSteps
  <1>3. CASE fills /\ h.group[a] = "empty" /\ h.state = "running"
    <2>1. AddressUpdate(n, h, a, remove) = Committed(n, h, a) /\ remove = FALSE
      BY <1>3 DEF AddressUpdate
    <2> QED
      BY <1>3, <2>1, CommitSteps
  <1>4. CASE ~ fills /\ h.group[a] = "registering" /\ h.state = "registering"
    <2>1. AddressUpdate(n, h, a, remove) = Cleared(DecreasePending(n, h), a)
      BY <1>4 DEF AddressUpdate
    <2>2. remove \/ ~ Publishes(n, a)
      BY <1>4
    <2>3. a \in Addresses
      BY DEF Present
    <2>4. h.pending > c
      BY <1>4, <2>2, <2>3 DEF NoneStale
    <2> QED
      BY <1>4, <2>1, <2>2, <2>4, ClearCountedSteps
  <1>5. CASE ~ fills /\ ~ (h.group[a] = "registering" /\ h.state = "registering")
    <2>1. AddressUpdate(n, h, a, remove) = Cleared(h, a)
      BY <1>5 DEF AddressUpdate
    <2> QED
      BY <1>5, <2>1, ClearSteps
  <1> QED
    BY <1>1, <1>2, <1>3, <1>4, <1>5

-----------------------------------------------------------------------------
(* An update of a list of addresses *)

(* What does not depend on which addresses are listed *)
Carried(h, g, c, u, O) ==
    /\ g \in Hosts /\ g.name = h.name /\ NamedBut(g, O) /\ Counted(g, c, u)
    /\ h.pending > 0 /\ g.state = "registering" => g.pending > 0
    /\ g.state = h.state \/ (h.state = "registering" /\ g.state = "running")

LEMMA CarriedOn ==
    ASSUME NEW n, NEW h, NEW g, NEW c, NEW u, NEW O, Carried(h, g, c, u, O),
           NEW a, NEW remove, NEW g2, Stepped(n, g, g2, a, c, u, O, remove)
    PROVE  Carried(h, g2, c, u, O)
  BY DEF Carried, Stepped

LEMMA StaleCarriedOn ==
    ASSUME NEW n, NEW g, NoneStale(n, g), NEW c, NEW u, NEW O, NEW a \in Present(n),
           NEW remove, NEW g2, Stepped(n, g, g2, a, c, u, O, remove)
    PROVE  NoneStale(n, g2)
  <1> SUFFICES ASSUME NEW b \in Addresses, g2.group[b] # "empty"
               PROVE  b \in Present(n) /\ Publishes(n, b)
    BY DEF NoneStale
  <1>1. CASE b = a
    BY <1>1 DEF Stepped, Current
  <1>2. CASE b # a /\ g2.group[b] = g.group[b]
    BY <1>2 DEF NoneStale
  <1>3. CASE Current(n, g2, b)
    BY <1>3 DEF Current
  <1> QED
    BY <1>1, <1>2, <1>3 DEF Stepped

(* The listed addresses become current and the others stay current, although the
   server may become RUNNING on the way. *)
LEMMA RefreshList ==
    ASSUME NEW n \in Nets, NEW h \in Hosts, NEW c \in Nat, NEW u \in Nat, NEW O,
           Counted(h, c, u), NamedBut(h, O),
           Safe(n, h, c), NEW as \in Seq(Addresses), ToSet(as) \subseteq Present(n),
           \A b \in Addresses \ ToSet(as) : Current(n, h, b)
    PROVE  LET g == UpdateRrs(n, h, as, FALSE) IN
           Carried(h, g, c, u, O) /\ \A b \in Addresses : Current(n, g, b)
  <1>1. PICK m \in Nat : DOMAIN as = 1..m
    BY LenProperties
  <1>2. PICK f : Walk(n, h, as, m, FALSE, f) /\ UpdateRrs(n, h, as, FALSE) = f[m]
    <2>1. \A r : \E f : Walk(n, h, as, m, r, f) /\ Updated(n, h, as, r, f[m])
      BY <1>1, UpdateWalks
    <2> QED
      BY <2>1, Zenon DEF Updated
  <1>3. \A k \in 1..m : as[k] \in Present(n) /\ as[k] \in Addresses
    BY <1>1 DEF ToSet, Present
  <1> DEFINE seen(k, b) == b \notin ToSet(as) \/ \E j \in 1..k : as[j] = b
             Q(k) == /\ Carried(h, f[k], c, u, O)
                     /\ NoneStale(n, h) => NoneStale(n, f[k])
                     /\ \A b \in Addresses : seen(k, b) => Current(n, f[k], b)
             S == {k \in Nat : Q(k)}
  <1>4. 0 \in S
    <2>1. f[0] = h
      BY <1>2 DEF Walk
    <2>2. Carried(h, h, c, u, O)
      BY DEF Carried
    <2>3. \A b \in Addresses : seen(0, b) => b \notin ToSet(as)
      <3>1. 1..0 = {}
        OBVIOUS
      <3> QED
        BY <3>1
    <2> HIDE DEF seen
    <2> QED
      BY <2>1, <2>2, <2>3
  <1>5. ASSUME NEW k \in 0..(m - 1), k \in S
        PROVE  k + 1 \in S
    <2> DEFINE a == as[k + 1]
    <2>0. k + 1 \in 1..m /\ (k + 1) - 1 = k /\ k + 1 \in Nat
      OBVIOUS
    <2>1. f[k + 1] = AddressUpdate(n, f[k], a, FALSE)
      BY <1>2, <2>0 DEF Walk
    <2>2. f[k] \in Hosts /\ Counted(f[k], c, u) /\ NamedBut(f[k], O)
      BY <1>5 DEF Carried
    <2>3. a \in Present(n)
      BY <1>3, <2>0
    <2> DEFINE g == f[k]
    <2> HIDE DEF a, g
    <2>4. Stepped(n, g, f[k + 1], a, c, u, O, FALSE)
      <3>1. g.state = "registering" => \/ ~ FALSE /\ NoneStale(n, g)
                                       \/ c = 0 /\ g.pending > 0
        BY <1>5 DEF Carried, Safe, g
      <3>2. /\ f[k + 1] = AddressUpdate(n, g, a, FALSE) /\ g \in Hosts
            /\ Counted(g, c, u) /\ NamedBut(g, O) /\ FALSE \in BOOLEAN
        BY <2>1, <2>2 DEF g
      <3> QED
        BY <2>3, <3>1, <3>2, UpdateSteps
    <2>5. /\ Carried(h, f[k + 1], c, u, O)
          /\ NoneStale(n, h) => NoneStale(n, f[k + 1])
      BY <1>5, <2>3, <2>4, CarriedOn, StaleCarriedOn DEF g
    <2> USE DEF a, g
    <2>6. ASSUME NEW b \in Addresses, seen(k + 1, b)
          PROVE  Current(n, f[k + 1], b)
      <3>1. CASE b = a
        BY <2>4, <3>1 DEF Stepped
      <3>2. CASE b # a
        <4>1. seen(k, b)
          <5>1. \A j \in 1..(k + 1) : j = k + 1 \/ j \in 1..k
            OBVIOUS
          <5> QED
            BY <2>6, <3>2, <5>1
        <4>2. Current(n, f[k], b)
          BY <1>5, <4>1
        <4>3. CASE f[k + 1].state = f[k].state /\ f[k + 1].group[b] = f[k].group[b]
          BY <4>2, <4>3 DEF Current
        <4>4. CASE b \in Present(n) /\ Current(n, f[k + 1], b)
          BY <4>4
        <4>5. CASE b \notin Present(n) /\ f[k + 1].group[b] = f[k].group[b]
          BY <4>2, <4>5 DEF Current
        <4> QED
          BY <2>4, <3>2, <4>3, <4>4, <4>5 DEF Stepped
      <3> QED
        BY <3>1, <3>2
    <2> HIDE DEF seen
    <2> QED
      BY <2>0, <2>5, <2>6
  <1>6. m \in S
    <2> HIDE DEF S
    <2>1. 0..m \subseteq S
      BY <1>4, <1>5, SetInduction
    <2> QED
      BY <2>1
  <1>7. \A b \in Addresses : seen(m, b)
    BY <1>1 DEF ToSet
  <1> HIDE DEF seen
  <1> QED
    BY <1>2, <1>6, <1>7

(* The listed addresses are withdrawn, unless the server becomes RUNNING on the way,
   which it does only if one of them was being registered. *)
Withdrawn(n, h, g, as) ==
    \/ /\ g.state = h.state
       /\ \A b \in Addresses : g.group[b] = IF b \in as THEN "empty" ELSE h.group[b]
    \/ /\ h.state = "registering" /\ g.state = "running"
       /\ \E b \in as : h.group[b] = "registering"
       /\ \A b \in Addresses \ as :
            IF b \in Present(n) THEN Current(n, g, b) ELSE g.group[b] = h.group[b]

LEMMA WithdrawList ==
    ASSUME NEW n \in Nets, NEW h \in Hosts, NEW c \in Nat, NEW u \in Nat, NEW O,
           Counted(h, c, u), NamedBut(h, O),
           NoneStale(n, h), h.state = "registering" => c = 0 /\ h.pending > 0,
           NEW as \in Seq(Addresses), ToSet(as) \subseteq Present(n)
    PROVE  LET g == UpdateRrs(n, h, as, TRUE) IN
           Carried(h, g, c, u, O) /\ NoneStale(n, g) /\ Withdrawn(n, h, g, ToSet(as))
  <1>1. PICK m \in Nat : DOMAIN as = 1..m
    BY LenProperties
  <1>2. PICK f : Walk(n, h, as, m, TRUE, f) /\ UpdateRrs(n, h, as, TRUE) = f[m]
    <2>1. \A r : \E f : Walk(n, h, as, m, r, f) /\ Updated(n, h, as, r, f[m])
      BY <1>1, UpdateWalks
    <2> QED
      BY <2>1, Zenon DEF Updated
  <1>3. \A k \in 1..m : as[k] \in Present(n) /\ as[k] \in Addresses /\ as[k] \in ToSet(as)
    BY <1>1 DEF ToSet, Present
  <1> DEFINE seen(k, b) == \E j \in 1..k : as[j] = b
             A(k) == /\ f[k].state = h.state
                     /\ \A b \in Addresses :
                          f[k].group[b] = IF seen(k, b) THEN "empty" ELSE h.group[b]
             B(k) == /\ h.state = "registering" /\ f[k].state = "running"
                     /\ \E b \in ToSet(as) : h.group[b] = "registering"
                     /\ \A b \in Addresses \ ToSet(as) :
                          IF b \in Present(n) THEN Current(n, f[k], b)
                          ELSE f[k].group[b] = h.group[b]
             Q(k) == Carried(h, f[k], c, u, O) /\ NoneStale(n, f[k]) /\ (A(k) \/ B(k))
             S == {k \in Nat : Q(k)}
  <1>4. 0 \in S
    <2>1. f[0] = h
      BY <1>2 DEF Walk
    <2>2. Carried(h, h, c, u, O)
      BY DEF Carried
    <2>3. \A b : ~ seen(0, b)
      OBVIOUS
    <2>4. A(0)
      <3> HIDE DEF seen
      <3> QED
        BY <2>1, <2>3
    <2> HIDE DEF A, B
    <2> QED
      BY <2>1, <2>2, <2>4
  <1>5. ASSUME NEW k \in 0..(m - 1), k \in S
        PROVE  k + 1 \in S
    <2> DEFINE a == as[k + 1]
    <2>0. k + 1 \in 1..m /\ (k + 1) - 1 = k /\ k + 1 \in Nat
      OBVIOUS
    <2>1. f[k + 1] = AddressUpdate(n, f[k], a, TRUE)
      BY <1>2, <2>0 DEF Walk
    <2>2. f[k] \in Hosts /\ Counted(f[k], c, u) /\ NamedBut(f[k], O)
      BY <1>5 DEF Carried
    <2>3. a \in Present(n) /\ a \in Addresses /\ a \in ToSet(as)
      BY <1>3, <2>0
    <2> DEFINE g == f[k]
    <2> HIDE DEF a, g
    <2>4. Stepped(n, g, f[k + 1], a, c, u, O, TRUE)
      <3>1. g.state = "registering" => c = 0 /\ g.pending > 0
        BY <1>5 DEF Carried, g
      <3>2. /\ f[k + 1] = AddressUpdate(n, g, a, TRUE) /\ g \in Hosts
            /\ Counted(g, c, u) /\ NamedBut(g, O) /\ TRUE \in BOOLEAN
        BY <2>1, <2>2 DEF g
      <3> QED
        BY <2>3, <3>1, <3>2, UpdateSteps
    <2>5. Carried(h, f[k + 1], c, u, O) /\ NoneStale(n, f[k + 1])
      BY <1>5, <2>3, <2>4, CarriedOn, StaleCarriedOn DEF g
    <2> USE DEF a, g
    <2>6. \A b : seen(k + 1, b) <=> seen(k, b) \/ b = a
      <3>1. 1..(k + 1) = (1..k) \union {k + 1}
        OBVIOUS
      <3> QED
        BY <3>1
    <2>7. A(k) \/ B(k)
      BY <1>5
    <2> DEFINE same == f[k + 1].state = f[k].state
                       /\ \A b \in Addresses \ {a} : f[k + 1].group[b] = f[k].group[b]
               ran == /\ f[k].state = "registering" /\ f[k + 1].state = "running"
                      /\ f[k].group[a] = "registering"
                      /\ \A b \in Addresses \ {a} :
                           IF b \in Present(n) THEN Current(n, f[k + 1], b)
                           ELSE f[k + 1].group[b] = f[k].group[b]
    <2>8. f[k + 1].group[a] = "empty" /\ (same \/ ran)
      BY <2>4 DEF Stepped
    <2> HIDE DEF seen
    <2>9. CASE A(k) /\ same
      <3>1. A(k + 1)
        BY <2>6, <2>8, <2>9
      <3> QED
        BY <2>0, <2>5, <3>1
    <2>10. CASE A(k) /\ ran
      <3>1. h.group[a] = "registering" /\ h.state = "registering"
        BY <2>3, <2>10
      <3>2. ASSUME NEW b \in Addresses \ ToSet(as)
            PROVE  b # a /\ f[k].group[b] = h.group[b]
        <4>1. ~ seen(k, b)
          <5>1. \A j \in 1..k : j \in 1..m
            BY <2>0
          <5> QED
            BY <1>3, <5>1 DEF seen
        <4> QED
          BY <2>3, <2>10, <4>1
      <3>3. B(k + 1)
        BY <2>3, <2>10, <3>1, <3>2
      <3> QED
        BY <2>0, <2>5, <3>3
    <2>11. CASE B(k)
      <3>1. same
        BY <2>8, <2>11
      <3>2. ASSUME NEW b \in Addresses \ ToSet(as)
            PROVE  IF b \in Present(n) THEN Current(n, f[k + 1], b)
                   ELSE f[k + 1].group[b] = h.group[b]
        <4>1. f[k + 1].group[b] = f[k].group[b] /\ f[k + 1].state = f[k].state
          BY <2>3, <3>1
        <4> QED
          BY <2>11, <4>1 DEF Current
      <3>3. B(k + 1)
        BY <2>11, <3>1, <3>2
      <3> QED
        BY <2>0, <2>5, <3>3
    <2> QED
      BY <2>7, <2>8, <2>9, <2>10, <2>11
  <1>6. m \in S
    <2> HIDE DEF S
    <2>1. 0..m \subseteq S
      BY <1>4, <1>5, SetInduction
    <2> QED
      BY <2>1
  <1>7. \A b : seen(m, b) <=> b \in ToSet(as)
    BY <1>1 DEF ToSet
  <1> HIDE DEF seen
  <1>8. Withdrawn(n, h, f[m], ToSet(as))
    BY <1>6, <1>7 DEF Withdrawn
  <1> QED
    BY <1>2, <1>6, <1>8

-----------------------------------------------------------------------------
(* Relevance and the multicast group *)

(* Everything about interface i that its relevance depends on is the same. *)
SameFor(n, m, i) ==
    /\ n.dump = m.dump /\ n.ok[HwOf[i]] = m.ok[HwOf[i]] /\ n.addrs[i] = m.addrs[i]
    /\ \A a \in AddressesOf[i] : n.kind[a] = m.kind[a]

LEMMA SamePublished ==
    ASSUME NEW n \in Nets, ListsSound(n), NEW m \in Nets, NEW i \in HostIfaces,
           SameFor(n, m, i)
    PROVE  /\ On(n, i) = On(m, i)
           /\ InterfaceIsRelevant(n, i) <=> InterfaceIsRelevant(m, i)
           /\ \A a \in AddressesOf[i] : /\ a \in Present(n) <=> a \in Present(m)
                                        /\ Publishes(n, a) <=> Publishes(m, a)
                                        /\ Global(n, a) <=> Global(m, a)
  <1>1. On(n, i) = On(m, i) /\ On(n, i) \subseteq AddressesOf[i]
    BY DEF SameFor, On, ListsSound
  <1>2. \A a \in AddressesOf[i] : IfaceOf(a) = i /\ a \in Addresses
    BY OwnInterface
  <1>3. \A a \in AddressesOf[i] : /\ Public(n, a) <=> Public(m, a)
                                  /\ Global(n, a) <=> Global(m, a)
    BY DEF SameFor, Public, Global
  <1>4. \A a \in AddressesOf[i] : AddressIsRelevant(n, a) <=> AddressIsRelevant(m, a)
    BY <1>1, <1>2, <1>3 DEF AddressIsRelevant
  <1>5. InterfaceIsRelevant(n, i) <=> InterfaceIsRelevant(m, i)
    BY <1>1, <1>4 DEF InterfaceIsRelevant, SameFor
  <1>6. \A a \in AddressesOf[i] : a \in Present(n) <=> a \in Present(m)
    BY <1>1, <1>2 DEF Present
  <1>7. \A a \in AddressesOf[i] : Publishes(n, a) <=> Publishes(m, a)
    BY <1>2, <1>4, <1>5 DEF Publishes, SameFor
  <1> QED
    BY <1>1, <1>3, <1>5, <1>6, <1>7

LEMMA SameJoined ==
    ASSUME NEW n \in Nets, ListsSound(n), NEW m \in Nets, NEW i \in HostIfaces,
           SameFor(n, m, i), JoinedRightly(n, i),
           m.announcing[i] = n.announcing[i], m.joined[i] = n.joined[i]
    PROVE  JoinedRightly(m, i)
  <1>1. On(n, i) \subseteq AddressesOf[i]
    BY DEF ListsSound
  <1>2. n.dump = m.dump
    BY DEF SameFor
  <1> QED
    BY <1>1, <1>2, SamePublished DEF JoinedRightly

(* Only the membership of interface i differs. *)
OnlyMember(n, m, i) ==
    /\ m \in Nets /\ m.dump = n.dump /\ m.known = n.known /\ m.ok = n.ok
    /\ m.addrs = n.addrs /\ m.kind = n.kind
    /\ \A k \in HostIfaces \ {i} : m.announcing[k] = n.announcing[k] /\ m.joined[k] = n.joined[k]

(* What an interface joins with is an address of its own, a global one if there is one. *)
LEMMA BestIs ==
    ASSUME NEW n \in Nets, NEW i \in HostIfaces, n.addrs[i] # <<>>
    PROVE  /\ Best(n, i) \in On(n, i) /\ Best(n, i) \in Addresses
           /\ Global(n, Best(n, i)) \/ \A a \in On(n, i) : ~ Global(n, a)
  <1> DEFINE s == n.addrs[i]
             global == {k \in DOMAIN s : Global(n, s[k])}
  <1>1. s \in Seq(Addresses)
    BY DEF Nets
  <1> HIDE DEF s
  <1>2. PICK m \in Nat : m = Len(s) /\ DOMAIN s = 1..m /\ m # 0
    BY <1>1, LenProperties, EmptySeq DEF s
  <1>3. On(n, i) = {s[k] : k \in 1..m}
    BY <1>2 DEF On, ToSet, s
  <1>4. \A k \in 1..m : s[k] \in Addresses
    BY <1>1, <1>2, ElementOfSeq
  <1>5. Best(n, i) = s[IF global # {} THEN Min(global) ELSE 1]
    BY DEF Best, s
  <1>6. CASE global # {}
    <2>1. global \in SUBSET Nat
      BY <1>2
    <2>2. Min(global) \in global
      BY <1>6, <2>1, LeastExists
    <2> QED
      BY <1>2, <1>3, <1>4, <1>5, <1>6, <2>2
  <1>7. CASE global = {}
    <2>1. 1 \in 1..m
      BY <1>2
    <2> QED
      BY <1>2, <1>3, <1>4, <1>5, <1>7, <2>1
  <1> QED
    BY <1>6, <1>7

(* A membership given to interface i by hand *)
LEMMA MemberSet ==
    ASSUME NEW n \in Nets, NEW i \in HostIfaces, NEW j \in Addresses \union {Nowhere}
    PROVE  LET m == [n EXCEPT !.joined[i] = j] IN
           OnlyMember(n, m, i) /\ m.announcing = n.announcing /\ m.joined[i] = j
  BY DEF OnlyMember, Nets

AnnouncingIs(n, m, i, b) == m = [n EXCEPT !.announcing[i] = b]
Announced(n, m, i, b) == OnlyMember(n, m, i) /\ m.joined = n.joined /\ m.announcing[i] = b

LEMMA AnnouncingSet ==
    \A n \in Nets, i \in HostIfaces, b \in BOOLEAN : \A m :
        AnnouncingIs(n, m, i, b) => Announced(n, m, i, b)
  <1>1. ASSUME NEW n \in Nets, NEW i \in HostIfaces, NEW b \in BOOLEAN, NEW m,
               m = [n EXCEPT !.announcing[i] = b]
        PROVE  OnlyMember(n, m, i) /\ m.joined = n.joined /\ m.announcing[i] = b
    BY <1>1 DEF OnlyMember, Nets
  <1> QED
    BY <1>1, Zenon DEF AnnouncingIs, Announced

LEMMA OnlyMemberTwice ==
    ASSUME NEW n, NEW m, NEW k, NEW i, OnlyMember(n, m, i), OnlyMember(m, k, i)
    PROVE  OnlyMember(n, k, i)
  BY DEF OnlyMember

(* An interface has joined with nothing, or with the best it has. *)
JoinedBest(m, i) ==
    m.joined[i] # Nowhere =>
        /\ m.joined[i] \in On(m, i)
        /\ Global(m, m.joined[i]) \/ \A a \in On(m, i) : ~ Global(m, a)

LEMMA JoinSets ==
    ASSUME NEW n \in Nets, NEW i \in HostIfaces, NEW joins \in BOOLEAN, n.joined[i] = Nowhere
    PROVE  LET m == McastJoin(n, i, joins) IN
           OnlyMember(n, m, i) /\ m.announcing = n.announcing /\ JoinedBest(m, i)
  <1>1. CASE n.addrs[i] = <<>> \/ ~ joins
    <2>1. McastJoin(n, i, joins) = n
      BY <1>1 DEF McastJoin
    <2> QED
      BY <2>1 DEF OnlyMember, JoinedBest
  <1>2. CASE ~ (n.addrs[i] = <<>> \/ ~ joins)
    <2> DEFINE m == [n EXCEPT !.joined[i] = Best(n, i)]
    <2>1. McastJoin(n, i, joins) = m
      BY <1>2 DEF McastJoin
    <2>2. /\ Best(n, i) \in On(n, i) /\ Best(n, i) \in Addresses
          /\ Global(n, Best(n, i)) \/ \A a \in On(n, i) : ~ Global(n, a)
      BY <1>2, BestIs
    <2>3. OnlyMember(n, m, i) /\ m.announcing = n.announcing /\ m.joined[i] = Best(n, i)
      BY <2>2, MemberSet
    <2> HIDE DEF m
    <2>4. On(m, i) = On(n, i) /\ \A a : Global(m, a) <=> Global(n, a)
      BY <2>3 DEF OnlyMember, On, Global
    <2> QED
      BY <2>1, <2>2, <2>3, <2>4 DEF JoinedBest
  <1> QED
    BY <1>1, <1>2

LEMMA RejoinSets ==
    ASSUME NEW n \in Nets, NEW i \in HostIfaces, NEW joins \in BOOLEAN
    PROVE  LET m == McastRejoin(n, i, joins) IN
           /\ OnlyMember(n, m, i) /\ m.announcing = n.announcing /\ JoinedBest(m, i)
           /\ n.joined[i] = Nowhere => m.joined[i] = Nowhere
  <1> DEFINE j == n.joined[i]
             keeps == j \in On(n, i) /\ (Global(n, j) \/ \A a \in On(n, i) : ~ Global(n, a))
  <1>1. CASE j = Nowhere \/ keeps
    <2>1. McastRejoin(n, i, joins) = n
      BY <1>1 DEF McastRejoin
    <2> QED
      BY <1>1, <2>1 DEF OnlyMember, JoinedBest
  <1>2. CASE ~ (j = Nowhere \/ keeps)
    <2> DEFINE l == [n EXCEPT !.joined[i] = Nowhere]
               m == McastJoin(l, i, joins)
    <2>1. McastRejoin(n, i, joins) = m
      BY <1>2 DEF McastRejoin, McastLeave
    <2>2. OnlyMember(n, l, i) /\ l.announcing = n.announcing /\ l.joined[i] = Nowhere
      BY MemberSet
    <2>3. l \in Nets
      BY <2>2 DEF OnlyMember
    <2> HIDE DEF l
    <2>4. OnlyMember(l, m, i) /\ m.announcing = l.announcing /\ JoinedBest(m, i)
      BY <2>2, <2>3, JoinSets
    <2> HIDE DEF m
    <2> QED
      BY <1>2, <2>1, <2>2, <2>4, OnlyMemberTwice
  <1> QED
    BY <1>1, <1>2

Announces(n, i) == n.announcing[i]

(* avahi_interface_check_relevant() puts an interface right, whatever has changed. *)
LEMMA CheckSets ==
    ASSUME NEW n \in Nets, ListsSound(n), NEW i \in HostIfaces, NEW joins \in BOOLEAN,
           n.joined[i] # Nowhere => Announces(n, i), Announces(n, i) => n.dump = "done"
    PROVE  LET m == CheckRelevant(n, i, joins) IN OnlyMember(n, m, i) /\ JoinedRightly(m, i)
  <1> DEFINE m == CheckRelevant(n, i, joins)
             relevant == InterfaceIsRelevant(n, i)
  <1>0. n.announcing[i] \in BOOLEAN
    BY DEF Nets
  <1>1. ASSUME NEW k, OnlyMember(n, k, i)
        PROVE  InterfaceIsRelevant(k, i) <=> relevant
    <2>1. k \in Nets /\ SameFor(n, k, i)
      BY <1>1 DEF OnlyMember, SameFor
    <2> QED
      BY <2>1, SamePublished
  <1> HIDE DEF relevant
  <1>2. CASE n.dump = "done" /\ relevant /\ ~ Announces(n, i)
    <2> DEFINE g == McastJoin(n, i, joins)
               b == g.joined[i] # Nowhere
    <2>1. n.joined[i] = Nowhere
      BY <1>2
    <2>2. OnlyMember(n, g, i) /\ g.announcing = n.announcing /\ JoinedBest(g, i)
      BY <2>1, JoinSets
    <2>3. m = [g EXCEPT !.announcing[i] = b]
      BY <1>2 DEF CheckRelevant, Announces, relevant
    <2> HIDE DEF g, m
    <2>4. g \in Nets
      BY <2>2 DEF OnlyMember
    <2>5. OnlyMember(g, m, i) /\ m.joined = g.joined /\ m.announcing[i] = b
      <3>1. AnnouncingIs(g, m, i, b)
        BY <2>3 DEF AnnouncingIs
      <3>2. Announced(g, m, i, b)
        BY <2>4, <3>1, AnnouncingSet, Zenon
      <3> QED
        BY <3>2, Zenon DEF Announced
    <2>6. OnlyMember(n, m, i)
      BY <2>2, <2>5, OnlyMemberTwice
    <2>7. On(m, i) = On(g, i) /\ m.dump = "done" /\ \A a : Global(m, a) <=> Global(g, a)
      BY <1>2, <2>2, <2>5 DEF OnlyMember, On, Global
    <2>8. JoinedRightly(m, i)
      BY <1>1, <1>2, <2>2, <2>5, <2>6, <2>7 DEF JoinedRightly, JoinedBest
    <2> QED
      BY <2>6, <2>8 DEF m
  <1>3. CASE ~ relevant /\ Announces(n, i)
    <2> DEFINE g == [n EXCEPT !.joined[i] = Nowhere]
    <2>1. OnlyMember(n, g, i) /\ g.joined[i] = Nowhere
      BY MemberSet
    <2>2. m = [g EXCEPT !.announcing[i] = FALSE]
      BY <1>3 DEF CheckRelevant, Announces, McastLeave, relevant
    <2> HIDE DEF g, m
    <2>3. g \in Nets
      BY <2>1 DEF OnlyMember
    <2>4. OnlyMember(g, m, i) /\ m.joined = g.joined /\ m.announcing[i] = FALSE
      <3>1. AnnouncingIs(g, m, i, FALSE)
        BY <2>2 DEF AnnouncingIs
      <3>2. Announced(g, m, i, FALSE)
        BY <2>3, <3>1, AnnouncingSet, Zenon
      <3> QED
        BY <3>2, Zenon DEF Announced
    <2>5. JoinedRightly(m, i)
      BY <2>1, <2>4 DEF JoinedRightly
    <2> QED
      BY <2>1, <2>4, <2>5, OnlyMemberTwice DEF m
  <1>4. CASE /\ ~ (n.dump = "done" /\ relevant /\ ~ Announces(n, i))
             /\ ~ (~ relevant /\ Announces(n, i))
    <2>1. m = McastRejoin(n, i, joins)
      BY <1>4 DEF CheckRelevant, Announces, relevant
    <2>2. /\ OnlyMember(n, m, i) /\ m.announcing = n.announcing /\ JoinedBest(m, i)
          /\ n.joined[i] = Nowhere => m.joined[i] = Nowhere
      BY <2>1, RejoinSets
    <2> HIDE DEF m
    <2>3. n.dump = m.dump
      BY <2>2 DEF OnlyMember
    <2>4. JoinedRightly(m, i)
      BY <1>0, <1>1, <1>4, <2>2, <2>3 DEF JoinedRightly, JoinedBest, Announces
    <2> QED
      BY <2>2, <2>4 DEF m
  <1> QED
    BY <1>2, <1>3, <1>4


-----------------------------------------------------------------------------
(* The server *)

(* What the inductive invariant says of the host, of the network, and of both *)
HostOK(n, h, O) ==
    /\ h \in Hosts /\ NamedBut(h, O) /\ Counted(h, 0, 0)
    /\ \A a \in Addresses : Current(n, h, a)
    /\ h.state = "registering" => h.pending > 0
NetOK(n) == n \in Nets /\ ListsSound(n) /\ \A i \in HostIfaces : JoinedRightly(n, i)

LEMMA InvariantParts ==
    HostIInv <=> NetOK(net) /\ HostOK(net, host, Addresses)
  <1>1. PendingCounted /\ host \in Hosts <=>
          /\ host \in Hosts /\ Counted(host, 0, 0)
          /\ host.state = "registering" => host.pending > 0
    <2>1. Cardinality(RegisteringIn(host)) \in Nat
      BY CountType
    <2> QED
      BY <2>1 DEF PendingCounted, Counted, RegisteringIn, Hosts
  <1>2. NamedBut(host, Addresses) <=> NamesSound(host)
    BY DEF NamedBut, OldNameLeft
  <1> QED
    BY <1>1, <1>2 DEF HostIInv, NetOK, HostOK, MulticastAddressKept

LEMMA RefreshAll ==
    ASSUME NEW n \in Nets, ListsSound(n), NEW h \in Hosts, NEW c \in Nat, NEW u \in Nat,
           NEW O, Counted(h, c, u), NamedBut(h, O), NoneStale(n, h)
    PROVE  LET g == UpdateAll(n, h, FALSE) IN
           Carried(h, g, c, u, O) /\ \A b \in Addresses : Current(n, g, b)
  <1> DEFINE as == Listed(n, HostIfaces)
  <1>1. as \in Seq(Addresses) /\ ToSet(as) = Present(n)
    <2>1. HostIfaces \in SUBSET HostIfaces /\ \A a \in Present(n) : IfaceOf(a) \in HostIfaces
      BY OwnInterface DEF Present
    <2> QED
      BY <2>1, ListedIs
  <1>2. \A b \in Addresses \ Present(n) : Current(n, h, b)
    BY DEF NoneStale, Current
  <1>3. UpdateAll(n, h, FALSE) = UpdateRrs(n, h, as, FALSE)
    BY DEF UpdateAll
  <1> HIDE DEF as
  <1>4. Safe(n, h, c)
    BY DEF Safe
  <1> QED
    BY <1>1, <1>2, <1>3, <1>4, RefreshList

(* withdraw_host_rrs(): nothing that should not be published is left.  A server that
   was not REGISTERING has nothing left; one that was, and waited for no more groups
   than were being registered, has become RUNNING. *)
LEMMA WithdrawSets ==
    ASSUME NEW n \in Nets, ListsSound(n), NEW h \in Hosts, NEW u \in Nat, NEW O,
           IF h.state = "registering" THEN Counted(h, 0, u) /\ h.pending > 0
                                      ELSE h.pending = 0,
           NamedBut(h, O), NoneStale(n, h)
    PROVE  LET g == WithdrawHostRrs(n, h) IN
           /\ g \in Hosts /\ g.name = h.name /\ NamedBut(g, O) /\ g.pending = 0
           /\ NoneStale(n, g) /\ (g.state = h.state \/ g.state = "running")
           /\ h.state # "registering" =>
                g.state = h.state /\ \A b \in Addresses : g.group[b] = "empty"
           /\ u = 0 => g.state # "registering"
  <1> DEFINE as == Listed(n, HostIfaces)
             d == UpdateRrs(n, h, as, TRUE)
             g == WithdrawHostRrs(n, h)
  <1> SUFFICES
        /\ g \in Hosts /\ g.name = h.name /\ NamedBut(g, O) /\ g.pending = 0
        /\ NoneStale(n, g) /\ (g.state = h.state \/ g.state = "running")
        /\ h.state # "registering" =>
             g.state = h.state /\ \A b \in Addresses : g.group[b] = "empty"
        /\ u = 0 => g.state # "registering"
    OBVIOUS
  <1>1. as \in Seq(Addresses) /\ ToSet(as) = Present(n)
    <2>1. HostIfaces \in SUBSET HostIfaces /\ \A a \in Present(n) : IfaceOf(a) \in HostIfaces
      BY OwnInterface DEF Present
    <2> QED
      BY <2>1, ListedIs
  <1>2. g = [d EXCEPT !.pending = 0]
    BY DEF WithdrawHostRrs, UpdateAll
  <1> HIDE DEF as, g
  <1>3. Carried(h, d, 0, u, O) /\ NoneStale(n, d) /\ Withdrawn(n, h, d, Present(n))
    <2>1. Counted(h, 0, u) /\ (h.state = "registering" => 0 = 0 /\ h.pending > 0)
      BY DEF Counted
    <2> QED
      BY <1>1, <2>1, WithdrawList
  <1> HIDE DEF d
  <1>4. d \in Hosts /\ d.name = h.name /\ NamedBut(d, O)
    BY <1>3 DEF Carried
  <1>5. /\ g \in Hosts /\ g.name = h.name /\ g.pending = 0 /\ g.state = d.state
        /\ g.group = d.group /\ g.under = d.under
    BY <1>2, <1>4 DEF Hosts
  <1>6. NamedBut(g, O)
    BY <1>4, <1>5 DEF NamedBut, NamesSound, OldNameLeft
  <1>7. NoneStale(n, g)
    BY <1>3, <1>5 DEF NoneStale
  <1>8. d.state = h.state => \A b \in Addresses : d.group[b] = "empty"
    <2>1. \A b \in Addresses \ Present(n) : d.group[b] = "empty"
      BY <1>3 DEF NoneStale
    <2> QED
      BY <1>3, <2>1 DEF Withdrawn
  <1>9. g.state = h.state \/ g.state = "running"
    BY <1>3, <1>5 DEF Withdrawn
  <1>10. h.state # "registering" => g.state = h.state
    BY <1>3, <1>5 DEF Withdrawn
  <1>11. ASSUME u = 0, g.state = "registering"
         PROVE  FALSE
    <2>1. d.state = "registering" /\ h.state = "registering"
      BY <1>5, <1>9, <1>11
    <2>2. RegisteringIn(d) = {}
      BY <1>8, <2>1 DEF RegisteringIn
    <2>3. Cardinality(RegisteringIn(d)) = 0
      BY <2>2, FS_EmptySet
    <2>4. d.pending \in Nat /\ d.pending <= 0 /\ d.pending > 0
      BY <1>3, <1>4, <1>11, <2>1, <2>3 DEF Carried, Counted, Hosts
    <2> QED
      BY <2>4
  <1> QED
    BY <1>5, <1>6, <1>7, <1>8, <1>9, <1>10, <1>11

(* server_set_state() of a server that waits for nothing *)
LEMMA StateSets ==
    ASSUME NEW n \in Nets, ListsSound(n), NEW h \in Hosts, NEW O, h.pending = 0,
           NamedBut(h, O), NoneStale(n, h),
           NEW state \in {"registering", "running", "collision"}, h.state # state
    PROVE  LET g == SetState(n, h, state) IN
           /\ g \in Hosts /\ NamedBut(g, O) /\ g.name = h.name /\ Counted(g, 0, 0)
           /\ \A b \in Addresses : Current(n, g, b)
           /\ g.state = state \/ (state = "registering" /\ g.state = "running")
  <1> DEFINE s == [h EXCEPT !.state = state]
             g == UpdateAll(n, s, FALSE)
  <1>1. SetState(n, h, state) = g
    BY DEF SetState
  <1>2. /\ s \in Hosts /\ s.pending = 0 /\ s.state = state /\ s.name = h.name
        /\ s.group = h.group /\ s.under = h.under
    BY DEF Hosts
  <1> HIDE DEF s
  <1>3. NamedBut(s, O) /\ NoneStale(n, s)
    BY <1>2 DEF NamedBut, NamesSound, OldNameLeft, NoneStale
  <1>4. Counted(s, 0, 0)
    <2>1. Cardinality(RegisteringIn(s)) \in Nat
      BY CountType
    <2> QED
      BY <1>2, <2>1 DEF Counted
  <1>5. Carried(s, g, 0, 0, O) /\ \A b \in Addresses : Current(n, g, b)
    BY <1>2, <1>3, <1>4, RefreshAll
  <1> HIDE DEF g
  <1> QED
    BY <1>1, <1>2, <1>5 DEF Carried

LEMMA CurrentSound ==
    ASSUME NEW n, NEW h, \A b \in Addresses : Current(n, h, b)
    PROVE  NoneStale(n, h)
  BY DEF Current, NoneStale

(* register_stuff() of a server that publishes nothing it should not *)
LEMMA RegisterSets ==
    ASSUME NEW n \in Nets, ListsSound(n), NEW h \in Hosts, h.pending = 0,
           NEW O, NamedBut(h, O), h.state # "registering", NoneStale(n, h)
    PROVE  HostOK(n, RegisterStuff(n, h), O) /\ RegisterStuff(n, h).name = h.name
  <1> DEFINE first == SetState(n, h, "registering")
             more == [first EXCEPT !.pending = @ + 1]
             second == UpdateAll(n, more, FALSE)
             last == [second EXCEPT !.pending = @ - 1]
             g == RegisterStuff(n, h)
  <1> SUFFICES HostOK(n, g, O) /\ g.name = h.name
    OBVIOUS
  <1>1. g = IF last.pending = 0 THEN SetState(n, last, "running") ELSE last
    BY DEF RegisterStuff
  <1> HIDE DEF g
  <1>2. /\ first \in Hosts /\ NamedBut(first, O) /\ Counted(first, 0, 0)
        /\ \A b \in Addresses : Current(n, first, b)
        /\ first.state \in {"registering", "running"} /\ first.name = h.name
    <2>1. "registering" \in {"registering", "running", "collision"}
      OBVIOUS
    <2> QED
      BY <2>1, StateSets
  <1> HIDE DEF first
  <1>3. /\ more \in Hosts /\ more.state = first.state /\ more.name = first.name
        /\ more.pending = first.pending + 1 /\ more.pending > 0
        /\ more.group = first.group /\ more.under = first.under
    BY <1>2 DEF Hosts
  <1> HIDE DEF more
  <1>4. /\ NamedBut(more, O) /\ NoneStale(n, more)
        /\ RegisteringIn(more) = RegisteringIn(first)
    BY <1>2, <1>3, CurrentSound
       DEF NamedBut, NamesSound, OldNameLeft, NoneStale, RegisteringIn
  <1>5. Counted(more, 1, 1)
    <2>1. Cardinality(RegisteringIn(first)) \in Nat
      BY CountType
    <2> QED
      BY <1>2, <1>3, <1>4, <2>1 DEF Counted, Hosts
  <1>6. Carried(more, second, 1, 1, O) /\ \A b \in Addresses : Current(n, second, b)
    BY <1>3, <1>4, <1>5, RefreshAll
  <1> HIDE DEF second
  <1>7. /\ second \in Hosts /\ NamedBut(second, O) /\ Counted(second, 1, 1)
        /\ second.state \in {"registering", "running"} /\ second.name = h.name
    BY <1>2, <1>3, <1>6 DEF Carried
  <1>8. second.pending \in Nat /\ second.pending > 0
    <2>1. Cardinality(RegisteringIn(second)) \in Nat
      BY CountType
    <2> QED
      BY <1>7, <2>1 DEF Counted, Hosts
  <1>9. /\ last \in Hosts /\ last.state = second.state /\ last.name = second.name
        /\ last.pending = second.pending - 1
        /\ last.group = second.group /\ last.under = second.under
    BY <1>7, <1>8 DEF Hosts
  <1> HIDE DEF last
  <1>10. NamedBut(last, O) /\ \A b \in Addresses : Current(n, last, b)
    BY <1>6, <1>7, <1>9 DEF NamedBut, NamesSound, OldNameLeft, Current
  <1>11. Counted(last, 0, 0)
    <2>1. Cardinality(RegisteringIn(second)) \in Nat
      BY CountType
    <2>2. RegisteringIn(last) = RegisteringIn(second)
      BY <1>9 DEF RegisteringIn
    <2> QED
      BY <1>7, <1>8, <1>9, <2>1, <2>2 DEF Counted
  <1>12. CASE last.pending = 0 /\ last.state # "running"
    <2>1. NoneStale(n, last)
      BY <1>10, CurrentSound
    <2>2. "running" \in {"registering", "running", "collision"}
      OBVIOUS
    <2> DEFINE r == SetState(n, last, "running")
    <2>3. /\ r \in Hosts /\ NamedBut(r, O) /\ Counted(r, 0, 0)
          /\ \A b \in Addresses : Current(n, r, b)
          /\ r.state = "running" /\ r.name = last.name
      BY <1>9, <1>10, <1>12, <2>1, <2>2, StateSets
    <2>4. g = r
      BY <1>1, <1>12
    <2> HIDE DEF r
    <2> QED
      BY <1>7, <1>9, <2>3, <2>4 DEF HostOK
  <1>13. CASE last.pending = 0 /\ last.state = "running"
    <2>1. g = last
      BY <1>1, <1>13 DEF SetState
    <2> QED
      BY <1>7, <1>9, <1>10, <1>11, <1>13, <2>1 DEF HostOK
  <1>14. CASE last.pending # 0
    <2>1. g = last /\ last.pending > 0
      BY <1>1, <1>8, <1>9, <1>14
    <2> QED
      BY <1>7, <1>9, <1>10, <1>11, <2>1 DEF HostOK
  <1> QED
    BY <1>12, <1>13, <1>14

-----------------------------------------------------------------------------
(* The actions of the server *)

LEMMA StartKeeps ==
    ASSUME NetOK(net), NEW O, HostOK(net, host, O), ServerStarts
    PROVE  NetOK(net') /\ HostOK(net', host', O) /\ host'.name = host.name
  <1>1. net \in Nets /\ ListsSound(net) /\ host \in Hosts /\ NamedBut(host, O)
    BY DEF NetOK, HostOK
  <1>2. host.state = "invalid" /\ host.pending = 0
    BY DEF ServerStarts, HostOK, Counted
  <1>3. NoneStale(net, host)
    BY CurrentSound DEF HostOK
  <1>4. /\ HostOK(net, RegisterStuff(net, host), O)
        /\ RegisterStuff(net, host).name = host.name
    BY <1>1, <1>2, <1>3, RegisterSets
  <1>5. net' = net /\ host' = RegisterStuff(net, host)
    BY DEF ServerStarts
  <1> QED
    BY <1>4, <1>5

(* A renaming may leave any group under another name, but only of a server that was
   REGISTERING. *)
LEMMA RenameKeeps ==
    ASSUME NetOK(net), NEW O, HostOK(net, host, O), NEW x \in HostNames, SetHostName(x)
    PROVE  /\ NetOK(net') /\ HostOK(net', host', Addresses)
           /\ IF host.state = "registering" THEN host'.name # host.name
              ELSE HostOK(net', host', {})
  <1> DEFINE w == WithdrawHostRrs(net, host)
             h == [w EXCEPT !.name = x]
  <1>1. /\ net \in Nets /\ ListsSound(net) /\ host \in Hosts
        /\ NamedBut(host, O) /\ NoneStale(net, host)
    BY CurrentSound DEF NetOK, HostOK
  <1>2. IF host.state = "registering" THEN Counted(host, 0, 0) /\ host.pending > 0
                                      ELSE host.pending = 0
    BY DEF HostOK, Counted
  <1>3. /\ w \in Hosts /\ NamedBut(w, O) /\ w.pending = 0 /\ NoneStale(net, w)
        /\ w.state # "registering"
        /\ host.state # "registering" => \A b \in Addresses : w.group[b] = "empty"
    BY <1>1, <1>2, WithdrawSets
  <1>4. net' = net /\ host' = RegisterStuff(net, h)
    BY DEF SetHostName
  <1> HIDE DEF w
  <1>5. /\ h \in Hosts /\ h.pending = 0 /\ h.state = w.state /\ h.name = x
        /\ h.group = w.group /\ h.under = w.under
    BY <1>3 DEF Hosts
  <1> HIDE DEF h
  <1>6. NoneStale(net, h)
    BY <1>3, <1>5 DEF NoneStale
  <1>7. /\ NamedBut(h, Addresses)
        /\ host.state # "registering" => NamedBut(h, {})
    BY <1>3, <1>5 DEF NamedBut, NamesSound, OldNameLeft
  <1>8. \A N \in {Addresses, {}} : NamedBut(h, N) => HostOK(net, RegisterStuff(net, h), N)
    BY <1>1, <1>3, <1>5, <1>6, RegisterSets
  <1>9. host.state = "registering" => host'.name # host.name
    <2>1. host.state = "registering" => x # host.name
      BY DEF SetHostName
    <2>2. RegisterStuff(net, h).name = x
      BY <1>1, <1>3, <1>5, <1>6, <1>7, RegisterSets
    <2> QED
      BY <1>4, <2>1, <2>2
  <1> QED
    BY <1>4, <1>7, <1>8, <1>9

LEMMA ProbedKeeps ==
    ASSUME NetOK(net), NEW O, HostOK(net, host, O), NEW a \in Addresses, GroupProbed(a)
    PROVE  NetOK(net') /\ HostOK(net', host', O) /\ host'.name = host.name
  <1> DEFINE h == [host EXCEPT !.group[a] = "established"]
             d == DecreasePending(net, h)
  <1>1. net \in Nets /\ host \in Hosts /\ NamedBut(host, O) /\ Counted(host, 0, 0)
    BY DEF NetOK, HostOK
  <1>2. /\ net' = net /\ host.group[a] = "registering"
        /\ host' = IF host.state = "registering" THEN d ELSE h
    BY DEF GroupProbed
  <1>3. /\ h \in Hosts /\ h.pending = host.pending /\ h.state = host.state /\ h.name = host.name
        /\ h.group = [host.group EXCEPT ![a] = "established"] /\ h.under = host.under
    BY <1>1 DEF Hosts
  <1> HIDE DEF h
  <1>4. \A b \in Addresses : h.group[b] = "empty" <=> host.group[b] = "empty"
    BY <1>1, <1>2, <1>3 DEF Hosts
  <1>5. NamedBut(h, O) /\ \A b \in Addresses : Current(net, h, b)
    BY <1>1, <1>3, <1>4 DEF NamedBut, NamesSound, OldNameLeft, Current, HostOK
  <1>6. CASE host.state # "registering"
    <2>1. Counted(h, 0, 0)
      BY <1>1, <1>3, <1>6 DEF Counted
    <2> QED
      BY <1>2, <1>3, <1>5, <1>6, <2>1 DEF HostOK
  <1>7. CASE host.state = "registering"
    <2>1. Cardinality(RegisteringIn(h)) + 1 = Cardinality(RegisteringIn(host))
      BY <1>1, <1>2, <1>3, CountSet
    <2>2. Cardinality(RegisteringIn(h)) \in Nat /\ Cardinality(RegisteringIn(host)) \in Nat
      BY CountType
    <2>3. /\ h.pending \in Nat /\ h.pending > 0
          /\ h.pending <= Cardinality(RegisteringIn(h)) + 1
      BY <1>1, <1>3, <1>7, <2>1, <2>2 DEF Counted, Hosts, HostOK
    <2>4. /\ d \in Hosts /\ NamedBut(d, O) /\ d.pending = h.pending - 1
          /\ d.name = h.name
          /\ d.pending > 0 => d.state = h.state /\ d.group = h.group
          /\ d.pending = 0 =>
               /\ d.state = "running" /\ \A b \in Present(net) : Current(net, d, b)
               /\ \A b \in Addresses \ Present(net) : d.group[b] = h.group[b]
      BY <1>1, <1>3, <1>5, <2>3, DecreaseSets
    <2> HIDE DEF d
    <2>5. CASE d.pending > 0
      <3>1. RegisteringIn(d) = RegisteringIn(h) /\ d.state = "registering"
        BY <1>3, <1>7, <2>4, <2>5 DEF RegisteringIn
      <3>2. Counted(d, 0, 0)
        BY <2>2, <2>3, <2>4, <2>5, <3>1 DEF Counted
      <3>3. \A b \in Addresses : Current(net, d, b)
        BY <1>5, <2>4, <2>5 DEF Current
      <3> QED
        BY <1>2, <1>3, <1>7, <2>4, <2>5, <3>2, <3>3 DEF HostOK
    <2>6. CASE d.pending = 0
      <3>1. Counted(d, 0, 0)
        <4>1. d.state = "running"
          BY <2>4, <2>6
        <4> QED
          BY <2>6, <4>1 DEF Counted
      <3>2. \A b \in Addresses : Current(net, d, b)
        BY <1>5, <2>4, <2>6 DEF Current
      <3> QED
        BY <1>2, <1>3, <1>7, <2>4, <2>6, <3>1, <3>2 DEF HostOK
    <2>7. d.pending \in Nat
      BY <2>4 DEF Hosts
    <2> QED
      BY <2>5, <2>6, <2>7
  <1> QED
    BY <1>6, <1>7

LEMMA CollisionKeeps ==
    ASSUME NetOK(net), NEW O, HostOK(net, host, O), NEW a \in Addresses, GroupCollides(a)
    PROVE  NetOK(net') /\ HostOK(net', host', O) /\ host'.name = host.name
  <1> DEFINE h == Cleared(host, a)
             w == WithdrawHostRrs(net, h)
             g == SetState(net, w, "collision")
  <1>1. /\ net \in Nets /\ ListsSound(net) /\ host \in Hosts /\ NamedBut(host, O)
        /\ Counted(host, 0, 0) /\ NoneStale(net, host)
        /\ host.state = "registering" => host.pending > 0
    BY CurrentSound DEF NetOK, HostOK
  <1>2. /\ net' = net /\ host' = g /\ host.group[a] # "empty"
        /\ host.state \in {"registering", "running"}
    BY DEF GroupCollides
  <1>3. /\ h \in Hosts /\ h.pending = host.pending /\ h.state = host.state /\ h.name = host.name
        /\ h.group = [host.group EXCEPT ![a] = "empty"]
        /\ h.under = [host.under EXCEPT ![a] = Nowhere]
    BY <1>1, ClearedSets
  <1> HIDE DEF h
  <1>4. NamedBut(h, O) /\ NoneStale(net, h)
    <2>1. NamedBut(h, O)
      BY <1>1, <1>3, NamedAfter
    <2> QED
      BY <1>1, <1>3, <2>1 DEF NoneStale, Hosts
  <1>5. IF h.state = "registering" THEN Counted(h, 0, 1) /\ h.pending > 0
                                   ELSE h.pending = 0
    <2>1. Cardinality(RegisteringIn(h)) \in Nat /\ Cardinality(RegisteringIn(host)) \in Nat
      BY CountType
    <2>2. Cardinality(RegisteringIn(host)) <= Cardinality(RegisteringIn(h)) + 1
      <3>1. CASE host.group[a] = "registering"
        <4>1. Cardinality(RegisteringIn(h)) + 1 = Cardinality(RegisteringIn(host))
          BY <1>1, <1>3, <3>1, CountSet
        <4> QED
          BY <2>1, <4>1
      <3>2. CASE host.group[a] # "registering"
        <4>1. RegisteringIn(h) = RegisteringIn(host)
          BY <1>1, <1>3, <3>2, CountSet
        <4> QED
          BY <2>1, <4>1
      <3> QED
        BY <3>1, <3>2
    <2> QED
      BY <1>1, <1>3, <2>1, <2>2 DEF Counted, Hosts
  <1>6. /\ w \in Hosts /\ NamedBut(w, O) /\ w.pending = 0 /\ w.name = h.name
        /\ NoneStale(net, w) /\ (w.state = h.state \/ w.state = "running")
    BY <1>1, <1>3, <1>4, <1>5, WithdrawSets
  <1> HIDE DEF w
  <1>7. w.state # "collision" /\ "collision" \in {"registering", "running", "collision"}
    BY <1>2, <1>3, <1>6
  <1>8. /\ g \in Hosts /\ NamedBut(g, O) /\ Counted(g, 0, 0)
        /\ \A b \in Addresses : Current(net, g, b)
        /\ g.state = "collision" /\ g.name = w.name
    BY <1>1, <1>6, <1>7, StateSets
  <1> HIDE DEF g
  <1> QED
    BY <1>2, <1>3, <1>6, <1>8 DEF HostOK

-----------------------------------------------------------------------------
(* The netlink messages *)

(* Only the membership of some interfaces differs. *)
OnlyMembers(n, m, is) ==
    /\ m \in Nets /\ m.dump = n.dump /\ m.known = n.known /\ m.ok = n.ok
    /\ m.addrs = n.addrs /\ m.kind = n.kind
    /\ \A i \in HostIfaces \ is :
         m.announcing[i] = n.announcing[i] /\ m.joined[i] = n.joined[i]

(* CheckEach() looks at some interfaces and leaves the others alone. *)
LEMMA EachSets ==
    ASSUME NEW n \in Nets, ListsSound(n), NEW is \in SUBSET HostIfaces,
           NEW joins \in SUBSET HostIfaces,
           \A i \in is : /\ n.joined[i] # Nowhere => Announces(n, i)
                         /\ Announces(n, i) => n.dump = "done"
    PROVE  LET m == CheckEach(n, is, joins) IN
           OnlyMembers(n, m, is) /\ \A i \in is : JoinedRightly(m, i)
  <1> DEFINE checked(i) == IF i \in is THEN CheckRelevant(n, i, i \in joins) ELSE n
             announcing == [i \in HostIfaces |-> checked(i).announcing[i]]
             joined == [i \in HostIfaces |-> checked(i).joined[i]]
             m == CheckEach(n, is, joins)
  <1> SUFFICES OnlyMembers(n, m, is) /\ \A i \in is : JoinedRightly(m, i)
    OBVIOUS
  <1>1. m = [n EXCEPT !.announcing = announcing, !.joined = joined]
    BY DEF CheckEach
  <1>2. ASSUME NEW i \in is
        PROVE  OnlyMember(n, checked(i), i) /\ JoinedRightly(checked(i), i)
    <2>1. i \in HostIfaces
      OBVIOUS
    <2>2. \A b \in BOOLEAN : /\ OnlyMember(n, CheckRelevant(n, i, b), i)
                             /\ JoinedRightly(CheckRelevant(n, i, b), i)
      BY <2>1, CheckSets
    <2>3. (i \in joins) \in BOOLEAN
      OBVIOUS
    <2>4. checked(i) = CheckRelevant(n, i, i \in joins)
      <3> DEFINE k == CheckRelevant(n, i, i \in joins)
      <3> HIDE DEF k
      <3>1. checked(i) = IF i \in is THEN k ELSE n
        BY Zenon DEF k
      <3> QED
        BY <3>1 DEF k
    <2> QED
      BY <2>2, <2>3, <2>4, Zenon
  <1>3. \A i \in HostIfaces : checked(i) \in Nets
    BY <1>2 DEF OnlyMember
  <1>4. \A i \in HostIfaces \ is : checked(i) = n
    OBVIOUS
  <1> HIDE DEF m, checked
  <1>5. /\ announcing \in [HostIfaces -> BOOLEAN]
        /\ joined \in [HostIfaces -> Addresses \union {Nowhere}]
    BY <1>3 DEF Nets
  <1>6. /\ m \in Nets /\ m.dump = n.dump /\ m.known = n.known /\ m.ok = n.ok
        /\ m.addrs = n.addrs /\ m.kind = n.kind
        /\ m.announcing = announcing /\ m.joined = joined
    <2> HIDE DEF announcing, joined
    <2> QED
      BY <1>1, <1>5 DEF Nets
  <1>7. ASSUME NEW i \in is
        PROVE  JoinedRightly(m, i)
    <2> DEFINE k == checked(i)
    <2>1. OnlyMember(n, k, i) /\ JoinedRightly(k, i)
      BY <1>2
    <2> HIDE DEF k
    <2>2. m.announcing[i] = k.announcing[i] /\ m.joined[i] = k.joined[i]
      BY <1>6 DEF k
    <2>3. k \in Nets /\ SameFor(k, m, i)
      BY <1>6, <2>1 DEF OnlyMember, SameFor
    <2>4. ListsSound(k)
      BY <2>1 DEF OnlyMember, ListsSound, On
    <2>5. i \in HostIfaces
      OBVIOUS
    <2> QED
      BY <1>6, <2>1, <2>2, <2>3, <2>4, <2>5, SameJoined
  <1>8. \A i \in HostIfaces \ is :
          m.announcing[i] = n.announcing[i] /\ m.joined[i] = n.joined[i]
    BY <1>4, <1>6
  <1> QED
    BY <1>6, <1>7, <1>8 DEF OnlyMembers

(* Records are current with respect to any network that is the same where it matters. *)
LEMMA SameCurrent ==
    ASSUME NEW n \in Nets, ListsSound(n), NEW m \in Nets, NEW h, NEW b \in Addresses,
           SameFor(n, m, IfaceOf(b)), Current(n, h, b)
    PROVE  Current(m, h, b)
  <1>1. IfaceOf(b) \in HostIfaces /\ b \in AddressesOf[IfaceOf(b)]
    BY OwnInterface
  <1>2. (b \in Present(n) <=> b \in Present(m)) /\ (Publishes(n, b) <=> Publishes(m, b))
    BY <1>1, SamePublished
  <1> QED
    BY <1>2 DEF Current

(* After a change of some interfaces, the update of their addresses is enough. *)
LEMMA RefreshIfaces ==
    ASSUME NEW n \in Nets, ListsSound(n), NEW m \in Nets, ListsSound(m),
           NEW is \in SUBSET HostIfaces, \A i \in HostIfaces \ is : SameFor(n, m, i),
           NEW h \in Hosts, NEW O, NamedBut(h, O), Counted(h, 0, 0),
           h.state = "registering" => h.pending > 0,
           \A b \in Addresses : IfaceOf(b) \notin is => Current(n, h, b),
           \A b \in Addresses \ Present(m) : IfaceOf(b) \in is => h.group[b] = "empty",
           NEW as \in Seq(Addresses), ToSet(as) = {a \in Present(m) : IfaceOf(a) \in is}
    PROVE  LET g == UpdateRrs(m, h, as, FALSE) IN HostOK(m, g, O) /\ g.name = h.name
  <1>1. ASSUME NEW b \in Addresses \ ToSet(as)
        PROVE  Current(m, h, b)
    <2>1. CASE IfaceOf(b) \in is
      <3>1. b \notin Present(m) /\ h.group[b] = "empty"
        BY <2>1
      <3> QED
        BY <3>1 DEF Current
    <2>2. CASE IfaceOf(b) \notin is
      <3>1. IfaceOf(b) \in HostIfaces \ is
        BY <2>2, OwnInterface
      <3> QED
        BY <2>2, <3>1, SameCurrent
    <2> QED
      BY <2>1, <2>2
  <1> DEFINE g == UpdateRrs(m, h, as, FALSE)
  <1>2. Carried(h, g, 0, 0, O) /\ \A b \in Addresses : Current(m, g, b)
    <2>1. Safe(m, h, 0)
      BY DEF Safe
    <2> QED
      BY <1>1, <2>1, RefreshList
  <1> HIDE DEF g
  <1>3. HostOK(m, g, O) /\ g.name = h.name
    BY <1>2 DEF Carried, HostOK
  <1> QED
    BY <1>3 DEF g

(* NewLink: only the interfaces of the link change. *)
LEMMA NewLinkKeeps ==
    ASSUME NetOK(net), NEW O, HostOK(net, host, O), NEW w \in Hw, NEW ok \in BOOLEAN,
           NEW joins \in SUBSET HostIfaces, NewLink(w, ok, joins)
    PROVE  NetOK(net') /\ HostOK(net', host', O) /\ host'.name = host.name
  <1> DEFINE is == IfacesOn(w)
             n == [HwInterfaceNew(net, w) EXCEPT !.ok[w] = ok]
             m == CheckEach(n, is, joins)
             as == Listed(m, is)
  <1>1. net' = m /\ host' = UpdateRrs(m, host, as, FALSE)
    BY DEF NewLink
  <1>2. /\ net \in Nets /\ ListsSound(net) /\ host \in Hosts /\ NamedBut(host, O)
        /\ Counted(host, 0, 0) /\ (host.state = "registering" => host.pending > 0)
        /\ \A b \in Addresses : Current(net, host, b)
        /\ \A i \in HostIfaces : JoinedRightly(net, i)
    BY DEF NetOK, HostOK
  <1>3. is \in SUBSET HostIfaces /\ \A i \in HostIfaces : i \notin is => HwOf[i] # w
    BY DEF IfacesOn
  <1> HIDE DEF is
  <1>4. /\ n \in Nets /\ n.dump = net.dump /\ n.addrs = net.addrs /\ n.kind = net.kind
        /\ n.announcing = net.announcing /\ n.joined = net.joined
        /\ \A v \in Hw : v # w => n.ok[v] = net.ok[v]
    BY <1>2 DEF HwInterfaceNew, Nets
  <1> HIDE DEF n
  <1>5. ListsSound(n)
    BY <1>2, <1>4 DEF ListsSound, On
  <1>6. \A i \in is : /\ n.joined[i] # Nowhere => Announces(n, i)
                      /\ Announces(n, i) => n.dump = "done"
    BY <1>2, <1>3, <1>4 DEF JoinedRightly, Announces
  <1>7. /\ m \in Nets /\ m.dump = n.dump /\ m.ok = n.ok
        /\ m.addrs = n.addrs /\ m.kind = n.kind
        /\ \A i \in is : JoinedRightly(m, i)
        /\ \A i \in HostIfaces \ is :
             m.announcing[i] = n.announcing[i] /\ m.joined[i] = n.joined[i]
    <2>1. OnlyMembers(n, m, is) /\ \A i \in is : JoinedRightly(m, i)
      BY <1>3, <1>4, <1>5, <1>6, EachSets
    <2> HIDE DEF m
    <2> QED
      BY <2>1 DEF OnlyMembers
  <1> HIDE DEF m
  <1>8. ListsSound(m)
    BY <1>5, <1>7 DEF ListsSound, On
  <1>9. ASSUME NEW i \in HostIfaces \ is
        PROVE  SameFor(net, m, i)
    <2>1. HwOf[i] # w /\ HwOf[i] \in Hw
      BY <1>3, InterfacesAssumption DEF InterfacesAssumption
    <2> QED
      BY <1>4, <1>7, <2>1 DEF SameFor
  <1>10. NetOK(m)
    <2>1. \A i \in HostIfaces \ is : JoinedRightly(m, i)
      BY <1>2, <1>4, <1>7, <1>9, SameJoined
    <2> QED
      BY <1>7, <1>8, <2>1 DEF NetOK
  <1>11. as \in Seq(Addresses) /\ ToSet(as) = {a \in Present(m) : IfaceOf(a) \in is}
    BY <1>3, <1>7, <1>8, ListedIs
  <1> HIDE DEF as
  <1>12. \A b \in Addresses \ Present(m) : host.group[b] = "empty"
    BY <1>2, <1>4, <1>7 DEF Present, On, Current
  <1>13. /\ HostOK(m, UpdateRrs(m, host, as, FALSE), O)
         /\ UpdateRrs(m, host, as, FALSE).name = host.name
    BY <1>2, <1>3, <1>7, <1>8, <1>9, <1>11, <1>12, RefreshIfaces
  <1> QED
    BY <1>1, <1>10, <1>13

(* RTM_DELLINK: what becomes RUNNING between the two passes is cleared by the second. *)
LEMMA FreedSets ==
    ASSUME NEW n \in Nets, NEW h, NEW O, HostOK(n, h, O), NEW as \in Seq(Addresses),
           ToSet(as) \subseteq Present(n)
    PROVE  LET g == GroupsFreed(n, h, as) IN
           /\ Carried(h, g, 0, 0, O)
           /\ \A b \in ToSet(as) : g.group[b] = "empty"
           /\ \A b \in Addresses \ ToSet(as) : Current(n, g, b)
  <1> DEFINE d == UpdateRrs(n, h, as, TRUE)
             g == GroupsFreed(n, h, as)
  <1> SUFFICES /\ Carried(h, g, 0, 0, O)
               /\ \A b \in ToSet(as) : g.group[b] = "empty"
               /\ \A b \in Addresses \ ToSet(as) : Current(n, g, b)
    OBVIOUS
  <1>1. /\ h \in Hosts /\ NamedBut(h, O) /\ Counted(h, 0, 0) /\ NoneStale(n, h)
        /\ \A b \in Addresses : Current(n, h, b)
        /\ h.state = "registering" => 0 = 0 /\ h.pending > 0
    BY CurrentSound DEF HostOK
  <1>2. Carried(h, d, 0, 0, O) /\ NoneStale(n, d) /\ Withdrawn(n, h, d, ToSet(as))
    BY <1>1, WithdrawList
  <1>3. g = UpdateRrs(n, d, as, TRUE)
    BY DEF GroupsFreed
  <1> HIDE DEF d, g
  <1>4. /\ d \in Hosts /\ NamedBut(d, O) /\ Counted(d, 0, 0)
        /\ d.state = "registering" => 0 = 0 /\ d.pending > 0
    BY <1>1, <1>2 DEF Carried
  <1>5. Carried(d, g, 0, 0, O) /\ Withdrawn(n, d, g, ToSet(as))
    BY <1>2, <1>3, <1>4, WithdrawList
  <1>6. Carried(h, g, 0, 0, O)
    BY <1>2, <1>5 DEF Carried
  <1>7. \A b \in ToSet(as) : b \in Addresses
    BY DEF Present
  <1>8. \A b \in Addresses \ ToSet(as) : Current(n, d, b)
    BY <1>1, <1>2 DEF Withdrawn, Current
  <1>9. d.state = "running" \/ \A b \in ToSet(as) : d.group[b] = "empty"
    BY <1>2, <1>7 DEF Withdrawn
  <1>10. /\ g.state = d.state
         /\ \A b \in Addresses : g.group[b] = IF b \in ToSet(as) THEN "empty" ELSE d.group[b]
    BY <1>5, <1>9 DEF Withdrawn
  <1> QED
    BY <1>6, <1>7, <1>8, <1>10 DEF Current

LEMMA DelLinkKeeps ==
    ASSUME NetOK(net), NEW O, HostOK(net, host, O), NEW w \in Hw, DelLink(w)
    PROVE  NetOK(net') /\ HostOK(net', host', O) /\ host'.name = host.name
  <1> DEFINE is == IfacesOn(w)
             m == HwInterfaceFreed(net, w)
             as == Listed(net, is)
             g == GroupsFreed(net, host, as)
  <1>1. net' = m /\ host' = g
    BY DEF DelLink
  <1>2. net \in Nets /\ ListsSound(net) /\ \A i \in HostIfaces : JoinedRightly(net, i)
    BY DEF NetOK
  <1>3. is \in SUBSET HostIfaces /\ \A i \in HostIfaces : i \notin is => HwOf[i] # w
    BY DEF IfacesOn
  <1>4. m = [net EXCEPT !.known = @ \ {w}, !.ok[w] = FALSE,
               !.addrs = [i \in HostIfaces |-> IF i \in is THEN <<>> ELSE @[i]],
               !.kind = [a \in Addresses |-> IF IfaceOf(a) \in is THEN "local" ELSE @[a]],
               !.announcing = [i \in HostIfaces |-> i \notin is /\ @[i]],
               !.joined = [i \in HostIfaces |-> IF i \in is THEN Nowhere ELSE @[i]]]
    BY DEF HwInterfaceFreed
  <1> HIDE DEF is
  <1>5. as \in Seq(Addresses) /\ ToSet(as) = {a \in Present(net) : IfaceOf(a) \in is}
    BY <1>2, <1>3, ListedIs
  <1> HIDE DEF as, m
  <1> DEFINE ok == [net.ok EXCEPT ![w] = FALSE]
             addrs == [i \in HostIfaces |-> IF i \in is THEN <<>> ELSE net.addrs[i]]
             kind == [a \in Addresses |-> IF IfaceOf(a) \in is THEN "local" ELSE net.kind[a]]
             announcing == [i \in HostIfaces |-> i \notin is /\ net.announcing[i]]
             joined == [i \in HostIfaces |-> IF i \in is THEN Nowhere ELSE net.joined[i]]
  <1>6. /\ ok \in [Hw -> BOOLEAN]
        /\ addrs \in [HostIfaces -> Seq(Addresses)]
        /\ kind \in [Addresses -> {"public", "deprecated", "local"}]
        /\ announcing \in [HostIfaces -> BOOLEAN]
        /\ joined \in [HostIfaces -> Addresses \union {Nowhere}]
    <2>1. ok \in [Hw -> BOOLEAN] /\ announcing \in [HostIfaces -> BOOLEAN]
      BY <1>2 DEF Nets
    <2>2. <<>> \in Seq(Addresses)
      OBVIOUS
    <2>3. addrs \in [HostIfaces -> Seq(Addresses)]
      BY <1>2, <2>2 DEF Nets
    <2>4. /\ kind \in [Addresses -> {"public", "deprecated", "local"}]
          /\ joined \in [HostIfaces -> Addresses \union {Nowhere}]
      BY <1>2 DEF Nets
    <2> QED
      BY <2>1, <2>3, <2>4
  <1>7. /\ m \in Nets /\ m.dump = net.dump /\ m.ok = ok /\ m.addrs = addrs /\ m.kind = kind
        /\ m.announcing = announcing /\ m.joined = joined
    <2>1. m = [net EXCEPT !.known = @ \ {w}, !.ok = ok, !.addrs = addrs, !.kind = kind,
                          !.announcing = announcing, !.joined = joined]
      BY <1>2, <1>4 DEF Nets
    <2> HIDE DEF ok, addrs, kind, announcing, joined
    <2> QED
      BY <1>2, <1>6, <2>1 DEF Nets
  <1>8. ListsSound(m)
    <2>1. ToSet(<<>>) = {} /\ IsInjective(<<>>)
      BY DEF ToSet, IsInjective
    <2> QED
      BY <1>2, <1>7, <2>1 DEF ListsSound, On
  <1>9. ASSUME NEW i \in HostIfaces \ is
        PROVE  /\ SameFor(net, m, i)
               /\ m.announcing[i] = net.announcing[i] /\ m.joined[i] = net.joined[i]
    <2>1. HwOf[i] # w /\ HwOf[i] \in Hw
      BY <1>3, InterfacesAssumption DEF InterfacesAssumption
    <2>2. \A a \in AddressesOf[i] : a \in Addresses /\ IfaceOf(a) = i
      BY OwnInterface
    <2>3. net.ok \in [Hw -> BOOLEAN] /\ net.announcing[i] \in BOOLEAN
      BY <1>2 DEF Nets
    <2>4. m.announcing[i] = net.announcing[i] /\ m.joined[i] = net.joined[i]
      BY <1>7, <2>3
    <2>5. SameFor(net, m, i)
      BY <1>7, <2>1, <2>2, <2>3 DEF SameFor
    <2> QED
      BY <2>4, <2>5
  <1>10. \A i \in is : JoinedRightly(m, i)
    BY <1>3, <1>7 DEF JoinedRightly
  <1>11. NetOK(m)
    <2>1. \A i \in HostIfaces \ is : JoinedRightly(m, i)
      BY <1>2, <1>7, <1>9, SameJoined
    <2> QED
      BY <1>7, <1>8, <1>10, <2>1 DEF NetOK
  <1>12. /\ Carried(host, g, 0, 0, O) /\ \A b \in ToSet(as) : g.group[b] = "empty"
         /\ \A b \in Addresses \ ToSet(as) : Current(net, g, b)
    BY <1>2, <1>5, FreedSets
  <1> HIDE DEF g
  <1>13. ASSUME NEW b \in Addresses
         PROVE  Current(m, g, b)
    <2>1. CASE IfaceOf(b) \in is
      <3>1. g.group[b] = "empty"
        BY <1>5, <1>12, <2>1 DEF Current
      <3>2. b \notin Present(m)
        BY <1>3, <1>7, <2>1 DEF Present, On, ToSet
      <3> QED
        BY <3>1, <3>2 DEF Current
    <2>2. CASE IfaceOf(b) \notin is
      <3>1. IfaceOf(b) \in HostIfaces \ is /\ Current(net, g, b)
        BY <1>5, <1>12, <2>2, OwnInterface
      <3> QED
        BY <1>2, <1>7, <1>9, <3>1, SameCurrent
    <2> QED
      BY <2>1, <2>2
  <1>14. HostOK(m, g, O) /\ g.name = host.name
    BY <1>12, <1>13 DEF HostOK, Carried
  <1> QED
    BY <1>1, <1>11, <1>14

(* Taking one element out of a list, which has each of its elements once *)
LEMMA RemovedAt ==
    ASSUME NEW T, NEW s \in Seq(T), IsInjective(s), NEW k \in DOMAIN s
    PROVE  LET r == RemoveAt(s, k) IN
           r \in Seq(T) /\ IsInjective(r) /\ ToSet(r) = ToSet(s) \ {s[k]}
  <1> DEFINE r == RemoveAt(s, k)
  <1>1. PICK m \in Nat : m = Len(s) /\ DOMAIN s = 1..m
    BY LenProperties
  <1>2. k \in 1..m
    BY <1>1
  <1>3. r \in Seq(T) /\ \E at : Without(s, r, m, k, at)
    BY <1>1, <1>2, OutOf
  <1> HIDE DEF r
  <1>4. PICK at : Without(s, r, m, k, at)
    BY <1>3
  <1>5. \A i, j \in 1..m : s[i] = s[j] => i = j
    BY <1>1 DEF IsInjective
  <1>6. IsInjective(r)
    BY <1>4, <1>5 DEF IsInjective, Without
  <1>7. \A x : x \in ToSet(r) <=> x \in ToSet(s) \ {s[k]}
    <2> TAKE x
    <2>1. x \in ToSet(r) <=> \E j \in 1..(m - 1) : s[at[j]] = x
      <3>1. DOMAIN r = 1..(m - 1) /\ \A j \in 1..(m - 1) : r[j] = s[at[j]]
        BY <1>4 DEF Without
      <3> QED
        BY <3>1 DEF ToSet
    <2>2. x \in ToSet(s) <=> \E i \in 1..m : s[i] = x
      BY <1>1 DEF ToSet
    <2> QED
      BY <1>2, <1>4, <1>5, <2>1, <2>2 DEF Without
  <1> QED
    BY <1>3, <1>6, <1>7 DEF r

(* Putting one in front that is not in it *)
LEMMA PutInFront ==
    ASSUME NEW T, NEW s \in Seq(T), IsInjective(s), NEW a \in T, a \notin ToSet(s)
    PROVE  LET r == <<a>> \o s IN
           r \in Seq(T) /\ IsInjective(r) /\ ToSet(r) = ToSet(s) \union {a}
  <1> DEFINE r == <<a>> \o s
  <1>1. PICK m \in Nat : m = Len(s) /\ DOMAIN s = 1..m
    BY LenProperties
  <1>2. /\ r \in Seq(T) /\ DOMAIN r = 1..(1 + m) /\ r[1] = a
        /\ \A j \in 1..m : r[j + 1] = s[j]
        /\ \A j \in 1..(1 + m) : j = 1 \/ \E i \in 1..m : j = i + 1
        /\ ToSet(r) = ToSet(s) \union {a}
    BY <1>1, InFront
  <1> HIDE DEF r
  <1>3. \A i \in 1..m : s[i] # a
    BY <1>1 DEF ToSet
  <1>4. IsInjective(r)
    <2> SUFFICES ASSUME NEW i \in 1..(1 + m), NEW j \in 1..(1 + m), r[i] = r[j]
                 PROVE  i = j
      BY <1>2 DEF IsInjective
    <2>0. \A k \in 1..(1 + m) : r[k] = a => k = 1
      <3> SUFFICES ASSUME NEW k \in 1..(1 + m), r[k] = a, k # 1 PROVE FALSE
        OBVIOUS
      <3>1. PICK x \in 1..m : k = x + 1
        BY <1>2
      <3>2. r[k] = s[x] /\ s[x] # a
        BY <3>1, <1>2, <1>3
      <3> QED
        BY <3>2
    <2>1. CASE i = 1 \/ j = 1
      <3>1. r[i] = a /\ r[j] = a
        BY <2>1, <1>2
      <3> QED
        BY <3>1, <2>0
    <2>2. CASE i # 1 /\ j # 1
      <3>1. PICK x \in 1..m : i = x + 1
        BY <2>2, <1>2
      <3>2. PICK y \in 1..m : j = y + 1
        BY <2>2, <1>2
      <3>3. s[x] = s[y]
        BY <3>1, <3>2, <1>2
      <3>4. x = y
        BY <3>3, <1>1 DEF IsInjective
      <3> QED
        BY <3>1, <3>2, <3>4
    <2> QED
      BY <2>1, <2>2
  <1> QED
    BY <1>2, <1>4 DEF r

(* A message about one interface: once it was checked, all are right. *)
LEMMA OneChecked ==
    ASSUME NEW n, NetOK(n), NEW i \in HostIfaces, NEW k \in Nets, ListsSound(k),
           \A j \in HostIfaces \ {i} : /\ SameFor(n, k, j) /\ k.announcing[j] = n.announcing[j]
                                       /\ k.joined[j] = n.joined[j],
           k.joined[i] # Nowhere => Announces(k, i), Announces(k, i) => k.dump = "done",
           NEW joins \in BOOLEAN
    PROVE  LET m == CheckRelevant(k, i, joins) IN
           /\ NetOK(m) /\ m.addrs = k.addrs
           /\ \A j \in HostIfaces \ {i} : SameFor(n, m, j)
  <1> DEFINE m == CheckRelevant(k, i, joins)
  <1> SUFFICES /\ NetOK(m) /\ m.addrs = k.addrs
               /\ \A j \in HostIfaces \ {i} : SameFor(n, m, j)
    OBVIOUS
  <1>1. OnlyMember(k, m, i) /\ JoinedRightly(m, i)
    BY CheckSets
  <1> HIDE DEF m
  <1>2. n \in Nets /\ ListsSound(n) /\ \A j \in HostIfaces : JoinedRightly(n, j)
    BY DEF NetOK
  <1>3. m \in Nets /\ m.addrs = k.addrs /\ ListsSound(m)
    BY <1>1 DEF OnlyMember, ListsSound, On
  <1>4. ASSUME NEW j \in HostIfaces \ {i}
        PROVE  /\ SameFor(n, m, j) /\ m.announcing[j] = n.announcing[j]
               /\ m.joined[j] = n.joined[j]
    BY <1>1 DEF OnlyMember, SameFor
  <1>5. \A j \in HostIfaces \ {i} : JoinedRightly(m, j)
    BY <1>2, <1>3, <1>4, SameJoined
  <1> QED
    BY <1>1, <1>3, <1>4, <1>5 DEF NetOK

(* The addresses an interface has are those of it that are present. *)
LEMMA OnIs ==
    ASSUME NEW n \in Nets, ListsSound(n), NEW i \in HostIfaces
    PROVE  /\ n.addrs[i] \in Seq(Addresses)
           /\ ToSet(n.addrs[i]) = {a \in Present(n) : IfaceOf(a) \in {i}}
  <1>1. n.addrs[i] \in Seq(Addresses)
    BY DEF Nets
  <1>2. On(n, i) \subseteq AddressesOf[i]
    BY DEF ListsSound
  <1> QED
    BY <1>1, <1>2, OwnInterface DEF Present, On

LEMMA NewAddrKeeps ==
    ASSUME NetOK(net), NEW O, HostOK(net, host, O), NEW a \in Addresses,
           NEW kind \in {"public", "deprecated", "local"}, NEW joins \in BOOLEAN,
           NewAddr(a, kind, joins)
    PROVE  NetOK(net') /\ HostOK(net', host', O) /\ host'.name = host.name
  <1> DEFINE i == IfaceOf(a)
             list == IF a \in On(net, i) THEN net.addrs[i] ELSE <<a>> \o net.addrs[i]
             k == [AddressNew(net, a) EXCEPT !.kind[a] = kind]
             m == CheckRelevant(k, i, joins)
  <1>1. net' = m /\ host' = UpdateRrs(m, host, m.addrs[i], FALSE)
    BY DEF NewAddr
  <1>2. /\ net \in Nets /\ ListsSound(net) /\ host \in Hosts /\ NamedBut(host, O)
        /\ Counted(host, 0, 0) /\ (host.state = "registering" => host.pending > 0)
        /\ \A b \in Addresses : Current(net, host, b)
        /\ \A j \in HostIfaces : JoinedRightly(net, j)
    BY DEF NetOK, HostOK
  <1>3. i \in HostIfaces /\ a \in AddressesOf[i]
    BY OwnInterface
  <1>4. net.addrs[i] \in Seq(Addresses) /\ IsInjective(net.addrs[i])
    BY <1>2, <1>3 DEF Nets, ListsSound
  <1>5. /\ list \in Seq(Addresses) /\ IsInjective(list)
        /\ ToSet(list) = On(net, i) \union {a}
    <2>1. CASE a \in On(net, i)
      BY <1>4, <2>1 DEF On
    <2>2. CASE a \notin On(net, i)
      <3>1. a \notin ToSet(net.addrs[i])
        BY <2>2 DEF On
      <3> QED
        BY <1>4, <2>2, <3>1, PutInFront DEF On
    <2> QED
      BY <2>1, <2>2
  <1>6. /\ k \in Nets /\ k.dump = net.dump /\ k.ok = net.ok
        /\ k.announcing = net.announcing /\ k.joined = net.joined
        /\ k.addrs = [net.addrs EXCEPT ![i] = list]
        /\ k.kind = [net.kind EXCEPT ![a] = kind]
    <2>1. AddressNew(net, a) = [net EXCEPT !.addrs[i] = list]
      BY DEF AddressNew
    <2> HIDE DEF list, i
    <2> DEFINE addrs == [net.addrs EXCEPT ![i] = list]
               kinds == [net.kind EXCEPT ![a] = kind]
    <2>2. /\ addrs \in [HostIfaces -> Seq(Addresses)]
          /\ kinds \in [Addresses -> {"public", "deprecated", "local"}]
      BY <1>2, <1>3, <1>5 DEF Nets
    <2>3. k = [net EXCEPT !.addrs = addrs, !.kind = kinds]
      BY <1>2, <2>1 DEF Nets
    <2> HIDE DEF addrs, kinds, k
    <2> QED
      BY <1>2, <2>2, <2>3 DEF Nets, addrs, kinds
  <1> HIDE DEF k, list, i
  <1>7. /\ k.addrs[i] = list /\ \A j \in HostIfaces \ {i} : k.addrs[j] = net.addrs[j]
        /\ \A b \in Addresses \ {a} : k.kind[b] = net.kind[b]
    BY <1>2, <1>3, <1>6 DEF Nets
  <1>8. ListsSound(k)
    <2>1. On(net, i) \union {a} \subseteq AddressesOf[i]
      BY <1>2, <1>3 DEF ListsSound
    <2> QED
      BY <1>2, <1>5, <1>7, <2>1 DEF ListsSound, On
  <1>9. ASSUME NEW j \in HostIfaces \ {i}
        PROVE  /\ SameFor(net, k, j) /\ k.announcing[j] = net.announcing[j]
               /\ k.joined[j] = net.joined[j]
    <2>1. \A b \in AddressesOf[j] : b \in Addresses \ {a}
      BY OwnInterface DEF i
    <2> QED
      BY <1>6, <1>7, <2>1 DEF SameFor
  <1>10. /\ k.joined[i] # Nowhere => Announces(k, i)
         /\ Announces(k, i) => k.dump = "done"
    BY <1>2, <1>3, <1>6 DEF JoinedRightly, Announces
  <1>11. /\ NetOK(m) /\ m.addrs = k.addrs
         /\ \A j \in HostIfaces \ {i} : SameFor(net, m, j)
    BY <1>3, <1>6, <1>8, <1>9, <1>10, OneChecked
  <1> HIDE DEF m
  <1>12. m \in Nets /\ ListsSound(m)
    BY <1>11 DEF NetOK
  <1>13. /\ m.addrs[i] \in Seq(Addresses)
         /\ ToSet(m.addrs[i]) = {b \in Present(m) : IfaceOf(b) \in {i}}
    BY <1>3, <1>12, OnIs
  <1>14. \A b \in Addresses \ Present(m) : IfaceOf(b) \in {i} => host.group[b] = "empty"
    <2>1. On(net, i) \subseteq On(m, i)
      BY <1>5, <1>7, <1>11 DEF On
    <2> QED
      BY <1>2, <2>1 DEF Present, Current
  <1>15. /\ HostOK(m, UpdateRrs(m, host, m.addrs[i], FALSE), O)
         /\ UpdateRrs(m, host, m.addrs[i], FALSE).name = host.name
    <2> DEFINE is == {i}
               as == m.addrs[i]
    <2>1. is \in SUBSET HostIfaces /\ \A j \in HostIfaces \ is : SameFor(net, m, j)
      BY <1>3, <1>11
    <2>2. as \in Seq(Addresses) /\ ToSet(as) = {b \in Present(m) : IfaceOf(b) \in is}
      BY <1>13
    <2>3. \A b \in Addresses \ Present(m) : IfaceOf(b) \in is => host.group[b] = "empty"
      BY <1>14
    <2> HIDE DEF is, as
    <2>4. /\ HostOK(m, UpdateRrs(m, host, as, FALSE), O)
          /\ UpdateRrs(m, host, as, FALSE).name = host.name
      BY <1>2, <1>12, <2>1, <2>2, <2>3, RefreshIfaces
    <2> QED
      BY <2>4 DEF as
  <1> QED
    BY <1>1, <1>11, <1>15

(* avahi_interface_address_free(): the list without the address *)
LEMMA FreedList ==
    ASSUME NetOK(net), NEW a \in Addresses, a \in On(net, IfaceOf(a)), NEW joins \in BOOLEAN
    PROVE  LET k == AddressFreed(net, a, joins)
               i == IfaceOf(a)
           IN  /\ k \in Nets /\ ListsSound(k) /\ k.dump = net.dump
               /\ On(k, i) = On(net, i) \ {a}
               /\ k.joined[i] # Nowhere => Announces(k, i)
               /\ Announces(k, i) => k.dump = "done"
               /\ \A j \in HostIfaces \ {i} :
                    /\ SameFor(net, k, j) /\ k.announcing[j] = net.announcing[j]
                    /\ k.joined[j] = net.joined[j]
  <1> DEFINE i == IfaceOf(a)
             s == net.addrs[i]
             at == CHOOSE p \in DOMAIN s : s[p] = a
             list == RemoveAt(s, at)
             without == [net EXCEPT !.kind[a] = "local", !.addrs[i] = list]
             k == AddressFreed(net, a, joins)
  <1> SUFFICES /\ k \in Nets /\ ListsSound(k) /\ k.dump = net.dump
               /\ On(k, i) = On(net, i) \ {a}
               /\ k.joined[i] # Nowhere => Announces(k, i)
               /\ Announces(k, i) => k.dump = "done"
               /\ \A j \in HostIfaces \ {i} :
                    /\ SameFor(net, k, j) /\ k.announcing[j] = net.announcing[j]
                    /\ k.joined[j] = net.joined[j]
    OBVIOUS
  <1>1. net \in Nets /\ ListsSound(net) /\ \A j \in HostIfaces : JoinedRightly(net, j)
    BY DEF NetOK
  <1>2. i \in HostIfaces /\ a \in AddressesOf[i]
    BY OwnInterface
  <1>3. k = McastRejoin(without, i, joins)
    BY DEF AddressFreed
  <1>4. s \in Seq(Addresses) /\ IsInjective(s) /\ ToSet(s) = On(net, i)
    BY <1>1, <1>2 DEF Nets, ListsSound, On
  <1>5. at \in DOMAIN s /\ s[at] = a
    <2>1. \E p \in DOMAIN s : s[p] = a
      BY <1>4 DEF ToSet
    <2> HIDE DEF s
    <2> QED
      BY <2>1
  <1>6. list \in Seq(Addresses) /\ IsInjective(list) /\ ToSet(list) = On(net, i) \ {a}
    <2> HIDE DEF s, at, i
    <2> QED
      BY <1>4, <1>5, RemovedAt
  <1> HIDE DEF k, list, s, at, i
  <1>7. /\ without \in Nets /\ without.dump = net.dump /\ without.ok = net.ok
        /\ without.announcing = net.announcing /\ without.joined = net.joined
        /\ without.addrs = [net.addrs EXCEPT ![i] = list]
        /\ without.kind = [net.kind EXCEPT ![a] = "local"]
    <2> DEFINE addrs == [net.addrs EXCEPT ![i] = list]
               kinds == [net.kind EXCEPT ![a] = "local"]
    <2>1. /\ addrs \in [HostIfaces -> Seq(Addresses)]
          /\ kinds \in [Addresses -> {"public", "deprecated", "local"}]
      BY <1>1, <1>2, <1>6 DEF Nets
    <2>2. without = [net EXCEPT !.addrs = addrs, !.kind = kinds]
      BY <1>1 DEF Nets
    <2> HIDE DEF addrs, kinds, without
    <2> QED
      BY <1>1, <2>1, <2>2 DEF Nets, addrs, kinds
  <1> HIDE DEF without
  <1>8. /\ OnlyMember(without, k, i) /\ k.announcing = without.announcing
        /\ without.joined[i] = Nowhere => k.joined[i] = Nowhere
    BY <1>2, <1>3, <1>7, RejoinSets
  <1>9. /\ k \in Nets /\ k.dump = net.dump /\ k.ok = net.ok /\ k.addrs = without.addrs
        /\ k.kind = without.kind /\ k.announcing = net.announcing
        /\ \A j \in HostIfaces \ {i} : k.joined[j] = net.joined[j]
    BY <1>7, <1>8 DEF OnlyMember
  <1>10. /\ k.addrs[i] = list /\ \A j \in HostIfaces \ {i} : k.addrs[j] = net.addrs[j]
         /\ \A b \in Addresses \ {a} : k.kind[b] = net.kind[b]
    BY <1>1, <1>2, <1>7, <1>9 DEF Nets
  <1>11. On(k, i) = On(net, i) \ {a}
    BY <1>6, <1>10 DEF On
  <1>12. ListsSound(k)
    BY <1>1, <1>2, <1>6, <1>10, <1>11 DEF ListsSound, On
  <1>13. ASSUME NEW j \in HostIfaces \ {i}
         PROVE  /\ SameFor(net, k, j) /\ k.announcing[j] = net.announcing[j]
                /\ k.joined[j] = net.joined[j]
    <2>1. \A b \in AddressesOf[j] : b \in Addresses \ {a}
      BY OwnInterface DEF i
    <2> QED
      BY <1>9, <1>10, <2>1 DEF SameFor
  <1>14. /\ k.joined[i] # Nowhere => Announces(k, i)
         /\ Announces(k, i) => k.dump = "done"
    BY <1>1, <1>2, <1>7, <1>8, <1>9 DEF JoinedRightly, Announces
  <1> QED
    BY <1>9, <1>11, <1>12, <1>13, <1>14

LEMMA DelAddrKeeps ==
    ASSUME NetOK(net), NEW O, HostOK(net, host, O), NEW a \in Addresses, NEW joins \in BOOLEAN,
           DelAddr(a, joins)
    PROVE  NetOK(net') /\ HostOK(net', host', O) /\ host'.name = host.name
  <1> DEFINE i == IfaceOf(a)
             k == AddressFreed(net, a, joins)
             m == CheckRelevant(k, i, joins)
             h == AddressUpdate(net, host, a, TRUE)
  <1>1. /\ net' = m /\ host' = UpdateRrs(m, h, m.addrs[i], FALSE)
        /\ a \in On(net, i)
    BY DEF DelAddr
  <1>2. /\ net \in Nets /\ ListsSound(net) /\ host \in Hosts /\ NamedBut(host, O)
        /\ Counted(host, 0, 0) /\ (host.state = "registering" => host.pending > 0)
        /\ \A b \in Addresses : Current(net, host, b)
    BY DEF NetOK, HostOK
  <1>3. i \in HostIfaces /\ a \in Present(net)
    BY <1>1, OwnInterface DEF Present
  <1>4. Stepped(net, host, h, a, 0, 0, O, TRUE)
    BY <1>2, <1>3, UpdateSteps
  <1>5. /\ k \in Nets /\ ListsSound(k) /\ k.dump = net.dump
        /\ On(k, i) = On(net, i) \ {a}
        /\ k.joined[i] # Nowhere => Announces(k, i)
        /\ Announces(k, i) => k.dump = "done"
        /\ \A j \in HostIfaces \ {i} :
             /\ SameFor(net, k, j) /\ k.announcing[j] = net.announcing[j]
             /\ k.joined[j] = net.joined[j]
    BY <1>1, FreedList
  <1> HIDE DEF k, h, i
  <1>6. /\ NetOK(m) /\ m.addrs = k.addrs
        /\ \A j \in HostIfaces \ {i} : SameFor(net, m, j)
    BY <1>3, <1>5, OneChecked
  <1> HIDE DEF m
  <1>7. m \in Nets /\ ListsSound(m)
    BY <1>6 DEF NetOK
  <1>8. /\ h \in Hosts /\ NamedBut(h, O) /\ Counted(h, 0, 0) /\ h.group[a] = "empty"
        /\ h.state = "registering" => h.pending > 0
        /\ h.name = host.name
    <2>1. h.state = "registering" => host.state = "registering"
      BY <1>4 DEF Stepped
    <2> QED
      BY <1>2, <1>4, <2>1 DEF Stepped
  <1>9. \A b \in Addresses \ {a} : Current(net, h, b)
    BY <1>2, <1>4 DEF Stepped, Current
  <1>10. \A b \in Addresses \ Present(m) : IfaceOf(b) \in {i} => h.group[b] = "empty"
    <2>1. On(m, i) = On(net, i) \ {a}
      BY <1>5, <1>6 DEF On
    <2> QED
      BY <1>8, <1>9, <2>1 DEF Present, Current
  <1>11. \A b \in Addresses : IfaceOf(b) \notin {i} => Current(net, h, b)
    BY <1>9 DEF i
  <1>12. /\ HostOK(m, UpdateRrs(m, h, m.addrs[i], FALSE), O)
         /\ UpdateRrs(m, h, m.addrs[i], FALSE).name = host.name
    <2> DEFINE is == {i}
               as == m.addrs[i]
    <2>1. is \in SUBSET HostIfaces /\ \A j \in HostIfaces \ is : SameFor(net, m, j)
      BY <1>3, <1>6
    <2>2. as \in Seq(Addresses) /\ ToSet(as) = {b \in Present(m) : IfaceOf(b) \in is}
      BY <1>3, <1>7, OnIs
    <2>3. /\ \A b \in Addresses \ Present(m) : IfaceOf(b) \in is => h.group[b] = "empty"
          /\ \A b \in Addresses : IfaceOf(b) \notin is => Current(net, h, b)
      BY <1>10, <1>11
    <2> HIDE DEF is, as
    <2>4. /\ HostOK(m, UpdateRrs(m, h, as, FALSE), O)
          /\ UpdateRrs(m, h, as, FALSE).name = host.name
      BY <1>2, <1>7, <1>8, <2>1, <2>2, <2>3, RefreshIfaces
    <2> QED
      BY <2>4 DEF as
  <1> QED
    BY <1>1, <1>6, <1>12

(* NLMSG_DONE: nothing was announced or published before the last one. *)
LEMMA DumpKeeps ==
    ASSUME NetOK(net), NEW O, HostOK(net, host, O), NEW fails \in BOOLEAN,
           NEW joins \in SUBSET HostIfaces, DumpDone(fails, joins)
    PROVE  NetOK(net') /\ HostOK(net', host', O) /\ host'.name = host.name
  <1> DEFINE finished == ~ (net.dump = "iface" /\ ~ fails)
             addr == [net EXCEPT !.dump = "addr"]
             n == [net EXCEPT !.dump = "done"]
             m == CheckEach(n, HostIfaces, joins)
  <1>1. /\ net.dump # "done"
        /\ finished => net' = m /\ host' = UpdateAll(m, host, FALSE)
        /\ ~ finished => net' = addr /\ host' = host
    BY DEF DumpDone
  <1>2. /\ net \in Nets /\ ListsSound(net) /\ host \in Hosts /\ NamedBut(host, O)
        /\ Counted(host, 0, 0) /\ (host.state = "registering" => host.pending > 0)
        /\ \A b \in Addresses : Current(net, host, b)
        /\ \A j \in HostIfaces : JoinedRightly(net, j)
    BY DEF NetOK, HostOK
  <1>3. \A b \in Addresses : host.group[b] = "empty"
    BY <1>1, <1>2 DEF Current, Publishes
  <1>4. \A i \in HostIfaces : ~ Announces(net, i) /\ net.joined[i] = Nowhere
    BY <1>1, <1>2 DEF JoinedRightly, Announces
  <1>5. CASE ~ finished
    <2>1. /\ addr \in Nets /\ addr.dump = "addr" /\ addr.addrs = net.addrs
          /\ addr.announcing = net.announcing /\ addr.joined = net.joined
      BY <1>2 DEF Nets
    <2> HIDE DEF addr
    <2>2. ListsSound(addr)
      BY <1>2, <2>1 DEF ListsSound, On
    <2>3. \A i \in HostIfaces : JoinedRightly(addr, i)
      BY <1>4, <2>1 DEF JoinedRightly, Announces
    <2>4. \A b \in Addresses : Current(addr, host, b)
      BY <1>3, <2>1 DEF Current, Publishes
    <2> QED
      BY <1>1, <1>2, <1>5, <2>1, <2>2, <2>3, <2>4 DEF NetOK, HostOK
  <1>6. CASE finished
    <2>1. /\ n \in Nets /\ n.addrs = net.addrs
          /\ n.announcing = net.announcing /\ n.joined = net.joined
      BY <1>2 DEF Nets
    <2> HIDE DEF n
    <2>2. ListsSound(n)
      BY <1>2, <2>1 DEF ListsSound, On
    <2>3. \A i \in HostIfaces : /\ n.joined[i] # Nowhere => Announces(n, i)
                                /\ Announces(n, i) => n.dump = "done"
      BY <1>4, <2>1 DEF Announces
    <2>4. OnlyMembers(n, m, HostIfaces) /\ \A i \in HostIfaces : JoinedRightly(m, i)
      <3>1. HostIfaces \in SUBSET HostIfaces
        OBVIOUS
      <3> QED
        BY <2>1, <2>2, <2>3, <3>1, EachSets
    <2>9. net' = m /\ host' = UpdateAll(m, host, FALSE)
      BY <1>1, <1>6
    <2> HIDE DEF m
    <2>5. m \in Nets /\ ListsSound(m)
      BY <2>2, <2>4 DEF OnlyMembers, ListsSound, On
    <2> DEFINE g == UpdateAll(m, host, FALSE)
    <2>6. NoneStale(m, host)
      BY <1>3 DEF NoneStale
    <2>7. Carried(host, g, 0, 0, O) /\ \A b \in Addresses : Current(m, g, b)
      BY <1>2, <2>5, <2>6, RefreshAll
    <2> HIDE DEF g
    <2>8. HostOK(m, g, O) /\ NetOK(m) /\ g.name = host.name
      BY <1>2, <2>4, <2>5, <2>7 DEF HostOK, NetOK, Carried
    <2> QED
      BY <2>8, <2>9 DEF g
  <1> QED
    BY <1>5, <1>6

-----------------------------------------------------------------------------
LEMMA HostStarts ==
    ASSUME HostInit
    PROVE  NetOK(net) /\ HostOK(net, host, {})
  <1>1. PICK x \in HostNames :
          host = [state |-> "invalid", pending |-> 0, name |-> x,
                  group |-> [a \in Addresses |-> "empty"],
                  under |-> [a \in Addresses |-> Nowhere]]
    BY DEF HostInit
  <1>2. host \in Hosts /\ NamedBut(host, {}) /\ Counted(host, 0, 0)
    BY <1>1 DEF Hosts, NamedBut, NamesSound, OldNameLeft, Counted
  <1>3. \A a \in Addresses : Current(net, host, a)
    BY <1>1 DEF Current
  <1>4. <<>> \in Seq(Addresses) /\ ToSet(<<>>) = {} /\ IsInjective(<<>>)
    BY DEF ToSet, IsInjective
  <1>5. net \in Nets
    BY <1>4 DEF HostInit, Nets
  <1>6. ListsSound(net) /\ \A i \in HostIfaces : JoinedRightly(net, i)
    BY <1>4 DEF HostInit, ListsSound, On, JoinedRightly
  <1> QED
    BY <1>1, <1>2, <1>3, <1>5, <1>6 DEF HostOK, NetOK

(* Every step but a renaming keeps the name, and leaves no group under another that
   was not. *)
Keeps(O) == NetOK(net') /\ HostOK(net', host', O) /\ host'.name = host.name
Renames ==
    /\ NetOK(net') /\ HostOK(net', host', Addresses)
    /\ IF host.state = "registering" THEN host'.name # host.name
       ELSE HostOK(net', host', {})

LEMMA HostSteps ==
    ASSUME NetOK(net), NEW O, HostOK(net, host, O), [HostNext]_hostVars
    PROVE  Keeps(O) \/ Renames
  <1>1. CASE ServerStarts
    BY <1>1, StartKeeps DEF Keeps
  <1>2. ASSUME NEW x \in HostNames, SetHostName(x)
        PROVE  Renames
    BY <1>2, RenameKeeps DEF Renames
  <1>3. ASSUME NEW a \in Addresses, GroupProbed(a)
        PROVE  Keeps(O)
    BY <1>3, ProbedKeeps DEF Keeps
  <1>4. ASSUME NEW a \in Addresses, GroupCollides(a)
        PROVE  Keeps(O)
    BY <1>4, CollisionKeeps DEF Keeps
  <1>5. ASSUME NEW w \in Hw, NEW ok \in BOOLEAN, NEW joins \in SUBSET HostIfaces,
               NewLink(w, ok, joins)
        PROVE  Keeps(O)
    BY <1>5, NewLinkKeeps DEF Keeps
  <1>6. ASSUME NEW w \in Hw, DelLink(w)
        PROVE  Keeps(O)
    BY <1>6, DelLinkKeeps DEF Keeps
  <1>7. ASSUME NEW a \in Addresses, NEW k \in {"public", "deprecated", "local"},
               NEW joins \in BOOLEAN, NewAddr(a, k, joins)
        PROVE  Keeps(O)
    BY <1>7, NewAddrKeeps DEF Keeps
  <1>8. ASSUME NEW a \in Addresses, NEW joins \in BOOLEAN, DelAddr(a, joins)
        PROVE  Keeps(O)
    BY <1>8, DelAddrKeeps DEF Keeps
  <1>9. ASSUME NEW fails \in BOOLEAN, NEW joins \in SUBSET HostIfaces,
               DumpDone(fails, joins)
        PROVE  Keeps(O)
    BY <1>9, DumpKeeps DEF Keeps
  <1>10. CASE UNCHANGED hostVars
    BY <1>10 DEF hostVars, Keeps
  <1> QED
    BY <1>1, <1>2, <1>3, <1>4, <1>5, <1>6, <1>7, <1>8, <1>9, <1>10 DEF HostNext

LEMMA HostKept ==
    ASSUME HostIInv, [HostNext]_hostVars
    PROVE  HostIInv'
  <1>1. Keeps(Addresses) \/ Renames
    BY InvariantParts, HostSteps
  <1>2. NetOK(net') /\ HostOK(net', host', Addresses)
    BY <1>1 DEF Keeps, Renames
  <1>3. HostIInv' <=> (NetOK(net) /\ HostOK(net, host, Addresses))'
    BY InvariantParts, PTL
  <1> QED
    BY <1>2, <1>3

(* The names that one step leaves behind *)
NameStep ==
    IF host'.name = host.name THEN OldNameLeft(host') \subseteq OldNameLeft(host)
    ELSE host.state = "registering" \/ OldNameLeft(host') = {}

LEMMA NamesKept ==
    ASSUME HostIInv, [HostNext]_hostVars
    PROVE  [NameStep]_hostVars
  <1> DEFINE O == OldNameLeft(host)
  <1>1. NetOK(net) /\ HostOK(net, host, O)
    BY InvariantParts DEF HostOK, NamedBut
  <1>2. Keeps(O) \/ Renames
    <2> HIDE DEF O
    <2> QED
      BY <1>1, HostSteps
  <1>3. \A N : HostOK(net', host', N) => OldNameLeft(host') \subseteq N
    BY DEF HostOK, NamedBut
  <1>4. CASE Keeps(O)
    BY <1>3, <1>4 DEF Keeps, NameStep
  <1>5. CASE Renames /\ host.state # "registering"
    BY <1>3, <1>5 DEF Renames, NameStep
  <1>6. CASE Renames /\ host.state = "registering"
    BY <1>6 DEF Renames, NameStep
  <1> QED
    BY <1>2, <1>4, <1>5, <1>6

(* The invariant that every netlink message, conflict and renaming keeps *)
THEOREM HostInvariant == HostSpec => []HostIInv
  <1>1. HostInit => HostIInv
    <2>1. HostOK(net, host, {}) => HostOK(net, host, Addresses)
      BY DEF HostOK, NamedBut
    <2> QED
      BY <2>1, HostStarts, InvariantParts
  <1>2. HostIInv /\ [HostNext]_hostVars => HostIInv'
    BY HostKept
  <1> QED
    BY <1>1, <1>2, PTL DEF HostSpec

(* A server that is registering or running publishes exactly the relevant addresses
   of its interfaces, whatever comes in between, and each under its current name,
   but for what a renaming while it was still registering has left under an earlier
   one: for any number of interfaces and addresses. *)
THEOREM HostRecordsAlwaysCurrent == HostSpec => HostRecordsCurrent
  <1>1. HostIInv => \A a \in Addresses : Current(net, host, a)
    BY DEF HostIInv
  <1>2. HostIInv /\ [HostNext]_hostVars => [NameStep]_hostVars
    BY NamesKept
  <1> QED
    BY <1>1, <1>2, HostInvariant, PTL DEF HostSpec, HostRecordsCurrent, NameStep

(* A server that is REGISTERING waits for at least one group and for no more than are
   being registered, also after a renaming has left groups that are not counted. *)
THEOREM PendingAlwaysCounted == HostSpec => []PendingCounted
  <1>1. HostIInv => PendingCounted
    BY DEF HostIInv
  <1> QED
    BY <1>1, HostInvariant, PTL

(* An interface is joined only where it announces, and with an address it still has,
   a global one if it has any. *)
THEOREM MulticastAddressAlwaysKept == HostSpec => []MulticastAddressKept
  <1>1. HostIInv => MulticastAddressKept
    BY DEF HostIInv
  <1> QED
    BY <1>1, HostInvariant, PTL

-----------------------------------------------------------------------------
(* The record list *)

LEMMA SoundList ==
    ASSUME NEW l, ListSound(l)
    PROVE  /\ l.unread \in Seq(Items) /\ l.read \in SUBSET OwnRecords
           /\ \A t \in ToSet(l.unread) : t \in Items /\ t.rec \in OwnRecords \ l.read
           /\ \A r : r \in Waiting(l) <=> \E t \in ToSet(l.unread) : t.rec = r
  <1>1. l.unread \in Seq(Items) /\ l.read \in SUBSET OwnRecords
    BY DEF ListSound, Lists
  <1>2. PICK m \in Nat : m = Len(l.unread) /\ DOMAIN l.unread = 1..m
    BY <1>1, LenProperties
  <1>3. \A k \in 1..m : l.unread[k] \in Items
    BY <1>1, <1>2, ElementOfSeq
  <1>4. \A t \in ToSet(l.unread) : t \in Items /\ t.rec \in OwnRecords \ l.read
    BY <1>2, <1>3 DEF ListSound, ToSet, Items
  <1> QED
    BY <1>1, <1>4 DEF Waiting

(* What a number of records pushed on a list leave behind: each is on it, once, and
   those that are new are marked as asked for. *)
Pushed(l, m, rs, u) ==
    /\ ListSound(m) /\ m.read = l.read /\ OnList(m) = OnList(l) \union rs
    /\ \A t \in ToSet(m.unread) :
         t \in ToSet(l.unread) \/ (t.rec \in rs \ OnList(l) /\ t.unicast = u)

(* avahi_record_list_push() *)
LEMMA PushIs ==
    ASSUME NEW l, ListSound(l), NEW r \in OwnRecords, NEW u \in BOOLEAN, NEW x \in BOOLEAN
    PROVE  Pushed(l, Push(l, r, u, x), {r}, u)
  <1>1. CASE r \in OnList(l)
    <2>1. Push(l, r, u, x) = l
      BY <1>1 DEF Push, OnList
    <2>2. Pushed(l, l, {r}, u)
      BY <1>1 DEF Pushed
    <2> QED
      BY <2>1, <2>2
  <1>2. CASE r \notin OnList(l)
    <2> DEFINE t == [rec |-> r, unicast |-> u, aux |-> x]
               s == <<t>> \o l.unread
               b == l.allFlush /\ r \in UniqueRecords
               m == Push(l, r, u, x)
    <2> SUFFICES Pushed(l, m, {r}, u)
      OBVIOUS
    <2>1. m = [l EXCEPT !.unread = s, !.allFlush = b]
      BY <1>2 DEF Push, OnList
    <2>2. t \in Items /\ t.rec = r /\ t.unicast = u
      BY DEF Items
    <2>3. /\ l.unread \in Seq(Items) /\ l.read \in SUBSET OwnRecords
          /\ \A i \in ToSet(l.unread) : i \in Items /\ i.rec \in OwnRecords \ l.read
          /\ \A p : p \in Waiting(l) <=> \E i \in ToSet(l.unread) : i.rec = p
      BY SoundList
    <2>4. PICK k \in Nat : k = Len(l.unread) /\ DOMAIN l.unread = 1..k
      BY <2>3, LenProperties
    <2> HIDE DEF t
    <2>5. /\ s \in Seq(Items) /\ DOMAIN s = 1..(1 + k) /\ s[1] = t
          /\ \A j \in 1..k : s[j + 1] = l.unread[j]
          /\ \A j \in 1..(1 + k) : j = 1 \/ \E i \in 1..k : j = i + 1
          /\ ToSet(s) = ToSet(l.unread) \union {t}
      BY <2>2, <2>3, <2>4, InFront
    <2> HIDE DEF s, m
    <2>6. m \in Lists /\ m.unread = s /\ m.read = l.read
      <3>1. b \in BOOLEAN /\ l \in Lists
        BY DEF ListSound
      <3> HIDE DEF b
      <3> QED
        BY <2>1, <2>5, <3>1 DEF Lists
    <2>7. \A i \in 1..k : /\ l.unread[i].rec # r /\ l.unread[i].rec \notin l.read
                          /\ \A j \in 1..k : l.unread[i].rec = l.unread[j].rec => i = j
      BY <1>2, <2>3, <2>4 DEF ListSound, OnList, ToSet
    <2>8. r \notin l.read
      BY <1>2 DEF OnList
    <2>9. ListSound(m)
      <3>1. ASSUME NEW i \in 1..(1 + k), NEW j \in 1..(1 + k), s[i].rec = s[j].rec
            PROVE  i = j
        <4>1. CASE i = 1 /\ j = 1
          BY <4>1
        <4>2. CASE i = 1 /\ j # 1
          <5>1. PICK q \in 1..k : j = q + 1
            BY <2>5, <4>2
          <5>2. s[j] = l.unread[q] /\ s[i] = t
            BY <2>5, <4>2, <5>1
          <5> QED
            BY <2>2, <2>7, <3>1, <5>2
        <4>3. CASE i # 1 /\ j = 1
          <5>1. PICK q \in 1..k : i = q + 1
            BY <2>5, <4>3
          <5>2. s[i] = l.unread[q] /\ s[j] = t
            BY <2>5, <4>3, <5>1
          <5> QED
            BY <2>2, <2>7, <3>1, <5>2
        <4>4. CASE i # 1 /\ j # 1
          <5>1. PICK p \in 1..k : i = p + 1
            BY <2>5, <4>4
          <5>2. PICK q \in 1..k : j = q + 1
            BY <2>5, <4>4
          <5> QED
            BY <2>5, <2>7, <3>1, <5>1, <5>2
        <4> QED
          BY <4>1, <4>2, <4>3, <4>4
      <3>2. ASSUME NEW j \in 1..(1 + k)
            PROVE  s[j].rec \notin l.read
        <4>1. CASE j = 1
          BY <2>2, <2>5, <2>8, <4>1
        <4>2. CASE j # 1
          <5>1. PICK q \in 1..k : j = q + 1
            BY <2>5, <4>2
          <5>2. s[j] = l.unread[q]
            BY <2>5, <5>1
          <5> QED
            BY <2>7, <5>2
        <4> QED
          BY <4>1, <4>2
      <3> QED
        BY <2>5, <2>6, <3>1, <3>2 DEF ListSound
    <2>10. OnList(m) = OnList(l) \union {r}
      <3>1. \A p : p \in Waiting(m) <=> \E i \in ToSet(s) : i.rec = p
        BY <2>6, <2>9, SoundList
      <3> QED
        BY <2>2, <2>3, <2>5, <2>6, <3>1 DEF OnList
    <2>11. \A i \in ToSet(m.unread) :
             i \in ToSet(l.unread) \/ (i.rec \in {r} \ OnList(l) /\ i.unicast = u)
      BY <1>2, <2>2, <2>5, <2>6
    <2> QED
      BY <2>6, <2>9, <2>10, <2>11 DEF Pushed
  <1> QED
    BY <1>1, <1>2

LEMMA PushedTwice ==
    ASSUME NEW l, NEW m, NEW p, NEW rs, NEW qs, NEW u, Pushed(l, m, rs, u), Pushed(m, p, qs, u)
    PROVE  Pushed(l, p, rs \union qs, u)
  <1>1. ListSound(p) /\ p.read = l.read /\ OnList(p) = OnList(l) \union (rs \union qs)
    BY DEF Pushed
  <1>2. ASSUME NEW t \in ToSet(p.unread)
        PROVE  \/ t \in ToSet(l.unread)
               \/ t.rec \in (rs \union qs) \ OnList(l) /\ t.unicast = u
    BY DEF Pushed
  <1> QED
    BY <1>1, <1>2 DEF Pushed

(* avahi_record_list_drop() *)
LEMMA DropIs ==
    ASSUME NEW l, ListSound(l), NEW r
    PROVE  LET m == Drop(l, r) IN
           /\ ListSound(m) /\ m.read = l.read \ {r}
           /\ ToSet(m.unread) = {t \in ToSet(l.unread) : t.rec # r}
  <1> DEFINE m == Drop(l, r)
             s == l.unread
             k == CHOOSE i \in DOMAIN s : s[i].rec = r
             q == IF r \in Waiting(l) THEN RemoveAt(s, k) ELSE s
  <1> SUFFICES /\ ListSound(m) /\ m.read = l.read \ {r}
               /\ ToSet(m.unread) = {t \in ToSet(l.unread) : t.rec # r}
    OBVIOUS
  <1>1. /\ l.unread \in Seq(Items) /\ l.read \in SUBSET OwnRecords
        /\ \A p : p \in Waiting(l) <=> \E i \in ToSet(l.unread) : i.rec = p
    BY SoundList
  <1>2. m = [l EXCEPT !.read = @ \ {r}, !.unread = q]
    BY DEF Drop
  <1> HIDE DEF m
  <1>3. PICK n \in Nat : n = Len(s) /\ DOMAIN s = 1..n
    BY <1>1, LenProperties
  <1>4. /\ \A i, j \in 1..n : s[i].rec = s[j].rec => i = j
        /\ \A i \in 1..n : s[i].rec \notin l.read
    BY <1>3 DEF ListSound
  <1> HIDE DEF s
  <1>5. l \in Lists
    BY DEF ListSound
  <1>6. CASE r \notin Waiting(l)
    <2>1. q = s /\ q \in Seq(Items)
      BY <1>1, <1>6 DEF s
    <2>2. m \in Lists /\ m.unread = s /\ m.read = l.read \ {r}
      BY <1>2, <1>5, <2>1 DEF Lists
    <2>3. \A t \in ToSet(l.unread) : t.rec # r
      BY <1>1, <1>6
    <2> QED
      BY <1>3, <1>4, <2>2, <2>3 DEF ListSound, s
  <1>7. CASE r \in Waiting(l)
    <2>1. k \in 1..n /\ s[k].rec = r
      <3>1. \E i \in DOMAIN s : s[i].rec = r
        BY <1>1, <1>7 DEF ToSet, s
      <3> QED
        BY <1>3, <3>1
    <2>2. q = RemoveAt(s, k)
      BY <1>7
    <2> HIDE DEF k
    <2>3. q \in Seq(Items) /\ \E at : Without(s, q, n, k, at)
      BY <1>1, <1>3, <2>1, <2>2, OutOf DEF s
    <2> HIDE DEF q
    <2>4. PICK at : Without(s, q, n, k, at)
      BY <2>3
    <2>5. m \in Lists /\ m.unread = q /\ m.read = l.read \ {r}
      BY <1>2, <1>5, <2>3 DEF Lists
    <2>6. ListSound(m)
      <3>1. \A j \in 1..(n - 1) : at[j] \in 1..n /\ q[j] = s[at[j]]
        BY <2>4 DEF Without
      <3>2. ASSUME NEW i \in 1..(n - 1), NEW j \in 1..(n - 1), q[i].rec = q[j].rec
            PROVE  i = j
        <4>1. at[i] = at[j]
          BY <1>4, <3>1, <3>2
        <4> QED
          BY <2>4, <4>1 DEF Without
      <3>3. \A j \in 1..(n - 1) : q[j].rec \notin l.read
        BY <1>4, <3>1
      <3>4. DOMAIN q = 1..(n - 1)
        BY <2>4 DEF Without
      <3> QED
        BY <2>5, <3>2, <3>3, <3>4 DEF ListSound
    <2>7. ASSUME NEW j \in 1..(n - 1)
          PROVE  q[j] \in ToSet(s) /\ q[j].rec # r
      <3>1. at[j] \in 1..n /\ at[j] # k /\ q[j] = s[at[j]]
        BY <2>4 DEF Without
      <3> QED
        BY <1>3, <1>4, <2>1, <3>1 DEF ToSet
    <2>8. ASSUME NEW i \in 1..n, s[i].rec # r
          PROVE  s[i] \in ToSet(q)
      <3>1. i # k
        BY <2>1, <2>8
      <3>2. PICK j \in 1..(n - 1) : at[j] = i
        BY <2>4, <3>1 DEF Without
      <3> QED
        BY <2>4, <3>2 DEF Without, ToSet
    <2>9. DOMAIN q = 1..(n - 1)
      BY <2>4 DEF Without
    <2>10. ToSet(q) = {t \in ToSet(s) : t.rec # r}
      <3>1. \A t \in ToSet(q) : t \in ToSet(s) /\ t.rec # r
        BY <2>7, <2>9 DEF ToSet
      <3>2. \A t \in ToSet(s) : t.rec # r => t \in ToSet(q)
        BY <1>3, <2>8 DEF ToSet
      <3> QED
        BY <3>1, <3>2
    <2> QED
      BY <2>5, <2>6, <2>10 DEF s
  <1> QED
    BY <1>6, <1>7

(* avahi_record_list_next() *)
LEMMA TakeIs ==
    ASSUME NEW l, ListSound(l), l.unread # <<>>
    PROVE  LET m == TakeNext(l)
               t == Head(l.unread)
           IN  /\ ListSound(m) /\ t \in ToSet(l.unread) /\ t \in Items /\ t.rec \notin l.read
               /\ m.read = l.read \union {t.rec} /\ OnList(m) = OnList(l)
               /\ ToSet(m.unread) \subseteq ToSet(l.unread)
  <1> DEFINE m == TakeNext(l)
             s == l.unread
             t == Head(s)
             q == Tail(s)
  <1> SUFFICES /\ ListSound(m) /\ t \in ToSet(l.unread) /\ t \in Items /\ t.rec \notin l.read
               /\ m.read = l.read \union {t.rec} /\ OnList(m) = OnList(l)
               /\ ToSet(m.unread) \subseteq ToSet(l.unread)
    OBVIOUS
  <1>1. /\ s \in Seq(Items) /\ l.read \in SUBSET OwnRecords
        /\ \A i \in ToSet(s) : i \in Items /\ i.rec \in OwnRecords \ l.read
        /\ \A p : p \in Waiting(l) <=> \E i \in ToSet(s) : i.rec = p
    BY SoundList
  <1>2. m = [l EXCEPT !.unread = q, !.read = @ \union {t.rec}]
    BY DEF TakeNext
  <1>3. PICK n \in Nat : n = Len(s) /\ DOMAIN s = 1..n /\ n # 0
    BY <1>1, LenProperties, EmptySeq
  <1>4. /\ t = s[1] /\ q \in Seq(Items) /\ Len(q) = n - 1
        /\ \A i \in 1..(n - 1) : q[i] = s[i + 1]
    BY <1>1, <1>3, HeadTailProperties
  <1>5. DOMAIN q = 1..(n - 1)
    BY <1>4, LenProperties
  <1>6. l \in Lists
    BY DEF ListSound
  <1>7. /\ \A i, j \in 1..n : s[i].rec = s[j].rec => i = j
        /\ \A i \in 1..n : s[i].rec \notin l.read
    BY <1>3 DEF ListSound
  <1> HIDE DEF m, s, t, q
  <1>8. 1 \in 1..n /\ \A i \in 1..(n - 1) : i + 1 \in 1..n /\ i + 1 # 1
    BY <1>3
  <1>9. t \in ToSet(s) /\ t \in Items /\ t.rec \in OwnRecords \ l.read
    BY <1>1, <1>3, <1>4, <1>8 DEF ToSet
  <1>10. m \in Lists /\ m.unread = q /\ m.read = l.read \union {t.rec}
    BY <1>1, <1>2, <1>4, <1>6, <1>9 DEF Lists
  <1>11. \A i \in 1..(n - 1) : q[i].rec # t.rec /\ q[i].rec \notin l.read
    BY <1>4, <1>7, <1>8
  <1>12. ASSUME NEW i \in 1..(n - 1), NEW j \in 1..(n - 1), q[i].rec = q[j].rec
         PROVE  i = j
    <2>1. s[i + 1].rec = s[j + 1].rec /\ i + 1 \in 1..n /\ j + 1 \in 1..n
      BY <1>4, <1>8, <1>12
    <2>2. i + 1 = j + 1
      BY <1>7, <2>1
    <2> QED
      BY <2>2
  <1>13. ListSound(m)
    BY <1>5, <1>10, <1>11, <1>12 DEF ListSound
  <1>14. ToSet(s) = ToSet(q) \union {t}
    <2>1. \A i \in 1..(n - 1) : q[i] \in ToSet(s)
      BY <1>3, <1>4, <1>8 DEF ToSet
    <2>2. ASSUME NEW i \in 1..n
          PROVE  s[i] \in ToSet(q) \union {t}
      <3>1. CASE i = 1
        BY <1>4, <3>1
      <3>2. CASE i # 1
        <4>1. i - 1 \in 1..(n - 1) /\ (i - 1) + 1 = i
          BY <3>2
        <4> QED
          BY <1>4, <1>5, <4>1 DEF ToSet
      <3> QED
        BY <3>1, <3>2
    <2> QED
      BY <1>3, <1>5, <1>9, <2>1, <2>2 DEF ToSet
  <1>15. OnList(m) = OnList(l)
    <2>1. \A p : p \in Waiting(m) <=> \E i \in ToSet(q) : i.rec = p
      BY <1>10, <1>13, SoundList
    <2> QED
      BY <1>1, <1>10, <1>14, <2>1 DEF OnList
  <1> QED
    BY <1>9, <1>10, <1>13, <1>14, <1>15 DEF s

(* Pushing records one after the other, in the order of the server's entries *)
PushIf(l, rs, r, u, x) == IF r \in rs THEN Push(l, r, u, x) ELSE l
PushWalk(l, rs, u, x, m, f) ==
    f[0] = l /\ \A k \in 1..m : f[k] = PushIf(f[k - 1], rs, OwnList[k], u, x)
AllPushed(l, rs, u, x, g) == PushAll(l, rs, u, x) = g

LEMMA PushWalks ==
    ASSUME NEW h, NEW rs, NEW u, NEW x, NEW m \in Nat, DOMAIN OwnList = 1..m
    PROVE  \E f : PushWalk(h, rs, u, x, m, f) /\ AllPushed(h, rs, u, x, f[m])
  <1> DEFINE body(g, s) == IF s = {} THEN h
                           ELSE PushIf(g[s \ {Max(s)}], rs, OwnList[Max(s)], u, x)
             fold(D, g) == g = [s \in SUBSET D |-> body(g, s)]
             S == {k \in Nat : \E g : fold(1..k, g)}
  <1>1. 0 \in S
    <2> DEFINE g == [s \in SUBSET (1..0) |-> h]
    <2>1. \A s \in SUBSET (1..0) : s = {}
      OBVIOUS
    <2>2. fold(1..0, g)
      BY <2>1
    <2> HIDE DEF fold, g
    <2> QED
      BY <2>2
  <1>2. ASSUME NEW k \in Nat, k \in S
        PROVE  k + 1 \in S
    <2>1. PICK f : fold(1..k, f)
      BY <1>2
    <2> DEFINE g == [s \in SUBSET (1..(k + 1)) |->
                       IF k + 1 \in s THEN PushIf(f[s \ {k + 1}], rs, OwnList[k + 1], u, x)
                       ELSE f[s]]
    <2>2. ASSUME NEW s \in SUBSET (1..(k + 1))
          PROVE  g[s] = body(g, s)
      <3>1. CASE k + 1 \in s
        <4>1. Max(s) = k + 1 /\ s # {}
          BY <3>1, MaxOfSegment
        <4>2. s \ {k + 1} \in SUBSET (1..(k + 1)) /\ k + 1 \notin s \ {k + 1}
          OBVIOUS
        <4>3. g[s \ {k + 1}] = f[s \ {k + 1}]
          BY <4>2
        <4>4. g[s] = PushIf(f[s \ {k + 1}], rs, OwnList[k + 1], u, x)
          BY <3>1
        <4> HIDE DEF g
        <4> QED
          BY <4>1, <4>3, <4>4
      <3>2. CASE k + 1 \notin s
        <4>1. s \in SUBSET (1..k)
          BY <3>2
        <4>2. g[s] = f[s] /\ f[s] = body(f, s)
          BY <3>2, <4>1, <2>1
        <4>3. CASE s = {}
          BY <4>2, <4>3
        <4>4. CASE s # {}
          <5>1. s \ {Max(s)} \in SUBSET (1..(k + 1)) /\ k + 1 \notin s \ {Max(s)}
            BY <3>2
          <5>2. g[s \ {Max(s)}] = f[s \ {Max(s)}]
            BY <5>1
          <5> HIDE DEF g
          <5> QED
            BY <4>2, <4>4, <5>2
        <4> QED
          BY <4>3, <4>4
      <3> QED
        BY <3>1, <3>2
    <2>3. fold(1..(k + 1), g)
      BY <2>2
    <2> HIDE DEF fold, g
    <2> QED
      BY <2>3
  <1>3. m \in S
    <2> HIDE DEF S
    <2>1. \A k \in 0..(m - 1) : k \in S => k + 1 \in S
      BY <1>2
    <2>2. 0..m \subseteq S
      BY <1>1, <2>1, SetInduction
    <2>3. m \in 0..m
      OBVIOUS
    <2> QED
      BY <2>2, <2>3
  <1> DEFINE iter == CHOOSE g : fold(DOMAIN OwnList, g)
  <1>4. fold(1..m, iter)
    <2> HIDE DEF fold
    <2> QED
      BY <1>3
  <1>5. PushAll(h, rs, u, x) = iter[DOMAIN OwnList]
    BY DEF PushAll, PushIf, FoldLeft, MapThenFoldSet
  <1> HIDE DEF iter
  <1> DEFINE f == [k \in 0..m |-> iter[1..k]]
  <1>6. f[0] = h
    <2>1. 1..0 = {} /\ {} \in SUBSET (1..m)
      OBVIOUS
    <2>2. iter[{}] = h
      BY <1>4, <2>1
    <2> QED
      BY <2>1, <2>2
  <1>7. ASSUME NEW k \in 1..m
        PROVE  f[k] = PushIf(f[k - 1], rs, OwnList[k], u, x)
    <2>0. k \in Nat /\ k \in 1..k
      OBVIOUS
    <2>1. 1..k \in SUBSET (1..m) /\ 1..k # {}
      BY Segments
    <2>9. Max(1..k) = k
      BY <2>0, MaxOfSegment
    <2>2. (1..k) \ {k} = 1..(k - 1)
      OBVIOUS
    <2>3. iter[1..k] = PushIf(iter[1..(k - 1)], rs, OwnList[k], u, x)
      BY <1>4, <2>1, <2>9, <2>2
    <2>4. k \in 0..m /\ k - 1 \in 0..m
      OBVIOUS
    <2> QED
      BY <2>3, <2>4
  <1>8. f[m] = iter[DOMAIN OwnList]
    OBVIOUS
  <1> HIDE DEF f
  <1> QED
    BY <1>5, <1>6, <1>7, <1>8 DEF PushWalk, AllPushed

-----------------------------------------------------------------------------
(* The replies *)

(* The size of a reply, record by record *)
UsedWalk(as, m, f) == f[0] = 0 /\ \A k \in 1..m : f[k] = f[k - 1] + SizeOf[as[k]]

LEMMA UsedWalks ==
    ASSUME NEW as, NEW m \in Nat, DOMAIN as = 1..m
    PROVE  \E f : UsedWalk(as, m, f) /\ Used(as) = f[m]
  <1> DEFINE body(g, s) == IF s = {} THEN 0
                           ELSE g[s \ {Max(s)}] + SizeOf[as[Max(s)]]
             fold(D, g) == g = [s \in SUBSET D |-> body(g, s)]
             S == {k \in Nat : \E g : fold(1..k, g)}
  <1>1. 0 \in S
    <2> DEFINE g == [s \in SUBSET (1..0) |-> 0]
    <2>1. \A s \in SUBSET (1..0) : s = {}
      OBVIOUS
    <2>2. fold(1..0, g)
      BY <2>1
    <2> HIDE DEF fold, g
    <2> QED
      BY <2>2
  <1>2. ASSUME NEW k \in Nat, k \in S
        PROVE  k + 1 \in S
    <2>1. PICK f : fold(1..k, f)
      BY <1>2
    <2> DEFINE g == [s \in SUBSET (1..(k + 1)) |->
                       IF k + 1 \in s THEN f[s \ {k + 1}] + SizeOf[as[k + 1]]
                       ELSE f[s]]
    <2>2. ASSUME NEW s \in SUBSET (1..(k + 1))
          PROVE  g[s] = body(g, s)
      <3>1. CASE k + 1 \in s
        <4>1. Max(s) = k + 1 /\ s # {}
          BY <3>1, MaxOfSegment
        <4>2. s \ {k + 1} \in SUBSET (1..(k + 1)) /\ k + 1 \notin s \ {k + 1}
          OBVIOUS
        <4>3. g[s \ {k + 1}] = f[s \ {k + 1}]
          BY <4>2
        <4>4. g[s] = f[s \ {k + 1}] + SizeOf[as[k + 1]]
          BY <3>1
        <4> HIDE DEF g
        <4> QED
          BY <4>1, <4>3, <4>4
      <3>2. CASE k + 1 \notin s
        <4>1. s \in SUBSET (1..k)
          BY <3>2
        <4>2. g[s] = f[s] /\ f[s] = body(f, s)
          BY <3>2, <4>1, <2>1
        <4>3. CASE s = {}
          BY <4>2, <4>3
        <4>4. CASE s # {}
          <5>1. s \ {Max(s)} \in SUBSET (1..(k + 1)) /\ k + 1 \notin s \ {Max(s)}
            BY <3>2
          <5>2. g[s \ {Max(s)}] = f[s \ {Max(s)}]
            BY <5>1
          <5> HIDE DEF g
          <5> QED
            BY <4>2, <4>4, <5>2
        <4> QED
          BY <4>3, <4>4
      <3> QED
        BY <3>1, <3>2
    <2>3. fold(1..(k + 1), g)
      BY <2>2
    <2> HIDE DEF fold, g
    <2> QED
      BY <2>3
  <1>3. m \in S
    <2> HIDE DEF S
    <2>1. \A k \in 0..(m - 1) : k \in S => k + 1 \in S
      BY <1>2
    <2>2. 0..m \subseteq S
      BY <1>1, <2>1, SetInduction
    <2>3. m \in 0..m
      OBVIOUS
    <2> QED
      BY <2>2, <2>3
  <1> DEFINE iter == CHOOSE g : fold(DOMAIN as, g)
  <1>4. fold(1..m, iter)
    <2> HIDE DEF fold
    <2> QED
      BY <1>3
  <1>5. Used(as) = iter[DOMAIN as]
    BY DEF Used, FoldLeft, MapThenFoldSet
  <1> HIDE DEF iter
  <1> DEFINE f == [k \in 0..m |-> iter[1..k]]
  <1>6. f[0] = 0
    <2>1. 1..0 = {} /\ {} \in SUBSET (1..m)
      OBVIOUS
    <2>2. iter[{}] = 0
      BY <1>4, <2>1
    <2> QED
      BY <2>1, <2>2
  <1>7. ASSUME NEW k \in 1..m
        PROVE  f[k] = f[k - 1] + SizeOf[as[k]]
    <2>0. k \in Nat /\ k \in 1..k
      OBVIOUS
    <2>1. 1..k \in SUBSET (1..m) /\ 1..k # {}
      BY Segments
    <2>9. Max(1..k) = k
      BY <2>0, MaxOfSegment
    <2>2. (1..k) \ {k} = 1..(k - 1)
      OBVIOUS
    <2>3. iter[1..k] = iter[1..(k - 1)] + SizeOf[as[k]]
      BY <1>4, <2>1, <2>9, <2>2
    <2>4. k \in 0..m /\ k - 1 \in 0..m
      OBVIOUS
    <2> QED
      BY <2>3, <2>4
  <1>8. f[m] = iter[DOMAIN as]
    OBVIOUS
  <1> HIDE DEF f
  <1> QED
    BY <1>5, <1>6, <1>7, <1>8 DEF UsedWalk

LEMMA PushAllIs ==
    ASSUME NEW l, ListSound(l), NEW rs \in SUBSET OwnRecords, NEW u \in BOOLEAN, NEW x \in BOOLEAN
    PROVE  Pushed(l, PushAll(l, rs, u, x), rs, u)
  <1>1. PICK m \in Nat : DOMAIN OwnList = 1..m
    BY LenProperties, ResponderAssumption DEF ResponderAssumption
  <1>2. PICK f : PushWalk(l, rs, u, x, m, f) /\ AllPushed(l, rs, u, x, f[m])
    BY <1>1, PushWalks
  <1> DEFINE seen(k) == {r \in rs : \E j \in 1..k : OwnList[j] = r}
             S == {k \in Nat : Pushed(l, f[k], seen(k), u)}
  <1>3. \A k \in 1..m : OwnList[k] \in OwnRecords
    BY <1>1 DEF OwnRecords, ToSet
  <1>4. 0 \in S
    <2>1. f[0] = l /\ seen(0) = {}
      BY <1>2 DEF PushWalk
    <2>2. Pushed(l, l, {}, u)
      BY DEF Pushed
    <2> HIDE DEF seen
    <2> QED
      BY <2>1, <2>2
  <1>5. ASSUME NEW k \in 0..(m - 1), k \in S
        PROVE  k + 1 \in S
    <2> DEFINE r == OwnList[k + 1]
    <2>1. k + 1 \in 1..m /\ (k + 1) - 1 = k /\ k + 1 \in Nat
      OBVIOUS
    <2>2. f[k + 1] = PushIf(f[k], rs, r, u, x) /\ r \in OwnRecords
      BY <1>2, <1>3, <2>1 DEF PushWalk
    <2>3. 1..(k + 1) = (1..k) \union {k + 1}
      OBVIOUS
    <2>4. Pushed(l, f[k], seen(k), u) /\ ListSound(f[k])
      BY <1>5 DEF Pushed
    <2> HIDE DEF r
    <2>5. CASE r \in rs
      <3>1. seen(k + 1) = seen(k) \union {r}
        BY <2>3, <2>5 DEF r
      <3>2. Pushed(f[k], f[k + 1], {r}, u)
        BY <2>2, <2>4, <2>5, PushIs DEF PushIf
      <3> HIDE DEF seen
      <3>3. Pushed(l, f[k + 1], seen(k) \union {r}, u)
        BY <2>4, <3>2, PushedTwice
      <3> QED
        BY <2>1, <3>1, <3>3
    <2>6. CASE r \notin rs
      <3>1. seen(k + 1) = seen(k)
        BY <2>3, <2>6 DEF r
      <3>2. f[k + 1] = f[k]
        BY <2>2, <2>6 DEF PushIf
      <3> HIDE DEF seen
      <3> QED
        BY <2>1, <2>4, <3>1, <3>2
    <2> QED
      BY <2>5, <2>6
  <1>6. m \in S
    <2> HIDE DEF S
    <2>1. 0..m \subseteq S
      BY <1>4, <1>5, SetInduction
    <2> QED
      BY <2>1
  <1>7. seen(m) = rs
    BY <1>1 DEF OwnRecords, ToSet
  <1> HIDE DEF seen
  <1> QED
    BY <1>2, <1>6, <1>7 DEF AllPushed

(* The same, for records that are pushed with a flag that is a formula *)
LEMMA PushAllWith ==
    \A l : ListSound(l) =>
      \A rs \in SUBSET OwnRecords : \A u \in BOOLEAN : \A x \in BOOLEAN :
        Pushed(l, PushAll(l, rs, u, x), rs, u)
  BY PushAllIs

LEMMA PushWith ==
    \A l : ListSound(l) =>
      \A r \in OwnRecords : \A u \in BOOLEAN : \A x \in BOOLEAN :
        Pushed(l, Push(l, r, u, x), {r}, u)
  BY PushIs

(* Pushed() some records, whichever, of those that are registered *)
Grown(l, m, u) == \E rs \in SUBSET OwnRecords : Pushed(l, m, rs, u)

(* avahi_server_prepare_matching_responses() *)
LEMMA PrepareIs ==
    ASSUME registered \in SUBSET OwnRecords, NEW l, ListSound(l), NEW key, NEW u \in BOOLEAN
    PROVE  Pushed(l, PrepareMatching(l, key, u), Matching(key) \union CnamesFor(key), u)
  <1> DEFINE rs == Matching(key)
             qs == CnamesFor(key)
             m == PushAll(l, rs, u, FALSE)
             p == PushAll(m, qs, u, FALSE)
  <1>1. rs \in SUBSET OwnRecords /\ qs \in SUBSET OwnRecords
    BY DEF Matching, CnamesFor, WithKey
  <1>2. PrepareMatching(l, key, u) = p
    BY DEF PrepareMatching
  <1>3. FALSE \in BOOLEAN
    OBVIOUS
  <1> HIDE DEF rs, qs
  <1>4. Pushed(l, m, rs, u)
    BY <1>1, <1>3, PushAllWith, Zenon
  <1>5. ListSound(m)
    BY <1>4 DEF Pushed
  <1> HIDE DEF m
  <1>6. Pushed(m, p, qs, u)
    BY <1>1, <1>3, <1>5, PushAllWith, Zenon
  <1> HIDE DEF p
  <1> QED
    BY <1>2, <1>4, <1>6, PushedTwice DEF rs, qs

LEMMA PrepareWith ==
    registered \in SUBSET OwnRecords =>
      \A l : ListSound(l) => \A key : \A u \in BOOLEAN :
        Pushed(l, PrepareMatching(l, key, u), Matching(key) \union CnamesFor(key), u)
  BY PrepareIs

(* append_aux_records_to_list() *)
LEMMA AuxIs ==
    ASSUME registered \in SUBSET OwnRecords, NEW l, ListSound(l), NEW r, NEW u \in BOOLEAN
    PROVE  Grown(l, AppendAux(l, r, u), u)
  <1> DEFINE with(types) == WithKey(TargetOf[r], types)
             aux(m, types) == PushAll(m, with(types), u, TRUE)
  <1>1. ASSUME NEW m, ListSound(m), NEW types
        PROVE  Pushed(m, aux(m, types), with(types), u)
    <2>1. with(types) \in SUBSET OwnRecords /\ TRUE \in BOOLEAN
      BY DEF WithKey
    <2> QED
      BY <1>1, <2>1, PushAllWith, Zenon
  <1>2. ASSUME NEW t1, NEW t2
        PROVE  Grown(l, aux(aux(l, t1), t2), u)
    <2>1. Pushed(l, aux(l, t1), with(t1), u) /\ ListSound(aux(l, t1))
      BY <1>1 DEF Pushed
    <2>2. Pushed(aux(l, t1), aux(aux(l, t1), t2), with(t2), u)
      BY <1>1, <2>1
    <2> DEFINE qs == with(t1) \union with(t2)
    <2>3. qs \in SUBSET OwnRecords
      BY DEF WithKey
    <2> HIDE DEF aux, with
    <2>4. Pushed(l, aux(aux(l, t1), t2), with(t1) \union with(t2), u)
      BY <2>1, <2>2, PushedTwice
    <2> QED
      BY <2>3, <2>4 DEF Grown
  <1>3. ASSUME NEW t1
        PROVE  Grown(l, aux(l, t1), u)
    <2>1. Pushed(l, aux(l, t1), with(t1), u)
      BY <1>1
    <2>2. with(t1) \in SUBSET OwnRecords
      BY DEF WithKey
    <2> HIDE DEF aux, with
    <2> QED
      BY <2>1, <2>2 DEF Grown
  <1>4. Grown(l, l, u)
    <2>1. Pushed(l, l, {}, u)
      BY DEF Pushed
    <2> QED
      BY <2>1 DEF Grown
  <1>5. \/ AppendAux(l, r, u) = l
        \/ \E t1 : AppendAux(l, r, u) = aux(l, t1)
        \/ \E t1, t2 : AppendAux(l, r, u) = aux(aux(l, t1), t2)
    <2> HIDE DEF with
    <2>1. CASE TypeOf[r] = "ptr"
      <3>1. AppendAux(l, r, u) = aux(aux(l, {"srv"}), {"txt"})
        BY <2>1 DEF AppendAux, with
      <3> HIDE DEF aux
      <3> QED
        BY <3>1
    <2>2. CASE TypeOf[r] = "srv"
      <3>1. AppendAux(l, r, u) = aux(aux(l, {"a"}), {"aaaa"})
        BY <2>2 DEF AppendAux, with
      <3> HIDE DEF aux
      <3> QED
        BY <3>1
    <2>3. CASE TypeOf[r] = "cname"
      <3>1. AppendAux(l, r, u) = aux(l, KeyTypes("any"))
        BY <2>3 DEF AppendAux, with
      <3> HIDE DEF aux
      <3> QED
        BY <3>1
    <2>4. CASE TypeOf[r] \notin {"ptr", "srv", "cname"}
      BY <2>4 DEF AppendAux
    <2> QED
      BY <2>1, <2>2, <2>3, <2>4
  <1> HIDE DEF aux
  <1> QED
    BY <1>2, <1>3, <1>4, <1>5

LEMMA AuxWith ==
    registered \in SUBSET OwnRecords =>
      \A l : ListSound(l) => \A r : \A u \in BOOLEAN : Grown(l, AppendAux(l, r, u), u)
  BY AuxIs

LEMMA UsedNothing == Used(<<>>) = 0
  <1>1. DOMAIN <<>> = 1..0
    OBVIOUS
  <1>2. PICK f : UsedWalk(<<>>, 0, f) /\ Used(<<>>) = f[0]
    BY <1>1, UsedWalks
  <1> QED
    BY <1>2 DEF UsedWalk

(* A record more takes its size more. *)
LEMMA UsedMore ==
    ASSUME NEW s \in Seq(OwnRecords), NEW r \in OwnRecords
    PROVE  Used(Append(s, r)) = Used(s) + SizeOf[r]
  <1>1. PICK m \in Nat : m = Len(s) /\ DOMAIN s = 1..m
    BY LenProperties
  <1> DEFINE t == Append(s, r)
  <1>2. DOMAIN t = 1..(m + 1) /\ t[m + 1] = r /\ \A k \in 1..m : t[k] = s[k]
    BY <1>1, AppendProperties
  <1> HIDE DEF t
  <1>3. PICK f : UsedWalk(s, m, f) /\ Used(s) = f[m]
    BY <1>1, UsedWalks
  <1>4. m + 1 \in Nat
    OBVIOUS
  <1>5. PICK g : UsedWalk(t, m + 1, g) /\ Used(t) = g[m + 1]
    BY <1>2, <1>4, UsedWalks
  <1> DEFINE S == {k \in Nat : g[k] = f[k]}
  <1>6. 0 \in S
    BY <1>3, <1>5 DEF UsedWalk
  <1>7. ASSUME NEW k \in 0..(m - 1), k \in S
        PROVE  k + 1 \in S
    <2>1. k + 1 \in 1..m /\ k + 1 \in 1..(m + 1) /\ (k + 1) - 1 = k
      OBVIOUS
    <2>2. f[k + 1] = f[k] + SizeOf[s[k + 1]] /\ g[k + 1] = g[k] + SizeOf[t[k + 1]]
      BY <1>3, <1>5, <2>1 DEF UsedWalk
    <2> QED
      BY <1>2, <1>7, <2>1, <2>2
  <1>8. m \in S
    <2> HIDE DEF S
    <2>1. 0..m \subseteq S
      BY <1>6, <1>7, SetInduction
    <2> QED
      BY <2>1
  <1>9. g[m + 1] = g[m] + SizeOf[r]
    <2>1. m + 1 \in 1..(m + 1) /\ (m + 1) - 1 = m
      OBVIOUS
    <2> QED
      BY <1>2, <1>5, <2>1 DEF UsedWalk
  <1> QED
    BY <1>3, <1>5, <1>8, <1>9 DEF t

(* One sequence more is put behind the others. *)
LEMMA FlattenMore ==
    ASSUME NEW T, NEW ss \in Seq(Seq(T)), NEW s \in Seq(T)
    PROVE  FlattenSeq(Append(ss, s)) = FlattenSeq(ss) \o s
  <1>1. PICK m \in Nat : m = Len(ss) /\ DOMAIN ss = 1..m
    BY LenProperties
  <1> DEFINE t == Append(ss, s)
  <1>2. Len(t) = m + 1 /\ t[m + 1] = s /\ \A k \in 1..m : t[k] = ss[k]
    BY <1>1, AppendProperties
  <1> HIDE DEF t
  <1>3. m + 1 \in Nat /\ m + 1 # 0
    OBVIOUS
  <1>4. PICK g : FlattenWalk(t, m + 1, g) /\ FlattenSeq(t) = g[m + 1]
    BY <1>2, <1>3, FlattenWalks
  <1>5. CASE m = 0
    <2>1. ss = <<>>
      BY <1>1, <1>5, EmptySeq
    <2>2. FlattenSeq(ss) = <<>>
      BY <2>1 DEF FlattenSeq
    <2>3. g[m + 1] = s
      BY <1>2, <1>4, <1>5 DEF FlattenWalk
    <2> QED
      BY <1>4, <2>2, <2>3, ConcatEmptySeq DEF t
  <1>6. CASE m # 0
    <2>1. PICK f : FlattenWalk(ss, m, f) /\ FlattenSeq(ss) = f[m]
      BY <1>1, <1>6, FlattenWalks
    <2> DEFINE S == {k \in Nat : k > 0 => g[k] = f[k]}
    <2>2. 0 \in S
      OBVIOUS
    <2>3. ASSUME NEW k \in 0..(m - 1), k \in S
          PROVE  k + 1 \in S
      <3>0. k + 1 \in 1..m /\ k + 1 \in Nat
        OBVIOUS
      <3>1. CASE k = 0
        <4>1. g[1] = t[1] /\ f[1] = ss[1] /\ 1 \in 1..m
          BY <1>4, <1>6, <2>1 DEF FlattenWalk
        <4> QED
          BY <1>2, <3>1, <4>1
      <3>2. CASE k # 0
        <4>1. k + 1 \in 2..m /\ k + 1 \in 2..(m + 1) /\ (k + 1) - 1 = k
          BY <3>2
        <4>2. g[k + 1] = g[k] \o t[k + 1] /\ f[k + 1] = f[k] \o ss[k + 1]
          BY <1>4, <2>1, <4>1 DEF FlattenWalk
        <4>3. g[k] = f[k] /\ t[k + 1] = ss[k + 1]
          BY <1>2, <2>3, <3>0, <3>2
        <4> QED
          BY <3>0, <4>2, <4>3
      <3> QED
        BY <3>1, <3>2
    <2>4. m \in S
      <3> HIDE DEF S
      <3>1. 0..m \subseteq S
        BY <2>2, <2>3, SetInduction
      <3> QED
        BY <3>1
    <2>5. g[m + 1] = g[m] \o s
      <3>1. m + 1 \in 2..(m + 1) /\ (m + 1) - 1 = m
        BY <1>6
      <3> QED
        BY <1>2, <1>4, <3>1 DEF FlattenWalk
    <2>6. g[m] = f[m]
      BY <1>6, <2>4
    <2> QED
      BY <1>4, <2>1, <2>5, <2>6 DEF t
  <1> QED
    BY <1>5, <1>6

LEMMA FlattenNone == FlattenSeq(<<>>) = <<>>
  BY DEF FlattenSeq

LEMMA FlattenType ==
    ASSUME NEW T, NEW ss \in Seq(Seq(T))
    PROVE  FlattenSeq(ss) \in Seq(T)
  <1>1. PICK m \in Nat : m = Len(ss) /\ DOMAIN ss = 1..m
    BY LenProperties
  <1>2. ss \in [1..m -> Seq(T)] /\ (m = 0 => ss = <<>>)
    BY <1>1, LenProperties, EmptySeq
  <1> QED
    BY <1>1, <1>2, FlattenElements

(* A new record behind a list keeps it without repetitions. *)
LEMMA BehindOnce ==
    ASSUME NEW T, NEW s \in Seq(T), IsInjective(s), NEW r \in T, r \notin ToSet(s)
    PROVE  LET t == Append(s, r) IN
           t \in Seq(T) /\ IsInjective(t) /\ ToSet(t) = ToSet(s) \union {r}
  <1>1. PICK m \in Nat : m = Len(s) /\ DOMAIN s = 1..m
    BY LenProperties
  <1> DEFINE t == Append(s, r)
  <1>2. t \in Seq(T) /\ DOMAIN t = 1..(m + 1) /\ t[m + 1] = r /\ \A k \in 1..m : t[k] = s[k]
    BY <1>1, AppendProperties
  <1> HIDE DEF t
  <1>3. \A k \in 1..(m + 1) : k = m + 1 \/ k \in 1..m
    OBVIOUS
  <1>4. /\ \A i, j \in 1..m : s[i] = s[j] => i = j
        /\ \A i \in 1..m : s[i] # r
    BY <1>1 DEF IsInjective, ToSet
  <1>5. IsInjective(t)
    BY <1>2, <1>3, <1>4 DEF IsInjective
  <1>6. ToSet(t) = ToSet(s) \union {r}
    <2>1. \A k \in 1..m : k \in 1..(m + 1)
      OBVIOUS
    <2>2. \A k \in 1..(m + 1) : t[k] \in ToSet(s) \union {r}
      BY <1>1, <1>2, <1>3 DEF ToSet
    <2>3. r \in ToSet(t) /\ \A k \in 1..m : s[k] \in ToSet(t)
      <3>1. m + 1 \in 1..(m + 1)
        OBVIOUS
      <3> QED
        BY <1>2, <2>1, <3>1 DEF ToSet
    <2> QED
      BY <1>1, <1>2, <2>2, <2>3 DEF ToSet
  <1> QED
    BY <1>2, <1>5, <1>6 DEF t

-----------------------------------------------------------------------------
(* The unicast replies *)

(* A reply that is not open has nothing in it. *)
ReplySound(rp) ==
    rp \in Replies /\ (~ rp.open => rp.recs = <<>>) /\ Used(rp.recs) \in Nat

(* The reply that is begun for a record has it, unless no packet is large enough. *)
LEMMA FirstIs ==
    ASSUME NEW r \in OwnRecords, NEW own \in BOOLEAN
    PROVE  LET f == FirstOf(r, own) IN
           /\ ReplySound(f)
           /\ f.recs = Append(<<>>, r) \/ (f.recs = <<>> /\ SizeOf[r] > ReplySpace)
  <1> DEFINE none == <<>>
             one == Append(none, r)
  <1>0. SizeOf[r] \in Nat /\ ReplySpace \in Nat
    BY ResponderAssumption
  <1>1. none \in Seq(OwnRecords) /\ Used(none) = 0
    BY UsedNothing
  <1>a. \A s : NewReply(s) = [open |-> TRUE, recs |-> none, space |-> s]
    BY DEF NewReply
  <1> HIDE DEF none
  <1>2. one \in Seq(OwnRecords)
    BY <1>1, AppendProperties
  <1>3. Used(one) = SizeOf[r]
    BY <1>0, <1>1, UsedMore
  <1>4. Fits(NewReply(ReplySpace), r) <=> SizeOf[r] <= ReplySpace
    BY <1>0, <1>1, <1>a DEF Fits
  <1>5. \A s \in Nat : Append1(NewReply(s), r) = [open |-> TRUE, recs |-> one, space |-> s]
    <2> TAKE s \in Nat
    <2> DEFINE n == NewReply(s)
    <2>1. n = [open |-> TRUE, recs |-> none, space |-> s]
      BY <1>a
    <2> HIDE DEF n, one
    <2>2. Append1(n, r) = [n EXCEPT !.recs = one]
      BY <2>1 DEF Append1, one
    <2>3. Append1(n, r) = [open |-> TRUE, recs |-> one, space |-> s]
      BY <2>1, <2>2
    <2> QED
      BY <2>3 DEF n
  <1> HIDE DEF one
  <1>6. \A s \in Nat : ReplySound([open |-> TRUE, recs |-> one, space |-> s])
    BY <1>0, <1>2, <1>3 DEF ReplySound, Replies
  <1>7. ReplySound(NoReply) /\ NoReply.recs = <<>>
    BY <1>1 DEF ReplySound, Replies, NoReply, none
  <1>8. CASE SizeOf[r] <= ReplySpace
    <2>1. FirstOf(r, own) = [open |-> TRUE, recs |-> one, space |-> ReplySpace]
      BY <1>0, <1>4, <1>5, <1>8 DEF FirstOf
    <2> QED
      BY <2>1, <1>0, <1>6 DEF one, none
  <1>9. CASE SizeOf[r] > ReplySpace /\ own
    <2>1. FirstOf(r, own) = Append1(NewReply(SizeOf[r]), r)
      BY <1>0, <1>4, <1>9 DEF FirstOf
    <2>2. FirstOf(r, own) = [open |-> TRUE, recs |-> one, space |-> SizeOf[r]]
      BY <2>1, <1>0, <1>5
    <2> QED
      BY <2>2, <1>0, <1>6 DEF one, none
  <1>10. CASE SizeOf[r] > ReplySpace /\ ~ own
    <2>1. FirstOf(r, own) = NoReply
      BY <1>0, <1>4, <1>10 DEF FirstOf
    <2> QED
      BY <2>1, <1>7, <1>10
  <1> QED
    BY <1>0, <1>8, <1>9, <1>10

(* Into the replies that were sent and the one that is open, taken together, comes
   the record, at the end, or nothing at all if no packet is large enough. *)
LEMMA FillIs ==
    ASSUME NEW ss \in Seq(Seq(OwnRecords)), NEW rp, ReplySound(rp),
           NEW r \in OwnRecords, NEW own \in BOOLEAN
    PROVE  LET fl == FillReply(rp, r, own)
               before == FlattenSeq(ss) \o rp.recs
               after == FlattenSeq(ss \o fl.sent) \o fl.reply.recs
           IN  /\ ReplySound(fl.reply) /\ ss \o fl.sent \in Seq(Seq(OwnRecords))
               /\ after = Append(before, r) \/ (after = before /\ SizeOf[r] > ReplySpace)
  <1> DEFINE fl == FillReply(rp, r, own)
             f == FirstOf(r, own)
             fs == FlattenSeq(ss)
  <1>0. rp.recs \in Seq(OwnRecords) /\ rp \in Replies /\ Used(rp.recs) \in Nat
    BY DEF ReplySound, Replies
  <1>1. fs \in Seq(OwnRecords)
    BY FlattenType
  <1>2. /\ ReplySound(f)
        /\ f.recs = Append(<<>>, r) \/ (f.recs = <<>> /\ SizeOf[r] > ReplySpace)
    BY FirstIs
  <1>3. ss \o <<>> = ss
    BY ConcatEmptySeq
  <1>4. \A s \in Seq(OwnRecords) : s \o <<>> = s /\ s \o Append(<<>>, r) = Append(s, r)
    <2> TAKE s \in Seq(OwnRecords)
    <2>1. s \o <<>> = s
      BY ConcatEmptySeq
    <2>2. Append(<<>>, r) = <<r>>
      OBVIOUS
    <2>3. Append(s, r) = s \o <<r>>
      BY AppendIsConcat
    <2> QED
      BY <2>1, <2>2, <2>3
  <1> HIDE DEF f, fs
  <1>5. CASE ~ rp.open
    <2>1. fl.reply = f /\ fl.sent = <<>> /\ rp.recs = <<>>
      BY <1>5 DEF FillReply, f, ReplySound
    <2> HIDE DEF fl
    <2> QED
      BY <2>1, <1>1, <1>2, <1>3, <1>4 DEF fl, fs
  <1>6. CASE rp.open /\ Fits(rp, r)
    <2>1. fl.reply = Append1(rp, r) /\ fl.sent = <<>>
      BY <1>6 DEF FillReply
    <2>2. fl.reply = [open |-> TRUE, recs |-> Append(rp.recs, r), space |-> rp.space]
      BY <2>1, <1>0, <1>6 DEF Append1, Replies
    <2>3. Append(rp.recs, r) \in Seq(OwnRecords) /\ rp.space \in Nat
      BY <1>0, AppendProperties DEF Replies
    <2>4. Used(Append(rp.recs, r)) \in Nat
      BY <1>0, UsedMore, ResponderAssumption
    <2>5. ReplySound(fl.reply)
      BY <2>2, <2>3, <2>4 DEF ReplySound, Replies
    <2>6. fs \o Append(rp.recs, r) = Append(fs \o rp.recs, r)
      <3> DEFINE o == <<r>>
      <3>1. Append(rp.recs, r) = rp.recs \o o
        BY <1>0, AppendIsConcat
      <3>2. fs \o rp.recs \in Seq(OwnRecords)
        BY <1>0, <1>1, ConcatProperties
      <3>3. Append(fs \o rp.recs, r) = (fs \o rp.recs) \o o
        BY <3>2, AppendIsConcat
      <3>4. o \in Seq(OwnRecords)
        OBVIOUS
      <3> HIDE DEF o
      <3>5. \A q \in Seq(OwnRecords) : (fs \o q) \o o = fs \o (q \o o)
        BY <1>1, <3>4, ConcatAssociative
      <3> QED
        BY <1>0, <3>1, <3>3, <3>5
    <2>7. fl.reply.recs = Append(rp.recs, r)
      BY <2>2
    <2> HIDE DEF fl
    <2> QED
      BY <2>1, <2>5, <2>6, <2>7, <1>3 DEF fl, fs
  <1>7. CASE rp.open /\ ~ Fits(rp, r)
    <2>1. fl.reply = f /\ fl.sent = <<rp.recs>>
      BY <1>7 DEF FillReply, f
    <2>2. /\ ss \o <<rp.recs>> = Append(ss, rp.recs)
          /\ Append(ss, rp.recs) \in Seq(Seq(OwnRecords))
      BY <1>0, AppendIsConcat, AppendProperties
    <2>3. FlattenSeq(ss \o <<rp.recs>>) = fs \o rp.recs
      BY <2>2, <1>0, FlattenMore DEF fs
    <2>4. fs \o rp.recs \in Seq(OwnRecords)
      BY <1>0, <1>1, ConcatProperties
    <2> HIDE DEF fl
    <2> QED
      BY <2>1, <2>2, <2>3, <2>4, <1>2, <1>4 DEF fl, fs
  <1> QED
    BY <1>5, <1>6, <1>7

-----------------------------------------------------------------------------
(* The state of the responder, phase by phase *)

(* QuestionsAnswered of any state *)
Answered(j, l, rp, d) ==
    LET replied == FlattenSeq(d.sent)
        posted == Posted(d)
        full(r) ==
            IF Legacy(j.packet)
            THEN SizeOf[r] + Used(replied) > LegacySpace
            ELSE SizeOf[r] > ReplySpace
    IN  /\ IsInjective(replied) /\ posted \intersect ToSet(replied) = {}
        /\ rp.open => j.packet # NoPacket
        /\ j.pc = "idle" => ListEmpty(l) /\ ~ rp.open
        /\ j.pc = "idle" => \A a \in d.asked :
             \/ a[1] \in posted \union ToSet(replied) \/ full(a[1])
             \/ a[1] \in d.refused /\ <<a[1], FALSE>> \in d.asked

LEMMA AnsweredNow == QuestionsAnswered <=> Answered(job, rlist, reply, done)
  BY DEF QuestionsAnswered, Answered, Posted

LEMMA AnsweredNext == QuestionsAnswered' <=> Answered(job', rlist', reply', done')
  BY DEF QuestionsAnswered, Answered, Posted, ListEmpty

LEMMA NothingReplied ==
    /\ NoReply \in Replies /\ ~ NoReply.open /\ NoReply.recs = <<>> /\ Used(NoReply.recs) \in Nat
    /\ IsInjective(<<>>) /\ ToSet(<<>>) = {} /\ <<>> \o <<>> = <<>>
  <1>1. NoReply \in Replies /\ ~ NoReply.open /\ NoReply.recs = <<>>
    BY DEF NoReply, Replies
  <1>2. Used(NoReply.recs) \in Nat
    BY <1>1, UsedNothing
  <1>3. IsInjective(<<>>) /\ ToSet(<<>>) = {}
    BY DEF IsInjective, ToSet
  <1>4. <<>> \o <<>> = <<>>
    OBVIOUS
  <1> QED
    BY <1>1, <1>2, <1>3, <1>4

(* While a packet is read *)
LEMMA WhileReading ==
    ASSUME NEW j \in Jobs, j.pc \in Reading, NEW l, ListSound(l), NEW d \in Results,
           NothingYet(j, l, NoReply, d), AskedKept(l, d),
           j.pc # "answers" => MulticastAsked(l, d), j.pc = "answers" => MulticastWanted(l, d)
    PROVE  Working(j, l, NoReply, d) /\ Answered(j, l, NoReply, d)
  <1>1. /\ NoReply \in Replies /\ ~ NoReply.open /\ NoReply.recs = <<>>
        /\ Used(NoReply.recs) \in Nat
    BY NothingReplied
  <1>2. FlattenSeq(d.sent) = <<>> /\ Replied(d, NoReply) = <<>> /\ Posted(d) = {}
    BY <1>1, FlattenNone, NothingReplied DEF NothingYet, Replied, Posted
  <1>3. j.pc # "idle" /\ j.pc # "generate"
    BY DEF Reading
  <1>4. Working(j, l, NoReply, d)
    BY <1>1, <1>2, <1>3, NothingReplied DEF Working
  <1>5. Answered(j, l, NoReply, d)
    BY <1>1, <1>2, <1>3, NothingReplied DEF Answered
  <1> QED
    BY <1>4, <1>5

(* Once a packet is dealt with *)
LEMMA WhileIdle ==
    ASSUME NEW j \in Jobs, j.pc = "idle", NEW l, ListSound(l), ListEmpty(l), NEW d \in Results,
           IsInjective(FlattenSeq(d.sent)),
           Posted(d) \intersect ToSet(FlattenSeq(d.sent)) = {},
           \A a \in d.asked :
             \/ a[1] \in Posted(d) \union ToSet(FlattenSeq(d.sent))
             \/ IF Legacy(j.packet) THEN SizeOf[a[1]] + Used(FlattenSeq(d.sent)) > LegacySpace
                ELSE SizeOf[a[1]] > ReplySpace
             \/ a[1] \in d.refused /\ <<a[1], FALSE>> \in d.asked
    PROVE  Working(j, l, NoReply, d) /\ Answered(j, l, NoReply, d)
  <1>1. /\ NoReply \in Replies /\ ~ NoReply.open /\ NoReply.recs = <<>>
        /\ Used(NoReply.recs) \in Nat
    BY NothingReplied
  <1>2. d.sent \in Seq(Seq(OwnRecords))
    BY DEF Results
  <1>3. Replied(d, NoReply) = FlattenSeq(d.sent)
    BY <1>1, <1>2, FlattenType, ConcatEmptySeq DEF Replied
  <1>4. j.pc \notin Reading /\ j.pc \notin {"questions", "known", "probes", "answers", "generate"}
    BY DEF Reading
  <1>5. Working(j, l, NoReply, d)
    BY <1>1, <1>3, <1>4 DEF Working
  <1>6. Answered(j, l, NoReply, d)
    BY <1>1 DEF Answered
  <1> QED
    BY <1>5, <1>6

LEMMA FrontOnce ==
    ASSUME NEW T, NEW s \in Seq(T), NEW t \in Seq(T), IsInjective(s \o t)
    PROVE  IsInjective(s) /\ ToSet(s) \subseteq ToSet(s \o t)
  <1> DEFINE c == s \o t
  <1>1. PICK m \in Nat, n \in Nat : Len(s) = m /\ Len(t) = n /\ DOMAIN s = 1..m
    BY LenProperties
  <1>a. /\ c \in Seq(T) /\ Len(c) = m + n
        /\ \A i \in 1..(m + n) : c[i] = IF i <= m THEN s[i] ELSE t[i - m]
    BY <1>1, ConcatProperties
  <1> HIDE DEF c
  <1>4. 1..m \subseteq 1..(m + n)
    OBVIOUS
  <1>2. \A i \in 1..m : c[i] = s[i]
    BY <1>a, <1>4
  <1>3. DOMAIN c = 1..(m + n)
    BY <1>a, LenProperties
  <1>5. IsInjective(s)
    BY <1>1, <1>2, <1>3, <1>4 DEF IsInjective, c
  <1>6. ToSet(s) \subseteq ToSet(c)
    BY <1>1, <1>2, <1>3, <1>4 DEF ToSet
  <1> QED
    BY <1>5, <1>6 DEF c

(* While the list is worked off *)
LEMMA WhileGenerating ==
    ASSUME NEW j \in Jobs, j.pc = "generate", NEW l, ListSound(l), NEW rp \in Replies,
           NEW d \in Results, Used(rp.recs) \in Nat, IsInjective(Replied(d, rp)),
           Posted(d) \intersect ToSet(Replied(d, rp)) = {},
           AskedKept(l, d), MulticastWanted(l, d), Generating(j, l, rp, d)
    PROVE  Working(j, l, rp, d) /\ Answered(j, l, rp, d)
  <1>1. j.pc \notin Reading /\ j.pc \notin {"questions", "known", "probes", "answers", "idle"}
    BY DEF Reading
  <1>2. Working(j, l, rp, d)
    BY <1>1 DEF Working
  <1>3. d.sent \in Seq(Seq(OwnRecords)) /\ rp.recs \in Seq(OwnRecords)
    BY DEF Results, Replies
  <1>4. FlattenSeq(d.sent) \in Seq(OwnRecords)
    BY <1>3, FlattenType
  <1>5. /\ IsInjective(FlattenSeq(d.sent))
        /\ ToSet(FlattenSeq(d.sent)) \subseteq ToSet(Replied(d, rp))
    BY <1>3, <1>4, FrontOnce DEF Replied
  <1>6. rp.open => j.packet # NoPacket
    BY DEF Generating
  <1>7. Answered(j, l, rp, d)
    BY <1>1, <1>5, <1>6 DEF Answered
  <1> QED
    BY <1>2, <1>7

-----------------------------------------------------------------------------
(* The steps *)

LEMMA Step ==
    ASSUME registered' \in SUBSET OwnRecords, Working(job', rlist', reply', done'),
           Answered(job', rlist', reply', done')
    PROVE  ResponderIInv'
  BY AnsweredNext DEF ResponderIInv

LEMMA NothingDoneIs ==
    /\ NothingDone \in Results /\ NothingDone.asked = {} /\ NothingDone.posted = {}
    /\ NothingDone.refused = {} /\ NothingDone.sent = <<>> /\ Posted(NothingDone) = {}
  <1>1. /\ NothingDone.asked = {} /\ NothingDone.posted = {}
        /\ NothingDone.refused = {} /\ NothingDone.sent = <<>>
    BY DEF NothingDone
  <1>2. NothingDone \in Results
    BY DEF NothingDone, Results
  <1> QED
    BY <1>1, <1>2 DEF Posted

LEMMA IdleIs ==
    /\ Idle \in Jobs /\ Idle.pc = "idle"
    /\ \A j \in Jobs : [j EXCEPT !.pc = "idle"] \in Jobs
  BY DEF Idle, Jobs

(* With nothing on the list and nothing done, the responder waits for a packet. *)
LEMMA AtRest ==
    ASSUME NEW l, ListSound(l), ListEmpty(l), NEW j \in Jobs, j.pc = "idle"
    PROVE  Working(j, l, NoReply, NothingDone) /\ Answered(j, l, NoReply, NothingDone)
  <1>1. FlattenSeq(NothingDone.sent) = <<>>
    BY NothingDoneIs, FlattenNone
  <1>2. /\ IsInjective(FlattenSeq(NothingDone.sent))
        /\ Posted(NothingDone) \intersect ToSet(FlattenSeq(NothingDone.sent)) = {}
    BY <1>1, NothingReplied, NothingDoneIs
  <1> QED
    BY <1>2, WhileIdle, NothingDoneIs

LEMMA EmptyListIs == ListSound(EmptyList) /\ ListEmpty(EmptyList)
  <1>1. EmptyList \in Lists
    BY DEF EmptyList, Lists
  <1>2. EmptyList.unread = <<>> /\ EmptyList.read = {} /\ DOMAIN EmptyList.unread = {}
    BY DEF EmptyList
  <1> QED
    BY <1>1, <1>2 DEF ListSound, ListEmpty

LEMMA ResponderStarts ==
    ASSUME ResponderInit
    PROVE  ResponderIInv
  <1>1. Working(Idle, EmptyList, NoReply, NothingDone)
        /\ Answered(Idle, EmptyList, NoReply, NothingDone)
    BY AtRest, EmptyListIs, IdleIs
  <1> QED
    BY <1>1, AnsweredNow DEF ResponderInit, ResponderIInv

LEMMA EntriesChangeKeeps ==
    ASSUME ResponderIInv, EntriesChange
    PROVE  ResponderIInv'
  <1>1. ListSound(rlist) /\ ListEmpty(rlist) /\ reply = NoReply
    BY AnsweredNow DEF ResponderIInv, Working, EntriesChange, Answered
  <1>2. Working(Idle, rlist, NoReply, NothingDone) /\ Answered(Idle, rlist, NoReply, NothingDone)
    BY <1>1, AtRest, IdleIs
  <1> QED
    BY <1>1, <1>2, Step DEF EntriesChange

LEMMA ReceiveKeeps ==
    ASSUME ResponderIInv, NEW p \in InPackets, Receive(p)
    PROVE  ResponderIInv'
  <1> DEFINE j == job'
  <1>1. ListSound(rlist) /\ ListEmpty(rlist) /\ reply = NoReply
    BY AnsweredNow DEF ResponderIInv, Working, Receive, Answered
  <1>2. j \in Jobs /\ j.pc \in Reading /\ j.packet = p
    BY DEF Receive, Jobs, Reading
  <1>3. ToSet(rlist.unread) = {} /\ rlist.read = {}
    BY <1>1, NothingReplied DEF ListEmpty
  <1>4. NothingYet(j, rlist, NoReply, NothingDone)
    BY <1>2, <1>3, NothingDoneIs DEF NothingYet
  <1> HIDE DEF j
  <1>5. /\ AskedKept(rlist, NothingDone) /\ MulticastAsked(rlist, NothingDone)
        /\ MulticastWanted(rlist, NothingDone)
    BY <1>3, NothingDoneIs DEF AskedKept, MulticastAsked, MulticastWanted
  <1>6. Working(j, rlist, NoReply, NothingDone) /\ Answered(j, rlist, NoReply, NothingDone)
    BY <1>1, <1>2, <1>4, <1>5, WhileReading, NothingDoneIs
  <1>7. registered' \in SUBSET OwnRecords /\ rlist' = rlist /\ reply' = reply /\ done' = NothingDone
    BY DEF Receive, ResponderIInv
  <1> QED
    BY <1>1, <1>6, <1>7, Step DEF j

(* While a packet is read nothing is answered yet. *)
LEMMA ReadingNow ==
    ASSUME ResponderIInv, job.pc \in Reading
    PROVE  /\ registered \in SUBSET OwnRecords /\ ListSound(rlist) /\ job \in Jobs
           /\ done \in Results /\ reply = NoReply /\ NothingYet(job, rlist, NoReply, done)
           /\ AskedKept(rlist, done)
           /\ job.pc # "answers" => MulticastAsked(rlist, done)
           /\ job.pc = "answers" => MulticastWanted(rlist, done)
  <1>1. job.pc # "idle" /\ (job.pc # "answers" => job.pc \in {"questions", "known", "probes"})
    BY DEF Reading
  <1>2. NothingYet(job, rlist, reply, done) /\ reply = NoReply
    BY DEF ResponderIInv, Working, NothingYet
  <1> QED
    BY <1>1, <1>2 DEF ResponderIInv, Working

(* Another item of the section is read. *)
LEMMA ReadOne ==
    ASSUME NEW j \in Jobs, NEW l, NEW m, NEW d, NEW e, NothingYet(j, l, NoReply, d),
           m.read = {}, e.posted = d.posted, e.refused = d.refused, e.sent = d.sent
    PROVE  LET i == [j EXCEPT !.n = @ + 1] IN
           i \in Jobs /\ i.pc = j.pc /\ NothingYet(i, m, NoReply, e)
  <1> DEFINE i == [j EXCEPT !.n = @ + 1]
  <1>1. i \in Jobs /\ i.pc = j.pc /\ i.packet = j.packet
    BY DEF Jobs
  <1> HIDE DEF i
  <1>2. NothingYet(i, m, NoReply, e)
    BY <1>1 DEF NothingYet
  <1> QED
    BY <1>1, <1>2 DEF i

(* What a question adds to the list and to what was asked for *)
LEMMA AskMore ==
    ASSUME NEW l, NEW m, NEW d \in Results, NEW rs \in SUBSET OwnRecords, NEW u \in BOOLEAN,
           Pushed(l, m, rs, u), AskedKept(l, d), MulticastAsked(l, d)
    PROVE  LET e == [d EXCEPT !.asked = @ \union (rs \X {u})] IN
           /\ e \in Results /\ e.posted = d.posted /\ e.refused = d.refused /\ e.sent = d.sent
           /\ AskedKept(m, e) /\ MulticastAsked(m, e)
  <1> DEFINE more == rs \X {u}
             both == OwnRecords \X BOOLEAN
             e == [d EXCEPT !.asked = @ \union more]
  <1>1. more \in SUBSET both
    OBVIOUS
  <1>2. /\ \A a \in more : a[1] \in rs
        /\ \A r \in rs : <<r, u>> \in more
    OBVIOUS
  <1>3. /\ e \in Results /\ e.posted = d.posted /\ e.refused = d.refused /\ e.sent = d.sent
        /\ e.asked = d.asked \union more
    <2> HIDE DEF more, both
    <2> QED
      BY <1>1 DEF Results, both
  <1> HIDE DEF more, e
  <1>4. AskedKept(m, e)
    BY <1>2, <1>3 DEF AskedKept, Pushed
  <1>5. MulticastAsked(m, e)
    <2> SUFFICES ASSUME NEW t \in ToSet(m.unread), ~ t.unicast
                 PROVE  <<t.rec, FALSE>> \in e.asked
      BY DEF MulticastAsked
    <2>1. CASE t \in ToSet(l.unread)
      BY <2>1, <1>3 DEF MulticastAsked
    <2>2. CASE t.rec \in rs /\ t.unicast = u
      <3>1. u = FALSE
        BY <2>2
      <3> QED
        BY <2>2, <3>1, <1>2, <1>3
    <2> QED
      BY <2>1, <2>2 DEF Pushed
  <1> QED
    BY <1>3, <1>4, <1>5 DEF e, more

LEMMA ReadQuestionKeeps ==
    ASSUME ResponderIInv, ReadQuestion
    PROVE  ResponderIInv'
  <1> DEFINE k == job.n + 1
             u == Item.unicast
             rs == Matching(Item.key) \union CnamesFor(Item.key)
             j == [job EXCEPT !.n = @ + 1]
             e == [done EXCEPT !.asked = @ \union (rs \X {u})]
  <1>1. job.pc = "questions" /\ job.pc \in Reading /\ job' = j
    BY DEF ReadQuestion, Reads, Reading
  <1>2. /\ registered \in SUBSET OwnRecords /\ ListSound(rlist) /\ job \in Jobs
        /\ done \in Results /\ reply = NoReply /\ NothingYet(job, rlist, NoReply, done)
        /\ AskedKept(rlist, done) /\ MulticastAsked(rlist, done)
    BY <1>1, ReadingNow
  <1>3. u \in BOOLEAN
    <2>1. Section = job.packet.questions /\ job.packet \in InPackets
      BY <1>1, <1>2 DEF Section, NothingYet
    <2>2. job.n < Len(Section) /\ job.n \in Nat
      BY <1>2 DEF ReadQuestion, Reads, Jobs
    <2>3. Len(job.packet.questions) \in Nat
          /\ \A i \in 1..Len(job.packet.questions) : job.packet.questions[i].unicast \in BOOLEAN
      BY <2>1, ResponderAssumption
    <2>4. k \in 1..Len(job.packet.questions)
      BY <2>1, <2>2, <2>3
    <2> QED
      BY <2>1, <2>3, <2>4 DEF Item
  <1>4. rs \in SUBSET OwnRecords
    BY <1>2 DEF Matching, CnamesFor, WithKey
  <1>5. Pushed(rlist, rlist', rs, u)
    <2>1. rlist' = PrepareMatching(rlist, Item.key, u)
      BY DEF ReadQuestion
    <2> HIDE DEF u
    <2> QED
      BY <2>1, <1>2, <1>3, PrepareWith, Zenon
  <1>6. /\ registered' = registered /\ reply' = reply /\ done' = e
    BY DEF ReadQuestion
  <1> HIDE DEF u, rs, j
  <1>7. /\ e \in Results /\ e.posted = done.posted /\ e.refused = done.refused
        /\ e.sent = done.sent /\ AskedKept(rlist', e) /\ MulticastAsked(rlist', e)
    BY <1>2, <1>3, <1>4, <1>5, AskMore
  <1>8. ListSound(rlist') /\ rlist'.read = {}
    BY <1>2, <1>5 DEF Pushed, NothingYet
  <1> HIDE DEF e
  <1>9. j \in Jobs /\ j.pc = job.pc /\ NothingYet(j, rlist', NoReply, e)
    BY <1>2, <1>7, <1>8, ReadOne DEF j
  <1>10. Working(j, rlist', NoReply, e) /\ Answered(j, rlist', NoReply, e)
    BY <1>1, <1>7, <1>8, <1>9, WhileReading
  <1> QED
    BY <1>1, <1>2, <1>6, <1>10, Step

(* What a known answer takes from the list and from what was asked for *)
Unasked(d, r) == [d EXCEPT !.asked = {a \in @ : a[1] # r}]

LEMMA AskLess ==
    ASSUME NEW l, ListSound(l), NEW d \in Results, NEW r, AskedKept(l, d), MulticastAsked(l, d)
    PROVE  LET m == Drop(l, r)
               e == Unasked(d, r)
           IN  /\ ListSound(m) /\ m.read = l.read \ {r} /\ e \in Results
               /\ e.posted = d.posted /\ e.refused = d.refused /\ e.sent = d.sent
               /\ AskedKept(m, e) /\ MulticastAsked(m, e)
  <1> DEFINE m == Drop(l, r)
             less == {a \in d.asked : a[1] # r}
             e == Unasked(d, r)
  <1>1. /\ ListSound(m) /\ m.read = l.read \ {r}
        /\ ToSet(m.unread) = {t \in ToSet(l.unread) : t.rec # r}
    BY DropIs
  <1>2. e = [d EXCEPT !.asked = less]
    BY DEF Unasked
  <1>3. less \subseteq d.asked
    OBVIOUS
  <1>4. /\ e \in Results /\ e.posted = d.posted /\ e.refused = d.refused /\ e.sent = d.sent
        /\ e.asked = less
    <2> DEFINE both == OwnRecords \X BOOLEAN
    <2> HIDE DEF both, less, e
    <2>1. less \in SUBSET both
      BY <1>3 DEF Results, both
    <2> QED
      BY <1>2, <2>1 DEF Results, both
  <1> HIDE DEF m, e
  <1>5. AskedKept(m, e)
    <2> SUFFICES ASSUME NEW a \in d.asked, a[1] # r
                 PROVE  a[1] \in OnList(m)
      BY <1>4 DEF AskedKept
    <2>1. a[1] \in l.read \/ a[1] \in Waiting(l)
      BY DEF AskedKept, OnList
    <2>2. CASE a[1] \in l.read
      BY <2>2, <1>1 DEF OnList
    <2>3. CASE a[1] \in Waiting(l)
      <3>1. PICK t \in ToSet(l.unread) : t.rec = a[1]
        BY <2>3, SoundList
      <3>2. t \in ToSet(m.unread)
        BY <3>1, <1>1
      <3>3. a[1] \in Waiting(m)
        BY <3>1, <3>2, <1>1, SoundList
      <3> QED
        BY <3>3 DEF OnList
    <2> QED
      BY <2>1, <2>2, <2>3
  <1>6. MulticastAsked(m, e)
    BY <1>1, <1>4 DEF MulticastAsked
  <1> QED
    BY <1>1, <1>4, <1>5, <1>6 DEF m, e

LEMMA ReadKnownKeeps ==
    ASSUME ResponderIInv, ReadKnown
    PROVE  ResponderIInv'
  <1> DEFINE j == [job EXCEPT !.n = @ + 1]
             e == Unasked(done, Item)
             m == Drop(rlist, Item)
  <1>1. job.pc = "known" /\ job.pc \in Reading /\ job' = j
    BY DEF ReadKnown, Reads, Reading
  <1>2. /\ registered \in SUBSET OwnRecords /\ ListSound(rlist) /\ job \in Jobs
        /\ done \in Results /\ reply = NoReply /\ NothingYet(job, rlist, NoReply, done)
        /\ AskedKept(rlist, done) /\ MulticastAsked(rlist, done)
    BY <1>1, ReadingNow
  <1>3. registered' = registered /\ reply' = reply /\ done' = e /\ rlist' = m
    BY DEF ReadKnown, Unasked
  <1>4. /\ ListSound(m) /\ m.read = rlist.read \ {Item} /\ e \in Results
        /\ e.posted = done.posted /\ e.refused = done.refused /\ e.sent = done.sent
        /\ AskedKept(m, e) /\ MulticastAsked(m, e)
    BY <1>2, AskLess
  <1> HIDE DEF j, e, m
  <1>5. m.read = {}
    BY <1>2, <1>4 DEF NothingYet
  <1>6. j \in Jobs /\ j.pc = job.pc /\ NothingYet(j, m, NoReply, e)
    BY <1>2, <1>4, <1>5, ReadOne DEF j
  <1>7. Working(j, m, NoReply, e) /\ Answered(j, m, NoReply, e)
    BY <1>1, <1>4, <1>6, WhileReading
  <1> QED
    BY <1>1, <1>2, <1>3, <1>7, Step

LEMMA ReadProbeKeeps ==
    ASSUME ResponderIInv, ReadProbe
    PROVE  ResponderIInv'
  <1> DEFINE j == [job EXCEPT !.n = @ + 1]
  <1>1. job.pc = "probes" /\ job.pc \in Reading /\ job' = j
    BY DEF ReadProbe, Reads, Reading
  <1>2. /\ registered \in SUBSET OwnRecords /\ ListSound(rlist) /\ job \in Jobs
        /\ done \in Results /\ reply = NoReply /\ NothingYet(job, rlist, NoReply, done)
        /\ AskedKept(rlist, done) /\ MulticastAsked(rlist, done)
    BY <1>1, ReadingNow
  <1>3. registered' \in SUBSET OwnRecords /\ reply' = reply /\ done' = done /\ rlist' = rlist
    BY <1>2 DEF ReadProbe
  <1>4. rlist.read = {}
    BY <1>2 DEF NothingYet
  <1> HIDE DEF j
  <1>5. j \in Jobs /\ j.pc = job.pc /\ NothingYet(j, rlist, NoReply, done)
    BY <1>2, <1>4, ReadOne DEF j
  <1>6. Working(j, rlist, NoReply, done) /\ Answered(j, rlist, NoReply, done)
    BY <1>1, <1>2, <1>5, WhileReading
  <1> QED
    BY <1>1, <1>2, <1>3, <1>6, Step

(* Nobody asked for the records that a step adds to the list. *)
LEMMA NewUnasked ==
    ASSUME NEW l, NEW m, NEW rs, NEW u, NEW d, Pushed(l, m, rs, u), AskedKept(l, d)
    PROVE  /\ AskedKept(m, d)
           /\ \A t \in ToSet(m.unread) : t \in ToSet(l.unread) \/ ~ AskedFor(d, t.rec)
  <1>1. AskedKept(m, d)
    BY DEF AskedKept, Pushed
  <1>2. \A t : t.rec \notin OnList(l) => ~ AskedFor(d, t.rec)
    <2> SUFFICES ASSUME NEW t, AskedFor(d, t.rec)
                 PROVE  t.rec \in OnList(l)
      OBVIOUS
    <2>1. PICK a \in d.asked : a[1] = t.rec
      BY DEF AskedFor
    <2> QED
      BY <2>1 DEF AskedKept
  <1> QED
    BY <1>1, <1>2 DEF Pushed

LEMMA ReadAnswerKeeps ==
    ASSUME ResponderIInv, ReadAnswer
    PROVE  ResponderIInv'
  <1> DEFINE j == [job EXCEPT !.n = @ + 1]
  <1>1. job.pc = "answers" /\ job.pc \in Reading /\ job' = j
    BY DEF ReadAnswer, Reads, Reading
  <1>2. /\ registered \in SUBSET OwnRecords /\ ListSound(rlist) /\ job \in Jobs
        /\ done \in Results /\ reply = NoReply /\ NothingYet(job, rlist, NoReply, done)
        /\ AskedKept(rlist, done) /\ MulticastWanted(rlist, done)
    BY <1>1, ReadingNow
  <1>3. registered' \in SUBSET OwnRecords /\ reply' = reply /\ done' = done
    BY <1>2 DEF ReadAnswer
  <1>4. /\ ListSound(rlist') /\ rlist'.read = {} /\ AskedKept(rlist', done)
        /\ MulticastWanted(rlist', done)
    <2>1. CASE rlist' = PrepareMatching(rlist, Item, FALSE)
      <3> DEFINE rs == Matching(Item) \union CnamesFor(Item)
      <3>1. FALSE \in BOOLEAN
        OBVIOUS
      <3>2. Pushed(rlist, rlist', rs, FALSE)
        BY <2>1, <3>1, <1>2, PrepareWith, Zenon
      <3> HIDE DEF rs
      <3>3. /\ AskedKept(rlist', done)
            /\ \A t \in ToSet(rlist'.unread) : t \in ToSet(rlist.unread) \/ ~ AskedFor(done, t.rec)
        BY <3>2, <1>2, NewUnasked
      <3>4. MulticastWanted(rlist', done)
        BY <3>3, <1>2 DEF MulticastWanted
      <3>5. ListSound(rlist') /\ rlist'.read = {}
        BY <3>2, <1>2 DEF Pushed, NothingYet
      <3> QED
        BY <3>3, <3>4, <3>5
    <2>2. CASE rlist' = rlist
      BY <2>2, <1>2 DEF NothingYet
    <2> QED
      BY <2>1, <2>2 DEF ReadAnswer
  <1> HIDE DEF j
  <1>5. j \in Jobs /\ j.pc = job.pc /\ NothingYet(j, rlist', NoReply, done)
    BY <1>2, <1>4, ReadOne DEF j
  <1>6. Working(j, rlist', NoReply, done) /\ Answered(j, rlist', NoReply, done)
    BY <1>1, <1>2, <1>4, <1>5, WhileReading
  <1> QED
    BY <1>1, <1>2, <1>3, <1>6, Step

LEMMA OnEmptyList ==
    ASSUME NEW l, ListSound(l), ListEmpty(l)
    PROVE  OnList(l) = {} /\ ToSet(l.unread) = {}
  <1>1. ToSet(l.unread) = {} /\ l.read = {}
    BY NothingReplied DEF ListEmpty
  <1>2. \A r : r \notin Waiting(l)
    BY <1>1, SoundList
  <1> QED
    BY <1>1, <1>2 DEF OnList

LEMMA SectionReadKeeps ==
    ASSUME ResponderIInv, SectionRead
    PROVE  ResponderIInv'
  <1>1. job.pc \in Reading
    BY DEF SectionRead, Reading
  <1>2. /\ registered \in SUBSET OwnRecords /\ ListSound(rlist) /\ job \in Jobs
        /\ done \in Results /\ reply = NoReply /\ NothingYet(job, rlist, NoReply, done)
        /\ AskedKept(rlist, done)
        /\ job.pc # "answers" => MulticastAsked(rlist, done)
        /\ job.pc = "answers" => MulticastWanted(rlist, done)
    BY <1>1, ReadingNow
  <1>3. registered' = registered /\ reply' = NoReply
    BY <1>2 DEF SectionRead
  <1>4. CASE Unreadable
    <2>1. job' = Idle /\ rlist' = EmptyList /\ done' = NothingDone
      BY <1>4 DEF SectionRead
    <2>2. Working(Idle, EmptyList, NoReply, NothingDone)
          /\ Answered(Idle, EmptyList, NoReply, NothingDone)
      BY AtRest, EmptyListIs, IdleIs
    <2> QED
      BY <1>2, <1>3, <2>1, <2>2, Step
  <1>5. CASE ~ Unreadable
    <2> DEFINE j == job'
    <2>1. j = [job EXCEPT !.pc = Followed, !.n = 0] /\ rlist' = rlist /\ done' = done
      BY <1>5 DEF SectionRead
    <2>2. /\ Followed \in {"known", "probes", "generate", "idle"}
          /\ Followed \in {"known", "probes"} => job.pc # "answers"
          /\ Followed = "idle" => ListEmpty(rlist)
      BY DEF Followed
    <2>3. j \in Jobs /\ j.pc = Followed /\ j.packet = job.packet
      BY <2>1, <2>2, <1>2 DEF Jobs, Reading
    <2> HIDE DEF j
    <2>4. /\ FlattenSeq(done.sent) = <<>> /\ Replied(done, NoReply) = <<>> /\ Posted(done) = {}
          /\ done.posted = {} /\ done.sent = <<>> /\ rlist.read = {} /\ job.packet \in InPackets
      BY <1>2, FlattenNone, NothingReplied DEF NothingYet, Replied, Posted
    <2>5. Working(j, rlist, NoReply, done) /\ Answered(j, rlist, NoReply, done)
      <3>1. CASE Followed \in {"known", "probes"}
        <4>1. j.pc \in Reading /\ j.pc # "answers"
          BY <3>1, <2>3 DEF Reading
        <4>2. NothingYet(j, rlist, NoReply, done)
          BY <1>2, <2>3 DEF NothingYet
        <4> QED
          BY <4>1, <4>2, <2>2, <2>3, <3>1, <1>2, WhileReading
      <3>2. CASE Followed = "idle"
        <4>1. done.asked = {}
          BY <3>2, <2>2, <1>2, OnEmptyList DEF AskedKept
        <4>2. /\ IsInjective(FlattenSeq(done.sent))
              /\ Posted(done) \intersect ToSet(FlattenSeq(done.sent)) = {}
          BY <2>4, NothingReplied
        <4> QED
          BY <4>1, <4>2, <3>2, <2>2, <2>3, <1>2, WhileIdle
      <3>3. CASE Followed = "generate"
        <4>1. MulticastWanted(rlist, done)
          BY <1>2 DEF MulticastWanted, MulticastAsked
        <4>2. j.packet # NoPacket
          BY <2>3, <2>4, ResponderAssumption
        <4>3. Generating(j, rlist, NoReply, done)
          BY <4>2, <2>4, NothingReplied DEF Generating
        <4>4. /\ IsInjective(Replied(done, NoReply))
              /\ Posted(done) \intersect ToSet(Replied(done, NoReply)) = {}
          BY <2>4, NothingReplied
        <4> QED
          BY <4>1, <4>3, <4>4, <3>3, <2>3, <1>2, NothingReplied, WhileGenerating
      <3> QED
        BY <2>2, <3>1, <3>2, <3>3
    <2> QED
      BY <1>2, <1>3, <2>1, <2>5, Step DEF j
  <1> QED
    BY <1>4, <1>5

LEMMA AnnouncementKeeps ==
    ASSUME ResponderIInv, NEW r \in OwnRecords, Announcement(r)
    PROVE  ResponderIInv'
  <1> DEFINE j == job'
  <1>1. ListSound(rlist) /\ ListEmpty(rlist) /\ reply = NoReply
    BY AnsweredNow DEF ResponderIInv, Working, Announcement, Answered
  <1>2. /\ j \in Jobs /\ j.pc = "generate" /\ j.packet = NoPacket
        /\ registered \in SUBSET OwnRecords /\ registered' = registered /\ reply' = reply
        /\ done' = NothingDone
    BY DEF Announcement, Idle, Jobs, ResponderIInv
  <1>3. OnList(rlist) = {} /\ ToSet(rlist.unread) = {} /\ rlist.read = {}
    BY <1>1, OnEmptyList DEF ListEmpty
  <1>4. PICK rs : Pushed(rlist, rlist', rs, FALSE)
    <2>1. FALSE \in BOOLEAN
      OBVIOUS
    <2>2. CASE r \in UniqueRecords
      <3> DEFINE key == <<NameOf[r], TypeOf[r]>>
      <3>1. rlist' = PrepareMatching(rlist, key, FALSE)
        BY <2>2 DEF Announcement
      <3> HIDE DEF key
      <3>2. Pushed(rlist, rlist', Matching(key) \union CnamesFor(key), FALSE)
        BY <2>1, <3>1, <1>1, <1>2, PrepareWith, Zenon
      <3> QED
        BY <3>2
    <2>3. CASE r \notin UniqueRecords
      <3>1. rlist' = Push(rlist, r, FALSE, FALSE)
        BY <2>3 DEF Announcement
      <3>2. Pushed(rlist, rlist', {r}, FALSE)
        BY <2>1, <3>1, <1>1, PushWith, Zenon
      <3> QED
        BY <3>2
    <2> QED
      BY <2>2, <2>3
  <1>5. /\ ListSound(rlist') /\ rlist'.read = {}
        /\ \A t \in ToSet(rlist'.unread) : ~ t.unicast
    BY <1>3, <1>4 DEF Pushed
  <1> HIDE DEF j
  <1>6. AskedKept(rlist', NothingDone) /\ MulticastWanted(rlist', NothingDone)
    BY NothingDoneIs DEF AskedKept, MulticastWanted, AskedFor
  <1>7. Replied(NothingDone, NoReply) = <<>> /\ ~ Legacy(j.packet)
    BY <1>2, FlattenNone, NothingReplied, NothingDoneIs DEF Replied, Legacy
  <1>8. Generating(j, rlist', NoReply, NothingDone)
    BY <1>2, <1>5, <1>7, NothingReplied, NothingDoneIs DEF Generating
  <1>9. /\ IsInjective(Replied(NothingDone, NoReply))
        /\ Posted(NothingDone) \intersect ToSet(Replied(NothingDone, NoReply)) = {}
    BY <1>7, NothingReplied, NothingDoneIs
  <1>10. Working(j, rlist', NoReply, NothingDone) /\ Answered(j, rlist', NoReply, NothingDone)
    BY <1>2, <1>5, <1>6, <1>8, <1>9, NothingReplied, NothingDoneIs, WhileGenerating
  <1> QED
    BY <1>1, <1>2, <1>10, Step DEF j

(* While the list is worked off everything taken from it was dealt with. *)
LEMMA GeneratingNow ==
    ASSUME ResponderIInv, job.pc = "generate"
    PROVE  /\ registered \in SUBSET OwnRecords /\ ListSound(rlist) /\ job \in Jobs
           /\ done \in Results /\ ReplySound(reply) /\ Generating(job, rlist, reply, done)
           /\ IsInjective(Replied(done, reply))
           /\ Posted(done) \intersect ToSet(Replied(done, reply)) = {}
           /\ AskedKept(rlist, done) /\ MulticastWanted(rlist, done)
  BY DEF ResponderIInv, Working, ReplySound, Generating

(* The head of the list was taken, and records it refers to were added. *)
Taken(l, m, d) ==
    /\ ListSound(m) /\ m.read = l.read \union {Head(l.unread).rec}
    /\ AskedKept(m, d) /\ MulticastWanted(m, d)

LEMMA TakenIs ==
    ASSUME NEW l, ListSound(l), l.unread # <<>>, NEW d, AskedKept(l, d), MulticastWanted(l, d)
    PROVE  /\ Taken(l, TakeNext(l), d)
           /\ ToSet(TakeNext(l).unread) \subseteq ToSet(l.unread)
           /\ registered \in SUBSET OwnRecords =>
                \A r : \A u \in BOOLEAN : Taken(l, AppendAux(TakeNext(l), r, u), d)
  <1> DEFINE m == TakeNext(l)
  <1>1. /\ ListSound(m) /\ m.read = l.read \union {Head(l.unread).rec} /\ OnList(m) = OnList(l)
        /\ ToSet(m.unread) \subseteq ToSet(l.unread)
    BY TakeIs
  <1> HIDE DEF m
  <1>2. AskedKept(m, d) /\ MulticastWanted(m, d)
    BY <1>1 DEF AskedKept, MulticastWanted
  <1>3. ASSUME registered \in SUBSET OwnRecords, NEW r, NEW u \in BOOLEAN
        PROVE  Taken(l, AppendAux(m, r, u), d)
    <2> DEFINE n == AppendAux(m, r, u)
    <2>1. Grown(m, n, u)
      BY <1>1, <1>3, AuxWith, Zenon
    <2>2. PICK rs : Pushed(m, n, rs, u)
      BY <2>1 DEF Grown
    <2> HIDE DEF n
    <2>3. /\ AskedKept(n, d)
          /\ \A t \in ToSet(n.unread) : t \in ToSet(m.unread) \/ ~ AskedFor(d, t.rec)
      BY <2>2, <1>2, NewUnasked
    <2>4. MulticastWanted(n, d)
      BY <2>3, <1>2 DEF MulticastWanted
    <2>5. ListSound(n) /\ n.read = m.read
      BY <2>2 DEF Pushed
    <2> QED
      BY <2>3, <2>4, <2>5, <1>1 DEF Taken, n
  <1>4. Taken(l, m, d)
    BY <1>1, <1>2 DEF Taken
  <1> QED
    BY <1>1, <1>3, <1>4 DEF m

(* The record at the head of the list was neither posted nor replied before. *)
LEMMA HeadIsNew ==
    ASSUME ResponderIInv, Generates
    PROVE  LET t == Head(rlist.unread) IN
           /\ t \in ToSet(rlist.unread) /\ t.rec \in OwnRecords /\ t.unicast \in BOOLEAN
           /\ t.rec \notin Posted(done) \union ToSet(Replied(done, reply))
  <1> DEFINE t == Head(rlist.unread)
  <1>1. /\ ListSound(rlist) /\ Generating(job, rlist, reply, done) /\ rlist.unread # <<>>
    BY GeneratingNow DEF Generates
  <1>2. t \in ToSet(rlist.unread) /\ t \in Items /\ t.rec \notin rlist.read
    BY <1>1, TakeIs
  <1>3. Posted(done) \union ToSet(Replied(done, reply)) \subseteq rlist.read
    BY <1>1 DEF Generating
  <1> HIDE DEF t
  <1>4. t.rec \in OwnRecords /\ t.unicast \in BOOLEAN
    BY <1>2 DEF Items
  <1> QED
    BY <1>2, <1>3, <1>4 DEF t

LEMMA AnswerMulticastKeeps ==
    ASSUME ResponderIInv, AnswerMulticast
    PROVE  ResponderIInv'
  <1> DEFINE r == Head(rlist.unread).rec
             e == done'
             m == TakeNext(rlist)
  <1>1. Generates /\ job.pc = "generate" /\ rlist.unread # <<>> /\ ~ Legacy(job.packet)
    BY DEF AnswerMulticast, Generates
  <1>2. /\ registered \in SUBSET OwnRecords /\ ListSound(rlist) /\ job \in Jobs
        /\ done \in Results /\ ReplySound(reply) /\ Generating(job, rlist, reply, done)
        /\ IsInjective(Replied(done, reply))
        /\ Posted(done) \intersect ToSet(Replied(done, reply)) = {}
        /\ AskedKept(rlist, done) /\ MulticastWanted(rlist, done)
    BY <1>1, GeneratingNow
  <1>3. r \in OwnRecords /\ r \notin Posted(done) \union ToSet(Replied(done, reply))
    BY <1>1, HeadIsNew
  <1>4. Taken(rlist, m, done) /\ ToSet(m.unread) \subseteq ToSet(rlist.unread)
    BY <1>1, <1>2, TakenIs
  <1>5. PICK b \in BOOLEAN : e = [done EXCEPT !.posted = @ \union {<<r, b>>}]
    <2> DEFINE P(x) == e = [done EXCEPT !.posted = @ \union {<<r, x>>}]
               now == \/ job.immediately
                      \/ /\ r \in UniqueRecords /\ ~ (job.packet # NoPacket /\ job.packet.tc)
                         /\ ~ Head(rlist.unread).aux /\ rlist.allFlush
    <2>1. P(now)
      BY DEF AnswerMulticast
    <2>2. now \in BOOLEAN
      OBVIOUS
    <2> HIDE DEF now, P
    <2>3. \E b \in BOOLEAN : P(b)
      BY <2>1, <2>2, Zenon
    <2> QED
      BY <2>3 DEF P
  <1>6. /\ registered' = registered /\ job' = job /\ reply' = reply /\ rlist' = m
    BY DEF AnswerMulticast
  <1>7. /\ e \in Results /\ e.asked = done.asked /\ e.refused = done.refused
        /\ e.sent = done.sent /\ e.posted = done.posted \union {<<r, b>>}
    <2> DEFINE both == OwnRecords \X BOOLEAN
               new == {<<r, b>>}
    <2>1. new \in SUBSET both
      BY <1>3
    <2>2. e = [done EXCEPT !.posted = @ \union new]
      BY <1>5
    <2> HIDE DEF both, new, r, e
    <2>3. /\ e \in Results /\ e.asked = done.asked /\ e.refused = done.refused
          /\ e.sent = done.sent /\ e.posted = done.posted \union new
      BY <2>1, <2>2, <1>2 DEF Results, both
    <2> QED
      BY <2>3 DEF new
  <1> HIDE DEF e, m, r
  <1>8. Posted(e) = Posted(done) \union {r}
    <2> DEFINE new == <<r, b>>
    <2>1. new[1] = r
      OBVIOUS
    <2>2. e.posted = done.posted \union {new}
      BY <1>7
    <2> HIDE DEF new
    <2> QED
      BY <2>1, <2>2 DEF Posted
  <1>9. Replied(e, reply) = Replied(done, reply)
    BY <1>7 DEF Replied
  <1>10. ListSound(m) /\ m.read = rlist.read \union {r}
    BY <1>4 DEF Taken, r
  <1>11. AskedKept(m, e) /\ MulticastWanted(m, e)
    BY <1>4, <1>7 DEF Taken, AskedKept, MulticastWanted, AskedFor
  <1>12. \A q \in m.read : Dealt(e, reply, q)
    <2>1. \A q \in rlist.read : Dealt(done, reply, q)
      BY <1>1, <1>2 DEF Generating
    <2>2. \A q : Dealt(done, reply, q) => Dealt(e, reply, q)
      BY <1>7, <1>8, <1>9 DEF Dealt, AskedFor
    <2>3. Dealt(e, reply, r)
      BY <1>8 DEF Dealt
    <2> QED
      BY <1>10, <2>1, <2>2, <2>3
  <1>13. Generating(job, m, reply, e)
    <2>1. Posted(e) \union ToSet(Replied(e, reply)) \subseteq m.read
      BY <1>2, <1>8, <1>9, <1>10 DEF Generating
    <2>2. job.packet = NoPacket => ~ reply.open /\ \A t \in ToSet(m.unread) : ~ t.unicast
      BY <1>2, <1>4 DEF Generating
    <2>3. ~ reply.open => reply.recs = <<>>
      BY <1>2 DEF Generating
    <2> QED
      BY <2>1, <2>2, <2>3, <1>1, <1>12 DEF Generating
  <1>14. /\ IsInjective(Replied(e, reply))
         /\ Posted(e) \intersect ToSet(Replied(e, reply)) = {}
    BY <1>2, <1>3, <1>8, <1>9
  <1>15. Working(job, m, reply, e) /\ Answered(job, m, reply, e)
    BY <1>1, <1>2, <1>7, <1>10, <1>11, <1>13, <1>14, WhileGenerating DEF ReplySound
  <1> QED
    BY <1>2, <1>6, <1>15, Step DEF e

LEMMA AnswerUnicastKeeps ==
    ASSUME ResponderIInv, NEW own \in BOOLEAN, AnswerUnicast(own)
    PROVE  ResponderIInv'
  <1> DEFINE t == Head(rlist.unread)
             r == t.rec
             e == done'
             m == rlist'
             rp == reply'
             fl == FillReply(reply, r, own)
             before == Replied(done, reply)
  <1>1. Generates /\ job.pc = "generate" /\ rlist.unread # <<>> /\ ~ Legacy(job.packet)
    BY DEF AnswerUnicast, Generates
  <1>2. /\ registered \in SUBSET OwnRecords /\ ListSound(rlist) /\ job \in Jobs
        /\ done \in Results /\ ReplySound(reply) /\ Generating(job, rlist, reply, done)
        /\ IsInjective(before) /\ Posted(done) \intersect ToSet(before) = {}
        /\ AskedKept(rlist, done) /\ MulticastWanted(rlist, done)
    BY <1>1, GeneratingNow
  <1>3. /\ t \in ToSet(rlist.unread) /\ r \in OwnRecords /\ t.unicast \in BOOLEAN
        /\ r \notin Posted(done) \union ToSet(before)
    BY <1>1, HeadIsNew
  <1>4. registered' = registered /\ job' = job
    BY DEF AnswerUnicast
  <1>5. Taken(rlist, m, done)
    <2>1. m = TakeNext(rlist) \/ m = AppendAux(TakeNext(rlist), r, TRUE)
      BY DEF AnswerUnicast
    <2>2. TRUE \in BOOLEAN
      OBVIOUS
    <2>3. Taken(rlist, TakeNext(rlist), done)
      BY <1>1, <1>2, TakenIs
    <2>4. \A q : \A u \in BOOLEAN : Taken(rlist, AppendAux(TakeNext(rlist), q, u), done)
      BY <1>1, <1>2, TakenIs
    <2> HIDE DEF m, r
    <2>5. Taken(rlist, AppendAux(TakeNext(rlist), r, TRUE), done)
      BY <2>2, <2>4, Zenon
    <2> QED
      BY <2>1, <2>3, <2>5
  <1>6. /\ done.sent \in Seq(Seq(OwnRecords)) /\ done.asked \in SUBSET (OwnRecords \X BOOLEAN)
        /\ done.posted \in SUBSET (OwnRecords \X BOOLEAN) /\ done.refused \in SUBSET OwnRecords
    BY <1>2 DEF Results
  <1>7. /\ ReplySound(rp) /\ e \in Results /\ e.asked = done.asked /\ e.posted = done.posted
        /\ e.refused = done.refused \union {r}
        /\ \/ Replied(e, rp) = Append(before, r)
           \/ /\ Replied(e, rp) = before
              /\ SizeOf[r] > ReplySpace \/ ~ t.unicast
        /\ rp.open => reply.open \/ t.unicast
    <2> DEFINE both == OwnRecords \X BOOLEAN
               new == {r}
    <2>1. new \in SUBSET OwnRecords
      BY <1>3
    <2>2. CASE t.unicast
      <3> DEFINE sent == done.sent \o fl.sent
      <3>1. rp = fl.reply /\ e = [done EXCEPT !.refused = @ \union new, !.sent = sent]
        BY <2>2 DEF AnswerUnicast
      <3>2. /\ ReplySound(fl.reply) /\ sent \in Seq(Seq(OwnRecords))
            /\ \/ FlattenSeq(sent) \o fl.reply.recs = Append(FlattenSeq(done.sent) \o reply.recs, r)
               \/ /\ FlattenSeq(sent) \o fl.reply.recs = FlattenSeq(done.sent) \o reply.recs
                  /\ SizeOf[r] > ReplySpace
        <4>1. ReplySound(reply) /\ r \in OwnRecords /\ done.sent \in Seq(Seq(OwnRecords))
          BY <1>2, <1>3, <1>6
        <4> HIDE DEF r
        <4> QED
          BY <4>1, FillIs
      <3> HIDE DEF sent, new, both, r, e, rp, fl, before
      <3>3. /\ e \in Results /\ e.asked = done.asked /\ e.posted = done.posted
            /\ e.refused = done.refused \union new /\ e.sent = sent
        BY <3>1, <3>2, <2>1, <1>2 DEF Results, both
      <3>4. \/ Replied(e, rp) = Append(before, r)
            \/ Replied(e, rp) = before /\ SizeOf[r] > ReplySpace
        BY <3>1, <3>2, <3>3 DEF Replied, before
      <3> QED
        BY <3>1, <3>2, <3>3, <3>4, <2>2 DEF new
    <2>3. CASE ~ t.unicast
      <3>1. rp = reply /\ e = [done EXCEPT !.refused = @ \union new]
        BY <2>3 DEF AnswerUnicast
      <3> HIDE DEF new, both, r, e, rp, before
      <3>3. /\ e \in Results /\ e.asked = done.asked /\ e.posted = done.posted
            /\ e.refused = done.refused \union new /\ e.sent = done.sent
        BY <3>1, <2>1, <1>2 DEF Results, both
      <3>4. Replied(e, rp) = before
        BY <3>1, <3>3 DEF Replied, before
      <3> QED
        BY <3>1, <3>3, <3>4, <2>3, <1>2 DEF new
    <2> QED
      BY <2>2, <2>3
  <1> HIDE DEF e, m, r, t, rp, before
  <1>8. Posted(e) = Posted(done)
    BY <1>7 DEF Posted
  <1>9. before \in Seq(OwnRecords)
    <2>1. FlattenSeq(done.sent) \in Seq(OwnRecords) /\ reply.recs \in Seq(OwnRecords)
      BY <1>2, <1>6, FlattenType DEF ReplySound, Replies
    <2> QED
      BY <2>1, ConcatProperties DEF Replied, before
  <1>10. /\ IsInjective(Append(before, r)) /\ ToSet(Append(before, r)) = ToSet(before) \union {r}
    BY <1>2, <1>3, <1>9, BehindOnce
  <1>11. /\ IsInjective(Replied(e, rp)) /\ ToSet(before) \subseteq ToSet(Replied(e, rp))
         /\ ToSet(Replied(e, rp)) \subseteq ToSet(before) \union {r}
         /\ r \in ToSet(Replied(e, rp)) \/ SizeOf[r] > ReplySpace \/ ~ t.unicast
    <2>1. CASE Replied(e, rp) = Append(before, r)
      BY <2>1, <1>10
    <2>2. CASE Replied(e, rp) = before /\ (SizeOf[r] > ReplySpace \/ ~ t.unicast)
      BY <2>2, <1>2
    <2> QED
      BY <2>1, <2>2, <1>7
  <1>12. ListSound(m) /\ m.read = rlist.read \union {r}
    BY <1>5 DEF Taken, r, t
  <1>13. AskedKept(m, e) /\ MulticastWanted(m, e)
    BY <1>5, <1>7 DEF Taken, AskedKept, MulticastWanted, AskedFor
  <1>14. \A q \in m.read : Dealt(e, rp, q)
    <2>1. \A q \in rlist.read : Dealt(done, reply, q)
      BY <1>1, <1>2 DEF Generating
    <2>2. \A q : Dealt(done, reply, q) => Dealt(e, rp, q)
      BY <1>7, <1>8, <1>11 DEF Dealt, AskedFor, before
    <2>3. Dealt(e, rp, r)
      <3>1. CASE t.unicast
        BY <3>1, <1>11 DEF Dealt
      <3>2. CASE ~ t.unicast
        <4>1. AskedFor(done, r) => <<r, FALSE>> \in done.asked
          BY <3>2, <1>2, <1>3 DEF MulticastWanted, r
        <4>2. r \in e.refused /\ (AskedFor(e, r) => <<r, FALSE>> \in e.asked)
          BY <4>1, <1>7 DEF AskedFor
        <4> QED
          BY <4>2 DEF Dealt
      <3> QED
        BY <3>1, <3>2
    <2> QED
      BY <1>12, <2>1, <2>2, <2>3
  <1>15. Generating(job, m, rp, e)
    <2>1. Posted(e) \union ToSet(Replied(e, rp)) \subseteq m.read
      BY <1>2, <1>8, <1>11, <1>12 DEF Generating, before
    <2>2. job.packet = NoPacket => ~ t.unicast /\ ~ reply.open
      BY <1>2, <1>3 DEF Generating
    <2>3. job.packet = NoPacket => ~ rp.open /\ \A i \in ToSet(m.unread) : ~ i.unicast
      <3> SUFFICES ASSUME job.packet = NoPacket
                   PROVE  ~ rp.open /\ \A i \in ToSet(m.unread) : ~ i.unicast
        OBVIOUS
      <3>1. ~ rp.open
        BY <2>2, <1>7
      <3>2. m = TakeNext(rlist)
        BY <2>2 DEF AnswerUnicast, m, t
      <3>3. ToSet(m.unread) \subseteq ToSet(rlist.unread)
        BY <3>2, <1>1, <1>2, TakenIs
      <3> QED
        BY <3>1, <3>3, <1>2 DEF Generating
    <2>4. ~ rp.open => rp.recs = <<>>
      BY <1>7 DEF ReplySound
    <2> QED
      BY <2>1, <2>3, <2>4, <1>1, <1>14 DEF Generating
  <1>16. Posted(e) \intersect ToSet(Replied(e, rp)) = {}
    BY <1>2, <1>3, <1>8, <1>11
  <1>17. Working(job, m, rp, e) /\ Answered(job, m, rp, e)
    BY <1>1, <1>2, <1>7, <1>11, <1>12, <1>13, <1>15, <1>16, WhileGenerating DEF ReplySound
  <1> QED
    BY <1>2, <1>4, <1>17, Step DEF e, m, rp

LEMMA AnswerLegacyKeeps ==
    ASSUME ResponderIInv, AnswerLegacy
    PROVE  ResponderIInv'
  <1> DEFINE r == Head(rlist.unread).rec
             o == IF reply.open THEN reply ELSE NewReply(LegacySpace)
             rp == reply'
             m == rlist'
  <1>1. Generates /\ job.pc = "generate" /\ rlist.unread # <<>> /\ Legacy(job.packet)
    BY DEF AnswerLegacy, Generates
  <1>2. /\ registered \in SUBSET OwnRecords /\ ListSound(rlist) /\ job \in Jobs
        /\ done \in Results /\ ReplySound(reply) /\ Generating(job, rlist, reply, done)
        /\ IsInjective(Replied(done, reply))
        /\ Posted(done) \intersect ToSet(Replied(done, reply)) = {}
        /\ AskedKept(rlist, done) /\ MulticastWanted(rlist, done)
    BY <1>1, GeneratingNow
  <1>3. /\ r \in OwnRecords /\ r \notin Posted(done) \union ToSet(Replied(done, reply))
    BY <1>1, HeadIsNew
  <1>4. /\ registered' = registered /\ job' = job /\ done' = done
        /\ m = AppendAux(TakeNext(rlist), r, FALSE)
        /\ rp = IF Fits(o, r) THEN Append1(o, r) ELSE o
    BY DEF AnswerLegacy
  <1>5. Taken(rlist, m, done)
    <2>1. FALSE \in BOOLEAN
      OBVIOUS
    <2>2. \A q : \A u \in BOOLEAN : Taken(rlist, AppendAux(TakeNext(rlist), q, u), done)
      BY <1>1, <1>2, TakenIs
    <2> HIDE DEF m, r
    <2>3. Taken(rlist, AppendAux(TakeNext(rlist), r, FALSE), done)
      BY <2>1, <2>2, Zenon
    <2> QED
      BY <1>4, <2>3
  <1>6. /\ SizeOf \in [OwnRecords -> Nat] /\ LegacySpace \in Nat
    BY ResponderAssumption
  <1>7. /\ o \in Replies /\ o.open /\ o.space = LegacySpace /\ o.recs = reply.recs
        /\ o.recs \in Seq(OwnRecords) /\ Used(o.recs) \in Nat
    <2>1. reply \in Replies /\ reply.recs \in Seq(OwnRecords) /\ Used(reply.recs) \in Nat
      BY <1>2 DEF ReplySound, Replies
    <2>2. CASE reply.open
      BY <2>1, <2>2, <1>1, <1>2 DEF Generating
    <2>3. CASE ~ reply.open
      <3>1. reply.recs = <<>>
        BY <2>3, <1>2 DEF Generating
      <3>2. o = [open |-> TRUE, recs |-> <<>>, space |-> LegacySpace]
        BY <2>3 DEF NewReply
      <3>3. o \in Replies /\ o.open /\ o.space = LegacySpace /\ o.recs = <<>>
        <4> HIDE DEF o
        <4> QED
          BY <3>2, <1>6 DEF Replies
      <3> QED
        BY <3>1, <3>3, <2>1
    <2> QED
      BY <2>2, <2>3
  <1> HIDE DEF o, m, r
  <1>8. /\ done.sent = <<>> /\ done.posted = {} /\ Posted(done) = {}
        /\ \A q \in rlist.read : DealtLegacy(reply, q)
    BY <1>1, <1>2 DEF Generating, Posted
  <1>9. \A x \in Replies : Replied(done, x) = x.recs
    <2> TAKE x \in Replies
    <2>1. x.recs \in Seq(OwnRecords)
      BY DEF Replies
    <2> QED
      BY <2>1, <1>8, FlattenNone, ConcatEmptySeq DEF Replied
  <1>10. /\ IsInjective(o.recs) /\ r \notin ToSet(o.recs)
         /\ ToSet(o.recs) \subseteq rlist.read
    <2>1. Replied(done, reply) = o.recs
      BY <1>2, <1>7, <1>9 DEF ReplySound
    <2> QED
      BY <2>1, <1>2, <1>3 DEF Generating
  <1>11. /\ ListSound(m) /\ m.read = rlist.read \union {r}
         /\ AskedKept(m, done) /\ MulticastWanted(m, done)
    BY <1>5 DEF Taken, r
  <1>12. rlist.read \in SUBSET OwnRecords
    BY <1>2, SoundList
  <1>13. /\ rp \in Replies /\ rp.open /\ rp.space = LegacySpace /\ IsInjective(rp.recs)
         /\ Used(rp.recs) \in Nat /\ ToSet(rp.recs) \subseteq m.read
         /\ \A q \in m.read : DealtLegacy(rp, q)
    <2>1. CASE Fits(o, r)
      <3> DEFINE b == Append(o.recs, r)
      <3>1. b \in Seq(OwnRecords) /\ IsInjective(b) /\ ToSet(b) = ToSet(o.recs) \union {r}
        BY <1>3, <1>7, <1>10, BehindOnce
      <3>2. Used(b) = Used(o.recs) + SizeOf[r]
        BY <1>3, <1>7, UsedMore
      <3>3. rp = [o EXCEPT !.recs = b]
        BY <2>1, <1>4 DEF Append1
      <3> HIDE DEF b, rp
      <3>4. rp \in Replies /\ rp.open /\ rp.space = LegacySpace /\ rp.recs = b
        BY <3>1, <3>3, <1>7 DEF Replies
      <3>5. SizeOf[r] \in Nat /\ Used(b) \in Nat /\ Used(b) >= Used(o.recs)
        BY <3>2, <1>3, <1>6, <1>7
      <3>6. ASSUME NEW q \in rlist.read
            PROVE  DealtLegacy(rp, q)
        <4>1. q \in ToSet(o.recs) \/ SizeOf[q] + Used(o.recs) > LegacySpace
          BY <1>7, <1>8 DEF DealtLegacy
        <4>2. SizeOf[q] \in Nat
          BY <1>6, <1>12
        <4> QED
          BY <4>1, <4>2, <3>1, <3>4, <3>5, <1>6, <1>7 DEF DealtLegacy
      <3>7. DealtLegacy(rp, r)
        BY <3>1, <3>4 DEF DealtLegacy
      <3> QED
        BY <3>1, <3>4, <3>5, <3>6, <3>7, <1>10, <1>11
    <2>2. CASE ~ Fits(o, r)
      <3>1. rp = o
        BY <2>2, <1>4
      <3>2. Used(o.recs) + SizeOf[r] > LegacySpace
        BY <2>2, <1>3, <1>6, <1>7 DEF Fits
      <3>3. DealtLegacy(o, r)
        BY <3>2, <1>3, <1>6, <1>7 DEF DealtLegacy
      <3>4. \A q \in rlist.read : DealtLegacy(o, q)
        BY <1>7, <1>8 DEF DealtLegacy
      <3> QED
        BY <3>1, <3>3, <3>4, <1>7, <1>10, <1>11
    <2> QED
      BY <2>1, <2>2
  <1> HIDE DEF rp
  <1>14. Replied(done, rp) = rp.recs
    BY <1>9, <1>13
  <1>15. job.packet # NoPacket
    BY <1>1 DEF Legacy
  <1>16. Generating(job, m, rp, done)
    BY <1>1, <1>8, <1>13, <1>14, <1>15 DEF Generating
  <1>17. IsInjective(Replied(done, rp)) /\ Posted(done) \intersect ToSet(Replied(done, rp)) = {}
    BY <1>8, <1>13, <1>14
  <1>18. Working(job, m, rp, done) /\ Answered(job, m, rp, done)
    BY <1>1, <1>2, <1>11, <1>13, <1>16, <1>17, WhileGenerating
  <1> QED
    BY <1>2, <1>4, <1>18, Step DEF m, rp

LEMMA ListDoneKeeps ==
    ASSUME ResponderIInv, ListDone
    PROVE  ResponderIInv'
  <1> DEFINE j == [job EXCEPT !.pc = "idle"]
             e == done'
             sent == IF reply.recs = <<>> THEN done.sent ELSE Append(done.sent, reply.recs)
  <1>1. job.pc = "generate" /\ rlist.unread = <<>>
    BY DEF ListDone
  <1>2. /\ registered \in SUBSET OwnRecords /\ ListSound(rlist) /\ job \in Jobs
        /\ done \in Results /\ ReplySound(reply) /\ Generating(job, rlist, reply, done)
        /\ IsInjective(Replied(done, reply))
        /\ Posted(done) \intersect ToSet(Replied(done, reply)) = {}
        /\ AskedKept(rlist, done) /\ MulticastWanted(rlist, done)
    BY <1>1, GeneratingNow
  <1>3. /\ job' = j /\ e = [done EXCEPT !.sent = sent]
        /\ rlist' = EmptyList /\ reply' = NoReply /\ registered' = registered
    BY DEF ListDone
  <1>4. j \in Jobs /\ j.pc = "idle" /\ j.packet = job.packet
    BY <1>2 DEF Jobs
  <1>5. done.sent \in Seq(Seq(OwnRecords)) /\ reply.recs \in Seq(OwnRecords)
    BY <1>2 DEF Results, ReplySound, Replies
  <1>6. sent \in Seq(Seq(OwnRecords)) /\ FlattenSeq(sent) = Replied(done, reply)
    <2>1. CASE reply.recs = <<>>
      <3>1. FlattenSeq(done.sent) \o <<>> = FlattenSeq(done.sent)
        BY <1>5, FlattenType, ConcatEmptySeq
      <3> QED
        BY <2>1, <3>1, <1>5 DEF Replied
    <2>2. CASE reply.recs # <<>>
      <3>1. sent = Append(done.sent, reply.recs)
        BY <2>2
      <3> QED
        <4> HIDE DEF sent
        <4>1. sent \in Seq(Seq(OwnRecords))
          BY <3>1, <1>5, AppendProperties
        <4>2. FlattenSeq(sent) = FlattenSeq(done.sent) \o reply.recs
          BY <3>1, <1>5, FlattenMore
        <4> QED
          BY <4>1, <4>2 DEF Replied
    <2> QED
      BY <2>1, <2>2
  <1> HIDE DEF sent, e, j
  <1>7. /\ e \in Results /\ e.asked = done.asked /\ e.posted = done.posted
        /\ e.refused = done.refused /\ e.sent = sent
    BY <1>2, <1>3, <1>6 DEF Results
  <1>8. Posted(e) = Posted(done) /\ FlattenSeq(e.sent) = Replied(done, reply)
    BY <1>6, <1>7 DEF Posted
  <1>9. ASSUME NEW a \in e.asked
        PROVE  \/ a[1] \in Posted(e) \union ToSet(FlattenSeq(e.sent))
               \/ IF Legacy(j.packet) THEN SizeOf[a[1]] + Used(FlattenSeq(e.sent)) > LegacySpace
                  ELSE SizeOf[a[1]] > ReplySpace
               \/ a[1] \in e.refused /\ <<a[1], FALSE>> \in e.asked
    <2>1. a[1] \in rlist.read
      <3>1. ToSet(rlist.unread) = {}
        BY <1>1, NothingReplied
      <3>2. a[1] \notin Waiting(rlist)
        BY <3>1, <1>2, SoundList
      <3>3. a[1] \in OnList(rlist)
        BY <1>2, <1>7 DEF AskedKept
      <3> QED
        BY <3>2, <3>3 DEF OnList
    <2>2. AskedFor(done, a[1])
      <3>1. a \in OwnRecords \X BOOLEAN
        BY <1>7 DEF Results
      <3>2. a = <<a[1], a[2]>> /\ (a[2] = TRUE \/ a[2] = FALSE)
        BY <3>1
      <3> QED
        BY <3>2, <1>7 DEF AskedFor
    <2>3. CASE Legacy(job.packet)
      <3>1. DealtLegacy(reply, a[1]) /\ done.sent = <<>>
        BY <2>1, <2>3, <1>2 DEF Generating
      <3>2. FlattenSeq(e.sent) = reply.recs
        BY <3>1, <1>5, <1>8, FlattenNone, ConcatEmptySeq DEF Replied
      <3> QED
        BY <3>1, <3>2, <2>3, <1>4 DEF DealtLegacy
    <2>4. CASE ~ Legacy(job.packet)
      <3>1. Dealt(done, reply, a[1])
        BY <2>1, <2>4, <1>2 DEF Generating
      <3> QED
        BY <3>1, <2>2, <2>4, <1>4, <1>7, <1>8 DEF Dealt
    <2> QED
      BY <2>3, <2>4
  <1>10. /\ IsInjective(FlattenSeq(e.sent))
         /\ Posted(e) \intersect ToSet(FlattenSeq(e.sent)) = {}
    BY <1>2, <1>8
  <1>11. Working(j, EmptyList, NoReply, e) /\ Answered(j, EmptyList, NoReply, e)
    BY <1>4, <1>7, <1>9, <1>10, EmptyListIs, WhileIdle
  <1> QED
    BY <1>2, <1>3, <1>11, Step DEF e

LEMMA ResponderKeeps ==
    ASSUME ResponderIInv, [ResponderNext]_responderVars
    PROVE  ResponderIInv'
  <1>1. CASE UNCHANGED responderVars
    <2>1. /\ registered' = registered /\ rlist' = rlist /\ job' = job /\ reply' = reply
          /\ done' = done
      BY <1>1 DEF responderVars
    <2>2. /\ registered \in SUBSET OwnRecords /\ Working(job, rlist, reply, done)
          /\ Answered(job, rlist, reply, done)
      BY AnsweredNow DEF ResponderIInv
    <2> QED
      BY <2>1, <2>2, Step
  <1>2. ASSUME NEW p \in InPackets, Refuse(p)
        PROVE  ResponderIInv'
    BY <1>1, <1>2 DEF Refuse
  <1>3. ASSUME NEW p \in InPackets, Receive(p)
        PROVE  ResponderIInv'
    BY <1>3, ReceiveKeeps
  <1>4. ASSUME NEW r \in OwnRecords, Announcement(r)
        PROVE  ResponderIInv'
    BY <1>4, AnnouncementKeeps
  <1>5. ASSUME NEW own \in BOOLEAN, AnswerUnicast(own)
        PROVE  ResponderIInv'
    BY <1>5, AnswerUnicastKeeps
  <1> QED
    BY <1>1, <1>2, <1>3, <1>4, <1>5, ReadQuestionKeeps, ReadKnownKeeps, ReadProbeKeeps,
       ReadAnswerKeeps, SectionReadKeeps, AnswerLegacyKeeps, AnswerMulticastKeeps,
       ListDoneKeeps, EntriesChangeKeeps
    DEF ResponderNext

(* The inductive invariant of the responder: the list never has a record twice, what was
   asked for stays on it until it is taken, and what was taken is scheduled, in a reply
   or excused. *)
THEOREM ResponderInvariant == ResponderSpec => []ResponderIInv
  <1>1. ResponderInit => ResponderIInv
    BY ResponderStarts
  <1>2. ResponderIInv /\ [ResponderNext]_responderVars => ResponderIInv'
    BY ResponderKeeps
  <1> QED
    BY <1>1, <1>2, PTL DEF ResponderSpec

(* QuestionsAnswered for every set of records, however they refer to each other, every
   packet and every size: whatever was asked for and is not known has been answered by
   the time the list is flushed, no record is sent twice for one packet, and the list is
   empty again when the next packet is read. *)
THEOREM QuestionsAlwaysAnswered == ResponderSpec => []QuestionsAnswered
  <1>1. ResponderIInv => QuestionsAnswered
    BY DEF ResponderIInv
  <1> QED
    BY <1>1, ResponderInvariant, PTL

-----------------------------------------------------------------------------
(* Two hosts that probe for one name, whatever its keys and their records.   *)

\* Some record of the ones of a key that are probed for is not below any other.
LEMMA GreatestRecord ==
    ASSUME NEW n \in DOMAIN RRsets, NEW S \in SUBSET Candidates(n), S # {},
           \A x, y \in S : RecordKey(x) = RecordKey(y)
    PROVE  \E m \in S : \A x \in S : Compare(m, x) >= 0
  <1> DEFINE above(x) == {y \in S : Compare(x, y) < 0}
             T == {Cardinality(above(x)) : x \in S}
  <1>1. \A x \in S : IsFiniteSet(above(x)) /\ Cardinality(above(x)) \in Nat
    <2>1. IsFiniteSet(RRsets[n])
      BY TieAssumption
    <2>2. \A x \in S : above(x) \subseteq RRsets[n]
      BY DEF Candidates
    <2> QED
      BY <2>1, <2>2, FS_Subset, FS_CardinalityType
  <1>2. T \subseteq Nat /\ T # {}
    BY <1>1
  <1>3. PICK k \in T : \A j \in T : ~ (<<j, k>> \in OpToRel(<, Nat))
    <2> HIDE DEF T
    <2> QED
      BY <1>2, NatLessThanWellFounded, WFMin
  <1>4. PICK m \in S : k = Cardinality(above(m))
    OBVIOUS
  <1>5. ASSUME NEW y \in S, Compare(m, y) < 0 PROVE FALSE
    <2>1. above(y) \subseteq above(m)
      <3> SUFFICES ASSUME NEW z \in S, Compare(y, z) < 0 PROVE Compare(m, z) < 0
        OBVIOUS
      <3>1. /\ m \in Candidates(n) /\ y \in Candidates(n) /\ z \in Candidates(n)
        OBVIOUS
      <3>2. /\ Compare(m, y) \in Int /\ Compare(y, z) \in Int /\ Compare(m, z) \in Int
            /\ Compare(z, y) = - Compare(y, z) /\ Compare(z, y) \in Int
        BY <3>1, TieAssumption
      <3>3. Compare(z, y) >= 0
        BY <3>2
      <3>4. Compare(m, z) >= 0 => Compare(m, y) >= 0
        BY <3>1, <3>3, TieAssumption
      <3> QED
        BY <1>5, <3>2, <3>4
    <2>2. y \in above(m)
      BY <1>5
    <2>3. y \notin above(y)
      <3>1. Compare(y, y) \in Int /\ Compare(y, y) = - Compare(y, y)
        BY TieAssumption
      <3> QED
        BY <3>1
    <2>4. above(y) # above(m)
      BY <2>2, <2>3
    <2> HIDE DEF above
    <2>5. Cardinality(above(y)) < Cardinality(above(m))
      BY <1>1, <2>1, <2>4, FS_Subset
    <2>6. Cardinality(above(y)) \in T
      OBVIOUS
    <2>7. <<Cardinality(above(y)), k>> \in OpToRel(<, Nat)
      BY <1>1, <1>4, <2>5 DEF OpToRel
    <2> QED
      BY <1>3, <2>6, <2>7
  <1>6. \A y \in S : Compare(m, y) \in Int
    BY TieAssumption
  <1> QED
    BY <1>4, <1>5, <1>6

LEMMA TieInitInv == TieInit => TieInv
  <1> SUFFICES ASSUME TieInit PROVE TieInv
    OBVIOUS
  <1>1. PICK n \in DOMAIN RRsets : rrset \in [ProbeHosts -> (SUBSET Candidates(n)) \ {{}}]
    BY DEF TieInit
  <1>2. /\ heard \in [ProbeHosts -> SUBSET Candidates(n)]
        /\ lost \in [ProbeHosts -> SUBSET {RecordKey(r) : r \in Candidates(n)}]
    BY DEF TieInit
  <1>3. \A h \in ProbeHosts : heard[h] = {} /\ lost[h] = {}
    BY DEF TieInit
  <1> QED
    BY <1>1, <1>2, <1>3 DEF TieInv

LEMMA IncomingProbeInv ==
    ASSUME TieInv, NEW h \in ProbeHosts, NEW o \in ProbeHosts, h # o,
           NEW r \in rrset[o], IncomingProbe(h, r)
    PROVE  TieInv'
  <1> DEFINE key == RecordKey(r)
             own == OfKey(rrset[h], key)
             keeps == lost[h] # {} \/ own = {} \/ (\E e \in own : Compare(e, r) = 0)
                        \/ (\E e \in own : Compare(e, r) > 0)
  <1>1. PICK n \in DOMAIN RRsets :
            /\ rrset \in [ProbeHosts -> (SUBSET Candidates(n)) \ {{}}]
            /\ heard \in [ProbeHosts -> SUBSET Candidates(n)]
            /\ lost \in [ProbeHosts -> SUBSET {RecordKey(x) : x \in Candidates(n)}]
    BY DEF TieInv
  <1>2. rrset' = rrset /\ r \in Candidates(n) /\ r \in OfKey(rrset[o], key)
    BY <1>1 DEF IncomingProbe, OfKey
  <1>3. /\ heard' \in [ProbeHosts -> SUBSET Candidates(n)]
        /\ heard'[h] = heard[h] \union {r} /\ \A q \in ProbeHosts \ {h} : heard'[q] = heard[q]
    BY <1>1, <1>2 DEF IncomingProbe
  <1>4. \A e \in own : Compare(e, r) \in {-1, 0, 1}
    BY <1>1, <1>2, TieAssumption DEF OfKey
  <1>5. lost' = IF keeps THEN lost ELSE [lost EXCEPT ![h] = {key}]
    BY DEF IncomingProbe
  <1> HIDE DEF keeps
  <1>6. /\ lost' \in [ProbeHosts -> SUBSET {RecordKey(x) : x \in Candidates(n)}]
        /\ \A q \in ProbeHosts : lost'[q] # lost[q] => q = h /\ lost'[h] = {key} /\ ~ keeps
        /\ keeps => lost' = lost
        /\ ~ keeps => lost'[h] = {key}
    BY <1>1, <1>2, <1>5
  <1>7. ASSUME NEW q \in ProbeHosts, NEW k \in lost'[q]
        PROVE  /\ OfKey(rrset[q], k) # {}
               /\ \E p \in ProbeHosts \ {q} : \E s \in OfKey(rrset[p], k) :
                      \A e \in OfKey(rrset[q], k) : Compare(e, s) < 0
    <2>1. CASE k \in lost[q]
      BY <2>1 DEF TieInv
    <2>2. CASE k \notin lost[q]
      <3>1. q = h /\ k = key /\ ~ keeps
        BY <1>6, <2>2
      <3>2. own # {} /\ \A e \in own : Compare(e, r) < 0
        BY <1>4, <3>1 DEF keeps
      <3> HIDE DEF own
      <3> QED
        BY <1>2, <3>1, <3>2 DEF own
    <2> QED
      BY <2>1, <2>2
  <1>8. ASSUME NEW q \in ProbeHosts, lost'[q] = {}, NEW s \in heard'[q],
               OfKey(rrset[q], RecordKey(s)) # {}
        PROVE  \E e \in OfKey(rrset[q], RecordKey(s)) : Compare(e, s) >= 0
    <2>1. lost[q] = {} /\ (q = h => keeps)
      BY <1>6, <1>8
    <2>2. CASE s \in heard[q]
      BY <1>8, <2>1, <2>2 DEF TieInv
    <2>3. CASE s \notin heard[q]
      <3>1. q = h /\ s = r
        BY <1>3, <2>3
      <3>2. PICK e \in own : Compare(e, r) = 0 \/ Compare(e, r) > 0
        BY <1>8, <2>1, <3>1 DEF keeps
      <3>3. Compare(e, r) >= 0
        BY <1>4, <3>2
      <3> QED
        BY <3>1, <3>2, <3>3
    <2> QED
      BY <2>2, <2>3
  <1> QED
    BY <1>1, <1>2, <1>3, <1>6, <1>7, <1>8 DEF TieInv

LEMMA TieInvariant == TieSpec => []TieInv
  <1>1. TieInv /\ [TieNext]_probeTieVars => TieInv'
    <2> SUFFICES ASSUME TieInv, [TieNext]_probeTieVars PROVE TieInv'
      OBVIOUS
    <2>1. CASE TieNext
      BY <2>1, IncomingProbeInv DEF TieNext
    <2>2. CASE UNCHANGED probeTieVars
      BY <2>2 DEF probeTieVars, TieInv, OfKey
    <2> QED
      BY <2>1, <2>2
  <1> QED
    BY <1>1, TieInitInv, PTL DEF TieSpec

\* Of two hosts that incoming_probe() sets against each other at most one withdraws
\* over any one key, and if none does they have a record in common on every key they
\* share, for all sets of records of any number of keys, in whatever order they are
\* heard, also after the sender has withdrawn, and for every order of records: the
\* greatest record of the key on either host decides.  Over two keys both may
\* withdraw, since each withdraws its whole group.
THEOREM OneProbeAlwaysLoses == TieSpec => []OneProbeLoses
  <1>1. TieInv => OneProbeLoses
    <2> SUFFICES ASSUME TieInv PROVE OneProbeLoses
      OBVIOUS
    <2>1. PICK n \in DOMAIN RRsets : rrset \in [ProbeHosts -> (SUBSET Candidates(n)) \ {{}}]
      BY DEF TieInv
    <2>2. \A a, b \in Candidates(n) : RecordKey(a) = RecordKey(b) =>
              /\ Compare(a, b) \in Int /\ Compare(a, b) = - Compare(b, a)
              /\ Compare(a, b) = 0 => Agree(a, b)
      BY TieAssumption
    <2>3. ASSUME NEW h \in ProbeHosts, NEW o \in ProbeHosts, h # o,
                 NEW k \in lost[h], k \in lost[o]
          PROVE  FALSE
      <3>1. \A q \in ProbeHosts : (q # h => q = o) /\ (q # o => q = h)
        BY <2>3, TieAssumption
      <3>2. PICK r \in OfKey(rrset[o], k) : \A e \in OfKey(rrset[h], k) : Compare(e, r) < 0
        BY <3>1 DEF TieInv
      <3>3. PICK s \in OfKey(rrset[h], k) : \A e \in OfKey(rrset[o], k) : Compare(e, s) < 0
        BY <2>3, <3>1 DEF TieInv
      <3>4. Compare(s, r) < 0 /\ Compare(r, s) < 0
        BY <3>2, <3>3
      <3>5. /\ r \in Candidates(n) /\ s \in Candidates(n)
            /\ RecordKey(r) = k /\ RecordKey(s) = k
        BY <2>1 DEF OfKey
      <3> QED
        BY <2>2, <3>4, <3>5
    <2>4. ASSUME \A h, o \in ProbeHosts : h # o => lost[h] = {} /\ heard[h] = rrset[o],
                 NEW h \in ProbeHosts, NEW o \in ProbeHosts, h # o,
                 NEW r \in rrset[h], NEW s \in rrset[o], RecordKey(r) = RecordKey(s)
          PROVE  \E a \in OfKey(rrset[h], RecordKey(r)), b \in OfKey(rrset[o], RecordKey(r)) : Agree(a, b)
      <3> DEFINE k == RecordKey(r)
      <3>1. /\ OfKey(rrset[h], k) \in SUBSET Candidates(n) /\ OfKey(rrset[h], k) # {}
            /\ OfKey(rrset[o], k) \in SUBSET Candidates(n) /\ OfKey(rrset[o], k) # {}
        BY <2>1, <2>4 DEF OfKey
      <3>2. \A x \in OfKey(rrset[h], k) \union OfKey(rrset[o], k) : RecordKey(x) = k
        BY DEF OfKey
      <3>3. OfKey(rrset[h], k) \subseteq rrset[h] /\ OfKey(rrset[o], k) \subseteq rrset[o]
        BY DEF OfKey
      <3>4. /\ lost[h] = {} /\ heard[h] = rrset[o]
            /\ lost[o] = {} /\ heard[o] = rrset[h]
        BY <2>4
      <3> HIDE DEF k
      <3>5. PICK a \in OfKey(rrset[h], k) : \A x \in OfKey(rrset[h], k) : Compare(a, x) >= 0
        BY <3>1, <3>2, GreatestRecord
      <3>6. PICK b \in OfKey(rrset[o], k) : Compare(b, a) >= 0
        BY <3>1, <3>2, <3>3, <3>4 DEF TieInv
      <3>7. PICK c \in OfKey(rrset[h], k) : Compare(c, b) >= 0
        BY <3>1, <3>2, <3>3, <3>4 DEF TieInv
      <3>8. /\ a \in Candidates(n) /\ b \in Candidates(n) /\ c \in Candidates(n)
            /\ RecordKey(a) = k /\ RecordKey(b) = k /\ RecordKey(c) = k
        BY <3>1, <3>2
      <3>9. Compare(a, b) >= 0
        BY <3>5, <3>7, <3>8, TieAssumption
      <3>10. Compare(a, b) = 0
        BY <2>2, <3>6, <3>8, <3>9
      <3> QED
        BY <2>2, <3>8, <3>10 DEF k
    <2> QED
      BY <2>3, <2>4 DEF OneProbeLoses
  <1> QED
    BY <1>1, TieInvariant, PTL
==============================================================================
