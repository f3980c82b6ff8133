-------------------------- MODULE AndroidNsdProofs --------------------------
(* Proofs about the Android backend, for any number of objects, addresses  *)
(* and services, and queues of any length.                                 *)
EXTENDS AndroidNsd, TLAPS, FiniteSetTheorems

-----------------------------------------------------------------------------
(* The event queue.                                                        *)

\* What the n-th of the kept positions of a queue is: kept positions and
\* their ranks are in order, and every rank is taken.
LEMMA RankFacts ==
    ASSUME NEW len \in Nat, NEW K \in SUBSET (1..len)
    PROVE  LET Rank(i) == Cardinality({j \in K : j <= i})
               nth(n) == CHOOSE i \in K : Rank(i) = n
           IN  /\ Cardinality(K) \in Nat
               /\ \A n \in 1..Cardinality(K) : nth(n) \in K
               /\ \A i \in K : \E n \in 1..Cardinality(K) : nth(n) = i
               /\ \A n, k \in 1..Cardinality(K) : n <= k => nth(n) <= nth(k)
  <1> DEFINE Below(i) == {j \in K : j <= i}
             Rank(i) == Cardinality(Below(i))
             c == Cardinality(K)
             nth(n) == CHOOSE i \in K : Rank(i) = n
             rank == [i \in K |-> Rank(i)]
  <1>0. IsFiniteSet(1..len) /\ K \subseteq Int
    BY FS_Interval
  <1>1. IsFiniteSet(K) /\ c \in Nat
    BY <1>0, FS_Subset, FS_CardinalityType
  <1>2. \A i \in K : IsFiniteSet(Below(i)) /\ Rank(i) \in Nat /\ Rank(i) <= c
    BY <1>1, FS_Subset, FS_CardinalityType
  <1>3. \A i \in K : Rank(i) # 0
    <2> SUFFICES ASSUME NEW i \in K PROVE Rank(i) # 0
      OBVIOUS
    <2>1. i \in Below(i)
      OBVIOUS
    <2> QED
      BY <1>2, <2>1, FS_EmptySet
  <1>4. \A i, j \in K : i < j => Rank(i) < Rank(j)
    <2> SUFFICES ASSUME NEW i \in K, NEW j \in K, i < j PROVE Rank(i) < Rank(j)
      OBVIOUS
    <2>0. i \in Int /\ j \in Int /\ \A x \in K : x \in Int
      BY <1>0
    <2>1. Below(i) \subseteq Below(j) /\ j \in Below(j) /\ j \notin Below(i)
      <3>1. \A x \in K : x <= i => x <= j
        BY <2>0
      <3>2. ~(j <= i) /\ j <= j
        BY <2>0
      <3> QED
        BY <3>1, <3>2
    <2>2. Rank(i) <= Rank(j) /\ Rank(i) # Rank(j)
      BY <1>2, <2>1, FS_Subset
    <2> HIDE DEF Rank, Below
    <2>3. Rank(i) \in Nat /\ Rank(j) \in Nat
      BY <1>2
    <2> QED
      BY <2>2, <2>3
  <1>5. rank \in [K -> 1..c]
    <2> HIDE DEF Rank, Below, c
    <2>1. ASSUME NEW i \in K PROVE Rank(i) \in 1..c
      <3>1. Rank(i) \in Nat /\ Rank(i) <= c /\ Rank(i) # 0 /\ c \in Nat
        BY <1>1, <1>2, <1>3
      <3> QED
        BY <3>1
    <2> QED
      BY <2>1
  <1>6. \A i, j \in K : rank[i] = rank[j] => i = j
    <2> SUFFICES ASSUME NEW i \in K, NEW j \in K, Rank(i) = Rank(j) PROVE i = j
      OBVIOUS
    <2> HIDE DEF Rank, Below
    <2>1. i \in Int /\ j \in Int /\ Rank(i) \in Nat /\ Rank(j) \in Nat
      BY <1>0, <1>2
    <2> QED
      BY <1>4, <2>1
  <1>7. rank \in Surjection(K, 1..c)
    <2>1. rank \in Injection(K, 1..c)
      BY <1>5, <1>6 DEF Injection, IsInjective
    <2>2. IsFiniteSet(1..c) /\ Cardinality(1..c) = c
      BY <1>1, FS_Interval
    <2> QED
      BY <2>1, <2>2, FS_Injection
  <1>8. \A n \in 1..c : \E i \in K : Rank(i) = n
    BY <1>7 DEF Surjection
  <1> HIDE DEF Rank, Below
  <1>9. \A n \in 1..c : nth(n) \in K /\ Rank(nth(n)) = n
    BY <1>8
  <1>10. \A i \in K : nth(Rank(i)) = i /\ Rank(i) \in 1..c
    <2> SUFFICES ASSUME NEW i \in K PROVE nth(Rank(i)) = i /\ Rank(i) \in 1..c
      OBVIOUS
    <2>1. Rank(i) \in 1..c
      BY <1>5
    <2>2. nth(Rank(i)) \in K /\ Rank(nth(Rank(i))) = Rank(i)
      BY <1>9, <2>1
    <2> QED
      BY <1>6, <2>1, <2>2
  <1>11. \A n, k \in 1..c : n <= k => nth(n) <= nth(k)
    <2> SUFFICES ASSUME NEW n \in 1..c, NEW k \in 1..c, n <= k
                 PROVE  nth(n) <= nth(k)
      OBVIOUS
    <2>1. /\ nth(n) \in K /\ Rank(nth(n)) = n
          /\ nth(k) \in K /\ Rank(nth(k)) = k
      BY <1>9
    <2> HIDE DEF nth
    <2>2. nth(n) \in Int /\ nth(k) \in Int
      BY <1>0, <2>1
    <2>3. ~(nth(k) < nth(n))
      <3> SUFFICES ASSUME nth(k) < nth(n) PROVE FALSE
        OBVIOUS
      <3>1. Rank(nth(k)) < Rank(nth(n))
        BY <1>4, <2>1
      <3> QED
        BY <2>1, <3>1, <1>1
    <2> QED
      BY <2>2, <2>3
  <1> HIDE DEF nth, c
  <1>12. /\ c \in Nat
         /\ \A n \in 1..c : nth(n) \in K
         /\ \A i \in K : \E n \in 1..c : nth(n) = i
         /\ \A n, k \in 1..c : n <= k => nth(n) <= nth(k)
    BY <1>1, <1>9, <1>10, <1>11
  <1> QED
    BY <1>12 DEF nth, c, Rank, Below

\* ~QObject() keeps the invocations for the other objects and their order.
LEMMA WithoutFacts ==
    ASSUME NEW q \in Seq(Events), NEW m
    PROVE  /\ Without(q, m) \in Seq(Events) /\ Len(Without(q, m)) <= Len(q)
           /\ \E f \in [1..Len(Without(q, m)) -> 1..Len(q)] :
                /\ \A n \in 1..Len(Without(q, m)) :
                      Without(q, m)[n] = q[f[n]] /\ q[f[n]].to # m
                /\ \A i \in 1..Len(q) :
                      q[i].to # m => \E n \in 1..Len(Without(q, m)) : f[n] = i
                /\ \A n, k \in 1..Len(Without(q, m)) : n <= k => f[n] <= f[k]
  <1> DEFINE kept == {i \in DOMAIN q : q[i].to # m}
             nth(n) == CHOOSE i \in kept : Cardinality({j \in kept : j <= i}) = n
             c == Cardinality(kept)
             w == [n \in 1..c |-> q[nth(n)]]
             f == [n \in 1..c |-> nth(n)]
  <1>0. Without(q, m) = w
    BY DEF Without
  <1>1. kept \in SUBSET (1..Len(q)) /\ Len(q) \in Nat
    OBVIOUS
  <1>2. \A i \in 1..Len(q) : i \in kept <=> q[i].to # m
    OBVIOUS
  <1> HIDE DEF kept
  <1>3. /\ c \in Nat
        /\ \A n \in 1..c : nth(n) \in kept
        /\ \A i \in kept : \E n \in 1..c : nth(n) = i
        /\ \A n, k \in 1..c : n <= k => nth(n) <= nth(k)
    BY <1>1, RankFacts
  <1>4. c <= Len(q)
    <2>1. IsFiniteSet(1..Len(q)) /\ Cardinality(1..Len(q)) = Len(q)
      <3> DEFINE k == Len(q)
      <3>1. 1 \in Int /\ k \in Int /\ k \in Nat
        BY <1>1
      <3> HIDE DEF k
      <3>2. IsFiniteSet(1..k) /\ Cardinality(1..k) = IF 1 > k THEN 0 ELSE k - 1 + 1
        BY <3>1, FS_Interval
      <3>3. Cardinality(1..k) = k
        BY <3>1, <3>2
      <3> QED
        BY <3>2, <3>3 DEF k
    <2> QED
      BY <1>1, <2>1, FS_Subset
  <1> HIDE DEF nth, c
  <1>5. w \in Seq(Events) /\ Len(w) = c
    <2>0. \A n \in 1..c : nth(n) \in 1..Len(q)
      BY <1>1, <1>3
    <2>1. w \in [1..c -> Events]
      BY <2>0
    <2> QED
      BY <1>3, <2>1
  <1>6. /\ f \in [1..c -> 1..Len(q)]
        /\ \A n \in 1..c : w[n] = q[f[n]] /\ q[f[n]].to # m
        /\ \A i \in 1..Len(q) : q[i].to # m => \E n \in 1..c : f[n] = i
        /\ \A n, k \in 1..c : n <= k => f[n] <= f[k]
    BY <1>1, <1>2, <1>3
  <1> HIDE DEF w, f
  <1> QED
    BY <1>0, <1>4, <1>5, <1>6

\* An invocation queued last settles the flag it sets, and no other.
LEMMA SettledAppend ==
    ASSUME NEW q \in Seq(Events), NEW e \in Events, NEW m, NEW kind, NEW flag,
           Settled(Append(q, e), m, kind, flag)
    PROVE  IF e.to = m /\ e.kind = kind THEN e.running
                                        ELSE Settled(q, m, kind, flag)
  <1> DEFINE p == Append(q, e)
             mine == {i \in DOMAIN q : q[i].to = m /\ q[i].kind = kind}
             mineP == {i \in DOMAIN p : p[i].to = m /\ p[i].kind = kind}
  <1>1. /\ Len(q) \in Nat /\ DOMAIN q = 1..Len(q)
        /\ DOMAIN p = 1..(Len(q) + 1) /\ p[Len(q) + 1] = e
        /\ \A i \in 1..Len(q) : p[i] = q[i]
    OBVIOUS
  <1>2. IF mineP = {} THEN flag
        ELSE \E i \in mineP : p[i].running /\ \A j \in mineP : j <= i
    BY DEF Settled
  <1> HIDE DEF p
  <1>3. CASE e.to = m /\ e.kind = kind
    <2>1. Len(q) + 1 \in mineP
      BY <1>1, <1>3
    <2>2. PICK i \in mineP : p[i].running /\ \A j \in mineP : j <= i
      BY <1>2, <2>1
    <2>3. i = Len(q) + 1
      BY <1>1, <2>1, <2>2
    <2> QED
      BY <1>1, <1>3, <2>2, <2>3
  <1>4. CASE ~(e.to = m /\ e.kind = kind)
    <2>1. mineP = mine
      BY <1>1, <1>4
    <2>2. \A i \in mine : p[i] = q[i]
      BY <1>1
    <2>3. IF mine = {} THEN flag
          ELSE \E i \in mine : q[i].running /\ \A j \in mine : j <= i
      BY <1>2, <2>1, <2>2
    <2> QED
      BY <1>4, <2>3 DEF Settled
  <1> QED
    BY <1>3, <1>4

\* Delivering the oldest invocation changes no settled flag.
LEMMA SettledTail ==
    ASSUME NEW q \in Seq(Events), q # <<>>, NEW m, NEW kind, NEW flag, NEW new,
           new => IF Head(q).to = m /\ Head(q).kind = kind THEN Head(q).running
                                                          ELSE flag,
           Settled(Tail(q), m, kind, new)
    PROVE  Settled(q, m, kind, flag)
  <1> DEFINE p == Tail(q)
             mine == {i \in DOMAIN q : q[i].to = m /\ q[i].kind = kind}
             mineP == {i \in DOMAIN p : p[i].to = m /\ p[i].kind = kind}
  <1>1. /\ Len(q) \in Nat \ {0} /\ DOMAIN q = 1..Len(q) /\ Head(q) = q[1]
        /\ DOMAIN p = 1..(Len(q) - 1)
        /\ \A i \in 1..(Len(q) - 1) : p[i] = q[i + 1]
    OBVIOUS
  <1>2. IF mineP = {} THEN new
        ELSE \E i \in mineP : p[i].running /\ \A j \in mineP : j <= i
    BY DEF Settled
  <1> HIDE DEF p
  <1>3. \A i \in 1..(Len(q) - 1) : i \in mineP <=> i + 1 \in mine
    BY <1>1
  <1>4. \A j \in mine : j \in 1..Len(q) /\ (j = 1 \/ j - 1 \in mineP)
    BY <1>1, <1>3
  <1>5. mineP \subseteq 1..(Len(q) - 1)
    BY <1>1
  <1>6. 1 \in mine <=> Head(q).to = m /\ Head(q).kind = kind
    BY <1>1
  <1>7. IF mine = {} THEN flag
        ELSE \E i \in mine : q[i].running /\ \A j \in mine : j <= i
    <2> HIDE DEF mine, mineP
    <2>1. CASE mineP = {}
      <3>1. CASE 1 \in mine
        <4>1. q[1].running
          BY <1>1, <1>2, <1>6, <2>1, <3>1
        <4>2. \A j \in mine : j <= 1
          BY <1>4, <2>1
        <4> QED
          BY <3>1, <4>1, <4>2
      <3>2. CASE 1 \notin mine
        <4>1. mine = {}
          BY <1>4, <2>1, <3>2
        <4> QED
          BY <1>2, <1>6, <2>1, <3>2, <4>1
      <3> QED
        BY <3>1, <3>2
    <2>2. CASE mineP # {}
      <3>1. PICK i \in mineP : p[i].running /\ \A j \in mineP : j <= i
        BY <1>2, <2>2
      <3>2. i \in 1..(Len(q) - 1) /\ i + 1 \in mine /\ q[i + 1].running
        BY <1>1, <1>3, <1>5, <3>1
      <3>3. \A j \in mine : j <= i + 1
        <4> SUFFICES ASSUME NEW j \in mine PROVE j <= i + 1
          OBVIOUS
        <4>1. j \in 1..Len(q) /\ (j = 1 \/ j - 1 \in mineP)
          BY <1>4
        <4>2. CASE j = 1
          BY <3>2, <4>2
        <4>3. CASE j - 1 \in mineP
          <5>1. j - 1 <= i
            BY <3>1, <4>3
          <5> QED
            BY <3>2, <4>1, <5>1, <1>1
        <4> QED
          BY <4>1, <4>2, <4>3
      <3> QED
        BY <3>2, <3>3
    <2> QED
      BY <2>1, <2>2
  <1> QED
    BY <1>7 DEF Settled

\* Deleting one object changes no settled flag of another.
LEMMA SettledWithout ==
    ASSUME NEW q \in Seq(Events), NEW d, NEW m, m # d, NEW kind, NEW flag,
           Settled(Without(q, d), m, kind, flag)
    PROVE  Settled(q, m, kind, flag)
  <1> DEFINE p == Without(q, d)
             mine == {i \in DOMAIN q : q[i].to = m /\ q[i].kind = kind}
             mineP == {i \in DOMAIN p : p[i].to = m /\ p[i].kind = kind}
  <1>1. p \in Seq(Events)
    BY WithoutFacts
  <1>2. PICK f \in [1..Len(p) -> 1..Len(q)] :
          /\ \A n \in 1..Len(p) : p[n] = q[f[n]] /\ q[f[n]].to # d
          /\ \A i \in 1..Len(q) : q[i].to # d => \E n \in 1..Len(p) : f[n] = i
          /\ \A n, k \in 1..Len(p) : n <= k => f[n] <= f[k]
    BY WithoutFacts
  <1>3. IF mineP = {} THEN flag
        ELSE \E i \in mineP : p[i].running /\ \A j \in mineP : j <= i
    BY DEF Settled
  <1>4. DOMAIN p = 1..Len(p) /\ DOMAIN q = 1..Len(q)
    BY <1>1
  <1> HIDE DEF p
  <1>5. \A n \in mineP : n \in 1..Len(p) /\ f[n] \in mine
    BY <1>2, <1>4
  <1>6. \A i \in mine : \E n \in mineP : f[n] = i
    BY <1>2, <1>4
  <1>7. \A n \in mineP : p[n] = q[f[n]]
    BY <1>2, <1>4
  <1> HIDE DEF mine, mineP
  <1>8. CASE mineP = {}
    <2>1. mine = {} /\ flag
      BY <1>3, <1>6, <1>8
    <2> QED
      BY <2>1 DEF Settled, mine
  <1>9. CASE mineP # {}
    <2>1. PICK n \in mineP : p[n].running /\ \A k \in mineP : k <= n
      BY <1>3, <1>9
    <2>2. f[n] \in mine /\ q[f[n]].running
      BY <1>5, <1>7, <2>1
    <2>3. \A j \in mine : j <= f[n]
      BY <1>2, <1>5, <1>6, <2>1
    <2>4. \E i \in mine : q[i].running /\ \A j \in mine : j <= i
      BY <2>2, <2>3
    <2> QED
      BY <2>2, <2>4 DEF Settled, mine
  <1> QED
    BY <1>8, <1>9

\* Without an invocation in the queue the flag is settled as it is.
LEMMA SettledNone ==
    ASSUME NEW q \in Seq(Events), NEW m, NEW kind, NEW flag,
           \A i \in DOMAIN q : q[i].to # m, Settled(q, m, kind, flag)
    PROVE  flag
  BY DEF Settled

-----------------------------------------------------------------------------
(* Posting.                                                                *)

\* What an invocation carries.
LEMMA EventFacts ==
    ASSUME NEW e \in Events
    PROVE  /\ e.to \in Managers
           /\ e.kind \in {"resolved", "removed", "browser", "publisher"}
           /\ e.kind \in {"resolved", "removed"} => e.service \in Services
           /\ e.kind \in {"browser", "publisher"} => e.running \in BOOLEAN
  BY DEF Events

\* The on...JNI() functions queue nothing, or an invocation for a live object
\* at the address the Java object holds.
LEMMA PostFacts ==
    ASSUME IInv, Len(events) < MaxEvents, NEW m \in Managers,
           NEW ev \in Events, Post(m, ev)
    PROVE  /\ events' \in Seq(Events) /\ Len(events') <= MaxEvents
           /\ \/ /\ events' = events
                 /\ \A n \in Managers : object[n] = "live" => id[n] # id[m]
              \/ \E n \in Managers, e \in Events :
                    /\ object[n] = "live" /\ id[n] = id[m]
                    /\ e.to = n /\ e.kind = ev.kind
                    /\ ev.kind \in {"browser", "publisher"} => e.running = ev.running
                    /\ events' = Append(events, e)
  <1>0. events \in Seq(Events) /\ Len(events) \in Nat /\ MaxEvents \in Nat
    BY AndroidAssumption DEF IInv, TypeOK
  <1>1. CASE Instance(m) = {}
    BY <1>0, <1>1 DEF Post, Instance
  <1>2. CASE Instance(m) # {}
    <2>1. PICK n \in Instance(m) : events' = Append(events, [ev EXCEPT !.to = n])
      BY <1>2 DEF Post
    <2>2. n \in Managers /\ object[n] = "live" /\ id[n] = id[m]
      BY DEF Instance
    <2> DEFINE e == [ev EXCEPT !.to = n]
    <2>3. /\ e \in Events /\ e.to = n /\ e.kind = ev.kind
          /\ ev.kind \in {"browser", "publisher"} => e.running = ev.running
      BY <2>2 DEF Events
    <2> HIDE DEF e
    <2>4. events' \in Seq(Events) /\ Len(events') <= MaxEvents
      BY <1>0, <2>1, <2>3 DEF e
    <2> QED
      BY <2>1, <2>2, <2>3, <2>4 DEF e
  <1> QED
    BY <1>1, <1>2

LEMMA PostLive ==
    ASSUME IInv, Len(events) < MaxEvents, NEW m \in Managers,
           NEW ev \in Events, Post(m, ev), UNCHANGED object
    PROVE  EventsForLiveObjects'
  <1>0. events \in Seq(Events)
    BY DEF IInv, TypeOK
  <1>1. CASE events' = events
    BY <1>1 DEF IInv, EventsForLiveObjects
  <1>2. CASE \E e \in Events : object[e.to] = "live" /\ events' = Append(events, e)
    BY <1>0, <1>2 DEF IInv, EventsForLiveObjects
  <1> QED
    BY <1>1, <1>2, PostFacts

\* What posting does to the flags of an object whose address is its own.
LEMMA PostSettled ==
    ASSUME IInv, Len(events) < MaxEvents, NEW m \in Managers,
           NEW ev \in Events, Post(m, ev),
           NEW x \in Managers, object[x] = "live",
           \A n \in Managers \ {x} : id[n] # id[x],
           NEW kind \in {"browser", "publisher"}, NEW flag,
           Settled(events', x, kind, flag)
    PROVE  \/ Settled(events, x, kind, flag) /\ ~(x = m /\ ev.kind = kind)
           \/ x = m /\ ev.kind = kind /\ ev.running
  <1>0. events \in Seq(Events)
    BY DEF IInv, TypeOK
  <1>1. CASE events' = events /\ \A n \in Managers : object[n] = "live" => id[n] # id[m]
    BY <1>1
  <1>2. ASSUME NEW n \in Managers, NEW e \in Events,
               object[n] = "live", id[n] = id[m], e.to = n, e.kind = ev.kind,
               ev.kind \in {"browser", "publisher"} => e.running = ev.running,
               events' = Append(events, e)
        PROVE  \/ Settled(events, x, kind, flag) /\ ~(x = m /\ ev.kind = kind)
               \/ x = m /\ ev.kind = kind /\ ev.running
    <2>1. IF e.to = x /\ e.kind = kind THEN e.running ELSE Settled(events, x, kind, flag)
      BY <1>0, <1>2, SettledAppend
    <2>2. x = m => n = x
      BY <1>2
    <2>3. n = x => m = x
      BY <1>2
    <2>4. CASE n = x /\ ev.kind = kind
      BY <1>2, <2>1, <2>3, <2>4
    <2>5. CASE ~(n = x /\ ev.kind = kind)
      BY <1>2, <2>1, <2>2, <2>5
    <2> QED
      BY <2>4, <2>5
  <1> QED
    BY <1>1, <1>2, PostFacts

-----------------------------------------------------------------------------
(* The resolver queue.                                                     *)

LEMMA ResolvingFacts ==
    ASSUME IInv
    PROVE  /\ pendingResolve = None <=> resolving = {}
           /\ \A c \in resolving : resolving = {c} /\ c[2] = pendingResolve
  <1>1. \A c \in resolving : c[2] = pendingResolve /\ c[2] \in Services
    BY DEF IInv, TypeOK, OneResolveAtATime
  <1>2. pendingResolve = None <=> resolving = {}
    BY <1>1, AndroidAssumption DEF IInv, OneResolveAtATime
  <1>3. ASSUME NEW c \in resolving PROVE resolving = {c}
    <2>1. Cardinality(resolving) \in Nat /\ Cardinality(resolving) # 0
      BY <1>3, FS_CardinalityType, FS_EmptySet DEF IInv
    <2>2. Cardinality(resolving) = 1
      BY <2>1 DEF IInv, OneResolveAtATime
    <2>3. PICK d : resolving = {d}
      BY <2>2, FS_Singleton DEF IInv
    <2> QED
      BY <1>3, <2>3
  <1> QED
    BY <1>1, <1>2, <1>3

\* What the resolver variables look like after processResolverQueue().
LEMMA ResolveStep ==
    ASSUME NEW m \in Managers, NEW queue \in Seq(Services),
           Len(queue) <= MaxQueue \/ (queue # <<>> /\ Len(queue) <= MaxQueue + 1),
           \/ /\ queue = <<>> /\ resolverQueue' = queue
              /\ pendingResolve' = None /\ resolving' = {}
           \/ /\ queue # <<>> /\ resolverQueue' = Tail(queue)
              /\ pendingResolve' = Head(queue) /\ resolving' = {<<m, Head(queue)>>}
    PROVE  /\ resolverQueue' \in Seq(Services) /\ Len(resolverQueue') <= MaxQueue
           /\ pendingResolve' \in Services \cup {None}
           /\ resolving' \in SUBSET (Managers \X Services)
           /\ IsFiniteSet(resolving)' /\ OneResolveAtATime'
  <1> USE AndroidAssumption
  <1>1. CASE queue = <<>>
    <2>1. /\ resolverQueue' = <<>> /\ pendingResolve' = None /\ resolving' = {}
      BY <1>1
    <2>2. Cardinality(resolving') = 0 /\ IsFiniteSet(resolving')
      BY <2>1, FS_EmptySet
    <2> QED
      BY <2>1, <2>2 DEF OneResolveAtATime
  <1>2. CASE queue # <<>>
    <2>1. /\ resolverQueue' = Tail(queue) /\ pendingResolve' = Head(queue)
          /\ resolving' = {<<m, Head(queue)>>}
      BY <1>2
    <2>2. Head(queue) \in Services /\ Tail(queue) \in Seq(Services)
          /\ Len(Tail(queue)) <= MaxQueue
      BY <1>2
    <2>3. Cardinality(resolving') = 1 /\ IsFiniteSet(resolving')
      BY <2>1, FS_Singleton
    <2>4. OneResolveAtATime'
      BY <2>1, <2>3 DEF OneResolveAtATime
    <2> QED
      BY <2>1, <2>2, <2>3, <2>4
  <1> QED
    BY <1>1, <1>2

\* A service that is found is queued, and resolved if nothing else is.
LEMMA FoundResolve ==
    ASSUME IInv, NEW m \in Managers, NEW s \in Services, Len(resolverQueue) < MaxQueue,
           ProcessResolverQueue(m, Append(resolverQueue, s), pendingResolve)
    PROVE  /\ resolverQueue' \in Seq(Services) /\ Len(resolverQueue') <= MaxQueue
           /\ pendingResolve' \in Services \cup {None}
           /\ resolving' \in SUBSET (Managers \X Services)
           /\ IsFiniteSet(resolving)' /\ OneResolveAtATime'
  <1> DEFINE queue == Append(resolverQueue, s)
  <1>0. resolverQueue \in Seq(Services) /\ Len(resolverQueue) \in Nat /\ MaxQueue \in Nat
    BY AndroidAssumption DEF IInv, TypeOK
  <1>1. queue \in Seq(Services) /\ Len(queue) <= MaxQueue /\ queue # <<>>
    <2>1. queue \in Seq(Services) /\ Len(queue) = Len(resolverQueue) + 1
      BY <1>0
    <2> HIDE DEF queue
    <2>2. queue # <<>>
      BY <1>0, <2>1
    <2> QED
      BY <1>0, <2>1, <2>2
  <1> HIDE DEF queue
  <1>2. CASE pendingResolve = None
    <2>1. /\ resolverQueue' = Tail(queue) /\ pendingResolve' = Head(queue)
          /\ resolving' = {<<m, Head(queue)>>}
      BY <1>1, <1>2, ResolvingFacts DEF ProcessResolverQueue, queue
    <2> QED
      BY <1>1, <2>1, ResolveStep
  <1>3. CASE pendingResolve # None
    <2>1. resolverQueue' = queue /\ UNCHANGED <<pendingResolve, resolving>>
      BY <1>1, <1>3 DEF ProcessResolverQueue, queue
    <2> QED
      BY <1>1, <2>1 DEF IInv, TypeOK, OneResolveAtATime
  <1> QED
    BY <1>2, <1>3

\* An answered resolve makes room for the next, a failed one queued again
\* included.
LEMMA AnswerResolve ==
    ASSUME IInv, NEW m \in Managers, NEW s \in Services, <<m, s>> \in resolving,
           NEW queue \in {resolverQueue, Append(resolverQueue, pendingResolve)},
           AnswerAndProcess(m, s, queue)
    PROVE  /\ resolverQueue' \in Seq(Services) /\ Len(resolverQueue') <= MaxQueue
           /\ pendingResolve' \in Services \cup {None}
           /\ resolving' \in SUBSET (Managers \X Services)
           /\ IsFiniteSet(resolving)' /\ OneResolveAtATime'
  <1>1. resolving \ {<<m, s>>} = {} /\ pendingResolve = s
    BY ResolvingFacts
  <1>2. /\ queue \in Seq(Services)
        /\ Len(queue) <= MaxQueue \/ (queue # <<>> /\ Len(queue) <= MaxQueue + 1)
    <2>0. /\ resolverQueue \in Seq(Services) /\ Len(resolverQueue) \in Nat
          /\ MaxQueue \in Nat /\ Len(resolverQueue) <= MaxQueue
      BY AndroidAssumption DEF IInv, TypeOK
    <2>1. CASE queue = resolverQueue
      BY <2>0, <2>1
    <2>2. CASE queue = Append(resolverQueue, pendingResolve)
      <3>1. queue \in Seq(Services) /\ Len(queue) = Len(resolverQueue) + 1
        BY <1>1, <2>0, <2>2
      <3>2. queue # <<>>
        BY <2>0, <3>1
      <3> QED
        BY <2>0, <3>1, <3>2
    <2> QED
      BY <2>1, <2>2
  <1>3. \/ /\ queue = <<>> /\ resolverQueue' = queue
           /\ pendingResolve' = None /\ resolving' = {}
        \/ /\ queue # <<>> /\ resolverQueue' = Tail(queue)
           /\ pendingResolve' = Head(queue) /\ resolving' = {<<m, Head(queue)>>}
    BY <1>1 DEF AnswerAndProcess
  <1> QED
    BY <1>2, <1>3, ResolveStep

-----------------------------------------------------------------------------
(* The flags.                                                              *)

\* A step that posts keeps the flags honest if a listener that goes down is
\* reported, and one that is reported running is up.
LEMMA PostFlags ==
    ASSUME IInv, Len(events) < MaxEvents, NEW m \in Managers,
           NEW ev \in Events, Post(m, ev),
           UNCHANGED <<object, id, browserExists, publisherExists>>,
           \A x \in Managers :
              IF x = m /\ ev.kind = "browser"
              THEN ev.running => discovery'[x] \in {"on", "stopping"}
              ELSE discovery[x] \in {"on", "stopping"} => discovery'[x] \in {"on", "stopping"},
           \A x \in Managers :
              IF x = m /\ ev.kind = "publisher"
              THEN ev.running => registration'[x] \in {"on", "stopping"}
              ELSE registration[x] \in {"on", "stopping"} => registration'[x] \in {"on", "stopping"}
    PROVE  FlagsAreHonest'
  <1> SUFFICES ASSUME NEW x \in Managers, object[x] = "live",
                      \A n \in Managers \ {x} : id[n] # id[x]
               PROVE  /\ Settled(events', x, "browser", browserExists[x]) =>
                            discovery'[x] \in {"on", "stopping"}
                      /\ Settled(events', x, "publisher", publisherExists[x]) =>
                            registration'[x] \in {"on", "stopping"}
    BY DEF FlagsAreHonest
  <1>0. /\ Settled(events, x, "browser", browserExists[x]) => discovery[x] \in {"on", "stopping"}
        /\ Settled(events, x, "publisher", publisherExists[x]) =>
              registration[x] \in {"on", "stopping"}
    BY DEF IInv, FlagsAreHonest
  <1>1. ASSUME Settled(events', x, "browser", browserExists[x])
        PROVE  discovery'[x] \in {"on", "stopping"}
    <2>1. \/ Settled(events, x, "browser", browserExists[x]) /\ ~(x = m /\ ev.kind = "browser")
          \/ x = m /\ ev.kind = "browser" /\ ev.running
      BY <1>1, PostSettled
    <2> QED
      BY <1>0, <2>1
  <1>2. ASSUME Settled(events', x, "publisher", publisherExists[x])
        PROVE  registration'[x] \in {"on", "stopping"}
    <2>1. \/ /\ Settled(events, x, "publisher", publisherExists[x])
             /\ ~(x = m /\ ev.kind = "publisher")
          \/ x = m /\ ev.kind = "publisher" /\ ev.running
      BY <1>2, PostSettled
    <2> QED
      BY <1>0, <2>1
  <1> QED
    BY <1>1, <1>2

\* A step that posts nothing keeps them honest if no listener goes down.
LEMMA QuietFlags ==
    ASSUME IInv, UNCHANGED <<object, id, events, browserExists, publisherExists>>,
           \A x \in Managers :
              /\ discovery[x] \in {"on", "stopping"} => discovery'[x] \in {"on", "stopping"}
              /\ registration[x] \in {"on", "stopping"} => registration'[x] \in {"on", "stopping"}
    PROVE  FlagsAreHonest'
  BY DEF IInv, FlagsAreHonest

-----------------------------------------------------------------------------
(* NsdManager's thread.                                                    *)

LEMMA ServiceFoundInv ==
    ASSUME IInv, NEW m \in Managers, NEW s \in Services, ServiceFound(m, s)
    PROVE  IInv'
  <1>1. /\ resolverQueue' \in Seq(Services) /\ Len(resolverQueue') <= MaxQueue
        /\ pendingResolve' \in Services \cup {None}
        /\ resolving' \in SUBSET (Managers \X Services)
        /\ IsFiniteSet(resolving)' /\ OneResolveAtATime'
    BY FoundResolve DEF ServiceFound
  <1>2. found' \in [Managers -> SUBSET Services]
    BY DEF ServiceFound, IInv, TypeOK
  <1>3. UNCHANGED <<object, id, tasks, events, discovery, registration, services, app,
                    browserExists, publisherExists, fault>>
    BY DEF ServiceFound, qtVars
  <1>4. FlagsAreHonest'
    BY <1>3, QuietFlags
  <1>5. TypeOK'
    BY <1>1, <1>2, <1>3 DEF IInv, TypeOK
  <1> QED
    BY <1>1, <1>3, <1>4, <1>5
    DEF IInv, ObjectInv, EventsForLiveObjects, ViewMatchesServices

LEMMA ServiceLostInv ==
    ASSUME IInv, NEW m \in Managers, NEW s \in Services, ServiceLost(m, s)
    PROVE  IInv'
  <1> DEFINE ev == [to |-> m, kind |-> "removed", service |-> s]
  <1>1. ev \in Events /\ ev.kind = "removed"
    BY DEF Events
  <1>2. Post(m, ev) /\ Len(events) < MaxEvents
    BY DEF ServiceLost, NsdTurn
  <1> HIDE DEF ev
  <1>3. UNCHANGED <<object, id, tasks, discovery, registration, resolverQueue,
                    pendingResolve, resolving, services, app,
                    browserExists, publisherExists, fault>>
    BY DEF ServiceLost, qtVars, resolveVars
  <1>4. found' \in [Managers -> SUBSET Services]
    BY DEF ServiceLost, IInv, TypeOK
  <1>5. events' \in Seq(Events) /\ Len(events') <= MaxEvents
    BY <1>1, <1>2, PostFacts
  <1>6. EventsForLiveObjects'
    BY <1>1, <1>2, <1>3, PostLive
  <1>7. FlagsAreHonest'
    BY <1>1, <1>2, <1>3, PostFlags
  <1>8. TypeOK'
    BY <1>3, <1>4, <1>5 DEF IInv, TypeOK
  <1> QED
    BY <1>3, <1>6, <1>7, <1>8
    DEF IInv, ObjectInv, ViewMatchesServices, OneResolveAtATime

LEMMA ResolveFailedInv ==
    ASSUME IInv, NEW m \in Managers, NEW s \in Services, NEW active \in BOOLEAN,
           ResolveFailed(m, s, active)
    PROVE  IInv'
  <1>1. /\ resolverQueue' \in Seq(Services) /\ Len(resolverQueue') <= MaxQueue
        /\ pendingResolve' \in Services \cup {None}
        /\ resolving' \in SUBSET (Managers \X Services)
        /\ IsFiniteSet(resolving)' /\ OneResolveAtATime'
    BY AnswerResolve DEF ResolveFailed
  <1>2. UNCHANGED <<object, id, tasks, events, discovery, registration, found, services,
                    app, browserExists, publisherExists, fault>>
    BY DEF ResolveFailed, qtVars, nsdVars
  <1>3. FlagsAreHonest'
    BY <1>2, QuietFlags
  <1>4. TypeOK'
    BY <1>1, <1>2 DEF IInv, TypeOK
  <1> QED
    BY <1>1, <1>2, <1>3, <1>4
    DEF IInv, ObjectInv, EventsForLiveObjects, ViewMatchesServices

LEMMA ServiceResolvedInv ==
    ASSUME IInv, NEW m \in Managers, NEW s \in Services, ServiceResolved(m, s)
    PROVE  IInv'
  <1> DEFINE ev == [to |-> m, kind |-> "resolved", service |-> s]
  <1>1. ev \in Events /\ ev.kind = "resolved"
    BY DEF Events
  <1>2. Post(m, ev) /\ Len(events) < MaxEvents
    BY DEF ServiceResolved, NsdTurn
  <1> HIDE DEF ev
  <1>3. /\ resolverQueue' \in Seq(Services) /\ Len(resolverQueue') <= MaxQueue
        /\ pendingResolve' \in Services \cup {None}
        /\ resolving' \in SUBSET (Managers \X Services)
        /\ IsFiniteSet(resolving)' /\ OneResolveAtATime'
    BY AnswerResolve DEF ServiceResolved
  <1>4. UNCHANGED <<object, id, tasks, discovery, registration, found, services,
                    app, browserExists, publisherExists, fault>>
    BY DEF ServiceResolved, qtVars, nsdVars
  <1>5. events' \in Seq(Events) /\ Len(events') <= MaxEvents
    BY <1>1, <1>2, PostFacts
  <1>6. EventsForLiveObjects'
    BY <1>1, <1>2, <1>4, PostLive
  <1>7. FlagsAreHonest'
    BY <1>1, <1>2, <1>4, PostFlags
  <1>8. TypeOK'
    BY <1>3, <1>4, <1>5 DEF IInv, TypeOK
  <1> QED
    BY <1>3, <1>4, <1>6, <1>7, <1>8 DEF IInv, ObjectInv, ViewMatchesServices

\* An answer moves a waiting listener on, and up exactly if it says running.
LEMMA AnsweredFacts ==
    ASSUME NEW state \in {"starting", "cancelled", "stopping"}, NEW ok \in BOOLEAN
    PROVE  /\ Answered(state, ok) \in ListenerStates
           /\ Running(state, ok) \in BOOLEAN
           /\ Running(state, ok) => Answered(state, ok) \in {"on", "stopping"}
  BY DEF Answered, Running, ListenerStates

LEMMA DiscoveryAnswerInv ==
    ASSUME IInv, NEW m \in Managers, NEW ok \in BOOLEAN, DiscoveryAnswer(m, ok)
    PROVE  IInv'
  <1> DEFINE run == Running(discovery[m], ok)
             ev == [to |-> m, kind |-> "browser", running |-> run]
  <1>0. discovery[m] \in {"starting", "cancelled", "stopping"}
    BY DEF DiscoveryAnswer, IInv, TypeOK, ListenerStates
  <1>1. /\ discovery' = [discovery EXCEPT ![m] = Answered(discovery[m], ok)]
        /\ Answered(discovery[m], ok) \in ListenerStates /\ run \in BOOLEAN
        /\ run => Answered(discovery[m], ok) \in {"on", "stopping"}
    BY <1>0, AnsweredFacts DEF DiscoveryAnswer
  <1> HIDE DEF run
  <1>2. ev \in Events /\ ev.kind = "browser" /\ ev.running = run
    BY <1>1 DEF Events
  <1>3. Post(m, ev) /\ Len(events) < MaxEvents
    BY DEF DiscoveryAnswer, BrowserState, NsdTurn, run
  <1> HIDE DEF ev
  <1>4. UNCHANGED <<object, id, tasks, registration, resolverQueue, pendingResolve,
                    resolving, services, app, browserExists, publisherExists, fault>>
    BY DEF DiscoveryAnswer, qtVars, resolveVars
  <1>5. /\ discovery' \in [Managers -> ListenerStates]
        /\ found' \in [Managers -> SUBSET Services]
    BY <1>1 DEF DiscoveryAnswer, IInv, TypeOK
  <1>6. \A x \in Managers : discovery'[x] = IF x = m THEN Answered(discovery[m], ok)
                                                      ELSE discovery[x]
    BY <1>1 DEF IInv, TypeOK
  <1>7. events' \in Seq(Events) /\ Len(events') <= MaxEvents
    BY <1>2, <1>3, PostFacts
  <1>8. EventsForLiveObjects'
    BY <1>2, <1>3, <1>4, PostLive
  <1>9. FlagsAreHonest'
    <2>1. \A x \in Managers :
            /\ IF x = m /\ ev.kind = "browser"
               THEN ev.running => discovery'[x] \in {"on", "stopping"}
               ELSE discovery[x] \in {"on", "stopping"} => discovery'[x] \in {"on", "stopping"}
            /\ ~(x = m /\ ev.kind = "publisher") /\ registration'[x] = registration[x]
      BY <1>1, <1>2, <1>4, <1>6
    <2> QED
      BY <1>2, <1>3, <1>4, <2>1, PostFlags
  <1>10. TypeOK'
    BY <1>4, <1>5, <1>7 DEF IInv, TypeOK
  <1> QED
    BY <1>4, <1>8, <1>9, <1>10
    DEF IInv, ObjectInv, ViewMatchesServices, OneResolveAtATime

LEMMA RegistrationAnswerInv ==
    ASSUME IInv, NEW m \in Managers, NEW ok \in BOOLEAN, RegistrationAnswer(m, ok)
    PROVE  IInv'
  <1> DEFINE run == Running(registration[m], ok)
             ev == [to |-> m, kind |-> "publisher", running |-> run]
  <1>0. registration[m] \in {"starting", "cancelled", "stopping"}
    BY DEF RegistrationAnswer, IInv, TypeOK, ListenerStates
  <1>1. /\ registration' = [registration EXCEPT ![m] = Answered(registration[m], ok)]
        /\ Answered(registration[m], ok) \in ListenerStates /\ run \in BOOLEAN
        /\ run => Answered(registration[m], ok) \in {"on", "stopping"}
    BY <1>0, AnsweredFacts DEF RegistrationAnswer
  <1> HIDE DEF run
  <1>2. ev \in Events /\ ev.kind = "publisher" /\ ev.running = run
    BY <1>1 DEF Events
  <1>3. Post(m, ev) /\ Len(events) < MaxEvents
    BY DEF RegistrationAnswer, PublisherState, NsdTurn, run
  <1> HIDE DEF ev
  <1>4. UNCHANGED <<object, id, tasks, discovery, found, resolverQueue, pendingResolve,
                    resolving, services, app, browserExists, publisherExists, fault>>
    BY DEF RegistrationAnswer, qtVars, resolveVars
  <1>5. registration' \in [Managers -> ListenerStates]
    BY <1>1 DEF IInv, TypeOK
  <1>6. \A x \in Managers : registration'[x] = IF x = m THEN Answered(registration[m], ok)
                                                         ELSE registration[x]
    BY <1>1 DEF IInv, TypeOK
  <1>7. events' \in Seq(Events) /\ Len(events') <= MaxEvents
    BY <1>2, <1>3, PostFacts
  <1>8. EventsForLiveObjects'
    BY <1>2, <1>3, <1>4, PostLive
  <1>9. FlagsAreHonest'
    <2>1. \A x \in Managers :
            /\ IF x = m /\ ev.kind = "publisher"
               THEN ev.running => registration'[x] \in {"on", "stopping"}
               ELSE registration[x] \in {"on", "stopping"} =>
                        registration'[x] \in {"on", "stopping"}
            /\ ~(x = m /\ ev.kind = "browser") /\ discovery'[x] = discovery[x]
      BY <1>1, <1>2, <1>4, <1>6
    <2> QED
      BY <1>2, <1>3, <1>4, <2>1, PostFlags
  <1>10. TypeOK'
    BY <1>4, <1>5, <1>7 DEF IInv, TypeOK
  <1> QED
    BY <1>4, <1>8, <1>9, <1>10
    DEF IInv, ObjectInv, ViewMatchesServices, OneResolveAtATime

-----------------------------------------------------------------------------
(* The Java calls.                                                         *)

\* Asking for a start or a stop takes no listener down at once.
LEMMA AskedFacts ==
    ASSUME NEW state \in ListenerStates
    PROVE  /\ Started(state) \in ListenerStates /\ Stopped(state) \in ListenerStates
           /\ state \in {"on", "stopping"} =>
                /\ Started(state) \in {"on", "stopping"}
                /\ Stopped(state) \in {"on", "stopping"}
  BY DEF Started, Stopped, ListenerStates

LEMMA AskedState ==
    ASSUME NEW f \in [Managers -> ListenerStates], NEW m \in Managers, NEW g,
           g = [f EXCEPT ![m] = Started(@)] \/ g = [f EXCEPT ![m] = Stopped(@)]
    PROVE  /\ g \in [Managers -> ListenerStates]
           /\ \A x \in Managers : f[x] \in {"on", "stopping"} => g[x] \in {"on", "stopping"}
  BY AskedFacts

\* A Java call keeps what the invariant says of the queue and the listeners.
LEMMA CallFacts ==
    ASSUME IInv, NEW m \in Managers, NEW op \in Operations, Call(m, op),
           op = "register" => Len(events) < MaxEvents,
           UNCHANGED <<object, id, browserExists, publisherExists>>
    PROVE  /\ events' \in Seq(Events) /\ Len(events') <= MaxEvents
           /\ discovery' \in [Managers -> ListenerStates]
           /\ registration' \in [Managers -> ListenerStates]
           /\ EventsForLiveObjects' /\ FlagsAreHonest' /\ fault' = fault
  <1>0. /\ discovery \in [Managers -> ListenerStates]
        /\ registration \in [Managers -> ListenerStates]
        /\ events \in Seq(Events) /\ Len(events) <= MaxEvents
    BY DEF IInv, TypeOK
  <1>1. /\ discovery' \in [Managers -> ListenerStates]
        /\ registration' \in [Managers -> ListenerStates]
        /\ \A x \in Managers :
              /\ discovery[x] \in {"on", "stopping"} => discovery'[x] \in {"on", "stopping"}
              /\ registration[x] \in {"on", "stopping"} =>
                    registration'[x] \in {"on", "stopping"}
        /\ fault' = fault
    <2>1. CASE op \in {"unregister", "register"}
      <3>1. /\ discovery' = discovery /\ fault' = fault
            /\ \/ registration' = [registration EXCEPT ![m] = Started(@)]
               \/ registration' = [registration EXCEPT ![m] = Stopped(@)]
        BY <2>1 DEF Call, RegisterService
      <3> QED
        BY <1>0, <3>1, AskedState
    <2>2. CASE op \in {"discover", "stopDiscovery"}
      <3>1. /\ registration' = registration /\ fault' = fault
            /\ \/ discovery' = [discovery EXCEPT ![m] = Started(@)]
               \/ discovery' = [discovery EXCEPT ![m] = Stopped(@)]
        BY <2>2 DEF Call
      <3> QED
        BY <1>0, <3>1, AskedState
    <2> QED
      BY <2>1, <2>2 DEF Operations
  <1>2. CASE events' = events
    BY <1>0, <1>1, <1>2, QuietFlags DEF IInv, EventsForLiveObjects
  <1>3. CASE op = "register" /\ registration[m] # "off"
    <2> DEFINE ev == [to |-> m, kind |-> "publisher", running |-> FALSE]
    <2>1. ev \in Events /\ ev.kind = "publisher" /\ ev.running = FALSE
      BY DEF Events
    <2>2. Post(m, ev) /\ Len(events) < MaxEvents
      BY <1>3 DEF Call, RegisterService, PublisherState
    <2> HIDE DEF ev
    <2>3. events' \in Seq(Events) /\ Len(events') <= MaxEvents
      BY <2>1, <2>2, PostFacts
    <2>4. EventsForLiveObjects'
      BY <2>1, <2>2, PostLive
    <2>5. FlagsAreHonest'
      BY <1>1, <2>1, <2>2, PostFlags
    <2> QED
      BY <1>1, <2>3, <2>4, <2>5
  <1>4. events' = events \/ (op = "register" /\ registration[m] # "off")
    BY DEF Call, RegisterService, Operations
  <1> QED
    BY <1>2, <1>3, <1>4

LEMMA RunTaskInv ==
    ASSUME IInv, RunTask
    PROVE  IInv'
  <1> DEFINE m == Head(tasks).manager
             op == Head(tasks).op
  <1>1. /\ tasks \in Seq([manager : Managers, op : Operations]) /\ tasks # <<>>
        /\ Len(tasks) <= MaxTasks /\ MaxTasks \in Nat
    BY AndroidAssumption DEF RunTask, IInv, TypeOK
  <1>2. m \in Managers /\ op \in Operations
    <2> DEFINE T == [manager : Managers, op : Operations]
    <2>0. tasks \in Seq(T)
      BY <1>1
    <2> HIDE DEF T
    <2>1. Head(tasks) \in T
      BY <1>1, <2>0
    <2> USE DEF T
    <2> QED
      BY <2>1
  <1>3. tasks' \in Seq([manager : Managers, op : Operations]) /\ Len(tasks') <= MaxTasks
    BY <1>1 DEF RunTask
  <1>4. UNCHANGED <<object, id, found, resolverQueue, pendingResolve, resolving,
                    services, app, browserExists, publisherExists>>
    BY DEF RunTask, qtVars, resolveVars
  <1>5. /\ events' \in Seq(Events) /\ Len(events') <= MaxEvents
        /\ discovery' \in [Managers -> ListenerStates]
        /\ registration' \in [Managers -> ListenerStates]
        /\ EventsForLiveObjects' /\ FlagsAreHonest' /\ fault' \in BOOLEAN
    <2>1. CASE op = "register" /\ object[m] = "deleted"
      <3>1. UNCHANGED <<events, discovery, registration>> /\ fault' = TRUE
        BY <2>1 DEF RunTask
      <3> QED
        BY <1>4, <3>1, QuietFlags DEF IInv, TypeOK, EventsForLiveObjects
    <2>2. CASE ~(op = "register" /\ object[m] = "deleted")
      <3>1. Call(m, op) /\ Len(events) < MaxEvents
        BY <2>2 DEF RunTask, NsdTurn
      <3> HIDE DEF m, op
      <3> QED
        BY <1>2, <1>4, <3>1, CallFacts DEF IInv, TypeOK
    <2> QED
      BY <2>1, <2>2
  <1>6. TypeOK'
    BY <1>3, <1>4, <1>5 DEF IInv, TypeOK
  <1> QED
    BY <1>4, <1>5, <1>6 DEF IInv, ObjectInv, ViewMatchesServices, OneResolveAtATime

LEMMA CallSuspendedInv ==
    ASSUME IInv, NEW m \in Managers, NEW op \in Operations, CallSuspended(m, op)
    PROVE  IInv'
  <1>1. UNCHANGED <<object, id, tasks, found, resolverQueue, pendingResolve, resolving,
                    services, app, browserExists, publisherExists>>
    BY DEF CallSuspended, qtVars, resolveVars
  <1>2. Call(m, op) /\ op # "register"
    BY DEF CallSuspended
  <1>3. /\ events' \in Seq(Events) /\ Len(events') <= MaxEvents
        /\ discovery' \in [Managers -> ListenerStates]
        /\ registration' \in [Managers -> ListenerStates]
        /\ EventsForLiveObjects' /\ FlagsAreHonest' /\ fault' = fault
    BY <1>1, <1>2, CallFacts
  <1>4. TypeOK'
    BY <1>1, <1>3 DEF IInv, TypeOK
  <1> QED
    BY <1>1, <1>3, <1>4 DEF IInv, ObjectInv, ViewMatchesServices, OneResolveAtATime

-----------------------------------------------------------------------------
(* The Qt thread.                                                          *)

\* A new object has no invocation queued for it and its flags are down; that
\* it takes an address makes no other address unique.
LEMMA CreateInv ==
    ASSUME IInv, NEW m \in Managers, NEW p \in Pointers, Create(m, p)
    PROVE  IInv'
  <1>1. /\ object[m] = "none" /\ id[m] = None /\ p # None
        /\ object' = [object EXCEPT ![m] = "live"] /\ id' = [id EXCEPT ![m] = p]
        /\ UNCHANGED <<tasks, events, discovery, registration, found, resolverQueue,
                       pendingResolve, resolving, services, app, browserExists,
                       publisherExists, fault>>
    BY AndroidAssumption DEF Create, IInv, ObjectInv, nsdVars, resolveVars, qtVars
  <1>2. /\ object \in [Managers -> {"none", "live", "deleted"}]
        /\ id \in [Managers -> Pointers \cup {None}] /\ events \in Seq(Events)
    BY DEF IInv, TypeOK
  <1>3. \A x \in Managers : IF x = m THEN object'[x] = "live" /\ id'[x] = p
                             ELSE object'[x] = object[x] /\ id'[x] = id[x]
    BY <1>1, <1>2
  <1>4. TypeOK'
    BY <1>1, <1>2 DEF IInv, TypeOK
  <1>5. ObjectInv'
    BY <1>1, <1>3 DEF IInv, ObjectInv
  <1>6. \A i \in DOMAIN events : events[i].to \in Managers /\ events[i].to # m
    <2> SUFFICES ASSUME NEW i \in DOMAIN events
                 PROVE  events[i].to \in Managers /\ events[i].to # m
      OBVIOUS
    <2>1. events[i] \in Events
      BY <1>2
    <2>2. object[events[i].to] = "live"
      BY DEF IInv, EventsForLiveObjects
    <2> QED
      BY <1>1, <2>1, <2>2, EventFacts
  <1>7. EventsForLiveObjects'
    BY <1>1, <1>3, <1>6 DEF IInv, EventsForLiveObjects
  <1>8. FlagsAreHonest'
    <2> SUFFICES ASSUME NEW x \in Managers, object'[x] = "live",
                        \A n \in Managers \ {x} : id'[n] # id'[x]
                 PROVE  /\ Settled(events, x, "browser", browserExists[x]) =>
                              discovery[x] \in {"on", "stopping"}
                        /\ Settled(events, x, "publisher", publisherExists[x]) =>
                              registration[x] \in {"on", "stopping"}
      BY <1>1 DEF FlagsAreHonest
    <2>1. CASE x = m
      <3>1. ~browserExists[x] /\ ~publisherExists[x]
        BY <1>1, <2>1 DEF IInv, ObjectInv
      <3>2. ~Settled(events, x, "browser", browserExists[x])
        BY <1>2, <1>6, <2>1, <3>1, SettledNone
      <3>3. ~Settled(events, x, "publisher", publisherExists[x])
        BY <1>2, <1>6, <2>1, <3>1, SettledNone
      <3> QED
        BY <3>2, <3>3
    <2>2. CASE x # m
      <3>1. object[x] = "live" /\ id[x] # None /\ id'[x] = id[x]
        BY <1>3, <2>2 DEF IInv, ObjectInv
      <3>2. \A n \in Managers \ {x} : id[n] # id[x]
        BY <1>1, <1>3, <3>1
      <3> QED
        BY <3>1, <3>2 DEF IInv, FlagsAreHonest
    <2> QED
      BY <2>1, <2>2
  <1> QED
    BY <1>1, <1>4, <1>5, <1>7, <1>8
    DEF IInv, OneResolveAtATime, ViewMatchesServices

\* A deleted object takes its invocations with it, and no other object's.
LEMMA DeleteInv ==
    ASSUME IInv, NEW m \in Managers, Delete(m)
    PROVE  IInv'
  <1>1. /\ object[m] = "live" /\ object' = [object EXCEPT ![m] = "deleted"]
        /\ events' = Without(events, m)
        /\ services' = [services EXCEPT ![m] = {}]
        /\ app' = [app EXCEPT ![m] = [s \in Services |-> None]]
        /\ browserExists' = [browserExists EXCEPT ![m] = FALSE]
        /\ publisherExists' = [publisherExists EXCEPT ![m] = FALSE]
        /\ UNCHANGED <<id, tasks, discovery, registration, found, resolverQueue,
                       pendingResolve, resolving, fault>>
    BY DEF Delete, nsdVars, resolveVars
  <1>2. /\ object \in [Managers -> {"none", "live", "deleted"}]
        /\ events \in Seq(Events) /\ Len(events) \in Nat /\ Len(events) <= MaxEvents
        /\ MaxEvents \in Nat
        /\ services \in [Managers -> SUBSET Services]
        /\ app \in [Managers -> [Services -> {Addr, None}]]
        /\ browserExists \in [Managers -> BOOLEAN]
        /\ publisherExists \in [Managers -> BOOLEAN]
    BY AndroidAssumption DEF IInv, TypeOK
  <1>3. \A x \in Managers :
          IF x = m THEN /\ object'[x] = "deleted" /\ services'[x] = {}
                        /\ app'[x] = [s \in Services |-> None]
                        /\ browserExists'[x] = FALSE /\ publisherExists'[x] = FALSE
                   ELSE /\ object'[x] = object[x] /\ services'[x] = services[x]
                        /\ app'[x] = app[x] /\ browserExists'[x] = browserExists[x]
                        /\ publisherExists'[x] = publisherExists[x]
    BY <1>1, <1>2
  <1>4. events' \in Seq(Events) /\ Len(events') <= MaxEvents
    <2>1. Without(events, m) \in Seq(Events) /\ Len(Without(events, m)) <= Len(events)
      BY <1>2, WithoutFacts
    <2>2. Len(Without(events, m)) \in Nat
      BY <2>1
    <2> QED
      BY <1>1, <1>2, <2>1, <2>2
  <1>5. TypeOK'
    <2>1. /\ object' \in [Managers -> {"none", "live", "deleted"}]
          /\ services' \in [Managers -> SUBSET Services]
          /\ app' \in [Managers -> [Services -> {Addr, None}]]
          /\ browserExists' \in [Managers -> BOOLEAN]
          /\ publisherExists' \in [Managers -> BOOLEAN]
      BY <1>1, <1>2
    <2> QED
      BY <1>1, <1>4, <2>1 DEF IInv, TypeOK
  <1>6. ObjectInv'
    BY <1>1, <1>3 DEF IInv, ObjectInv
  <1>7. EventsForLiveObjects'
    <2> SUFFICES ASSUME NEW i \in DOMAIN events' PROVE object'[events'[i].to] = "live"
      BY DEF EventsForLiveObjects
    <2>1. i \in 1..Len(Without(events, m))
      BY <1>1, <1>4
    <2>2. PICK j \in 1..Len(events) : events'[i] = events[j] /\ events[j].to # m
      BY <1>1, <1>2, <2>1, WithoutFacts
    <2>3. events[j].to \in Managers /\ object[events[j].to] = "live"
      BY <1>2, EventFacts DEF IInv, EventsForLiveObjects
    <2> QED
      BY <1>3, <2>2, <2>3
  <1>8. ViewMatchesServices'
    BY <1>3 DEF IInv, ViewMatchesServices
  <1>9. FlagsAreHonest'
    <2> SUFFICES ASSUME NEW x \in Managers, object'[x] = "live",
                        \A n \in Managers \ {x} : id[n] # id[x]
                 PROVE  /\ Settled(events', x, "browser", browserExists'[x]) =>
                              discovery[x] \in {"on", "stopping"}
                        /\ Settled(events', x, "publisher", publisherExists'[x]) =>
                              registration[x] \in {"on", "stopping"}
      BY <1>1 DEF FlagsAreHonest
    <2>1. x # m /\ object[x] = "live"
      BY <1>3
    <2>2. /\ Settled(events, x, "browser", browserExists[x]) => discovery[x] \in {"on", "stopping"}
          /\ Settled(events, x, "publisher", publisherExists[x]) =>
                registration[x] \in {"on", "stopping"}
      BY <2>1 DEF IInv, FlagsAreHonest
    <2>3. Settled(events', x, "browser", browserExists'[x]) =>
            Settled(events, x, "browser", browserExists[x])
      BY <1>1, <1>2, <1>3, <2>1, SettledWithout
    <2>4. Settled(events', x, "publisher", publisherExists'[x]) =>
            Settled(events, x, "publisher", publisherExists[x])
      BY <1>1, <1>2, <1>3, <2>1, SettledWithout
    <2> QED
      BY <2>2, <2>3, <2>4
  <1> QED
    BY <1>1, <1>5, <1>6, <1>7, <1>8, <1>9 DEF IInv, OneResolveAtATime

LEMMA PostTaskInv ==
    ASSUME IInv, NEW m \in Managers, NEW op \in Operations, PostTask(m, op)
    PROVE  IInv'
  <1>1. /\ tasks' = Append(tasks, [manager |-> m, op |-> op]) /\ Len(tasks) < MaxTasks
        /\ UNCHANGED <<object, id, events, discovery, registration, found, resolverQueue,
                       pendingResolve, resolving, services, app, browserExists,
                       publisherExists, fault>>
    BY DEF PostTask, nsdVars, resolveVars, qtVars
  <1>2. tasks \in Seq([manager : Managers, op : Operations]) /\ MaxTasks \in Nat
    BY AndroidAssumption DEF IInv, TypeOK
  <1>3. tasks' \in Seq([manager : Managers, op : Operations]) /\ Len(tasks') <= MaxTasks
    BY <1>1, <1>2
  <1>4. TypeOK'
    BY <1>1, <1>3 DEF IInv, TypeOK
  <1>5. FlagsAreHonest'
    BY <1>1, QuietFlags
  <1> QED
    BY <1>1, <1>4, <1>5
    DEF IInv, ObjectInv, OneResolveAtATime, EventsForLiveObjects, ViewMatchesServices

\* What the signals do to the application's view, which they never contradict.
LEMMA ViewStep ==
    ASSUME IInv, NEW m \in Managers, NEW s \in Services,
           OnServiceResolved(m, s) \/ OnServiceRemoved(m, s)
    PROVE  /\ services' \in [Managers -> SUBSET Services]
           /\ app' \in [Managers -> [Services -> {Addr, None}]]
           /\ ViewMatchesServices'
  <1>1. /\ services \in [Managers -> SUBSET Services]
        /\ app \in [Managers -> [Services -> {Addr, None}]]
        /\ app[m] \in [Services -> {Addr, None}] /\ services[m] \in SUBSET Services
        /\ \A x \in Managers, t \in Services :
              app[x][t] = IF t \in services[x] THEN Addr ELSE None
        /\ Addr # None /\ Addr # Misused
    BY AndroidAssumption DEF IInv, TypeOK, ViewMatchesServices
  <1>2. CASE OnServiceResolved(m, s)
    <2> DEFINE v == [app[m] EXCEPT ![s] = Addr]
    <2>1. /\ services' = [services EXCEPT ![m] = services[m] \cup {s}]
          /\ app' = [app EXCEPT ![m] = v]
      <3>1. CASE s \in services[m]
        BY <1>1, <1>2, <3>1 DEF OnServiceResolved, ServiceUpdated
      <3>2. CASE s \notin services[m]
        BY <1>1, <1>2, <3>2 DEF OnServiceResolved, ServiceAdded
      <3> QED
        BY <3>1, <3>2
    <2>2. /\ v \in [Services -> {Addr, None}]
          /\ \A t \in Services : v[t] = IF t \in services[m] \cup {s} THEN Addr ELSE None
      BY <1>1
    <2> HIDE DEF v
    <2>3. \A x \in Managers :
            IF x = m THEN services'[x] = services[m] \cup {s} /\ app'[x] = v
                     ELSE services'[x] = services[x] /\ app'[x] = app[x]
      BY <1>1, <2>1
    <2>4. ViewMatchesServices'
      BY <1>1, <2>2, <2>3 DEF ViewMatchesServices
    <2> QED
      BY <1>1, <2>1, <2>2, <2>4
  <1>3. CASE OnServiceRemoved(m, s)
    <2> DEFINE v == [app[m] EXCEPT ![s] = None]
    <2>1. /\ services' = [services EXCEPT ![m] = services[m] \ {s}]
          /\ app' = [app EXCEPT ![m] = v]
      <3>1. CASE s \in services[m]
        BY <1>1, <1>3, <3>1 DEF OnServiceRemoved, ServiceRemoved
      <3>2. CASE s \notin services[m]
        <4>1. app[m] = v
          BY <1>1, <3>2
        <4> HIDE DEF v
        <4> QED
          BY <1>3, <3>2, <4>1 DEF OnServiceRemoved
      <3> QED
        BY <3>1, <3>2
    <2>2. /\ v \in [Services -> {Addr, None}]
          /\ \A t \in Services : v[t] = IF t \in services[m] \ {s} THEN Addr ELSE None
      BY <1>1
    <2> HIDE DEF v
    <2>3. \A x \in Managers :
            IF x = m THEN services'[x] = services[m] \ {s} /\ app'[x] = v
                     ELSE services'[x] = services[x] /\ app'[x] = app[x]
      BY <1>1, <2>1
    <2>4. ViewMatchesServices'
      BY <1>1, <2>2, <2>3 DEF ViewMatchesServices
    <2> QED
      BY <1>1, <2>1, <2>2, <2>4
  <1> QED
    BY <1>2, <1>3

LEMMA DeliverInv ==
    ASSUME IInv, Deliver
    PROVE  IInv'
  <1> DEFINE e == Head(events)
             m == e.to
  <1>0. /\ events \in Seq(Events) /\ events # <<>> /\ events' = Tail(events)
        /\ Len(events) \in Nat /\ Len(events) <= MaxEvents /\ MaxEvents \in Nat
    BY AndroidAssumption DEF Deliver, IInv, TypeOK
  <1>1. e \in Events /\ e = events[1] /\ 1 \in DOMAIN events
    BY <1>0
  <1> HIDE DEF e
  <1>2. /\ m \in Managers /\ object[m] = "live"
        /\ e.kind \in {"resolved", "removed"} => e.service \in Services
        /\ e.kind \in {"browser", "publisher"} => e.running \in BOOLEAN
    BY <1>1, EventFacts DEF IInv, EventsForLiveObjects
  <1>3. UNCHANGED <<object, id, tasks, discovery, registration, found, resolverQueue,
                    pendingResolve, resolving, fault>>
    BY DEF Deliver, nsdVars, resolveVars
  <1>4. /\ browserExists \in [Managers -> BOOLEAN] /\ publisherExists \in [Managers -> BOOLEAN]
        /\ services \in [Managers -> SUBSET Services]
        /\ app \in [Managers -> [Services -> {Addr, None}]] /\ ViewMatchesServices
    BY DEF IInv, TypeOK
  <1>5. \/ /\ e.kind \in {"resolved", "removed"}
           /\ OnServiceResolved(m, e.service) \/ OnServiceRemoved(m, e.service)
           /\ UNCHANGED <<browserExists, publisherExists>>
        \/ /\ e.kind = "browser"
           /\ browserExists' = [browserExists EXCEPT ![m] = e.running]
           /\ UNCHANGED <<services, app, publisherExists>>
        \/ /\ e.kind = "publisher"
           /\ publisherExists' = [publisherExists EXCEPT ![m] = e.running]
           /\ UNCHANGED <<services, app, browserExists>>
    BY DEF Deliver, e
  <1>6. /\ services' \in [Managers -> SUBSET Services]
        /\ app' \in [Managers -> [Services -> {Addr, None}]] /\ ViewMatchesServices'
    <2>1. CASE UNCHANGED <<services, app>>
      BY <1>4, <2>1 DEF ViewMatchesServices
    <2>2. CASE /\ e.kind \in {"resolved", "removed"}
               /\ OnServiceResolved(m, e.service) \/ OnServiceRemoved(m, e.service)
      BY <1>2, <2>2, ViewStep
    <2> QED
      BY <1>5, <2>1, <2>2
  <1>7. /\ browserExists' \in [Managers -> BOOLEAN]
        /\ publisherExists' \in [Managers -> BOOLEAN]
        /\ \A x \in Managers :
              /\ browserExists'[x] =>
                    IF m = x /\ e.kind = "browser" THEN e.running ELSE browserExists[x]
              /\ publisherExists'[x] =>
                    IF m = x /\ e.kind = "publisher" THEN e.running ELSE publisherExists[x]
    <2>1. CASE UNCHANGED <<browserExists, publisherExists>> /\ e.kind \in {"resolved", "removed"}
      BY <1>4, <2>1
    <2>2. CASE /\ e.kind = "browser"
               /\ browserExists' = [browserExists EXCEPT ![m] = e.running]
               /\ UNCHANGED publisherExists
      <3> HIDE DEF m
      <3> QED
        BY <1>2, <1>4, <2>2
    <2>3. CASE /\ e.kind = "publisher"
               /\ publisherExists' = [publisherExists EXCEPT ![m] = e.running]
               /\ UNCHANGED browserExists
      <3> HIDE DEF m
      <3> QED
        BY <1>2, <1>4, <2>3
    <2> QED
      BY <1>5, <2>1, <2>2, <2>3
  <1>8. events' \in Seq(Events) /\ Len(events') <= MaxEvents
    BY <1>0
  <1>9. EventsForLiveObjects'
    <2> SUFFICES ASSUME NEW i \in DOMAIN events' PROVE object[events'[i].to] = "live"
      BY <1>3 DEF EventsForLiveObjects
    <2>1. events'[i] = events[i + 1] /\ i + 1 \in DOMAIN events
      BY <1>0
    <2> QED
      BY <2>1 DEF IInv, EventsForLiveObjects
  <1>10. FlagsAreHonest'
    <2> SUFFICES ASSUME NEW x \in Managers, object[x] = "live",
                        \A n \in Managers \ {x} : id[n] # id[x]
                 PROVE  /\ Settled(events', x, "browser", browserExists'[x]) =>
                              discovery[x] \in {"on", "stopping"}
                        /\ Settled(events', x, "publisher", publisherExists'[x]) =>
                              registration[x] \in {"on", "stopping"}
      BY <1>3 DEF FlagsAreHonest
    <2>1. /\ Settled(events, x, "browser", browserExists[x]) => discovery[x] \in {"on", "stopping"}
          /\ Settled(events, x, "publisher", publisherExists[x]) =>
                registration[x] \in {"on", "stopping"}
      BY DEF IInv, FlagsAreHonest
    <2>2. Settled(events', x, "browser", browserExists'[x]) =>
            Settled(events, x, "browser", browserExists[x])
      BY <1>0, <1>7, SettledTail DEF e
    <2>3. Settled(events', x, "publisher", publisherExists'[x]) =>
            Settled(events, x, "publisher", publisherExists[x])
      BY <1>0, <1>7, SettledTail DEF e
    <2> QED
      BY <2>1, <2>2, <2>3
  <1>11. ObjectInv'
    <2>1. \A x \in Managers : object[x] # "live" => x # m
      BY <1>2
    <2> HIDE DEF m
    <2> QED
      BY <1>3, <1>7, <2>1 DEF IInv, ObjectInv
  <1>12. TypeOK'
    BY <1>3, <1>6, <1>7, <1>8 DEF IInv, TypeOK
  <1> QED
    BY <1>3, <1>6, <1>9, <1>10, <1>11, <1>12 DEF IInv, OneResolveAtATime

-----------------------------------------------------------------------------
(* The specification.                                                      *)

LEMMA InitInv == Init => IInv
  <1> SUFFICES ASSUME Init PROVE IInv
    OBVIOUS
  <1> USE AndroidAssumption
  <1>1. TypeOK
    <2>1. <<>> \in Seq([manager : Managers, op : Operations])
      OBVIOUS
    <2>2. <<>> \in Seq(Events) /\ <<>> \in Seq(Services) /\ Len(<<>>) = 0
      OBVIOUS
    <2>3. 0 <= MaxTasks /\ 0 <= MaxEvents /\ 0 <= MaxQueue
      OBVIOUS
    <2> QED
      BY <2>1, <2>2, <2>3 DEF Init, TypeOK, ListenerStates
  <1>2. ObjectInv
    BY DEF Init, ObjectInv
  <1>3. IsFiniteSet(resolving) /\ OneResolveAtATime
    BY FS_EmptySet DEF Init, OneResolveAtATime
  <1>4. EventsForLiveObjects /\ FlagsAreHonest /\ ViewMatchesServices
    BY DEF Init, EventsForLiveObjects, FlagsAreHonest, ViewMatchesServices
  <1> QED
    BY <1>1, <1>2, <1>3, <1>4 DEF IInv

LEMMA NextInv == IInv /\ [Next]_vars => IInv'
  <1> SUFFICES ASSUME IInv, [Next]_vars PROVE IInv'
    OBVIOUS
  <1>0. \A m \in Managers : \A op \in Uses[m] : op \in Operations
    BY AndroidAssumption
  <1>1. CASE QtThread
    BY <1>0, <1>1, DeliverInv, CreateInv, DeleteInv, PostTaskInv, CallSuspendedInv
    DEF QtThread
  <1>2. CASE RunTask
    BY <1>2, RunTaskInv
  <1>3. CASE Listeners
    BY <1>3, ServiceResolvedInv, ResolveFailedInv, DiscoveryAnswerInv,
       RegistrationAnswerInv, ServiceFoundInv, ServiceLostInv
    DEF Listeners, ResolveAnswer
  <1>4. CASE UNCHANGED vars
    BY <1>4 DEF vars, IInv, TypeOK, ObjectInv, OneResolveAtATime, EventsForLiveObjects,
                ViewMatchesServices, FlagsAreHonest
  <1> QED
    BY <1>1, <1>2, <1>3, <1>4 DEF Next

LEMMA Inductive == Spec => []IInv
  BY InitInv, NextInv, PTL DEF Spec

\* Over all Java objects of the application there is never more than one
\* resolveService() outstanding, and pendingResolve says which: however finds,
\* answers, failures that queue the service again, and the creation and
\* deletion of objects interleave.
THEOREM AndroidOneResolve == Spec => []OneResolveAtATime
  <1>1. IInv => OneResolveAtATime
    BY DEF IInv
  <1> QED
    BY <1>1, Inductive, PTL

\* No invocation in the Qt event queue is for an object that is gone, although
\* the Java side keeps calling back after ~QZeroConf() and addresses are used
\* again.
THEOREM AndroidEventsLive == Spec => []EventsForLiveObjects
  <1>1. IInv => EventsForLiveObjects
    BY DEF IInv
  <1> QED
    BY <1>1, Inductive, PTL

\* The serviceAdded, serviceUpdated and serviceRemoved signals of an object
\* never contradict each other and leave the application with its map.
THEOREM AndroidViewMatches == Spec => []ViewMatchesServices
  <1>1. IInv => ViewMatchesServices
    BY DEF IInv
  <1> QED
    BY <1>1, Inductive, PTL

\* Once the queue is delivered, browserExists() and publishExists() are true
\* only while NsdManager has the listener started, for an object whose address
\* no other object had.
THEOREM AndroidFlagsHonest == Spec => []FlagsAreHonest
  <1>1. IInv => FlagsAreHonest
    BY DEF IInv
  <1> QED
    BY <1>1, Inductive, PTL
=============================================================================
