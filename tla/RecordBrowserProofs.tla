-------------------------- MODULE RecordBrowserProofs --------------------------
(* Proofs about browsing in the embedded stack, for any browsers,          *)
(* interfaces, keys and records and any limits: the calls that an event    *)
(* has still to make are just what the browsers' views lack, and the       *)
(* queriers count the lookups that use them.                               *)
EXTENDS RecordBrowser, TLAPS, FiniteSetTheorems

-----------------------------------------------------------------------------
(* Sequences of calls.                                                     *)

LEMMA TailFacts ==
    ASSUME NEW S, NEW s \in Seq(S), s # <<>>
    PROVE  /\ Head(s) \in S /\ Tail(s) \in Seq(S)
           /\ ToSet(s) = {Head(s)} \cup ToSet(Tail(s))
  <1>1. /\ Len(s) \in Nat \ {0} /\ DOMAIN s = 1..Len(s) /\ Head(s) = s[1]
        /\ Tail(s) \in Seq(S) /\ DOMAIN Tail(s) = 1..(Len(s) - 1)
        /\ \A n \in 1..(Len(s) - 1) : Tail(s)[n] = s[n + 1]
    OBVIOUS
  <1>2. ASSUME NEW x \in ToSet(s) PROVE x \in {Head(s)} \cup ToSet(Tail(s))
    <2>1. PICK n \in 1..Len(s) : x = s[n]
      BY <1>1, <1>2 DEF ToSet
    <2>2. CASE n = 1
      BY <1>1, <2>1, <2>2
    <2>3. CASE n # 1
      <3>1. n - 1 \in 1..(Len(s) - 1) /\ x = Tail(s)[n - 1]
        BY <1>1, <2>1, <2>3
      <3> QED
        BY <1>1, <3>1 DEF ToSet
    <2> QED
      BY <2>2, <2>3
  <1>3. ASSUME NEW x \in ToSet(Tail(s)) PROVE x \in ToSet(s)
    <2>1. PICK n \in 1..(Len(s) - 1) : x = Tail(s)[n]
      BY <1>1, <1>3 DEF ToSet
    <2>2. n + 1 \in 1..Len(s) /\ x = s[n + 1]
      BY <1>1, <2>1
    <2> QED
      BY <1>1, <2>2 DEF ToSet
  <1>4. Head(s) \in ToSet(s) /\ Head(s) \in S
    BY <1>1 DEF ToSet
  <1> QED
    BY <1>1, <1>2, <1>3, <1>4

LEMMA ConcatFacts ==
    ASSUME NEW S, NEW s \in Seq(S), NEW t \in Seq(S)
    PROVE  s \o t \in Seq(S) /\ ToSet(s \o t) = ToSet(s) \cup ToSet(t)
  <1>1. /\ Len(s) \in Nat /\ Len(t) \in Nat /\ DOMAIN s = 1..Len(s) /\ DOMAIN t = 1..Len(t)
        /\ s \o t \in Seq(S) /\ DOMAIN (s \o t) = 1..(Len(s) + Len(t))
        /\ \A n \in 1..(Len(s) + Len(t)) :
              (s \o t)[n] = IF n <= Len(s) THEN s[n] ELSE t[n - Len(s)]
    OBVIOUS
  <1>2. ASSUME NEW x \in ToSet(s \o t) PROVE x \in ToSet(s) \cup ToSet(t)
    <2>1. PICK n \in 1..(Len(s) + Len(t)) : x = (s \o t)[n]
      BY <1>1, <1>2 DEF ToSet
    <2>2. CASE n <= Len(s)
      BY <1>1, <2>1, <2>2 DEF ToSet
    <2>3. CASE ~ (n <= Len(s))
      <3>1. n - Len(s) \in 1..Len(t) /\ x = t[n - Len(s)]
        BY <1>1, <2>1, <2>3
      <3> QED
        BY <1>1, <3>1 DEF ToSet
    <2> QED
      BY <2>2, <2>3
  <1>3. ASSUME NEW x \in ToSet(s) PROVE x \in ToSet(s \o t)
    <2>1. PICK n \in 1..Len(s) : x = s[n]
      BY <1>1, <1>3 DEF ToSet
    <2>2. n \in 1..(Len(s) + Len(t)) /\ x = (s \o t)[n]
      BY <1>1, <2>1
    <2> QED
      BY <1>1, <2>2 DEF ToSet
  <1>4. ASSUME NEW x \in ToSet(t) PROVE x \in ToSet(s \o t)
    <2>1. PICK n \in 1..Len(t) : x = t[n]
      BY <1>1, <1>4 DEF ToSet
    <2>2. Len(s) + n \in 1..(Len(s) + Len(t)) /\ x = (s \o t)[Len(s) + n]
      BY <1>1, <2>1
    <2> QED
      BY <1>1, <2>2 DEF ToSet
  <1> QED
    BY <1>1, <1>2, <1>3, <1>4

LEMMA EmptyFacts == ToSet(<<>>) = {}
  BY DEF ToSet

LEMMA OneFacts ==
    ASSUME NEW S, NEW x \in S
    PROVE  <<x>> \in Seq(S) /\ ToSet(<<x>>) = {x}
  BY DEF ToSet

LEMMA SetToSeqFacts ==
    ASSUME NEW S, NEW T \in SUBSET S, IsFiniteSet(T)
    PROVE  SetToSeq(T) \in Seq(S) /\ ToSet(SetToSeq(T)) = T
  <1> DEFINE n == Cardinality(T)
             f == SetToSeq(T)
  <1>1. n \in Nat /\ ExistsBijection(1..n, T)
    BY FS_CardinalityType
  <1>2. \E g \in [1..n -> T] : IsInjective(g)
    BY <1>1 DEF ExistsBijection, Bijection, Injection
  <1>3. f \in [1..n -> T] /\ IsInjective(f)
    BY <1>2 DEF SetToSeq
  <1>4. f \in Injection(1..n, T)
    BY <1>3 DEF Injection
  <1>5. Cardinality(1..n) = n
    <2>1. n \in Int /\ 1 \in Int
      BY <1>1
    <2>2. Cardinality(1..n) = IF 1 > n THEN 0 ELSE n - 1 + 1
      BY <2>1, FS_Interval
    <2> QED
      BY <1>1, <2>2
  <1> HIDE DEF f, n
  <1>6. f \in Surjection(1..n, T)
    <2>1. Cardinality(1..n) = Cardinality(T) <=> f \in Surjection(1..n, T)
      BY <1>4, FS_Injection
    <2> QED
      BY <1>5, <2>1 DEF n
  <1>7. f \in Seq(S)
    BY <1>1, <1>3
  <1>8. ToSet(f) = T
    BY <1>3, <1>6 DEF ToSet, Surjection
  <1> QED
    BY <1>7, <1>8 DEF f

-----------------------------------------------------------------------------
(* The calls that lookup_go() and the engine's notify add.                 *)

\* The calls about one record for one lookup.
Reports(op) == [op : {op}, b : Browsers, l : Lookups, i : Interfaces, r : Records]

LEMMA ReportsFinite ==
    ASSUME NEW op \in {"new", "remove"}
    PROVE  IsFiniteSet(Reports(op)) /\ Reports(op) \subseteq Calls
  <1> DEFINE D == (Browsers \X Lookups) \X Entries
             f == [p \in D |-> [op |-> op, b |-> p[1][1], l |-> p[1][2],
                                i |-> p[2][1], r |-> p[2][2]]]
  <1>1. IsFiniteSet(Lookups)
    BY BrowserAssumption, FS_Product, FS_AddElement DEF Lookups
  <1>2. IsFiniteSet(Entries)
    BY BrowserAssumption, FS_Product DEF Entries
  <1>3. IsFiniteSet(Browsers \X Lookups)
    BY <1>1, BrowserAssumption, FS_Product
  <1>4. IsFiniteSet(D)
    BY <1>2, <1>3, FS_Product
  <1>5. f \in Surjection(D, Reports(op))
    <2>1. f \in [D -> Reports(op)]
      BY DEF Reports, Entries
    <2>2. ASSUME NEW c \in Reports(op) PROVE \E p \in D : f[p] = c
      <3>1. <<<<c.b, c.l>>, <<c.i, c.r>>>> \in D
        BY DEF Reports, Entries
      <3>2. f[<<<<c.b, c.l>>, <<c.i, c.r>>>>] = c
        BY <3>1 DEF Reports
      <3> QED
        BY <3>1, <3>2
    <2> QED
      BY <2>1, <2>2 DEF Surjection
  <1>6. IsFiniteSet(Reports(op))
    <2> HIDE DEF D, f
    <2> QED
      BY <1>4, <1>5, FS_Surjection
  <1> QED
    BY <1>6 DEF Reports, Calls

\* What lookup_go() reports from the cache.
Found(l) == {e \in Entries : cache[e] # "none" /\ KeyOf[e[2]] = l[1] /\ InterfaceMatch(e[1], l)}

LEMMA LookupGoFacts ==
    ASSUME NEW b \in Browsers, NEW l \in Lookups
    PROVE  /\ LookupGo(b, l) \in Seq(Calls)
           /\ ToSet(LookupGo(b, l)) = {NewCall(b, l, e[1], e[2]) : e \in Found(l)}
                                        \cup {[op |-> "start", b |-> b, l |-> l]}
  <1> DEFINE R(S) == {NewCall(b, l, e[1], e[2]) : e \in S}
             A == {e \in Found(l) : ~IsCname(e[2])}
             B == {e \in Found(l) : IsCname(e[2])}
             start == [op |-> "start", b |-> b, l |-> l]
  <1>1. LookupGo(b, l) = SetToSeq(R(A)) \o SetToSeq(R(B)) \o <<start>>
    BY DEF LookupGo, Found
  <1>2. start \in Calls
    BY DEF Calls
  <1>3. \A e \in Entries : NewCall(b, l, e[1], e[2]) \in Reports("new")
    BY DEF NewCall, Reports, Entries
  <1>4. R(A) \subseteq Reports("new") /\ R(B) \subseteq Reports("new")
    BY <1>3 DEF Found
  <1>5. R(A) \cup R(B) = R(Found(l))
    OBVIOUS
  <1> HIDE DEF R, A, B, start
  <1>6. /\ IsFiniteSet(R(A)) /\ R(A) \in SUBSET Calls
        /\ IsFiniteSet(R(B)) /\ R(B) \in SUBSET Calls
    BY <1>4, ReportsFinite, FS_Subset
  <1>7. /\ SetToSeq(R(A)) \in Seq(Calls) /\ ToSet(SetToSeq(R(A))) = R(A)
        /\ SetToSeq(R(B)) \in Seq(Calls) /\ ToSet(SetToSeq(R(B))) = R(B)
    BY <1>6, SetToSeqFacts
  <1>8. <<start>> \in Seq(Calls) /\ ToSet(<<start>>) = {start}
    BY <1>2, OneFacts
  <1>9. /\ SetToSeq(R(A)) \o SetToSeq(R(B)) \in Seq(Calls)
        /\ ToSet(SetToSeq(R(A)) \o SetToSeq(R(B))) = R(A) \cup R(B)
    BY <1>7, ConcatFacts
  <1>10. LookupGo(b, l) \in Seq(Calls) /\ ToSet(LookupGo(b, l)) = R(Found(l)) \cup {start}
    <2> DEFINE u == SetToSeq(R(A)) \o SetToSeq(R(B))
               v == <<start>>
    <2>1. u \in Seq(Calls) /\ ToSet(u) = R(Found(l)) /\ v \in Seq(Calls) /\ ToSet(v) = {start}
      BY <1>5, <1>8, <1>9
    <2>2. LookupGo(b, l) = u \o v
      BY <1>1
    <2> HIDE DEF u, v
    <2> QED
      BY <2>1, <2>2, ConcatFacts
  <1> QED
    BY <1>10 DEF R, start

LEMMA NotifyFacts ==
    ASSUME NEW op \in {"new", "remove"}, NEW es \in SUBSET Entries
    PROVE  /\ Notify(op, es) \in Seq(Calls)
           /\ ToSet(Notify(op, es)) \subseteq Reports(op)
           /\ \A c \in Reports(op) :
                c \in ToSet(Notify(op, es)) <=>
                   /\ <<c.i, c.r>> \in es /\ c.l \in started[c.b] /\ KeyOf[c.r] = c.l[1]
                   /\ IsCname(c.r) \/ InterfaceMatch(c.i, c.l)
  <1> DEFINE C == {c \in Browsers \X Lookups \X es :
                     /\ c[2] \in started[c[1]]
                     /\ KeyOf[c[3][2]] = c[2][1]
                     /\ IsCname(c[3][2]) \/ InterfaceMatch(c[3][1], c[2])}
             T == {[op |-> op, b |-> c[1], l |-> c[2], i |-> c[3][1], r |-> c[3][2]] : c \in C}
  <1>1. Notify(op, es) = SetToSeq(T)
    BY DEF Notify
  <1>2. T \subseteq Reports(op)
    BY DEF Reports, Entries
  <1>3. ASSUME NEW c \in Reports(op)
        PROVE  c \in T <=>
                   /\ <<c.i, c.r>> \in es /\ c.l \in started[c.b] /\ KeyOf[c.r] = c.l[1]
                   /\ IsCname(c.r) \/ InterfaceMatch(c.i, c.l)
    <2>1. /\ c.b \in Browsers /\ c.l \in Lookups /\ c.op = op
          /\ c = [op |-> op, b |-> c.b, l |-> c.l, i |-> c.i, r |-> c.r]
      BY DEF Reports
    <2>2. ASSUME <<c.i, c.r>> \in es, c.l \in started[c.b], KeyOf[c.r] = c.l[1],
                 IsCname(c.r) \/ InterfaceMatch(c.i, c.l)
          PROVE  c \in T
      <3>1. <<c.b, c.l, <<c.i, c.r>>>> \in C
        BY <2>1, <2>2
      <3> QED
        BY <2>1, <3>1
    <2>3. ASSUME c \in T
          PROVE  /\ <<c.i, c.r>> \in es /\ c.l \in started[c.b] /\ KeyOf[c.r] = c.l[1]
                 /\ IsCname(c.r) \/ InterfaceMatch(c.i, c.l)
      <3>1. PICK d \in C :
              c = [op |-> op, b |-> d[1], l |-> d[2], i |-> d[3][1], r |-> d[3][2]]
        BY <2>3
      <3>2. /\ c.b = d[1] /\ c.l = d[2] /\ c.i = d[3][1] /\ c.r = d[3][2]
            /\ d[3] \in es /\ <<d[3][1], d[3][2]>> = d[3]
        BY <3>1 DEF Entries
      <3> QED
        BY <3>1, <3>2
    <2> QED
      BY <2>2, <2>3
  <1> HIDE DEF C, T
  <1>4. IsFiniteSet(T) /\ T \in SUBSET Calls
    BY <1>2, ReportsFinite, FS_Subset
  <1>5. SetToSeq(T) \in Seq(Calls) /\ ToSet(SetToSeq(T)) = T
    BY <1>4, SetToSeqFacts
  <1> QED
    BY <1>1, <1>2, <1>3, <1>5

-----------------------------------------------------------------------------
(* Views, lookups and the calls to come.                                   *)

CallInv == CallsInv /\ LookupsInv /\ ViewInv

LEMMA CallTypes ==
    ASSUME TypeOK, NEW c \in ToSet(work)
    PROVE  /\ c \in Calls /\ c.b \in Browsers /\ c.l \in Lookups
           /\ c.op \in {"new", "remove", "start", "exhausted"}
           /\ c.op \in {"new", "remove"} => c.i \in Interfaces /\ c.r \in Records
  <1>1. c \in Calls
    BY DEF TypeOK, ToSet
  <1> QED
    BY <1>1 DEF Calls

\* A step that makes no call and leaves the same entries in the cache.
LEMMA QuietKept ==
    ASSUME TypeOK, CallInv, UNCHANGED <<lookups, started, view>>, ToSet(work') = ToSet(work),
           \A e \in Entries : cache'[e] = "none" <=> cache[e] = "none",
           \A b \in Browsers : browser[b] = "running" => browser'[b] = "running"
    PROVE  CallInv'
  <1>1. CallsInv'
    <2> SUFFICES ASSUME NEW c \in ToSet(work')
                 PROVE  /\ c.op = "new" => /\ cache'[<<c.i, c.r>>] # "none"
                                           /\ ~IsCname(c.r) => Answers(c.l, <<c.i, c.r>>)
                        /\ c.op = "remove" => cache'[<<c.i, c.r>>] = "none"
      BY DEF CallsInv
    <2>1. c.op \in {"new", "remove"} => <<c.i, c.r>> \in Entries
      BY CallTypes DEF Entries
    <2> QED
      BY <2>1 DEF CallInv, CallsInv
  <1>2. LookupsInv'
    BY DEF CallInv, LookupsInv
  <1>3. ViewInv'
    <2>1. \A b, e : /\ Coming("new", b, e)' <=> Coming("new", b, e)
                    /\ Coming("remove", b, e)' <=> Coming("remove", b, e)
      BY DEF Coming
    <2>2. view \in [Browsers -> SUBSET Entries]
      BY DEF TypeOK
    <2> QED
      BY <2>1, <2>2 DEF CallInv, ViewInv
  <1> QED
    BY <1>1, <1>2, <1>3 DEF CallInv

\* A call that has nothing to do, or nobody to do it for.
LEMMA DropKept ==
    ASSUME TypeOK, CallInv, work # <<>>, work' = Tail(work),
           UNCHANGED <<cache, browser, lookups, started, view>>,
           Call.l \in lookups[Call.b] =>
               \/ Call.op = "exhausted"
               \/ Call.op \in {"new", "remove"} /\ IsCname(Call.r)
    PROVE  CallInv'
  <1>1. ToSet(work) = {Call} \cup ToSet(work')
    BY TailFacts DEF TypeOK, Call
  <1>2. CallsInv'
    BY <1>1 DEF CallInv, CallsInv
  <1>3. LookupsInv'
    <2>1. ASSUME NEW b \in Browsers, NEW l \in lookups[b] \ started[b]
          PROVE  [op |-> "start", b |-> b, l |-> l] \in ToSet(work')
      <3> DEFINE c == [op |-> "start", b |-> b, l |-> l]
      <3>1. c \in ToSet(work) /\ c.op = "start" /\ c.b = b /\ c.l = l
        BY <2>1 DEF CallInv, LookupsInv
      <3>2. c # Call
        BY <2>1, <3>1
      <3> QED
        BY <1>1, <3>1, <3>2
    <2> QED
      BY <2>1 DEF CallInv, LookupsInv
  <1>4. ASSUME NEW op \in {"new", "remove"}, NEW b \in Browsers, NEW e \in Entries,
               Coming(op, b, e), ~IsCname(e[2])
        PROVE  Coming(op, b, e)'
    <2>1. PICK c \in ToSet(work) : /\ c.op = op /\ c.b = b /\ c.l \in lookups[b]
                                   /\ <<c.i, c.r>> = e
      BY <1>4 DEF Coming
    <2>2. c.r = e[2]
      BY <2>1
    <2>3. c # Call
      BY <1>4, <2>1, <2>2
    <2> QED
      BY <1>1, <2>1, <2>3 DEF Coming
  <1>5. ViewInv'
    <2>1. view \in [Browsers -> SUBSET Entries]
      BY DEF TypeOK
    <2> QED
      BY <1>4, <2>1 DEF CallInv, ViewInv
  <1> QED
    BY <1>2, <1>3, <1>5 DEF CallInv

\* browser_cancel(): with the lookups of a browser go its view and its calls.
LEMMA CancelKept ==
    ASSUME TypeOK, CallInv, NEW a \in Browsers,
           UNCHANGED cache,
           lookups' = [lookups EXCEPT ![a] = {}], started' = [started EXCEPT ![a] = {}],
           view' = [view EXCEPT ![a] = {}],
           \A b \in Browsers \ {a} : browser'[b] = browser[b],
           ToSet(work') \subseteq ToSet(work),
           \A c \in ToSet(work) : c.b # a => c \in ToSet(work')
    PROVE  CallInv'
  <1>1. /\ lookups'[a] = {} /\ started'[a] = {} /\ view'[a] = {}
        /\ \A b \in Browsers \ {a} : /\ lookups'[b] = lookups[b] /\ started'[b] = started[b]
                                     /\ view'[b] = view[b] /\ view[b] \subseteq Entries
    BY DEF TypeOK
  <1>2. CallsInv'
    BY DEF CallInv, CallsInv
  <1>3. LookupsInv'
    <2> SUFFICES ASSUME NEW b \in Browsers
                 PROVE  /\ browser'[b] # "running" => lookups'[b] = {} /\ view'[b] = {}
                        /\ started'[b] \subseteq lookups'[b]
                        /\ \A l \in lookups'[b] \ started'[b] :
                             [op |-> "start", b |-> b, l |-> l] \in ToSet(work')
      BY DEF LookupsInv
    <2>1. CASE b = a
      BY <1>1, <2>1
    <2>2. CASE b # a
      <3>1. ASSUME NEW l \in lookups[b] \ started[b]
            PROVE  [op |-> "start", b |-> b, l |-> l] \in ToSet(work')
        <4>1. [op |-> "start", b |-> b, l |-> l] \in ToSet(work)
          BY <3>1 DEF CallInv, LookupsInv
        <4> QED
          BY <2>2, <4>1
      <3> QED
        BY <1>1, <2>2, <3>1 DEF CallInv, LookupsInv
    <2> QED
      BY <2>1, <2>2
  <1>4. ASSUME NEW b \in Browsers \ {a}, NEW op, NEW e, Coming(op, b, e)
        PROVE  Coming(op, b, e)'
    BY <1>1, <1>4 DEF Coming
  <1>5. ViewInv'
    BY <1>1, <1>4 DEF CallInv, ViewInv
  <1> QED
    BY <1>2, <1>3, <1>5 DEF CallInv

\* An event whose calls tell every lookup of what came into or left the cache.
LEMMA NotifiedKept ==
    ASSUME TypeOK, CallInv, Idle, NEW op \in {"new", "remove"}, NEW es \in SUBSET Entries,
           work' = Notify(op, es), UNCHANGED <<browser, lookups, started, view>>,
           \A e \in Entries \ es : cache'[e] = "none" <=> cache[e] = "none",
           \A e \in es : IF op = "new" THEN cache[e] = "none" /\ cache'[e] # "none"
                         ELSE cache'[e] = "none"
    PROVE  CallInv'
  <1>1. ToSet(work) = {}
    BY EmptyFacts DEF Idle
  <1>2. \A b \in Browsers : lookups[b] = started[b] /\ lookups[b] \subseteq Lookups
    BY <1>1 DEF CallInv, LookupsInv, TypeOK
  <1>3. \A b \in Browsers : /\ \A e \in view[b] : e \in Entries /\ cache[e] # "none"
                            /\ \A e \in Entries : \A l \in lookups[b] :
                                 cache[e] # "none" /\ ~IsCname(e[2]) /\ Answers(l, e)
                                    => e \in view[b]
    BY <1>1 DEF CallInv, ViewInv, Coming, TypeOK
  <1>4. /\ ToSet(work') \subseteq Reports(op)
        /\ \A c \in Reports(op) :
              c \in ToSet(work') <=>
                 /\ <<c.i, c.r>> \in es /\ c.l \in started[c.b] /\ KeyOf[c.r] = c.l[1]
                 /\ IsCname(c.r) \/ InterfaceMatch(c.i, c.l)
    BY NotifyFacts
  <1>5. CallsInv'
    <2> SUFFICES ASSUME NEW c \in ToSet(work')
                 PROVE  /\ c.op = "new" => /\ cache'[<<c.i, c.r>>] # "none"
                                           /\ ~IsCname(c.r) => Answers(c.l, <<c.i, c.r>>)
                        /\ c.op = "remove" => cache'[<<c.i, c.r>>] = "none"
      BY DEF CallsInv
    <2>1. c.op = op
      BY <1>4 DEF Reports
    <2>2. /\ <<c.i, c.r>> \in es /\ KeyOf[c.r] = c.l[1]
          /\ IsCname(c.r) \/ InterfaceMatch(c.i, c.l)
      BY <1>4
    <2> QED
      BY <2>1, <2>2 DEF Answers
  <1>6. LookupsInv'
    BY <1>2 DEF CallInv, LookupsInv
  <1>7. ASSUME NEW b \in Browsers, NEW e \in es, NEW l \in lookups[b], Answers(l, e)
        PROVE  Coming(op, b, e)'
    <2> DEFINE c == [op |-> op, b |-> b, l |-> l, i |-> e[1], r |-> e[2]]
    <2>1. e[1] \in Interfaces /\ e[2] \in Records /\ <<e[1], e[2]>> = e /\ l \in Lookups
      BY <1>2, <1>7 DEF Entries
    <2>2. c \in Reports(op)
      BY <2>1 DEF Reports
    <2>3. c.op = op /\ c.b = b /\ c.l = l /\ c.i = e[1] /\ c.r = e[2]
      OBVIOUS
    <2> HIDE DEF c
    <2>4. c \in ToSet(work')
      BY <1>2, <1>4, <1>7, <2>1, <2>2, <2>3 DEF Answers
    <2> QED
      BY <1>7, <2>1, <2>3, <2>4 DEF Coming
  <1>8. ViewInv'
    <2> SUFFICES ASSUME NEW b \in Browsers
                 PROVE  /\ \A e \in view[b] :
                            /\ ~IsCname(e[2])
                            /\ \E l \in lookups[b] : Answers(l, e)
                            /\ cache'[e] = "none" => Coming("remove", b, e)'
                        /\ \A e \in Entries : \A l \in lookups[b] :
                            cache'[e] # "none" /\ ~IsCname(e[2]) /\ Answers(l, e)
                                => e \in view[b] \/ Coming("new", b, e)'
      BY DEF ViewInv
    <2>1. ASSUME NEW e \in view[b]
          PROVE  /\ ~IsCname(e[2])
                 /\ \E l \in lookups[b] : Answers(l, e)
                 /\ cache'[e] = "none" => Coming("remove", b, e)'
      <3>1. ~IsCname(e[2]) /\ \E l \in lookups[b] : Answers(l, e)
        BY DEF CallInv, ViewInv
      <3>2. e \in Entries /\ cache[e] # "none"
        BY <1>3
      <3>3. cache'[e] = "none" => e \in es /\ op = "remove"
        BY <3>2
      <3> QED
        BY <1>7, <3>1, <3>3
    <2>2. ASSUME NEW e \in Entries, NEW l \in lookups[b],
                 cache'[e] # "none", ~IsCname(e[2]), Answers(l, e)
          PROVE  e \in view[b] \/ Coming("new", b, e)'
      <3>1. CASE cache[e] # "none"
        BY <1>3, <2>2, <3>1
      <3>2. CASE cache[e] = "none"
        BY <1>7, <2>2, <3>2
      <3> QED
        BY <3>1, <3>2
    <2> QED
      BY <2>1, <2>2
  <1> QED
    BY <1>5, <1>6, <1>8 DEF CallInv

-----------------------------------------------------------------------------
(* The calls, one after the other.                                         *)

LEMMA CallFacts ==
    ASSUME TypeOK, work # <<>>
    PROVE  /\ Call.b \in Browsers /\ Call.l \in Lookups
           /\ Call.op \in {"new", "remove"} => Call.i \in Interfaces /\ Call.r \in Records
           /\ ToSet(work) = {Call} \cup ToSet(Tail(work)) /\ Tail(work) \in Seq(Calls)
  <1>1. /\ ToSet(work) = {Call} \cup ToSet(Tail(work)) /\ Tail(work) \in Seq(Calls)
        /\ Call \in ToSet(work)
    BY TailFacts DEF TypeOK, Call
  <1> HIDE DEF Call
  <1> QED
    BY <1>1, CallTypes

\* The calls that change nothing but the work.
LEMMA IdleCallKept ==
    ASSUME TypeOK, CallInv, Skip \/ DropCname \/ CacheExhausted
    PROVE  CallInv'
  <1>1. /\ work # <<>> /\ work' = Tail(work) /\ UNCHANGED <<cache, browser, lookups, started, view>>
        /\ Call.l \in lookups[Call.b] =>
               \/ Call.op = "exhausted"
               \/ Call.op \in {"new", "remove"} /\ IsCname(Call.r)
    BY DEF Skip, DropCname, CacheExhausted, Due, Done, netVars, lookupVars
  <1> QED
    BY <1>1, DropKept

LEMMA ReportNewKept ==
    ASSUME TypeOK, CallInv, ReportNew
    PROVE  CallInv'
  <1> DEFINE a == Call.b
             f == <<Call.i, Call.r>>
  <1>1. /\ work # <<>> /\ work' = Tail(work) /\ UNCHANGED <<cache, browser, lookups, started>>
        /\ Call.op = "new" /\ Call.l \in lookups[a] /\ ~IsCname(Call.r)
        /\ view' = [view EXCEPT ![a] = @ \cup {f}]
    BY DEF ReportNew, Due, Done, netVars, lookupVars
  <1>2. /\ a \in Browsers /\ f \in Entries /\ ToSet(work) = {Call} \cup ToSet(work')
    BY <1>1, CallFacts DEF Entries
  <1>3. cache[f] # "none" /\ Answers(Call.l, f) /\ ~IsCname(f[2])
    BY <1>1, <1>2 DEF CallInv, CallsInv
  <1>4. \A c \in ToSet(work) : c \in ToSet(work') \/ (c.op = "new" /\ c.b = a /\ <<c.i, c.r>> = f)
    BY <1>1, <1>2
  <1>5. a \in Browsers /\ Call.l \in lookups[a] /\ browser[a] = "running"
    BY <1>1, <1>2 DEF CallInv, LookupsInv
  <1>6. PICK m : m = Call.l
    OBVIOUS
  <1>7. m \in lookups[a] /\ Answers(m, f)
    BY <1>3, <1>5, <1>6
  <1>8. ToSet(work') \subseteq ToSet(work)
    BY <1>2
  <1>9. /\ view'[a] = view[a] \cup {f}
        /\ \A b \in Browsers : b # a => view'[b] = view[b]
        /\ \A b \in Browsers : view[b] \subseteq Entries
    BY <1>1, <1>2 DEF TypeOK
  <1> HIDE DEF a, f
  <1>10. CallsInv'
    BY <1>1, <1>8 DEF CallInv, CallsInv
  <1>11. LookupsInv'
    <2>1. ASSUME NEW b \in Browsers, NEW l \in lookups[b] \ started[b]
          PROVE  [op |-> "start", b |-> b, l |-> l] \in ToSet(work')
      <3>1. [op |-> "start", b |-> b, l |-> l] \in ToSet(work)
        BY <2>1 DEF CallInv, LookupsInv
      <3> QED
        BY <1>4, <3>1
    <2> QED
      BY <1>1, <1>5, <1>9, <2>1 DEF CallInv, LookupsInv
  <1>12. ViewInv'
    <2>1. ASSUME NEW b \in Browsers, NEW e, Coming("remove", b, e)
          PROVE  Coming("remove", b, e)'
      BY <1>1, <1>4, <2>1 DEF Coming
    <2>2. ASSUME NEW b \in Browsers, NEW e, Coming("new", b, e)
          PROVE  Coming("new", b, e)' \/ (b = a /\ e = f)
      BY <1>1, <1>4, <2>2 DEF Coming
    <2>3. ASSUME NEW b \in Browsers, NEW e \in view'[b]
          PROVE  /\ ~IsCname(e[2])
                 /\ \E l \in lookups'[b] : Answers(l, e)
                 /\ cache'[e] = "none" => Coming("remove", b, e)'
      <3>1. CASE e \in view[b]
        BY <1>1, <2>1, <3>1 DEF CallInv, ViewInv
      <3>2. CASE e \notin view[b]
        <4>1. b = a /\ e = f
          BY <1>9, <2>3, <3>2
        <4> QED
          BY <1>1, <1>3, <1>7, <4>1
      <3> QED
        BY <3>1, <3>2
    <2>4. ASSUME NEW b \in Browsers, NEW e \in Entries, NEW l \in lookups'[b],
                 cache'[e] # "none", ~IsCname(e[2]), Answers(l, e)
          PROVE  e \in view'[b] \/ Coming("new", b, e)'
      <3>1. e \in view[b] \/ Coming("new", b, e)
        BY <1>1, <2>4 DEF CallInv, ViewInv
      <3> QED
        BY <1>9, <2>2, <3>1
    <2> QED
      BY <2>3, <2>4 DEF ViewInv
  <1> QED
    BY <1>10, <1>11, <1>12 DEF CallInv

LEMMA ReportRemoveKept ==
    ASSUME TypeOK, CallInv, ReportRemove
    PROVE  CallInv'
  <1> DEFINE a == Call.b
             f == <<Call.i, Call.r>>
  <1>1. /\ work # <<>> /\ work' = Tail(work) /\ UNCHANGED <<cache, browser, lookups, started>>
        /\ Call.op = "remove" /\ Call.l \in lookups[a]
        /\ view' = [view EXCEPT ![a] = @ \ {f}]
    BY DEF ReportRemove, Due, Done, netVars, lookupVars
  <1>2. /\ a \in Browsers /\ f \in Entries /\ ToSet(work) = {Call} \cup ToSet(work')
    BY <1>1, CallFacts DEF Entries
  <1>3. cache[f] = "none"
    BY <1>1, <1>2 DEF CallInv, CallsInv
  <1>4. \A c \in ToSet(work) :
            c \in ToSet(work') \/ (c.op = "remove" /\ c.b = a /\ <<c.i, c.r>> = f)
    BY <1>1, <1>2
  <1>5. ToSet(work') \subseteq ToSet(work)
    BY <1>2
  <1>6. /\ view'[a] = view[a] \ {f}
        /\ \A b \in Browsers : b # a => view'[b] = view[b]
        /\ \A b \in Browsers : view[b] \subseteq Entries
    BY <1>1, <1>2 DEF TypeOK
  <1> HIDE DEF a, f
  <1>7. CallsInv'
    BY <1>1, <1>5 DEF CallInv, CallsInv
  <1>8. LookupsInv'
    <2>1. ASSUME NEW b \in Browsers, NEW l \in lookups[b] \ started[b]
          PROVE  [op |-> "start", b |-> b, l |-> l] \in ToSet(work')
      <3>1. [op |-> "start", b |-> b, l |-> l] \in ToSet(work)
        BY <2>1 DEF CallInv, LookupsInv
      <3> QED
        BY <1>4, <3>1
    <2>2. \A b \in Browsers : view[b] = {} => view'[b] = {}
      BY <1>6
    <2> QED
      BY <1>1, <2>1, <2>2 DEF CallInv, LookupsInv
  <1>9. ViewInv'
    <2>1. ASSUME NEW b \in Browsers, NEW e, Coming("remove", b, e)
          PROVE  Coming("remove", b, e)' \/ (b = a /\ e = f)
      BY <1>1, <1>4, <2>1 DEF Coming
    <2>2. ASSUME NEW b \in Browsers, NEW e, Coming("new", b, e)
          PROVE  Coming("new", b, e)'
      BY <1>1, <1>4, <2>2 DEF Coming
    <2>3. ASSUME NEW b \in Browsers, NEW e \in view'[b]
          PROVE  /\ ~IsCname(e[2])
                 /\ \E l \in lookups'[b] : Answers(l, e)
                 /\ cache'[e] = "none" => Coming("remove", b, e)'
      <3>1. e \in view[b] /\ ~ (b = a /\ e = f)
        BY <1>6, <2>3
      <3> QED
        BY <1>1, <2>1, <3>1 DEF CallInv, ViewInv
    <2>4. ASSUME NEW b \in Browsers, NEW e \in Entries, NEW l \in lookups'[b],
                 cache'[e] # "none", ~IsCname(e[2]), Answers(l, e)
          PROVE  e \in view'[b] \/ Coming("new", b, e)'
      <3>1. e \in view[b] \/ Coming("new", b, e)
        BY <1>1, <2>4 DEF CallInv, ViewInv
      <3>2. e # f
        BY <1>1, <1>3, <2>4
      <3> QED
        BY <1>6, <2>2, <3>1, <3>2
    <2> QED
      BY <2>3, <2>4 DEF ViewInv
  <1> QED
    BY <1>7, <1>8, <1>9 DEF CallInv

LEMMA ReportRemoveRestartKept ==
    ASSUME TypeOK, CallInv, ReportRemoveRestart
    PROVE  CallInv'
  <1> DEFINE a == Call.b
  <1>1. /\ work # <<>> /\ work' = Tail(work) /\ UNCHANGED cache
        /\ lookups' = [lookups EXCEPT ![a] = {}] /\ started' = [started EXCEPT ![a] = {}]
        /\ view' = [view EXCEPT ![a] = {}]
        /\ browser' = [browser EXCEPT ![a] = "deferred"]
    BY DEF ReportRemoveRestart, BrowserCancel, Due, Done, netVars
  <1>2. a \in Browsers /\ ToSet(work) = {Call} \cup ToSet(work')
    BY <1>1, CallFacts
  <1>3. \A b \in Browsers \ {a} : browser'[b] = browser[b]
    BY <1>1 DEF TypeOK
  <1>4. \A c \in ToSet(work) : c.b # a => c \in ToSet(work')
    BY <1>2
  <1>5. ToSet(work') \subseteq ToSet(work)
    BY <1>2
  <1> HIDE DEF a
  <1> QED
    BY <1>1, <1>2, <1>3, <1>4, <1>5, CancelKept

LEMMA FreeKept ==
    ASSUME TypeOK, CallInv, NEW a \in Browsers, Free(a)
    PROVE  CallInv'
  <1>1. /\ UNCHANGED <<cache, work>>
        /\ lookups' = [lookups EXCEPT ![a] = {}] /\ started' = [started EXCEPT ![a] = {}]
        /\ view' = [view EXCEPT ![a] = {}]
        /\ browser' = [browser EXCEPT ![a] = "none"]
    BY DEF Free, BrowserCancel, netVars
  <1>2. \A b \in Browsers \ {a} : browser'[b] = browser[b]
    BY <1>1 DEF TypeOK
  <1>3. ToSet(work') = ToSet(work)
    BY <1>1
  <1> QED
    BY <1>1, <1>2, <1>3, CancelKept

LEMMA LookupStartKept ==
    ASSUME TypeOK, CallInv, LookupStart
    PROVE  CallInv'
  <1> DEFINE a == Call.b
             m == Call.l
  <1>1. /\ work # <<>> /\ work' = Tail(work) /\ UNCHANGED <<cache, browser, lookups, view>>
        /\ Call.op = "start" /\ m \in lookups[a]
        /\ started' = [started EXCEPT ![a] = @ \cup {m}]
    BY DEF LookupStart, Due, Done, netVars
  <1>2. a \in Browsers /\ ToSet(work) = {Call} \cup ToSet(work')
    BY <1>1, CallFacts
  <1>3. \A c \in ToSet(work) : c \in ToSet(work') \/ (c.op = "start" /\ c.b = a /\ c.l = m)
    BY <1>1, <1>2
  <1>4. ToSet(work') \subseteq ToSet(work)
    BY <1>2
  <1>5. /\ started'[a] = started[a] \cup {m}
        /\ \A b \in Browsers : b # a => started'[b] = started[b]
    BY <1>1, <1>2 DEF TypeOK
  <1> HIDE DEF a, m
  <1>6. CallsInv'
    BY <1>1, <1>4 DEF CallInv, CallsInv
  <1>7. LookupsInv'
    <2>1. ASSUME NEW b \in Browsers, NEW l \in lookups'[b] \ started'[b]
          PROVE  [op |-> "start", b |-> b, l |-> l] \in ToSet(work')
      <3>1. l \in lookups[b] \ started[b] /\ ~ (b = a /\ l = m)
        BY <1>1, <1>5, <2>1
      <3>2. [op |-> "start", b |-> b, l |-> l] \in ToSet(work)
        BY <3>1 DEF CallInv, LookupsInv
      <3> QED
        BY <1>3, <3>1, <3>2
    <2>2. \A b \in Browsers : started'[b] \subseteq lookups'[b]
      BY <1>1, <1>5 DEF CallInv, LookupsInv
    <2> QED
      BY <1>1, <2>1, <2>2 DEF CallInv, LookupsInv
  <1>8. ViewInv'
    <2>1. ASSUME NEW op \in {"new", "remove"}, NEW b, NEW e, Coming(op, b, e)
          PROVE  Coming(op, b, e)'
      BY <1>1, <1>3, <2>1 DEF Coming
    <2> QED
      BY <1>1, <2>1 DEF CallInv, ViewInv
  <1> QED
    BY <1>6, <1>7, <1>8 DEF CallInv

\* lookup_go() of a lookup m that a has or gets: its calls report whatever the
\* cache has for m.  The rest of the work stays, but for the CNAME that led here.
LEMMA GoKept ==
    ASSUME TypeOK, CallInv, NEW a \in Browsers, NEW m \in Lookups, NEW rest,
           UNCHANGED <<cache, view, started>>,
           lookups' = [lookups EXCEPT ![a] = @ \cup {m}], browser'[a] = "running",
           \A b \in Browsers : b # a => browser'[b] = browser[b],
           ToSet(work') = ToSet(LookupGo(a, m)) \cup rest,
           \A c \in rest : c \in ToSet(work) \/ c.op = "exhausted",
           \A c \in ToSet(work) : c \in rest \/ (c.op = "new" /\ IsCname(c.r))
    PROVE  CallInv'
  <1> DEFINE start == [op |-> "start", b |-> a, l |-> m]
             news == {NewCall(a, m, e[1], e[2]) : e \in Found(m)}
  <1>1. ToSet(work') = news \cup {start} \cup rest
    BY LookupGoFacts
  <1>2. start.op = "start" /\ start.b = a /\ start.l = m
    OBVIOUS
  <1>3. ASSUME NEW c \in news
        PROVE  /\ c.op = "new" /\ c.b = a /\ c.l = m /\ <<c.i, c.r>> \in Found(m)
               /\ cache[<<c.i, c.r>>] # "none" /\ Answers(m, <<c.i, c.r>>)
    <2>1. PICK e \in Found(m) : c = NewCall(a, m, e[1], e[2])
      OBVIOUS
    <2>2. c.op = "new" /\ c.b = a /\ c.l = m /\ c.i = e[1] /\ c.r = e[2]
      BY <2>1 DEF NewCall
    <2>3. <<e[1], e[2]>> = e
      BY DEF Found, Entries
    <2> QED
      BY <2>2, <2>3 DEF Found, Answers
  <1>4. ASSUME NEW e \in Found(m)
        PROVE  \E c \in news : c.op = "new" /\ c.b = a /\ c.l = m /\ <<c.i, c.r>> = e
    <2> DEFINE c == NewCall(a, m, e[1], e[2])
    <2>1. c \in news /\ <<e[1], e[2]>> = e
      BY DEF Found, Entries
    <2>2. c.op = "new" /\ c.b = a /\ c.l = m /\ c.i = e[1] /\ c.r = e[2]
      BY DEF NewCall
    <2> QED
      BY <2>1, <2>2
  <1>5. /\ lookups'[a] = lookups[a] \cup {m}
        /\ \A b \in Browsers : b # a => lookups'[b] = lookups[b]
    BY DEF TypeOK
  <1> HIDE DEF news
  <1>6. CallsInv'
    <2> SUFFICES ASSUME NEW c \in ToSet(work')
                 PROVE  /\ c.op = "new" => /\ cache[<<c.i, c.r>>] # "none"
                                           /\ ~IsCname(c.r) => Answers(c.l, <<c.i, c.r>>)
                        /\ c.op = "remove" => cache[<<c.i, c.r>>] = "none"
      BY DEF CallsInv
    <2>1. CASE c \in news
      BY <1>3, <2>1
    <2>2. CASE c = start
      BY <1>2, <2>2
    <2>3. CASE c \in rest
      BY <2>3 DEF CallInv, CallsInv
    <2> QED
      BY <1>1, <2>1, <2>2, <2>3
  <1>7. LookupsInv'
    <2>1. ASSUME NEW b \in Browsers, NEW l \in lookups'[b] \ started'[b]
          PROVE  [op |-> "start", b |-> b, l |-> l] \in ToSet(work')
      <3>1. CASE b = a /\ l = m
        BY <1>1, <3>1
      <3>2. CASE ~ (b = a /\ l = m)
        <4>1. l \in lookups[b] \ started[b]
          BY <1>5, <2>1, <3>2
        <4>2. [op |-> "start", b |-> b, l |-> l] \in ToSet(work)
          BY <4>1 DEF CallInv, LookupsInv
        <4>3. [op |-> "start", b |-> b, l |-> l] \in rest
          BY <4>2
        <4> QED
          BY <1>1, <4>3
      <3> QED
        BY <3>1, <3>2
    <2>2. \A b \in Browsers : started'[b] \subseteq lookups'[b]
      BY <1>5 DEF CallInv, LookupsInv
    <2>3. \A b \in Browsers : browser'[b] # "running" => lookups'[b] = {} /\ view'[b] = {}
      BY <1>5 DEF CallInv, LookupsInv
    <2> QED
      BY <2>1, <2>2, <2>3 DEF LookupsInv
  <1>8. \A b \in Browsers : lookups[b] \subseteq lookups'[b]
    BY <1>5
  <1>9. ASSUME NEW op \in {"new", "remove"}, NEW b \in Browsers, NEW e, Coming(op, b, e),
               ~IsCname(e[2])
        PROVE  Coming(op, b, e)'
    <2>1. PICK c \in ToSet(work) : /\ c.op = op /\ c.b = b /\ c.l \in lookups[b]
                                   /\ <<c.i, c.r>> = e
      BY <1>9 DEF Coming
    <2>2. c.r = e[2]
      BY <2>1
    <2>3. c \in ToSet(work')
      BY <1>1, <1>9, <2>1, <2>2
    <2> QED
      BY <1>8, <2>1, <2>3 DEF Coming
  <1>10. ViewInv'
    <2>1. ASSUME NEW b \in Browsers, NEW e \in view[b]
          PROVE  /\ ~IsCname(e[2])
                 /\ \E l \in lookups'[b] : Answers(l, e)
                 /\ cache[e] = "none" => Coming("remove", b, e)'
      BY <1>8, <1>9, <2>1 DEF CallInv, ViewInv
    <2>2. ASSUME NEW b \in Browsers, NEW e \in Entries, NEW l \in lookups'[b],
                 cache[e] # "none", ~IsCname(e[2]), Answers(l, e)
          PROVE  e \in view[b] \/ Coming("new", b, e)'
      <3>1. CASE l \in lookups[b]
        <4>1. e \in view[b] \/ Coming("new", b, e)
          BY <2>2, <3>1 DEF CallInv, ViewInv
        <4> QED
          BY <1>9, <2>2, <4>1
      <3>2. CASE l \notin lookups[b]
        <4>1. b = a /\ l = m
          BY <1>5, <2>2, <3>2
        <4>2. e \in Found(m)
          BY <2>2, <4>1 DEF Found, Answers
        <4>3. PICK c \in news : c.op = "new" /\ c.b = a /\ c.l = m /\ <<c.i, c.r>> = e
          BY <1>4, <4>2
        <4>4. c \in ToSet(work')
          BY <1>1
        <4> QED
          BY <1>5, <4>1, <4>3, <4>4 DEF Coming
      <3> QED
        BY <3>1, <3>2
    <2> QED
      BY <2>1, <2>2 DEF ViewInv
  <1> QED
    BY <1>6, <1>7, <1>10 DEF CallInv

LEMMA HandleCnameKept ==
    ASSUME TypeOK, CallInv, HandleCname
    PROVE  CallInv'
  <1> DEFINE a == Call.b
             old == LookupFind(a, Target[Call.r], Call.i)
             new == <<Target[Call.r], Call.i>>
  <1>1. /\ work # <<>> /\ Call.op = "new" /\ IsCname(Call.r) /\ Call.l \in lookups[a]
        /\ UNCHANGED <<cache, browser, started, view>>
    BY DEF HandleCname, Due, netVars
  <1>2. /\ a \in Browsers /\ Call.i \in Interfaces /\ Call.r \in Records
        /\ ToSet(work) = {Call} \cup ToSet(Tail(work)) /\ Tail(work) \in Seq(Calls)
    BY <1>1, CallFacts
  <1>3. new \in Lookups
    BY <1>1, <1>2, BrowserAssumption DEF Lookups, IsCname
  <1>4. browser[a] = "running"
    BY <1>1, <1>2 DEF CallInv, LookupsInv
  <1>5. ASSUME NEW m \in Lookups, work' = LookupGo(a, m) \o Tail(work),
               lookups' = [lookups EXCEPT ![a] = @ \cup {m}]
        PROVE  CallInv'
    <2>1. ToSet(work') = ToSet(LookupGo(a, m)) \cup ToSet(Tail(work))
      <3> DEFINE u == LookupGo(a, m)
                 v == Tail(work)
      <3>1. u \in Seq(Calls) /\ v \in Seq(Calls) /\ work' = u \o v
        BY <1>2, <1>5, LookupGoFacts
      <3> HIDE DEF u, v
      <3>2. ToSet(work') = ToSet(u) \cup ToSet(v)
        BY <3>1, ConcatFacts
      <3> QED
        BY <3>2 DEF u, v
    <2>2. \A c \in ToSet(Tail(work)) : c \in ToSet(work) \/ c.op = "exhausted"
      BY <1>2
    <2>3. \A c \in ToSet(work) : c \in ToSet(Tail(work)) \/ (c.op = "new" /\ IsCname(c.r))
      BY <1>1, <1>2
    <2>4. browser'[a] = "running" /\ \A b \in Browsers : b # a => browser'[b] = browser[b]
      BY <1>1, <1>4
    <2> HIDE DEF a
    <2> QED
      BY <1>1, <1>2, <1>5, <2>1, <2>2, <2>3, <2>4, GoKept
  <1>6. CASE old # {}
    <2>1. PICK m \in old : work' = LookupGo(a, m) \o Tail(work) /\ lookups' = lookups
      BY <1>6 DEF HandleCname
    <2>2. m \in lookups[a] /\ m \in Lookups
      BY <1>2, <2>1 DEF LookupFind, TypeOK
    <2>3. lookups' = [lookups EXCEPT ![a] = @ \cup {m}]
      <3>1. lookups[a] \cup {m} = lookups[a]
        BY <2>2
      <3> QED
        BY <2>1, <3>1 DEF TypeOK
    <2> QED
      BY <1>5, <2>1, <2>2, <2>3
  <1>7. CASE old = {} /\ Cardinality(lookups[a]) >= MaxLookups
    <2>1. work' = Tail(work) /\ lookups' = lookups
      BY <1>7 DEF HandleCname, Done
    <2> QED
      BY <1>1, <2>1, DropKept
  <1>8. CASE old = {} /\ ~ (Cardinality(lookups[a]) >= MaxLookups)
    <2>1. /\ lookups' = [lookups EXCEPT ![a] = @ \cup {new}]
          /\ work' = LookupGo(a, new) \o Tail(work)
      BY <1>8 DEF HandleCname
    <2> QED
      BY <1>3, <1>5, <2>1
  <1> QED
    BY <1>6, <1>7, <1>8

LEMMA DeferCallbackKept ==
    ASSUME TypeOK, CallInv, NEW a \in Browsers, DeferCallback(a)
    PROVE  CallInv'
  <1> DEFINE root == RootLookup(a)
             last == [op |-> "exhausted", b |-> a, l |-> root]
  <1>1. /\ Idle /\ browser[a] = "deferred"
        /\ browser' = [browser EXCEPT ![a] = "running"]
        /\ lookups' = [lookups EXCEPT ![a] = {root}]
        /\ work' = LookupGo(a, root) \o <<last>>
        /\ UNCHANGED <<cache, view, started>>
    BY DEF DeferCallback, netVars
  <1>2. root \in Lookups
    BY BrowserAssumption DEF RootLookup, Lookups
  <1>3. last \in Calls /\ last.op = "exhausted"
    BY <1>2 DEF Calls
  <1> HIDE DEF root, last
  <1>4. ToSet(work') = ToSet(LookupGo(a, root)) \cup {last}
    <2> DEFINE u == LookupGo(a, root)
               v == <<last>>
    <2>1. u \in Seq(Calls) /\ v \in Seq(Calls) /\ ToSet(v) = {last} /\ work' = u \o v
      BY <1>1, <1>2, <1>3, LookupGoFacts, OneFacts
    <2> HIDE DEF u, v
    <2>2. ToSet(work') = ToSet(u) \cup ToSet(v)
      BY <2>1, ConcatFacts
    <2> QED
      BY <2>1, <2>2 DEF u
  <1>5. ToSet(work) = {}
    BY <1>1, EmptyFacts DEF Idle
  <1>6. lookups[a] = {}
    BY <1>1 DEF CallInv, LookupsInv
  <1>7. lookups' = [lookups EXCEPT ![a] = @ \cup {root}]
    BY <1>1, <1>6
  <1>8. browser'[a] = "running" /\ \A b \in Browsers : b # a => browser'[b] = browser[b]
    BY <1>1 DEF TypeOK
  <1> DEFINE rest == {last}
  <1>9. /\ ToSet(work') = ToSet(LookupGo(a, root)) \cup rest
        /\ \A c \in rest : c \in ToSet(work) \/ c.op = "exhausted"
        /\ \A c \in ToSet(work) : c \in rest \/ (c.op = "new" /\ IsCname(c.r))
    BY <1>3, <1>4, <1>5
  <1> HIDE DEF rest
  <1> QED
    BY <1>1, <1>2, <1>7, <1>8, <1>9, GoKept

-----------------------------------------------------------------------------
(* The events.                                                             *)

LEMMA CacheUpdateKept ==
    ASSUME TypeOK, CallInv, NEW i \in Interfaces, NEW r \in Records, CacheUpdate(i, r)
    PROVE  CallInv'
  <1> DEFINE f == <<i, r>>
  <1>1. Idle /\ UNCHANGED <<browser, lookups, started, view>>
    BY DEF CacheUpdate, lookupVars
  <1>2. PICK old \in SUBSET {s \in Cached(i) : SameKey(r, s)} :
          LET replaced == [e \in Entries |-> IF e[1] = i /\ e[2] \in old
                                             THEN "replace_final" ELSE cache[e]]
              kept == r \in Cached(i) \/ ~CacheFull(i)
          IN  /\ cache' = IF kept THEN [replaced EXCEPT ![f] = "valid"] ELSE replaced
              /\ work' = IF kept /\ r \notin Cached(i) THEN Notify("new", {f}) ELSE <<>>
    BY DEF CacheUpdate
  <1>3. f \in Entries /\ (r \in Cached(i) <=> cache[f] # "none")
    BY DEF Entries, Cached
  <1>4. ASSUME NEW e \in Entries, e[1] = i, e[2] \in old PROVE cache[e] # "none"
    <2>1. e = <<i, e[2]>>
      BY <1>4 DEF Entries
    <2> QED
      BY <1>4, <2>1 DEF Cached
  <1>5. \A e \in Entries \ {f} : cache'[e] = "none" <=> cache[e] = "none"
    BY <1>2, <1>4
  <1>6. CASE (r \in Cached(i) \/ ~CacheFull(i)) /\ r \notin Cached(i)
    <2>1. work' = Notify("new", {f}) /\ cache'[f] # "none" /\ cache[f] = "none"
      BY <1>2, <1>3, <1>6
    <2> QED
      BY <1>1, <1>3, <1>5, <2>1, NotifiedKept
  <1>7. CASE ~ ((r \in Cached(i) \/ ~CacheFull(i)) /\ r \notin Cached(i))
    <2>1. work' = <<>>
      BY <1>2, <1>7
    <2>2. cache'[f] = "none" <=> cache[f] = "none"
      <3>1. CASE r \in Cached(i)
        BY <1>2, <1>3, <3>1
      <3>2. CASE r \notin Cached(i)
        <4>1. cache' = [e \in Entries |-> IF e[1] = i /\ e[2] \in old
                                          THEN "replace_final" ELSE cache[e]]
          BY <1>2, <1>7, <3>2
        <4>2. r \notin old
          BY <3>2
        <4> QED
          BY <1>3, <4>1, <4>2
      <3> QED
        BY <3>1, <3>2
    <2>3. ToSet(work') = ToSet(work)
      BY <1>1, <2>1 DEF Idle
    <2>4. \A e \in Entries : cache'[e] = "none" <=> cache[e] = "none"
      BY <1>5, <2>2
    <2> QED
      BY <1>1, <2>3, <2>4, QuietKept
  <1> QED
    BY <1>6, <1>7

LEMMA ExpireKept ==
    ASSUME TypeOK, CallInv, NEW i \in Interfaces, NEW r \in Records, Expire(i, r)
    PROVE  CallInv'
  <1>1. /\ Idle /\ UNCHANGED <<browser, lookups, started, view>>
        /\ cache' = [cache EXCEPT ![<<i, r>>] = "none"] /\ work' = Notify("remove", {<<i, r>>})
    BY DEF Expire, lookupVars
  <1>2. <<i, r>> \in Entries
    BY DEF Entries
  <1>3. cache'[<<i, r>>] = "none" /\ \A e \in Entries \ {<<i, r>>} : cache'[e] = cache[e]
    BY <1>1, <1>2 DEF TypeOK
  <1> QED
    BY <1>1, <1>2, <1>3, NotifiedKept

LEMMA InterfaceDownKept ==
    ASSUME TypeOK, CallInv, NEW i \in Interfaces, InterfaceDown(i)
    PROVE  CallInv'
  <1> DEFINE es == {<<i, r>> : r \in Cached(i)}
  <1>1. /\ Idle /\ UNCHANGED <<browser, lookups, started, view>>
        /\ cache' = [e \in Entries |-> IF e[1] = i THEN "none" ELSE cache[e]]
        /\ work' = Notify("remove", es)
    BY DEF InterfaceDown, lookupVars
  <1>2. es \in SUBSET Entries /\ \A e \in es : e[1] = i
    <2>1. \A r \in Cached(i) : <<i, r>> \in Entries
      BY DEF Entries, Cached
    <2> QED
      BY <2>1
  <1>3. ASSUME NEW e \in Entries \ es PROVE cache'[e] = "none" <=> cache[e] = "none"
    <2>1. e[1] = i => e = <<i, e[2]>> /\ e[2] \in Records
      BY DEF Entries
    <2>2. e[1] = i => cache[e] = "none"
      BY <2>1 DEF Cached
    <2> QED
      BY <1>1, <2>2
  <1>4. \A e \in es : cache'[e] = "none"
    BY <1>1, <1>2
  <1> HIDE DEF es
  <1> QED
    BY <1>1, <1>2, <1>3, <1>4, NotifiedKept

\* The timers and the answers that keep every entry in the cache.
LEMMA QuietEntryKept ==
    ASSUME TypeOK, CallInv, NEW i \in Interfaces, NEW r \in Records,
           Goodbye(i, r) \/ Elapse(i, r) \/ StopPoof(i, r)
    PROVE  CallInv'
  <1>1. UNCHANGED <<browser, lookups, started, view, work>>
    BY DEF Goodbye, Elapse, StopPoof, lookupVars
  <1>2. <<i, r>> \in Entries
    BY DEF Entries
  <1>3. \A e \in Entries : cache'[e] = "none" <=> cache[e] = "none"
    <2>1. CASE Goodbye(i, r)
      BY <1>2, <2>1 DEF Goodbye, Cached, TypeOK
    <2>2. CASE Elapse(i, r)
      <3>1. cache[<<i, r>>] \in {"valid", "poof", "expiry1", "expiry2", "expiry3"}
        BY <1>2, <2>2 DEF Elapse, Cached, TypeOK, CacheStates
      <3>2. NextState[cache[<<i, r>>]] # "none"
        BY <3>1 DEF NextState
      <3> QED
        BY <1>2, <2>2, <3>1, <3>2 DEF Elapse, TypeOK
    <2>3. CASE StopPoof(i, r)
      BY <1>2, <2>3 DEF StopPoof, TypeOK
    <2> QED
      BY <2>1, <2>2, <2>3
  <1> QED
    BY <1>1, <1>3, QuietKept

LEMMA StartPoofKept ==
    ASSUME TypeOK, CallInv, NEW i \in Interfaces, NEW k \in Keys, StartPoof(i, k)
    PROVE  CallInv'
  <1>1. UNCHANGED <<browser, lookups, started, view, work>>
    BY DEF StartPoof, lookupVars
  <1>2. \A e \in Entries : cache'[e] = "none" <=> cache[e] = "none"
    BY DEF StartPoof
  <1> QED
    BY <1>1, <1>2, QuietKept

LEMMA NewKept ==
    ASSUME TypeOK, CallInv, NEW a \in Browsers, New(a)
    PROVE  CallInv'
  <1>1. /\ UNCHANGED <<cache, lookups, started, view, work>>
        /\ \A b \in Browsers : browser[b] = "running" => browser'[b] = "running"
    BY DEF New, netVars, TypeOK
  <1> QED
    BY <1>1, QuietKept

LEMMA StillKept ==
    ASSUME TypeOK, CallInv, UNCHANGED vars \/ AssertBrowsedKey \/ AssertNotStarted
    PROVE  CallInv'
  <1>1. UNCHANGED <<cache, browser, lookups, started, view, work>>
    BY DEF vars, AssertBrowsedKey, AssertNotStarted, netVars, lookupVars
  <1> QED
    BY <1>1, QuietKept

-----------------------------------------------------------------------------
(* The queriers.                                                           *)

LEMMA UsersFinite ==
    ASSUME NEW st, NEW q \in QuerierIds
    PROVE  /\ IsFiniteSet(Users(st, q)) /\ Cardinality(Users(st, q)) \in Nat
           /\ Users(st, q) = {} <=> Cardinality(Users(st, q)) = 0
  <1>1. IsFiniteSet(Browsers \X Lookups)
    BY BrowserAssumption, FS_Product, FS_AddElement DEF Lookups
  <1>2. Users(st, q) \in SUBSET (Browsers \X Lookups)
    BY DEF Users
  <1> HIDE DEF Users
  <1>3. IsFiniteSet(Users(st, q))
    BY <1>1, <1>2, FS_Subset
  <1> QED
    BY <1>3, FS_CardinalityType, FS_EmptySet

\* The steps of browsers and entries, which leave the queriers alone.
LEMMA CountStill ==
    ASSUME CountInv, UNCHANGED <<announcing, used, queriers, started>>
    PROVE  CountInv'
  BY DEF CountInv, Users

\* A browser that stops takes away its own users of every querier.
LEMMA CountCancel ==
    ASSUME TypeOK, CountInv, NEW a \in Browsers, BrowserCancel(a), UNCHANGED announcing
    PROVE  CountInv' /\ used' \in [QuerierIds -> Nat] /\ queriers' \in SUBSET QuerierIds
  <1> DEFINE mine(q) == {c \in Users(started, q) : c[1] = a}
             n(q) == Cardinality(mine(q))
             left(q) == IF used[q] > n(q) THEN used[q] - n(q) ELSE 0
             unused == {q \in queriers : n(q) > 0 /\ left(q) = 0}
  <1>1. /\ used' = [q \in QuerierIds |-> left(q)]
        /\ queriers' \subseteq queriers /\ queriers \ unused \subseteq queriers'
        /\ started' = [started EXCEPT ![a] = {}]
    BY DEF BrowserCancel, RemoveQueriers
  <1>2. ASSUME NEW q \in QuerierIds
        PROVE  /\ n(q) \in Nat /\ n(q) <= Cardinality(Users(started, q))
               /\ Cardinality(Users(started', q)) = Cardinality(Users(started, q)) - n(q)
    <2>1. Users(started', q) = Users(started, q) \ mine(q)
      BY <1>1 DEF Users, TypeOK
    <2>2. mine(q) \in SUBSET Users(started, q)
      OBVIOUS
    <2> DEFINE u == Users(started, q)
               m == mine(q)
    <2>3. /\ IsFiniteSet(u) /\ m \in SUBSET u /\ Users(started', q) = u \ m
      BY <2>1, <2>2, UsersFinite
    <2> HIDE DEF u, m
    <2>4. IsFiniteSet(m) /\ Cardinality(m) <= Cardinality(u) /\ Cardinality(m) \in Nat
      BY <2>3, FS_Subset, FS_CardinalityType
    <2>5. u \cap m = m
      BY <2>3
    <2>6. Cardinality(u \ m) = Cardinality(u) - Cardinality(m)
      BY <2>3, <2>5, FS_Difference
    <2> QED
      BY <2>3, <2>4, <2>6 DEF u, m
  <1> HIDE DEF n, mine
  <1>3. used \in [QuerierIds -> Nat] /\ queriers \in SUBSET QuerierIds
    BY DEF TypeOK
  <1>4. ASSUME NEW q \in QuerierIds
        PROVE  /\ used'[q] = IF q[1] \in announcing' THEN Cardinality(Users(started', q)) ELSE 0
               /\ used'[q] \in Nat
               /\ used'[q] > 0 => q \in queriers'
    <2>1. /\ used[q] = IF q[1] \in announcing THEN Cardinality(Users(started, q)) ELSE 0
          /\ used[q] > 0 => q \in queriers
      BY DEF CountInv
    <2>2. Cardinality(Users(started, q)) \in Nat
      BY UsersFinite
    <2>3. used'[q] = left(q)
      BY <1>1
    <2>4. used'[q] = IF q[1] \in announcing' THEN Cardinality(Users(started', q)) ELSE 0
      BY <1>2, <2>1, <2>2, <2>3
    <2>5. used'[q] \in Nat
      BY <1>2, <1>3, <2>3
    <2>6. used'[q] > 0 => q \in queriers'
      BY <1>1, <1>2, <1>3, <2>1, <2>3
    <2> QED
      BY <2>4, <2>5, <2>6
  <1>5. CountInv'
    BY <1>4 DEF CountInv
  <1>6. used' \in [QuerierIds -> Nat]
    BY <1>1, <1>4
  <1>7. queriers' \in SUBSET QuerierIds
    BY <1>1, <1>3
  <1> QED
    BY <1>5, <1>6, <1>7

\* A lookup that starts is one more user of each querier it asks for.
LEMMA CountStart ==
    ASSUME TypeOK, CountInv, LookupStart
    PROVE  CountInv' /\ used' \in [QuerierIds -> Nat] /\ queriers' \in SUBSET QuerierIds
  <1> DEFINE a == Call.b
             m == Call.l
             asked == {q \in QuerierIds :
                         q[1] \in announcing /\ q[2] = m[1] /\ InterfaceMatch(q[1], m)}
  <1>1. /\ used' = [q \in QuerierIds |-> IF q \in asked THEN used[q] + 1 ELSE used[q]]
        /\ queriers' = queriers \cup asked /\ UNCHANGED announcing
        /\ started' = [started EXCEPT ![a] = @ \cup {m}] /\ m \notin started[a]
        /\ work # <<>>
    BY DEF LookupStart, AddQueriers, Due, netVars
  <1>2. a \in Browsers /\ m \in Lookups
    BY <1>1, CallFacts
  <1> HIDE DEF a, m
  <1>3. ASSUME NEW q \in QuerierIds
        PROVE  Cardinality(Users(started', q)) =
                 IF q[2] = m[1] /\ InterfaceMatch(q[1], m)
                 THEN Cardinality(Users(started, q)) + 1 ELSE Cardinality(Users(started, q))
    <2>1. CASE q[2] = m[1] /\ InterfaceMatch(q[1], m)
      <3>1. <<a, m>> \notin Users(started, q)
        BY <1>1 DEF Users
      <3>2. Users(started', q) = Users(started, q) \cup {<<a, m>>}
        BY <1>1, <1>2, <2>1 DEF Users, TypeOK
      <3>3. IsFiniteSet(Users(started, q))
        BY UsersFinite
      <3> QED
        BY <2>1, <3>1, <3>2, <3>3, FS_AddElement
    <2>2. CASE ~ (q[2] = m[1] /\ InterfaceMatch(q[1], m))
      <3>1. Users(started', q) = Users(started, q)
        BY <1>1, <1>2, <2>2 DEF Users, TypeOK
      <3> QED
        BY <2>2, <3>1
    <2> QED
      BY <2>1, <2>2
  <1>4. used \in [QuerierIds -> Nat] /\ queriers \in SUBSET QuerierIds
    BY DEF TypeOK
  <1>5. ASSUME NEW q \in QuerierIds
        PROVE  /\ used'[q] = IF q[1] \in announcing' THEN Cardinality(Users(started', q)) ELSE 0
               /\ used'[q] > 0 => q \in queriers'
    <2>1. /\ used[q] = IF q[1] \in announcing THEN Cardinality(Users(started, q)) ELSE 0
          /\ used[q] > 0 => q \in queriers
      BY DEF CountInv
    <2> QED
      BY <1>1, <1>3, <1>4, <2>1
  <1>6. CountInv'
    BY <1>5 DEF CountInv
  <1>7. used' \in [QuerierIds -> Nat] /\ queriers' \in SUBSET QuerierIds
    BY <1>1, <1>4
  <1> QED
    BY <1>6, <1>7

LEMMA CountInterface ==
    ASSUME TypeOK, CountInv, NEW i \in Interfaces, InterfaceUp(i) \/ InterfaceDown(i)
    PROVE  CountInv' /\ used' \in [QuerierIds -> Nat] /\ queriers' \in SUBSET QuerierIds
  <1>1. used \in [QuerierIds -> Nat] /\ queriers \in SUBSET QuerierIds
    BY DEF TypeOK
  <1>2. started' = started /\ \A q \in QuerierIds : Users(started, q)' = Users(started, q)
    BY DEF InterfaceUp, InterfaceDown, lookupVars, Users
  <1>3. \A q \in QuerierIds :
          /\ used[q] = IF q[1] \in announcing THEN Cardinality(Users(started, q)) ELSE 0
          /\ used[q] > 0 => q \in queriers
    BY DEF CountInv
  <1>4. \A q \in QuerierIds : /\ Cardinality(Users(started, q)) \in Nat
                              /\ Users(started, q) = {} <=> Cardinality(Users(started, q)) = 0
    BY UsersFinite
  <1>5. CASE InterfaceUp(i)
    <2> DEFINE mine == {q \in QuerierIds : q[1] = i /\ Users(started, q) # {}}
    <2>1. /\ announcing' = announcing \cup {i} /\ i \notin announcing
          /\ used' = [q \in QuerierIds |-> IF q \in mine
                        THEN Cardinality(Users(started, q)) ELSE used[q]]
          /\ queriers' = queriers \cup mine
      BY <1>5 DEF InterfaceUp
    <2>2. ASSUME NEW q \in QuerierIds
          PROVE  /\ used'[q] = IF q[1] \in announcing' THEN Cardinality(Users(started, q)) ELSE 0
                 /\ used'[q] > 0 => q \in queriers'
      BY <1>1, <1>3, <1>4, <2>1
    <2>3. CountInv'
      BY <1>2, <2>2 DEF CountInv
    <2>4. used' \in [QuerierIds -> Nat] /\ queriers' \in SUBSET QuerierIds
      BY <1>1, <1>4, <2>1
    <2> QED
      BY <2>3, <2>4
  <1>6. CASE InterfaceDown(i)
    <2>1. /\ announcing' = announcing \ {i}
          /\ used' = [q \in QuerierIds |-> IF q[1] = i THEN 0 ELSE used[q]]
          /\ queriers' = {q \in queriers : q[1] # i}
      BY <1>6 DEF InterfaceDown
    <2>2. ASSUME NEW q \in QuerierIds
          PROVE  /\ used'[q] = IF q[1] \in announcing' THEN Cardinality(Users(started, q)) ELSE 0
                 /\ used'[q] > 0 => q \in queriers'
      BY <1>1, <1>3, <1>4, <2>1
    <2>3. CountInv'
      BY <1>2, <2>2 DEF CountInv
    <2>4. used' \in [QuerierIds -> Nat] /\ queriers' \in SUBSET QuerierIds
      BY <1>1, <2>1
    <2> QED
      BY <2>3, <2>4
  <1> QED
    BY <1>5, <1>6

\* A querier that goes by its timer has no user.
LEMMA CountElapse ==
    ASSUME TypeOK, CountInv, UNCHANGED <<announcing, used, started>>,
           queriers' \subseteq queriers, \A q \in queriers : used[q] # 0 => q \in queriers'
    PROVE  CountInv' /\ used' \in [QuerierIds -> Nat] /\ queriers' \in SUBSET QuerierIds
  <1>1. used \in [QuerierIds -> Nat] /\ queriers \in SUBSET QuerierIds
    BY DEF TypeOK
  <1> QED
    BY <1>1 DEF CountInv, Users

-----------------------------------------------------------------------------
(* The inductive invariant.                                                *)

LEMMA InitInv == Init => IInv
  <1> SUFFICES ASSUME Init PROVE IInv
    OBVIOUS
  <1>1. TypeOK
    <2>1. announcing \in SUBSET Interfaces /\ queriers = {} /\ aborted = FALSE
      BY DEF Init
    <2>2. /\ cache \in [Entries -> CacheStates \cup {"none"}]
          /\ poof \in [Entries -> 0..PoofLimit] /\ used \in [QuerierIds -> Nat]
      BY BrowserAssumption DEF Init
    <2>3. /\ browser \in [Browsers -> {"none", "deferred", "running"}]
          /\ lookups \in [Browsers -> SUBSET Lookups] /\ started \in [Browsers -> SUBSET Lookups]
          /\ view \in [Browsers -> SUBSET Entries]
      BY DEF Init
    <2>4. work \in Seq(Calls)
      BY DEF Init
    <2> QED
      BY <2>1, <2>2, <2>3, <2>4 DEF TypeOK
  <1>2. ToSet(work) = {}
    BY EmptyFacts DEF Init
  <1>3. CallsInv /\ LookupsInv /\ ViewInv
    BY <1>2 DEF Init, CallsInv, LookupsInv, ViewInv
  <1>4. ASSUME NEW q \in QuerierIds PROVE Cardinality(Users(started, q)) = 0
    <2>1. Users(started, q) = {}
      BY DEF Init, Users
    <2> QED
      BY <2>1, UsersFinite
  <1>5. CountInv
    <2>1. \A q \in QuerierIds : used[q] = 0
      BY DEF Init
    <2> QED
      BY <1>4, <2>1 DEF CountInv
  <1> QED
    BY <1>1, <1>3, <1>5 DEF IInv

LEMMA Parts == IInv <=> TypeOK /\ CallInv /\ CountInv
  BY DEF IInv, CallInv

LEMMA CallStepInv ==
    ASSUME IInv, MakeCall
    PROVE  IInv'
  <1>0. TypeOK /\ CallInv /\ CountInv
    BY Parts
  <1>1. work # <<>>
    BY DEF MakeCall, Skip, ReportNew, ReportRemove, ReportRemoveRestart, AssertBrowsedKey,
           HandleCname, DropCname, LookupStart, AssertNotStarted, CacheExhausted, Due
  <1>2. /\ Call.b \in Browsers /\ Call.l \in Lookups /\ Tail(work) \in Seq(Calls)
        /\ Call.op \in {"new", "remove"} => <<Call.i, Call.r>> \in Entries /\ Call.r \in Records
    BY <1>0, <1>1, CallFacts DEF Entries
  <1>3. CASE Skip \/ DropCname \/ CacheExhausted
    <2>1. TypeOK'
      BY <1>0, <1>2, <1>3
         DEF TypeOK, Skip, DropCname, CacheExhausted, Done, netVars, lookupVars
    <2>2. CountInv'
      BY <1>0, <1>3, CountStill DEF Skip, DropCname, CacheExhausted, netVars, lookupVars
    <2>3. CallInv'
      BY <1>0, <1>3, IdleCallKept
    <2> QED
      BY <2>1, <2>2, <2>3, Parts DEF IInv, CallInv
  <1>4. CASE ReportNew \/ ReportRemove
    <2>1. view' \in [Browsers -> SUBSET Entries]
      <3>1. view \in [Browsers -> SUBSET Entries] /\ <<Call.i, Call.r>> \in Entries
        BY <1>0, <1>2, <1>4 DEF TypeOK, ReportNew, ReportRemove, Due
      <3>2. CASE ReportNew
        BY <1>2, <3>1, <3>2 DEF ReportNew
      <3>3. CASE ReportRemove
        BY <1>2, <3>1, <3>3 DEF ReportRemove
      <3> QED
        BY <1>4, <3>2, <3>3
    <2>2. TypeOK'
      BY <1>0, <1>2, <1>4, <2>1 DEF TypeOK, ReportNew, ReportRemove, Done, netVars, lookupVars
    <2>3. CountInv'
      BY <1>0, <1>4, CountStill DEF ReportNew, ReportRemove, netVars, lookupVars
    <2>4. CallInv'
      BY <1>0, <1>4, ReportNewKept, ReportRemoveKept
    <2> QED
      BY <2>2, <2>3, <2>4 DEF IInv, CallInv
  <1>5. CASE ReportRemoveRestart
    <2>1. CountInv' /\ used' \in [QuerierIds -> Nat] /\ queriers' \in SUBSET QuerierIds
      BY <1>0, <1>2, <1>5, CountCancel DEF ReportRemoveRestart, netVars
    <2>2. TypeOK'
      BY <1>0, <1>2, <1>5, <2>1 DEF TypeOK, ReportRemoveRestart, BrowserCancel, Done, netVars
    <2>3. CallInv'
      BY <1>0, <1>5, ReportRemoveRestartKept
    <2> QED
      BY <2>1, <2>2, <2>3 DEF IInv, CallInv
  <1>6. CASE AssertBrowsedKey \/ AssertNotStarted
    <2>1. TypeOK'
      BY <1>0, <1>6 DEF TypeOK, AssertBrowsedKey, AssertNotStarted, netVars, lookupVars
    <2>2. CountInv'
      BY <1>0, <1>6, CountStill DEF AssertBrowsedKey, AssertNotStarted, netVars, lookupVars
    <2>3. CallInv'
      BY <1>0, <1>6, StillKept
    <2> QED
      BY <2>1, <2>2, <2>3 DEF IInv, CallInv
  <1>7. CASE HandleCname
    <2>1. Call.op = "new" /\ IsCname(Call.r)
      BY <1>7 DEF HandleCname, Due
    <2>2. <<Target[Call.r], Call.i>> \in Lookups
      BY <1>2, <2>1, BrowserAssumption DEF Lookups, IsCname, Entries
    <2>3. ASSUME NEW m \in Lookups PROVE LookupGo(Call.b, m) \o Tail(work) \in Seq(Calls)
      BY <1>2, <2>3, LookupGoFacts
    <2>4. \A l \in LookupFind(Call.b, Target[Call.r], Call.i) : l \in Lookups
      BY <1>0, <1>2 DEF LookupFind, TypeOK
    <2>5. work' \in Seq(Calls)
      BY <1>2, <1>7, <2>2, <2>3, <2>4 DEF HandleCname, Done
    <2>6. lookups' \in [Browsers -> SUBSET Lookups]
      <3>1. \/ lookups' = lookups
            \/ lookups' = [lookups EXCEPT ![Call.b] = @ \cup {<<Target[Call.r], Call.i>>}]
        BY <1>7 DEF HandleCname
      <3>2. lookups \in [Browsers -> SUBSET Lookups]
        BY <1>0 DEF TypeOK
      <3> QED
        BY <1>2, <2>2, <3>1, <3>2
    <2>7. TypeOK'
      BY <1>0, <1>7, <2>5, <2>6 DEF TypeOK, HandleCname, netVars
    <2>8. CountInv'
      BY <1>0, <1>7, CountStill DEF HandleCname, netVars
    <2>9. CallInv'
      BY <1>0, <1>7, HandleCnameKept
    <2> QED
      BY <2>7, <2>8, <2>9 DEF IInv, CallInv
  <1>8. CASE LookupStart
    <2>1. CountInv' /\ used' \in [QuerierIds -> Nat] /\ queriers' \in SUBSET QuerierIds
      BY <1>0, <1>8, CountStart
    <2>2. TypeOK'
      BY <1>0, <1>2, <1>8, <2>1 DEF TypeOK, LookupStart, Done, netVars
    <2>3. CallInv'
      BY <1>0, <1>8, LookupStartKept
    <2> QED
      BY <2>1, <2>2, <2>3 DEF IInv, CallInv
  <1> QED
    BY <1>3, <1>4, <1>5, <1>6, <1>7, <1>8 DEF MakeCall

LEMMA ClientStepInv ==
    ASSUME IInv, NEW a \in Browsers, New(a) \/ Free(a) \/ DeferCallback(a)
    PROVE  IInv'
  <1>0. TypeOK /\ CallInv /\ CountInv
    BY Parts
  <1>1. CASE New(a)
    <2>1. TypeOK'
      BY <1>0, <1>1 DEF TypeOK, New, netVars
    <2>2. CountInv'
      BY <1>0, <1>1, CountStill DEF New, netVars
    <2>3. CallInv'
      BY <1>0, <1>1, NewKept
    <2> QED
      BY <2>1, <2>2, <2>3 DEF IInv, CallInv
  <1>2. CASE Free(a)
    <2>1. CountInv' /\ used' \in [QuerierIds -> Nat] /\ queriers' \in SUBSET QuerierIds
      BY <1>0, <1>2, CountCancel DEF Free, netVars
    <2>2. TypeOK'
      BY <1>0, <1>2, <2>1 DEF TypeOK, Free, BrowserCancel, netVars
    <2>3. CallInv'
      BY <1>0, <1>2, FreeKept
    <2> QED
      BY <2>1, <2>2, <2>3 DEF IInv, CallInv
  <1>3. CASE DeferCallback(a)
    <2>1. RootLookup(a) \in Lookups
      BY BrowserAssumption DEF RootLookup, Lookups
    <2>2. <<[op |-> "exhausted", b |-> a, l |-> RootLookup(a)]>> \in Seq(Calls)
      BY <2>1 DEF Calls
    <2>3. work' \in Seq(Calls)
      BY <1>3, <2>1, <2>2, LookupGoFacts DEF DeferCallback
    <2>4. TypeOK'
      BY <1>0, <1>3, <2>1, <2>3 DEF TypeOK, DeferCallback, netVars
    <2>5. CountInv'
      BY <1>0, <1>3, CountStill DEF DeferCallback, netVars
    <2>6. CallInv'
      BY <1>0, <1>3, DeferCallbackKept
    <2> QED
      BY <2>4, <2>5, <2>6 DEF IInv, CallInv
  <1> QED
    BY <1>1, <1>2, <1>3

LEMMA InterfaceStepInv ==
    ASSUME IInv, NEW i \in Interfaces, InterfaceUp(i) \/ InterfaceDown(i)
    PROVE  IInv'
  <1>0. TypeOK /\ CallInv /\ CountInv
    BY Parts
  <1>1. CountInv' /\ used' \in [QuerierIds -> Nat] /\ queriers' \in SUBSET QuerierIds
    BY <1>0, CountInterface
  <1>2. CASE InterfaceUp(i)
    <2>1. TypeOK'
      BY <1>0, <1>1, <1>2 DEF TypeOK, InterfaceUp, lookupVars
    <2>2. CallInv'
      BY <1>0, <1>2, QuietKept DEF InterfaceUp, lookupVars
    <2> QED
      BY <1>1, <2>1, <2>2 DEF IInv, CallInv
  <1>3. CASE InterfaceDown(i)
    <2>1. {<<i, r>> : r \in Cached(i)} \in SUBSET Entries
      <3>1. \A r \in Cached(i) : <<i, r>> \in Entries
        BY DEF Entries, Cached
      <3> QED
        BY <3>1
    <2>2. work' \in Seq(Calls)
      BY <1>3, <2>1, NotifyFacts DEF InterfaceDown
    <2>3. /\ cache' \in [Entries -> CacheStates \cup {"none"}]
          /\ poof' \in [Entries -> 0..PoofLimit]
      BY <1>0, <1>3, BrowserAssumption DEF TypeOK, InterfaceDown
    <2>4. TypeOK'
      BY <1>0, <1>1, <1>3, <2>2, <2>3 DEF TypeOK, InterfaceDown, lookupVars
    <2>5. CallInv'
      BY <1>0, <1>3, InterfaceDownKept
    <2> QED
      BY <1>1, <2>4, <2>5 DEF IInv, CallInv
  <1> QED
    BY <1>2, <1>3

\* The steps of the cache and of a querier's timer: what is common to them.
LEMMA TimerStepInv ==
    ASSUME IInv, UNCHANGED <<announcing, used, browser, lookups, started, view, aborted>>,
           queriers' \subseteq queriers, \A p \in queriers : used[p] # 0 => p \in queriers',
           cache' \in [Entries -> CacheStates \cup {"none"}],
           poof' \in [Entries -> 0..PoofLimit], work' \in Seq(Calls), CallInv'
    PROVE  IInv'
  <1>1. TypeOK /\ CountInv
    BY DEF IInv
  <1>2. CountInv' /\ used' \in [QuerierIds -> Nat] /\ queriers' \in SUBSET QuerierIds
    BY <1>1, CountElapse
  <1>3. TypeOK'
    BY <1>1, <1>2 DEF TypeOK
  <1> QED
    BY <1>2, <1>3 DEF IInv, CallInv

LEMMA EntryStepInv ==
    ASSUME IInv, NEW i \in Interfaces, NEW r \in Records,
           \/ CacheUpdate(i, r) \/ Goodbye(i, r) \/ Elapse(i, r) \/ Expire(i, r)
           \/ StopPoof(i, r)
    PROVE  IInv'
  <1>1. TypeOK /\ CallInv
    BY DEF IInv, CallInv
  <1>2. <<i, r>> \in Entries /\ 0 \in 0..PoofLimit
    BY BrowserAssumption DEF Entries
  <1>3. /\ cache \in [Entries -> CacheStates \cup {"none"}]
        /\ poof \in [Entries -> 0..PoofLimit]
    BY <1>1 DEF TypeOK
  <1>4. /\ cache' \in [Entries -> CacheStates \cup {"none"}]
        /\ poof' \in [Entries -> 0..PoofLimit]
    <2>1. CASE CacheUpdate(i, r)
      <3>1. PICK old : LET replaced == [e \in Entries |-> IF e[1] = i /\ e[2] \in old
                                             THEN "replace_final" ELSE cache[e]]
                           kept == r \in Cached(i) \/ ~CacheFull(i)
              IN  cache' = IF kept THEN [replaced EXCEPT ![<<i, r>>] = "valid"] ELSE replaced
        BY <2>1 DEF CacheUpdate
      <3>2. cache' \in [Entries -> CacheStates \cup {"none"}]
        BY <1>2, <1>3, <3>1 DEF CacheStates, Finals
      <3>3. poof' = [e \in Entries |-> IF cache'[e] = "poof" THEN poof[e] ELSE 0]
        BY <2>1 DEF CacheUpdate
      <3> QED
        BY <1>2, <1>3, <3>2, <3>3
    <2>2. CASE Goodbye(i, r)
      BY <1>2, <1>3, <2>2 DEF Goodbye, CacheStates, Finals
    <2>3. CASE Elapse(i, r)
      <3>1. cache[<<i, r>>] \in {"valid", "poof", "expiry1", "expiry2", "expiry3"}
        BY <1>2, <1>3, <2>3 DEF Elapse, Cached, CacheStates
      <3>2. NextState[cache[<<i, r>>]] \in CacheStates
        BY <3>1 DEF NextState, CacheStates, Finals
      <3> QED
        BY <1>2, <1>3, <2>3, <3>2 DEF Elapse
    <2>4. CASE Expire(i, r)
      BY <1>2, <1>3, <2>4 DEF Expire
    <2>5. CASE StopPoof(i, r)
      BY <1>2, <1>3, <2>5 DEF StopPoof, CacheStates
    <2> QED
      BY <2>1, <2>2, <2>3, <2>4, <2>5
  <1>5. work' \in Seq(Calls)
    <2>1. {<<i, r>>} \in SUBSET Entries
      BY <1>2
    <2>2. Notify("new", {<<i, r>>}) \in Seq(Calls) /\ Notify("remove", {<<i, r>>}) \in Seq(Calls)
      BY <2>1, NotifyFacts
    <2>3. work \in Seq(Calls) /\ <<>> \in Seq(Calls)
      BY <1>1 DEF TypeOK
    <2>4. work' \in {work, <<>>, Notify("new", {<<i, r>>}), Notify("remove", {<<i, r>>})}
      BY DEF CacheUpdate, Goodbye, Elapse, Expire, StopPoof
    <2> QED
      BY <2>2, <2>3, <2>4
  <1>6. /\ UNCHANGED <<announcing, used, browser, lookups, started, view, aborted>>
        /\ queriers' \subseteq queriers /\ \A p \in queriers : used[p] # 0 => p \in queriers'
    BY DEF CacheUpdate, Goodbye, Elapse, Expire, StopPoof, AfterRefresh, lookupVars
  <1>7. CallInv'
    BY <1>1, CacheUpdateKept, ExpireKept, QuietEntryKept
  <1> QED
    BY <1>4, <1>5, <1>6, <1>7, TimerStepInv

LEMMA StartPoofInv ==
    ASSUME IInv, NEW i \in Interfaces, NEW k \in Keys, StartPoof(i, k)
    PROVE  IInv'
  <1> DEFINE asked == {<<i, r>> : r \in {r \in Cached(i) : KeyOf[r] = k /\ ~IsCname(r)}}
  <1>1. TypeOK /\ CallInv
    BY DEF IInv, CallInv
  <1>2. PICK late \in SUBSET {e \in asked : cache[e] = "poof"} :
          /\ cache' = [e \in Entries |->
                IF e \in asked /\ cache[e] = "valid" THEN "poof"
                ELSE IF e \in late /\ poof[e] >= PoofLimit THEN "poof_final"
                ELSE cache[e]]
          /\ poof' = [e \in Entries |->
                IF e \in late THEN (poof[e] + 1) % (PoofLimit + 1) ELSE poof[e]]
    BY DEF StartPoof
  <1> HIDE DEF asked
  <1>3. \A n \in 0..PoofLimit : (n + 1) % (PoofLimit + 1) \in 0..PoofLimit
    BY BrowserAssumption
  <1>4. /\ cache' \in [Entries -> CacheStates \cup {"none"}]
        /\ poof' \in [Entries -> 0..PoofLimit]
    BY <1>1, <1>2, <1>3 DEF TypeOK, CacheStates, Finals
  <1>5. /\ UNCHANGED <<announcing, used, queriers, browser, lookups, started, view, aborted>>
        /\ work' \in Seq(Calls)
    BY <1>1 DEF StartPoof, TypeOK, lookupVars
  <1>6. CallInv'
    BY <1>1, StartPoofKept
  <1> QED
    BY <1>4, <1>5, <1>6, TimerStepInv

LEMMA QuerierElapseInv ==
    ASSUME IInv, NEW q \in QuerierIds, QuerierElapse(q)
    PROVE  IInv'
  <1>1. TypeOK /\ CallInv
    BY DEF IInv, CallInv
  <1>2. /\ UNCHANGED <<announcing, cache, poof, used, browser, lookups, started, view, work,
                       aborted>>
        /\ queriers' \subseteq queriers /\ \A p \in queriers : used[p] # 0 => p \in queriers'
    BY DEF QuerierElapse, netVars, lookupVars
  <1>3. CallInv'
    BY <1>1, <1>2, QuietKept
  <1>4. /\ cache' \in [Entries -> CacheStates \cup {"none"}]
        /\ poof' \in [Entries -> 0..PoofLimit] /\ work' \in Seq(Calls)
    BY <1>1, <1>2 DEF TypeOK
  <1> QED
    BY <1>2, <1>3, <1>4, TimerStepInv

LEMMA StepInv == IInv /\ [Next]_vars => IInv'
  <1> SUFFICES ASSUME IInv, [Next]_vars PROVE IInv'
    OBVIOUS
  <1>1. CASE MakeCall
    BY <1>1, CallStepInv
  <1>2. CASE UNCHANGED vars
    <2>1. TypeOK /\ CallInv /\ CountInv
      BY Parts
    <2>2. TypeOK'
      BY <1>2, <2>1 DEF TypeOK, vars, netVars, lookupVars
    <2>3. CountInv'
      BY <1>2, <2>1, CountStill DEF vars, netVars, lookupVars
    <2>4. CallInv'
      BY <1>2, <2>1, StillKept
    <2> QED
      BY <2>2, <2>3, <2>4 DEF IInv, CallInv
  <1>3. ASSUME NEW a \in Browsers, New(a) \/ Free(a) \/ DeferCallback(a) PROVE IInv'
    BY <1>3, ClientStepInv
  <1>4. ASSUME NEW i \in Interfaces, InterfaceUp(i) \/ InterfaceDown(i) PROVE IInv'
    BY <1>4, InterfaceStepInv
  <1>5. ASSUME NEW i \in Interfaces, NEW k \in Keys, StartPoof(i, k) PROVE IInv'
    BY <1>5, StartPoofInv
  <1>6. ASSUME NEW q \in QuerierIds, QuerierElapse(q) PROVE IInv'
    BY <1>6, QuerierElapseInv
  <1>7. ASSUME NEW i \in Interfaces, NEW r \in Records,
               \/ CacheUpdate(i, r) \/ Goodbye(i, r) \/ Elapse(i, r) \/ Expire(i, r)
               \/ StopPoof(i, r)
        PROVE  IInv'
    BY <1>7, EntryStepInv
  <1> QED
    BY <1>1, <1>2, <1>3, <1>4, <1>5, <1>6, <1>7 DEF Next, Halted

(* Between two events a browser's callbacks have reported just what the caches
   hold for its lookups, for any number of browsers, interfaces, keys, records
   and CNAMEs and any limits: whatever expired, was replaced or went with its
   interface, and whoever was freed or restarted from a callback while others
   had still to be called. *)
THEOREM BrowserViewMatches == Spec => []ViewMatchesCache
  <1>1. IInv => ViewMatchesCache
    <2> SUFFICES ASSUME IInv, Idle, NEW b \in Browsers
                 PROVE  view[b] = {e \in Entries :
                           /\ cache[e] # "none" /\ ~IsCname(e[2])
                           /\ \E l \in lookups[b] : l[1] = KeyOf[e[2]] /\ InterfaceMatch(e[1], l)}
      BY DEF ViewMatchesCache
    <2>1. ToSet(work) = {}
      BY EmptyFacts DEF Idle
    <2>2. view[b] \subseteq Entries
      BY DEF IInv, TypeOK
    <2> QED
      BY <2>1, <2>2 DEF IInv, ViewInv, Coming, Answers
  <1> QED
    BY InitInv, StepInv, <1>1, PTL DEF Spec

(* A querier counts the lookups that use it, for any number of them, although
   interfaces go and come back and a browser with several lookups is cancelled
   in the middle of an event: no key that is browsed goes unasked, and a querier
   nobody uses is known to be unused. *)
THEOREM BrowserQueriersCounted == Spec => []QueriersCounted
  <1>1. IInv => QueriersCounted
    BY DEF IInv, CountInv, QueriersCounted
  <1> QED
    BY InitInv, StepInv, <1>1, PTL DEF Spec
=============================================================================
