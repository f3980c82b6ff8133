---------------------------- MODULE BonjourProofs ----------------------------
(* Proofs about the dns_sd backend, for every set of services, every way   *)
(* in which their keys may collide, and any number of Resolver objects.    *)
EXTENDS Bonjour, FiniteSetTheorems, TLAPS

\* The key of a service is a key.
LEMMA OwnKey == \A s \in Services : Own(s) \in Keys
  BY BonjourAssumption DEF Own

\* A Resolver object is a record and therefore never None.
LEMMA HeapFacts ==
    ASSUME TypeOK, NEW r \in Live
    PROVE  /\ r \in Ids /\ heap[r] \in [svc : Services, addr : BOOLEAN]
           /\ heap[r].svc \in Services /\ Own(heap[r].svc) \in Keys
  BY OwnKey DEF TypeOK, Live

\* What the application holds of a service is finite, so it can be counted.
LEMMA HeldFacts ==
    ASSUME TypeOK, NEW s \in Services
    PROVE  /\ HeldFor(s) \subseteq Keys
           /\ IsFiniteSet(HeldFor(s))
           /\ Cardinality(HeldFor(s)) \in Nat
  <1>1. HeldFor(s) \subseteq Keys
    BY DEF HeldFor, Held, Listed, TypeOK
  <1>2. IsFiniteSet(HeldFor(s))
    BY <1>1, BonjourAssumption, FS_Subset
  <1> QED
    BY <1>1, <1>2, FS_CardinalityType

\* serviceAdded(t) for one more key balances.
LEMMA AddedBalance ==
    ASSUME TypeOK, SignalsBalance, NEW t \in Services, NEW k, Added(t),
           k \notin HeldFor(t),
           \A s \in Services :
               HeldFor(s)' = IF s = t THEN HeldFor(s) \cup {k} ELSE HeldFor(s)
    PROVE  SignalsBalance' /\ app' \in [Services -> Nat]
  <1>1. app' \in [Services -> Nat]
    BY DEF Added, TypeOK
  <1>2. ASSUME NEW s \in Services PROVE app'[s] = Cardinality(HeldFor(s)')
    <2>1. app[s] = Cardinality(HeldFor(s)) /\ IsFiniteSet(HeldFor(s))
      BY HeldFacts DEF SignalsBalance
    <2>2. CASE s = t
      <3>1. Cardinality(HeldFor(s) \cup {k}) = Cardinality(HeldFor(s)) + 1
        BY <2>1, <2>2, FS_AddElement
      <3> QED
        BY <2>1, <2>2, <3>1 DEF Added, TypeOK
    <2>3. CASE s # t
      BY <2>1, <2>3 DEF Added, TypeOK
    <2> QED
      BY <2>2, <2>3
  <1> QED
    BY <1>1, <1>2 DEF SignalsBalance

\* serviceRemoved(t) for one key less balances.
LEMMA RemovedBalance ==
    ASSUME TypeOK, SignalsBalance, NEW t \in Services, NEW k, Removed(t),
           k \in HeldFor(t),
           \A s \in Services :
               HeldFor(s)' = IF s = t THEN HeldFor(s) \ {k} ELSE HeldFor(s)
    PROVE  SignalsBalance' /\ app' \in [Services -> Nat]
  <1>1. ASSUME NEW s \in Services
        PROVE  app'[s] = Cardinality(HeldFor(s)') /\ app'[s] \in Nat
    <2>1. /\ app[s] = Cardinality(HeldFor(s)) /\ IsFiniteSet(HeldFor(s))
          /\ Cardinality(HeldFor(s)) \in Nat
      BY HeldFacts DEF SignalsBalance
    <2>2. CASE s = t
      <3>1. /\ IsFiniteSet(HeldFor(s) \ {k})
            /\ Cardinality(HeldFor(s) \ {k}) = Cardinality(HeldFor(s)) - 1
        BY <2>1, <2>2, FS_RemoveElement
      <3>2. Cardinality(HeldFor(s) \ {k}) \in Nat
        BY <3>1, FS_CardinalityType
      <3>3. app'[s] = app[s] - 1
        BY <2>2 DEF Removed, TypeOK
      <3> QED
        BY <2>1, <2>2, <3>1, <3>2, <3>3
    <2>3. CASE s # t
      BY <2>1, <2>3 DEF Removed, TypeOK
    <2> QED
      BY <2>2, <2>3
  <1>2. app' \in [Services -> Nat]
    BY <1>1 DEF Removed, TypeOK
  <1> QED
    BY <1>1, <1>2 DEF SignalsBalance

\* Nothing was added or removed and the same keys are held.
LEMMA SameBalance ==
    ASSUME SignalsBalance, UNCHANGED app,
           \A s \in Services : HeldFor(s)' = HeldFor(s)
    PROVE  SignalsBalance'
  BY DEF SignalsBalance

LEMMA InitInv == Init => IInv
  <1> SUFFICES ASSUME Init PROVE IInv
    OBVIOUS
  <1>1. TypeOK
    BY BonjourAssumption DEF Init, TypeOK
  <1>2. SignalsBalance
    <2>1. \A s \in Services : HeldFor(s) = {} /\ app[s] = 0
      BY DEF Init, HeldFor, Held, Listed
    <2> QED
      BY <2>1, FS_EmptySet DEF SignalsBalance
  <1> QED
    BY <1>1, <1>2 DEF Init, IInv, NoDanglingResolver, PendingInv

\* A step that leaves the maps, the picture and the clean-up alone.
LEMMA FrameInv ==
    ASSUME IInv,
           UNCHANGED <<resolveVars, cleanUpVars>>,
           alive' \in BOOLEAN, browser' \in BOOLEAN, fault' \in BOOLEAN,
           dnssRef' \in {"none", "registering", "published"},
           net' \in SUBSET Services, reported' \in SUBSET Services
    PROVE  IInv'
  <1> USE DEF resolveVars, cleanUpVars
  <1>1. TypeOK' /\ NoDanglingResolver' /\ PendingInv'
    BY DEF IInv, TypeOK, NoDanglingResolver, PendingInv, Live, Listed
  <1>2. SignalsBalance'
    BY SameBalance DEF IInv, HeldFor, Held, Listed
  <1> QED
    BY <1>1, <1>2 DEF IInv

LEMMA CrashInv == IInv /\ Crash => IInv'
  BY FrameInv DEF Crash, IInv, TypeOK

\* Resolver::cleanUp() of one of several Resolvers: the entry it removes is
\* found by key alone, and no other entry holds the deleted object.
LEMMA CleanUpResolverFacts ==
    ASSUME TypeOK, NoDanglingResolver, NEW r \in Live, CleanUpResolver(r)
    PROVE  /\ heap' \in [Ids -> [svc : Services, addr : BOOLEAN] \cup {None}]
           /\ resolvers' \in [Keys -> Ids \cup {None}]
           /\ NoDanglingResolver'
  <1> USE DEF CleanUpResolver
  <1>1. Own(heap[r].svc) \in Keys /\ r \in Ids
    BY HeapFacts
  <1>2. /\ heap' \in [Ids -> [svc : Services, addr : BOOLEAN] \cup {None}]
        /\ resolvers' \in [Keys -> Ids \cup {None}]
    BY <1>1 DEF TypeOK
  <1>3. NoDanglingResolver'
    <2> SUFFICES ASSUME NEW k \in Keys, resolvers'[k] # None
                 PROVE  /\ resolvers'[k] \in Live'
                        /\ Own(heap'[resolvers'[k]].svc) = k
      BY DEF NoDanglingResolver
    <2>1. k # Own(heap[r].svc) /\ resolvers'[k] = resolvers[k]
      BY <1>1 DEF TypeOK
    <2>2. resolvers[k] \in Live /\ Own(heap[resolvers[k]].svc) = k
      BY <2>1 DEF NoDanglingResolver
    <2>3. heap'[resolvers[k]] = heap[resolvers[k]]
      BY <2>1, <2>2 DEF TypeOK, Live
    <2> QED
      BY <2>1, <2>2, <2>3 DEF Live
  <1> QED
    BY <1>2, <1>3

\* resolve(): the new Resolver takes over the entry of its key.
LEMMA ResolveFacts ==
    ASSUME TypeOK, NoDanglingResolver, NEW s \in Services, Resolve(s)
    PROVE  /\ heap' \in [Ids -> [svc : Services, addr : BOOLEAN] \cup {None}]
           /\ resolvers' \in [Keys -> Ids \cup {None}]
           /\ NoDanglingResolver'
  <1>0. Own(s) \in Keys
    BY OwnKey
  <1>1. CASE /\ resolvers' = [resolvers EXCEPT ![Own(s)] = None]
             /\ UNCHANGED heap
    BY <1>0, <1>1 DEF TypeOK, NoDanglingResolver, Live
  <1>2. ASSUME NEW r \in Ids \ Live,
               heap' = [heap EXCEPT ![r] = [svc |-> s, addr |-> FALSE]],
               resolvers' = [resolvers EXCEPT ![Own(s)] = r]
        PROVE  /\ heap' \in [Ids -> [svc : Services, addr : BOOLEAN] \cup {None}]
               /\ resolvers' \in [Keys -> Ids \cup {None}]
               /\ NoDanglingResolver'
    <2>1. /\ heap' \in [Ids -> [svc : Services, addr : BOOLEAN] \cup {None}]
          /\ resolvers' \in [Keys -> Ids \cup {None}]
      BY <1>0, <1>2 DEF TypeOK
    <2>2. /\ heap'[r] = [svc |-> s, addr |-> FALSE] /\ heap'[r] # None
          /\ \A q \in Ids : q # r => heap'[q] = heap[q]
      <3>1. [svc |-> s, addr |-> FALSE] \in [svc : Services, addr : BOOLEAN]
        OBVIOUS
      <3>2. [svc |-> s, addr |-> FALSE] # None
        BY <3>1, BonjourAssumption
      <3> QED
        BY <1>2, <3>2 DEF TypeOK
    <2>3. Live \subseteq Live' /\ r \in Live'
      BY <1>2, <2>2 DEF Live
    <2>4. NoDanglingResolver'
      BY <1>0, <1>2, <2>2, <2>3 DEF TypeOK, NoDanglingResolver, Live
    <2> QED
      BY <2>1, <2>4
  <1> QED
    BY <1>1, <1>2 DEF Resolve

LEMMA ResolverErrorInv ==
    ASSUME IInv, NEW r \in Ids, ResolverError(r)
    PROVE  IInv'
  <1> USE DEF ResolverError, ResolverTurn, cleanUpVars
  <1>1. /\ heap' \in [Ids -> [svc : Services, addr : BOOLEAN] \cup {None}]
        /\ resolvers' \in [Keys -> Ids \cup {None}]
        /\ NoDanglingResolver'
    BY CleanUpResolverFacts DEF IInv
  <1>2. TypeOK'
    BY <1>1 DEF IInv, TypeOK, Listed
  <1>3. SignalsBalance' /\ PendingInv'
    BY SameBalance DEF IInv, PendingInv, HeldFor, Held, Listed
  <1> QED
    BY <1>1, <1>2, <1>3 DEF IInv

LEMMA ResolverReplyInv ==
    ASSUME IInv, NEW r \in Ids, ResolverReply(r)
    PROVE  IInv'
  <1> USE DEF ResolverReply, ResolverTurn, cleanUpVars
  <1>1. heap[r] \in [svc : Services, addr : BOOLEAN]
    BY HeapFacts DEF IInv
  <1>2. /\ heap'[r] \in [svc : Services, addr : BOOLEAN]
        /\ heap'[r].svc = heap[r].svc
        /\ \A q \in Ids : q # r => heap'[q] = heap[q]
    BY <1>1 DEF IInv, TypeOK
  <1>3. heap' \in [Ids -> [svc : Services, addr : BOOLEAN] \cup {None}]
    BY <1>1 DEF IInv, TypeOK
  <1>4. TypeOK'
    BY <1>3 DEF IInv, TypeOK, Listed
  <1>5. heap'[r] # None
    BY <1>2, BonjourAssumption
  <1>6. NoDanglingResolver'
    BY <1>2, <1>5 DEF IInv, NoDanglingResolver, Live
  <1>7. SignalsBalance' /\ PendingInv'
    BY SameBalance DEF IInv, PendingInv, HeldFor, Held, Listed
  <1> QED
    BY <1>4, <1>6, <1>7 DEF IInv

\* serviceAdded() for a key that had nothing; the key may be any interface's.
LEMMA AddressReplyInv ==
    ASSUME IInv, NEW r \in Ids, NEW i \in Interfaces, AddressReply(r, i)
    PROVE  IInv'
  <1> DEFINE s == heap[r].svc
             k == KeyOf[s][i]
  <1>1. s \in Services /\ k \in Keys
    BY HeapFacts, BonjourAssumption DEF AddressReply, ResolverTurn, IInv
  <1>2. /\ UNCHANGED <<alive, dnssRef, browser, heap, resolvers, phase,
                       destroying, pending, fault, net, reported>>
        /\ phase = "idle"
    BY DEF AddressReply, ResolverTurn, cleanUpVars
  <1>3. CASE services[k] # None
    BY <1>2, <1>3, FrameInv
       DEF AddressReply, IInv, TypeOK, resolveVars, cleanUpVars
  <1>4. CASE services[k] = None
    <2>1. services' = [services EXCEPT ![k] = s] /\ Added(s)
      BY <1>4 DEF AddressReply
    <2> HIDE DEF s, k
    <2>2. services' \in [Keys -> Services \cup {None}] /\ s # None
      BY <1>1, <2>1, BonjourAssumption DEF IInv, TypeOK
    <2>3. \A t \in Services :
            HeldFor(t)' = IF t = s THEN HeldFor(t) \cup {k} ELSE HeldFor(t)
      BY <1>1, <1>2, <1>4, <2>1, <2>2
         DEF HeldFor, Held, Listed, IInv, TypeOK
    <2>4. k \notin HeldFor(s)
      BY <1>2, <1>4 DEF HeldFor, Held, Listed
    <2>5. SignalsBalance' /\ app' \in [Services -> Nat]
      BY <1>1, <2>1, <2>3, <2>4, AddedBalance DEF IInv
    <2>6. TypeOK'
      BY <1>2, <2>2, <2>5 DEF IInv, TypeOK, PendingInv
    <2>7. NoDanglingResolver' /\ PendingInv'
      BY <1>2 DEF IInv, NoDanglingResolver, PendingInv, Live
    <2> QED
      BY <2>5, <2>6, <2>7 DEF IInv
  <1> QED
    BY <1>3, <1>4

LEMMA BrowseAddInv ==
    ASSUME IInv, NEW s \in Services, BrowseAdd(s)
    PROVE  IInv'
  <1> USE DEF BrowseAdd, cleanUpVars
  <1>1. CASE Own(s) \in Listed
    BY <1>1, FrameInv DEF IInv, TypeOK, resolveVars
  <1>2. CASE Own(s) \notin Listed
    <2>1. /\ heap' \in [Ids -> [svc : Services, addr : BOOLEAN] \cup {None}]
          /\ resolvers' \in [Keys -> Ids \cup {None}]
          /\ NoDanglingResolver'
      BY <1>2, ResolveFacts DEF IInv
    <2>2. TypeOK'
      BY <2>1 DEF IInv, TypeOK, Listed
    <2>3. SignalsBalance' /\ PendingInv'
      BY SameBalance DEF IInv, PendingInv, HeldFor, Held, Listed
    <2> QED
      BY <2>1, <2>2, <2>3 DEF IInv
  <1> QED
    BY <1>1, <1>2

\* serviceRemoved() for whatever service the key of the reported one holds.
LEMMA BrowseRemoveInv ==
    ASSUME IInv, NEW s \in Services, BrowseRemove(s)
    PROVE  IInv'
  <1> DEFINE k == Own(s)
             t == services[k]
  <1>0. /\ phase = "idle" /\ pending = {} /\ k \in Keys
        /\ reported' = reported \ {s}
        /\ UNCHANGED <<alive, dnssRef, browser, phase, destroying, pending,
                       fault, net>>
    BY OwnKey DEF BrowseRemove, CallbackTurn, IInv, PendingInv, cleanUpVars
  <1>1. /\ heap' \in [Ids -> [svc : Services, addr : BOOLEAN] \cup {None}]
        /\ resolvers' \in [Keys -> Ids \cup {None}]
        /\ NoDanglingResolver'
    <2>1. CASE k \in Listed /\ resolvers[k] # None
      <3>1. resolvers[k] \in Live /\ CleanUpResolver(resolvers[k])
        BY <1>0, <2>1 DEF BrowseRemove, IInv, NoDanglingResolver
      <3> QED
        BY <3>1, CleanUpResolverFacts DEF IInv
    <2>2. CASE ~(k \in Listed /\ resolvers[k] # None)
      <3>1. UNCHANGED <<heap, resolvers>>
        BY <2>2 DEF BrowseRemove
      <3> QED
        BY <3>1 DEF IInv, TypeOK, NoDanglingResolver, Live
    <2> QED
      BY <2>1, <2>2
  <1>2. CASE k \in Listed
    <2>1. services' = [services EXCEPT ![k] = None] /\ Removed(t)
      BY <1>2 DEF BrowseRemove
    <2>2. t \in Services /\ services' \in [Keys -> Services \cup {None}]
      BY <1>0, <1>2, <2>1 DEF IInv, TypeOK, Listed
    <2> HIDE DEF k
    <2>3. \A u \in Services :
            HeldFor(u)' = IF u = t THEN HeldFor(u) \ {k} ELSE HeldFor(u)
      BY <1>0, <1>2, <2>1, <2>2, BonjourAssumption
         DEF HeldFor, Held, Listed, IInv, TypeOK
    <2>4. k \in HeldFor(t)
      BY <1>0, <1>2 DEF HeldFor, Held
    <2>5. SignalsBalance' /\ app' \in [Services -> Nat]
      BY <2>1, <2>2, <2>3, <2>4, RemovedBalance DEF IInv
    <2>6. TypeOK' /\ PendingInv'
      BY <1>0, <1>1, <2>2, <2>5 DEF IInv, TypeOK, PendingInv
    <2> QED
      BY <1>1, <2>5, <2>6 DEF IInv
  <1>3. CASE k \notin Listed
    <2>1. UNCHANGED <<services, app>>
      BY <1>3 DEF BrowseRemove
    <2>2. TypeOK' /\ PendingInv'
      BY <1>0, <1>1, <2>1 DEF IInv, TypeOK, PendingInv
    <2>3. SignalsBalance'
      BY <1>0, <2>1, SameBalance DEF IInv, HeldFor, Held, Listed
    <2> QED
      BY <1>1, <2>2, <2>3 DEF IInv
  <1> QED
    BY <1>2, <1>3

LEMMA CleanUpBrowserInv ==
    ASSUME IInv, phase = "idle", NEW byDestructor \in BOOLEAN,
           CleanUpBrowser(byDestructor)
    PROVE  IInv'
  <1>1. CASE Crash
    BY <1>1, CrashInv
  <1>2. ASSUME NEW cleaned \in SUBSET Registered,
               heap' = [r \in Ids |-> IF r \in cleaned THEN None ELSE heap[r]],
               resolvers' = [k \in Keys |-> None],
               browser' = FALSE, reported' = {}, phase' = "loop",
               destroying' = byDestructor, pending' = Listed,
               dnssRef' = IF byDestructor THEN "none" ELSE dnssRef,
               UNCHANGED <<alive, services, app, fault, net>>
        PROVE  IInv'
    <2>1. TypeOK'
      BY <1>2 DEF IInv, TypeOK, Listed
    <2>2. NoDanglingResolver' /\ PendingInv'
      BY <1>2 DEF NoDanglingResolver, PendingInv
    <2>3. SignalsBalance'
      BY <1>2, SameBalance DEF IInv, HeldFor, Held
    <2> QED
      BY <2>1, <2>2, <2>3 DEF IInv
  <1> QED
    BY <1>1, <1>2 DEF CleanUpBrowser

LEMMA ApiCleanUpInv == IInv /\ ApiCleanUp => IInv'
  BY CleanUpBrowserInv, CrashInv DEF ApiCleanUp

LEMMA CleanUpEmitInv ==
    ASSUME IInv, NEW k \in Keys, CleanUpEmit(k)
    PROVE  IInv'
  <1> DEFINE t == services[k]
  <1>1. /\ phase # "idle" /\ phase' = "slot" /\ k \in pending
        /\ pending' = pending \ {k} /\ Removed(t)
        /\ UNCHANGED <<alive, dnssRef, browser, heap, resolvers, services,
                       destroying, fault, net, reported>>
    BY DEF CleanUpEmit
  <1>2. t \in Services
    BY <1>1 DEF IInv, TypeOK, Listed
  <1>3. \A u \in Services :
          HeldFor(u)' = IF u = t THEN HeldFor(u) \ {k} ELSE HeldFor(u)
    BY <1>1 DEF HeldFor, Held
  <1>4. k \in HeldFor(t)
    BY <1>1 DEF HeldFor, Held
  <1>5. SignalsBalance' /\ app' \in [Services -> Nat]
    BY <1>1, <1>2, <1>3, <1>4, RemovedBalance DEF IInv
  <1>6. TypeOK'
    BY <1>1, <1>5 DEF IInv, TypeOK, Listed
  <1>7. NoDanglingResolver' /\ PendingInv'
    BY <1>1 DEF IInv, NoDanglingResolver, PendingInv, Live
  <1> QED
    BY <1>5, <1>6, <1>7 DEF IInv

LEMMA CleanUpEndInv == IInv /\ CleanUpEnd => IInv'
  <1> SUFFICES ASSUME IInv, CleanUpEnd PROVE IInv'
    OBVIOUS
  <1> USE DEF CleanUpEnd
  <1>1. TypeOK'
    BY DEF IInv, TypeOK, Listed
  <1>2. PendingInv' /\ NoDanglingResolver'
    BY DEF IInv, PendingInv, NoDanglingResolver, Live
  <1>3. SignalsBalance'
    <2>1. \A s \in Services : HeldFor(s) = {} /\ HeldFor(s)' = {}
      BY DEF HeldFor, Held, Listed
    <2> QED
      BY <2>1, SameBalance DEF IInv
  <1> QED
    BY <1>1, <1>2, <1>3 DEF IInv

LEMMA NextInv == IInv /\ [Next]_vars => IInv'
  <1> SUFFICES ASSUME IInv, [Next]_vars PROVE IInv'
    OBVIOUS
  <1>1. CASE Publishing
    <2>1. CASE StopPublish
      BY <2>1, FrameInv DEF StopPublish, IInv, TypeOK
    <2>2. ASSUME NEW ok \in BOOLEAN, StartPublish(ok) PROVE IInv'
      BY <2>2, FrameInv DEF StartPublish, IInv, TypeOK
    <2>3. ASSUME NEW ok \in BOOLEAN, RegisterCallback(ok) PROVE IInv'
      BY <2>3, FrameInv DEF RegisterCallback, IInv, TypeOK
    <2> QED
      BY <1>1, <2>1, <2>2, <2>3 DEF Publishing
  <1>2. CASE Resolving
    BY <1>2, CrashInv, ResolverErrorInv, ResolverReplyInv, AddressReplyInv
       DEF Resolving, OrphanReply
  <1>3. CASE Browsing
    <2>1. CASE StartBrowserRefused
      BY <2>1, FrameInv DEF StartBrowserRefused, vars, resolveVars, cleanUpVars, IInv, TypeOK
    <2>2. CASE StartBrowser
      BY <2>2, FrameInv DEF StartBrowser, IInv, TypeOK
    <2>3. CASE StopBrowser \/ StartBrowserNoSocket
      BY <2>3, ApiCleanUpInv DEF StopBrowser, StartBrowserNoSocket
    <2>4. CASE BrowserFails
      BY <2>4, CleanUpBrowserInv DEF BrowserFails, CallbackTurn
    <2>5. CASE \/ \E s \in Services : BrowseAdd(s) \/ BrowseRemove(s)
               \/ \E k \in Keys : CleanUpEmit(k)
      BY <2>5, BrowseAddInv, BrowseRemoveInv, CleanUpEmitInv
    <2>6. CASE CleanUpEnd
      BY <2>6, CleanUpEndInv
    <2>7. CASE Destroy
      <3>1. CASE browser
        BY <2>7, <3>1, CleanUpBrowserInv DEF Destroy, CallbackTurn
      <3>2. CASE ~browser
        BY <2>7, <3>2, FrameInv DEF Destroy, IInv, TypeOK
      <3> QED
        BY <3>1, <3>2
    <2> QED
      BY <1>3, <2>1, <2>2, <2>3, <2>4, <2>5, <2>6, <2>7 DEF Browsing
  <1>4. CASE \E s \in Services : NetworkChange(s)
    BY <1>4, FrameInv DEF NetworkChange, IInv, TypeOK
  <1>5. CASE UNCHANGED vars
    BY <1>5, FrameInv DEF vars, resolveVars, cleanUpVars, IInv, TypeOK
  <1> QED
    BY <1>1, <1>2, <1>3, <1>4, <1>5 DEF Next

LEMMA Inductive == Spec => []IInv
  <1> QED
    BY InitInv, NextInv, PTL DEF Spec

\* pri->resolvers never holds a deleted Resolver, and what it holds under a
\* key resolves a service of that key, whatever the order in which Resolvers that share a
\* key are made, fail, and remove "their" entry in Resolver::cleanUp().
THEOREM BonjourNoDanglingResolver == Spec => []NoDanglingResolver
  <1>1. IInv => NoDanglingResolver
    BY DEF IInv
  <1> QED
    BY <1>1, Inductive, PTL

\* What the signals of bonjour.cpp told the application of a service is what
\* the map holds of it, although keys of services and interfaces collide, a
\* removal may take another service out, and slots run inside the clean-up.
THEOREM BonjourSignalsBalance == Spec => []SignalsBalance
  <1>1. IInv => SignalsBalance
    BY DEF IInv
  <1> QED
    BY <1>1, Inductive, PTL
=============================================================================
