------------------------- MODULE AvahiClientProofs -------------------------
(* Proofs about the Linux backend, for every set of services, whether or   *)
(* not their keys are distinct.                                            *)
EXTENDS AvahiClient, TLAPS

LEMMA KeyType == \A s \in Services : Key(s) \in Keys
  BY DEF Keys

\* An object holds a service and an address and is never None.
LEMMA ObjectFacts ==
    ASSUME TypeOK, NEW k \in Keys, services[k] # None
    PROVE  /\ services[k] \in Objects
           /\ services[k].svc \in Services
           /\ services[k].ip \in Addrs
           /\ services[k].ip # None
  BY ClientAssumption DEF TypeOK, Objects

LEMMA InitInv == Init => IInv
  <1> SUFFICES ASSUME Init PROVE IInv
    OBVIOUS
  <1> USE DEF Init
  <1>1. TypeOK
    BY DEF TypeOK
  <1>2. ViewInv
    BY KeyType DEF ViewInv
  <1>3. ObjectInv
    BY ClientAssumption DEF ObjectInv
  <1>4. WatchInv
    BY ClientAssumption DEF WatchInv
  <1>5. PendingInv
    BY DEF PendingInv
  <1> QED
    BY <1>1, <1>2, <1>3, <1>4, <1>5 DEF IInv

\* A step that leaves the maps, the picture and the clean-up alone.
LEMMA FrameInv ==
    ASSUME IInv,
           UNCHANGED <<browser, resolvers, services, app, reported,
                       phase, cause, pending>>,
           alive' \in BOOLEAN, client' \in BOOLEAN, fault' \in BOOLEAN,
           group' \in {"none", "registering", "established"},
           net' \in SUBSET Services
    PROVE  IInv'
  BY DEF IInv, TypeOK, ViewInv, ObjectInv, WatchInv, PendingInv

LEMMA CrashInv == IInv /\ Crash => IInv'
  BY FrameInv DEF Crash, browseVars, cleanUpVars, IInv, TypeOK

LEMMA BroswerCleanUpInv ==
    ASSUME IInv, phase = "idle", NEW c \in {"stop", "failure", "destroy"},
           BroswerCleanUp(c)
    PROVE  IInv'
  <1> USE DEF BroswerCleanUp
  <1>1. TypeOK'
    BY DEF IInv, TypeOK
  <1>2. ViewInv'
    BY KeyType DEF IInv, ViewInv
  <1>3. ObjectInv'
    BY DEF IInv, ObjectInv
  <1>4. WatchInv'
    BY DEF WatchInv
  <1>5. PendingInv'
    BY DEF PendingInv
  <1> QED
    BY <1>1, <1>2, <1>3, <1>4, <1>5 DEF IInv

LEMMA CleanUpEmitInv ==
    ASSUME IInv, NEW k \in Keys, CleanUpEmit(k)
    PROVE  IInv'
  <1> USE DEF CleanUpEmit
  <1>1. services[k] # None /\ services[k].svc \in Services
        /\ Key(services[k].svc) = k
    BY ObjectFacts DEF IInv, PendingInv, ObjectInv
  <1>0. app[services[k].svc] \in Addrs /\ app' = [app EXCEPT ![services[k].svc] = None]
    <2>1. app[services[k].svc] = services[k].ip /\ services[k].ip \in Addrs
      BY <1>1, ObjectFacts DEF IInv, ViewInv
    <2> QED
      BY <2>1, ClientAssumption DEF ServiceRemoved
  <1>2. TypeOK'
    BY <1>0, <1>1 DEF IInv, TypeOK
  <1>3. ViewInv'
    <2> SUFFICES ASSUME NEW s \in Services
                 PROVE  app'[s] = IF /\ services[Key(s)] # None
                                     /\ services[Key(s)].svc = s
                                     /\ Key(s) \in pending \ {k}
                                  THEN services[Key(s)].ip ELSE None
      BY DEF ViewInv
    <2>1. CASE s = services[k].svc
      BY <1>0, <1>1, <2>1 DEF IInv, TypeOK
    <2>2. CASE s # services[k].svc
      <3>1. app'[s] = app[s]
        BY <1>0, <2>2 DEF IInv, TypeOK
      <3>2. Key(s) = k => ~(services[Key(s)].svc = s)
        BY <2>2
      <3> QED
        BY <3>1, <3>2 DEF IInv, ViewInv
    <2> QED
      BY <2>1, <2>2
  <1>4. ObjectInv'
    BY DEF IInv, ObjectInv
  <1>5. WatchInv' /\ PendingInv'
    BY DEF IInv, WatchInv, PendingInv
  <1> QED
    BY <1>2, <1>3, <1>4, <1>5 DEF IInv

LEMMA CleanUpEndInv == IInv /\ CleanUpEnd => IInv'
  <1> SUFFICES ASSUME IInv, CleanUpEnd PROVE IInv'
    OBVIOUS
  <1>1. CASE Crash
    BY <1>1, CrashInv
  <1>2. CASE /\ services' = [k \in Keys |-> None]
             /\ resolvers' = [k \in Keys |-> None]
             /\ phase' = "idle"
             /\ alive' = (cause # "destroy")
             /\ browser' = (browser /\ cause # "destroy")
             /\ group' = IF cause = "destroy" THEN "none" ELSE group
             /\ UNCHANGED <<client, app, cause, pending, fault, net, reported>>
    <2> USE <1>2
    <2>1. pending = {} /\ phase # "idle"
      BY DEF CleanUpEnd
    <2>2. TypeOK'
      BY DEF IInv, TypeOK
    <2>3. ViewInv'
      <3>1. \A s \in Services : app[s] = None
        BY <2>1 DEF IInv, ViewInv
      <3> QED
        BY <3>1, KeyType DEF ViewInv
    <2>4. ObjectInv' /\ WatchInv'
      BY ClientAssumption DEF ObjectInv, WatchInv
    <2>5. PendingInv'
      BY <2>1 DEF PendingInv
    <2> QED
      BY <2>2, <2>3, <2>4, <2>5 DEF IInv
  <1> QED
    BY <1>1, <1>2 DEF CleanUpEnd

LEMMA BrowserNewInv ==
    ASSUME IInv, NEW s \in Services, BrowserNew(s)
    PROVE  IInv'
  <1> DEFINE k == Key(s)
  <1> USE DEF BrowserNew, CallbackTurn, cleanUpVars
  <1>0. k \in Keys /\ phase = "idle"
    BY KeyType
  <1>1. resolvers' \in [Keys -> Services \cup {None, Null}]
    BY <1>0 DEF IInv, TypeOK
  <1>2. TypeOK'
    BY <1>1 DEF IInv, TypeOK
  <1>3. ViewInv'
    BY DEF IInv, ViewInv
  <1>4. \A j \in Keys : resolvers'[j] = resolvers[j]
                        \/ (resolvers[j] = None /\ j = k /\ resolvers'[j] \in {s, Null})
    BY <1>0 DEF IInv, TypeOK
  <1>5. ObjectInv'
    <2> SUFFICES ASSUME NEW j \in Keys
                 PROVE  /\ resolvers'[j] \in Services => Key(resolvers'[j]) = j
                        /\ services[j] # None => resolvers'[j] = services[j].svc
      BY DEF ObjectInv
    <2>1. CASE resolvers'[j] = resolvers[j]
      BY <2>1 DEF IInv, ObjectInv
    <2>2. CASE resolvers[j] = None /\ j = k /\ resolvers'[j] \in {s, Null}
      <3>1. services[j] = None
        BY <2>2, ObjectFacts, ClientAssumption DEF IInv, ObjectInv
      <3> QED
        BY <2>2, <3>1, ClientAssumption
    <2> QED
      BY <1>4, <2>1, <2>2
  <1>6. WatchInv'
    BY <1>4, <1>0, ClientAssumption DEF IInv, WatchInv
  <1>7. PendingInv'
    BY DEF IInv, PendingInv
  <1> QED
    BY <1>2, <1>3, <1>5, <1>6, <1>7 DEF IInv

\* What the picture is once a service has left the map.  The service was
\* known, so the signal contradicts nothing.
LEMMA AppWithoutFacts ==
    ASSUME IInv, phase = "idle", NEW k \in Keys
    PROVE  /\ AppWithout(k) \in [Services -> Addrs \cup {None}]
           /\ \A s \in Services :
                AppWithout(k)[s] = IF Key(s) = k THEN None ELSE app[s]
           /\ services[k] # None => /\ app[services[k].svc] # None
                                    /\ AppWithout(k) = [app EXCEPT ![services[k].svc] = None]
  <1>1. CASE services[k] = None
    BY <1>1 DEF AppWithout, IInv, TypeOK, ViewInv
  <1>2. CASE services[k] # None
    <2> DEFINE r == services[k].svc
    <2>1. r \in Services /\ Key(r) = k /\ app[r] = services[k].ip
          /\ services[k].ip \in Addrs
      BY <1>2, ObjectFacts DEF IInv, ObjectInv, ViewInv
    <2>2. AppWithout(k) = [app EXCEPT ![r] = None] /\ app[r] # None
      BY <1>2, <2>1, ClientAssumption DEF AppWithout, ServiceRemoved
    <2>3. ASSUME NEW s \in Services
          PROVE  AppWithout(k)[s] = IF Key(s) = k THEN None ELSE app[s]
      <3>1. CASE r = s
        BY <2>1, <2>2, <3>1 DEF IInv, TypeOK
      <3>2. CASE r # s
        BY <2>1, <2>2, <3>2 DEF IInv, TypeOK, ViewInv
      <3> QED
        BY <3>1, <3>2
    <2> HIDE DEF r
    <2>4. AppWithout(k) \in [Services -> Addrs \cup {None}]
      BY <2>1, <2>2 DEF IInv, TypeOK
    <2> QED
      BY <2>2, <2>3, <2>4 DEF r
  <1> QED
    BY <1>1, <1>2

LEMMA BrowserRemoveInv ==
    ASSUME IInv, NEW s \in Services, BrowserRemove(s)
    PROVE  IInv'
  <1> DEFINE k == Key(s)
  <1> USE DEF BrowserRemove, CallbackTurn, cleanUpVars
  <1>0. k \in Keys /\ phase = "idle"
    BY KeyType
  <1>1. CASE resolvers[k] = Null
    BY <1>1, CrashInv
  <1>2. CASE resolvers[k] = None
    <2>0. /\ reported' = reported \ {s}
          /\ UNCHANGED <<resolvers, services, app, alive, client, group,
                         browser, phase, cause, pending, fault, net>>
      BY <1>2, ClientAssumption
    <2>1. TypeOK'
      BY <2>0 DEF IInv, TypeOK
    <2>2. ViewInv' /\ ObjectInv' /\ PendingInv'
      BY <2>0 DEF IInv, ViewInv, ObjectInv, PendingInv
    <2>3. \A j \in Keys : resolvers[j] # s
      BY <1>2, ClientAssumption DEF IInv, ObjectInv
    <2>4. WatchInv'
      BY <2>0, <2>3 DEF IInv, WatchInv
    <2> QED
      BY <2>1, <2>2, <2>4 DEF IInv
  <1>3. CASE resolvers[k] \notin {None, Null}
    <2>0. /\ reported' = reported \ {s}
          /\ resolvers' = [resolvers EXCEPT ![k] = None]
          /\ app' = AppWithout(k)
          /\ services' = [services EXCEPT ![k] = None]
          /\ UNCHANGED <<alive, client, group, browser, phase, cause,
                         pending, fault, net>>
      BY <1>3
    <2>1. TypeOK'
      BY <1>0, <2>0, AppWithoutFacts DEF IInv, TypeOK
    <2>2. ViewInv'
      BY <1>0, <2>0, AppWithoutFacts, KeyType DEF IInv, ViewInv, TypeOK
    <2>3. ObjectInv'
      BY <1>0, <2>0, ClientAssumption DEF IInv, ObjectInv, TypeOK
    <2>4. \A j \in Keys : resolvers[j] = s => j = k
      BY DEF IInv, ObjectInv
    <2>5. WatchInv'
      BY <1>0, <2>0, <2>4, ClientAssumption DEF IInv, WatchInv, TypeOK
    <2>6. PendingInv'
      BY <1>0, <2>0 DEF IInv, PendingInv
    <2> QED
      BY <2>1, <2>2, <2>3, <2>5, <2>6 DEF IInv
  <1> QED
    BY <1>1, <1>2, <1>3

\* The service whose object ResolverFound writes is the one being resolved.
LEMMA FoundFacts ==
    ASSUME IInv, NEW k \in Keys, NEW a \in Addrs, ResolverFound(k, a)
    PROVE  /\ resolvers[k] \in Services /\ Key(resolvers[k]) = k
           /\ services' = [services EXCEPT ![k] = [svc |-> resolvers[k], ip |-> a]]
           /\ app' = [app EXCEPT ![resolvers[k]] = a]
           /\ UNCHANGED <<alive, client, group, browser, resolvers, reported,
                          phase, cause, pending, fault, net>>
           /\ phase = "idle"
  <1> USE DEF ResolverFound, CallbackTurn, cleanUpVars
  <1>1. resolvers[k] \in Services /\ Key(resolvers[k]) = k
    BY DEF IInv, TypeOK, ObjectInv
  <1>2. CASE services[k] = None
    <2>1. app[resolvers[k]] = None
      BY <1>1, <1>2 DEF IInv, ViewInv
    <2> QED
      BY <1>1, <1>2, <2>1 DEF ServiceAdded
  <1>3. CASE services[k] # None
    <2>1. services[k].svc = resolvers[k] /\ services[k] \in [svc : Services, ip : Addrs]
      BY <1>3, ObjectFacts DEF IInv, ObjectInv, Objects
    <2>2. app[resolvers[k]] = services[k].ip /\ services[k].ip \in Addrs
      BY <1>1, <1>3, <2>1 DEF IInv, ViewInv
    <2>3. app' = [app EXCEPT ![resolvers[k]] = a]
      BY <1>3, <2>1, <2>2, ClientAssumption DEF ServiceUpdated
    <2>4. services' = [services EXCEPT ![k] = [svc |-> resolvers[k], ip |-> a]]
      <3>1. services' = [services EXCEPT ![k].ip = a]
        BY <1>3
      <3>2. [services[k] EXCEPT !.ip = a] = [svc |-> resolvers[k], ip |-> a]
        BY <2>1
      <3> QED
        BY <3>1, <3>2
    <2> QED
      BY <1>1, <2>3, <2>4
  <1> QED
    BY <1>2, <1>3

LEMMA ResolverFoundInv ==
    ASSUME IInv, NEW k \in Keys, NEW a \in Addrs, ResolverFound(k, a)
    PROVE  IInv'
  <1> DEFINE r == resolvers[k]
             zcs == [svc |-> r, ip |-> a]
  <1>1. /\ r \in Services /\ Key(r) = k
        /\ services' = [services EXCEPT ![k] = zcs]
        /\ app' = [app EXCEPT ![r] = a]
        /\ UNCHANGED <<alive, client, group, browser, resolvers, reported,
                       phase, cause, pending, fault, net>>
        /\ phase = "idle"
    BY FoundFacts
  <1>2. zcs \in Objects /\ zcs.svc = r /\ zcs.ip = a /\ zcs # None
    BY <1>1, ClientAssumption DEF Objects
  <1> HIDE DEF zcs, r
  <1>3. TypeOK'
    BY <1>1, <1>2 DEF IInv, TypeOK
  <1>4. ViewInv'
    <2> SUFFICES ASSUME NEW s \in Services
                 PROVE  app'[s] = IF /\ services'[Key(s)] # None
                                     /\ services'[Key(s)].svc = s
                                  THEN services'[Key(s)].ip ELSE None
      BY <1>1 DEF ViewInv
    <2>1. Key(s) \in Keys
      BY KeyType
    <2>2. CASE s = r
      BY <1>1, <1>2, <2>1, <2>2 DEF IInv, TypeOK
    <2>3. CASE s # r /\ Key(s) = k
      <3>1. services[k] # None => services[k].svc # s
        BY <2>3 DEF IInv, ObjectInv, r
      <3>2. app'[s] = None
        BY <1>1, <2>3, <3>1 DEF IInv, TypeOK, ViewInv
      <3> QED
        BY <1>1, <1>2, <2>3, <3>2 DEF IInv, TypeOK
    <2>4. CASE Key(s) # k
      BY <1>1, <2>1, <2>4 DEF IInv, TypeOK, ViewInv
    <2> QED
      BY <2>2, <2>3, <2>4
  <1>5. ObjectInv'
    BY <1>1, <1>2 DEF IInv, ObjectInv, TypeOK, r
  <1>6. WatchInv' /\ PendingInv'
    BY <1>1, <1>2 DEF IInv, WatchInv, PendingInv, TypeOK
  <1> QED
    BY <1>3, <1>4, <1>5, <1>6 DEF IInv

LEMMA ResolverFailureInv ==
    ASSUME IInv, NEW k \in Keys, ResolverFailure(k)
    PROVE  IInv'
  <1> USE DEF ResolverFailure, CallbackTurn, cleanUpVars
  <1>1. TypeOK'
    BY AppWithoutFacts DEF IInv, TypeOK
  <1>2. ViewInv'
    BY AppWithoutFacts, KeyType DEF IInv, ViewInv, TypeOK
  <1>3. ObjectInv'
    BY DEF IInv, ObjectInv, TypeOK
  <1>4. WatchInv' /\ PendingInv'
    BY DEF IInv, WatchInv, PendingInv
  <1> QED
    BY <1>1, <1>2, <1>3, <1>4 DEF IInv

LEMMA StartBrowserInv == IInv /\ StartBrowser => IInv'
  <1> SUFFICES ASSUME IInv, StartBrowser PROVE IInv'
    OBVIOUS
  <1> USE DEF StartBrowser, cleanUpVars
  <1>1. TypeOK' /\ ViewInv' /\ ObjectInv' /\ PendingInv'
    BY DEF IInv, TypeOK, ViewInv, ObjectInv, PendingInv
  <1>2. WatchInv'
    BY ClientAssumption DEF IInv, WatchInv
  <1> QED
    BY <1>1, <1>2 DEF IInv

LEMMA NextInv == IInv /\ [Next]_vars => IInv'
  <1> SUFFICES ASSUME IInv, [Next]_vars PROVE IInv'
    OBVIOUS
  <1> USE DEF browseVars, cleanUpVars
  <1>1. CASE Publishing
    <2>1. CASE StartPublishRejected
      BY <2>1, FrameInv DEF StartPublishRejected, vars, IInv, TypeOK
    <2>2. CASE StartPublish
      BY <2>2, FrameInv DEF StartPublish, IInv, TypeOK
    <2>3. CASE StartPublishFaults
      BY <2>3, CrashInv DEF StartPublishFaults
    <2>4. CASE StopPublish
      BY <2>4, FrameInv DEF StopPublish, IInv, TypeOK
    <2>5. CASE \E state \in {"established", "collision", "failure"} : GroupCallback(state)
      BY <2>5, FrameInv DEF GroupCallback, IInv, TypeOK
    <2> QED
      BY <1>1, <2>1, <2>2, <2>3, <2>4, <2>5 DEF Publishing
  <1>2. CASE Browsing
    <2>1. CASE StartBrowserFails
      BY <2>1, FrameInv DEF StartBrowserFails, vars, IInv, TypeOK
    <2>2. CASE StartBrowser
      BY <2>2, StartBrowserInv
    <2>3. CASE StopBrowser
      BY <2>3, BroswerCleanUpInv, CrashInv DEF StopBrowser
    <2>4. CASE BrowserFailure
      BY <2>4, BroswerCleanUpInv DEF BrowserFailure, CallbackTurn
    <2>5. CASE \E s \in Services : BrowserNew(s) \/ BrowserRemove(s)
      BY <2>5, BrowserNewInv, BrowserRemoveInv
    <2>6. CASE \E k \in Keys : ResolverFailure(k) \/ \E a \in Addrs : ResolverFound(k, a)
      BY <2>6, ResolverFailureInv, ResolverFoundInv
    <2>7. CASE \E k \in Keys : CleanUpEmit(k)
      BY <2>7, CleanUpEmitInv
    <2>8. CASE CleanUpEnd
      BY <2>8, CleanUpEndInv
    <2>9. CASE Destroy
      <3>1. CASE browser
        BY <2>9, <3>1, BroswerCleanUpInv DEF Destroy, CallbackTurn
      <3>2. CASE ~browser
        BY <2>9, <3>2, FrameInv DEF Destroy, IInv, TypeOK
      <3> QED
        BY <3>1, <3>2
    <2> QED
      BY <1>2, <2>1, <2>2, <2>3, <2>4, <2>5, <2>6, <2>7, <2>8, <2>9 DEF Browsing
  <1>3. CASE \E s \in Services : NetworkChange(s)
    BY <1>3, FrameInv DEF NetworkChange, IInv, TypeOK
  <1>4. CASE UNCHANGED vars
    BY <1>4, FrameInv DEF vars, IInv, TypeOK
  <1> QED
    BY <1>1, <1>2, <1>3, <1>4 DEF Next

LEMMA Inductive == Spec => []IInv
  <1> QED
    BY InitInv, NextInv, PTL DEF Spec

\* The state of the Linux backend stays within its types.
THEOREM ClientTypeCorrect == Spec => []TypeOK
  <1>1. IInv => TypeOK
    BY DEF IInv
  <1> QED
    BY <1>1, Inductive, PTL

\* Between two events the picture the signals of avahiclient.cpp gave the
\* application is pub->services, also for services whose keys coincide, and
\* each has the resolver that found it and is still owed a REMOVE by a live
\* browser, so browseCallback() cannot miss it.
THEOREM ClientViewMatches == Spec => []ViewMatchesServices
  <1>1. ASSUME IInv, phase = "idle", NEW s \in Services
        PROVE  app[s] = IF services[Key(s)] # None /\ services[Key(s)].svc = s
                        THEN services[Key(s)].ip ELSE None
    BY <1>1 DEF IInv, ViewInv
  <1>2. ASSUME IInv, phase = "idle", NEW k \in Keys, services[k] # None
        PROVE  /\ resolvers[k] = services[k].svc
               /\ browser /\ services[k].svc \in reported
    BY <1>2, ObjectFacts, ClientAssumption DEF IInv, ObjectInv, WatchInv
  <1>3. IInv => ViewMatchesServices
    BY <1>1, <1>2 DEF ViewMatchesServices
  <1> QED
    BY <1>3, Inductive, PTL

-----------------------------------------------------------------------------
(* The refinement: every step maps to a step of ServiceDiscovery, or to a  *)
(* step that leaves browsing and known alone.                              *)

LEMMA StepRefines == IInv /\ [Next]_vars => [Discovery!SDNext]_(Discovery!sdVars)
  <1> SUFFICES ASSUME IInv, [Next]_vars
               PROVE  Discovery!SDNext \/ UNCHANGED <<browser, app>>
    BY DEF Discovery!sdVars
  <1> USE DEF browseVars, cleanUpVars
  <1>1. ASSUME Crash PROVE UNCHANGED <<browser, app>>
    BY <1>1 DEF Crash
  <1>2. ASSUME NEW c, BroswerCleanUp(c), browser PROVE Discovery!Stop
    BY <1>2 DEF BroswerCleanUp, Discovery!Stop
  <1>3. ASSUME NEW k \in Keys, phase = "idle", app' = AppWithout(k), UNCHANGED browser
        PROVE  Discovery!SDNext \/ UNCHANGED <<browser, app>>
    <2>1. CASE services[k] = None
      BY <1>3, <2>1 DEF AppWithout
    <2>2. CASE services[k] # None
      <3>1. services[k].svc \in Services
        BY <2>2, ObjectFacts DEF IInv
      <3>2. Discovery!Remove(services[k].svc)
        BY <1>3, <2>2, AppWithoutFacts DEF Discovery!Remove
      <3> QED
        BY <3>1, <3>2 DEF Discovery!SDNext
    <2> QED
      BY <2>1, <2>2
  <1>4. CASE Publishing
    BY <1>4, <1>1 DEF Publishing, StartPublishRejected, StartPublish,
                      StartPublishFaults, StopPublish, GroupCallback, vars
  <1>5. CASE StartBrowserFails \/ (\E s \in Services : BrowserNew(s) \/ NetworkChange(s))
    BY <1>5 DEF StartBrowserFails, BrowserNew, NetworkChange, vars
  <1>6. CASE StartBrowser
    BY <1>6 DEF StartBrowser, Discovery!Start, Discovery!SDNext, IInv, TypeOK
  <1>7. CASE StopBrowser \/ BrowserFailure
    BY <1>7, <1>1, <1>2 DEF StopBrowser, BrowserFailure, Discovery!SDNext
  <1>8. CASE Destroy
    BY <1>8, <1>2 DEF Destroy, Discovery!SDNext
  <1>9. ASSUME NEW s \in Services, BrowserRemove(s)
        PROVE  Discovery!SDNext \/ UNCHANGED <<browser, app>>
    BY <1>1, <1>3, <1>9, KeyType DEF BrowserRemove, CallbackTurn
  <1>10. ASSUME NEW k \in Keys, ResolverFailure(k)
         PROVE  Discovery!SDNext \/ UNCHANGED <<browser, app>>
    BY <1>3, <1>10 DEF ResolverFailure, CallbackTurn
  <1>11. ASSUME NEW k \in Keys, NEW a \in Addrs, ResolverFound(k, a)
         PROVE  Discovery!SDNext
    <2>1. resolvers[k] \in Services /\ app' = [app EXCEPT ![resolvers[k]] = a]
          /\ UNCHANGED browser /\ phase = "idle"
      BY <1>11, FoundFacts
    <2>2. browser
      BY <1>11, <2>1 DEF ResolverFound, IInv, WatchInv
    <2>3. Discovery!Add(resolvers[k], a) \/ Discovery!Update(resolvers[k], a)
      BY <2>1, <2>2 DEF Discovery!Add, Discovery!Update
    <2> QED
      BY <2>1, <2>3 DEF Discovery!SDNext
  <1>12. ASSUME NEW k \in Keys, CleanUpEmit(k) PROVE Discovery!SDNext
    <2>1. services[k] # None /\ services[k].svc \in Services
          /\ Key(services[k].svc) = k
      BY <1>12, ObjectFacts DEF CleanUpEmit, IInv, PendingInv, ObjectInv
    <2>2. app[services[k].svc] = services[k].ip /\ services[k].ip \in Addrs
      BY <1>12, <2>1, ObjectFacts DEF CleanUpEmit, IInv, ViewInv
    <2>3. Discovery!Remove(services[k].svc)
      BY <1>12, <2>2, ClientAssumption
         DEF CleanUpEmit, ServiceRemoved, Discovery!Remove
    <2> QED
      BY <2>1, <2>3 DEF Discovery!SDNext
  <1>13. CASE CleanUpEnd
    <2>1. UNCHANGED <<browser, app>> \/ (UNCHANGED app /\ browser /\ ~browser')
      BY <1>13, <1>1 DEF CleanUpEnd, IInv, TypeOK
    <2> QED
      BY <2>1 DEF Discovery!Stop, Discovery!SDNext, IInv, TypeOK
  <1>14. CASE UNCHANGED vars
    BY <1>14 DEF vars
  <1> QED
    BY <1>4, <1>5, <1>6, <1>7, <1>8, <1>9, <1>10, <1>11, <1>12, <1>13, <1>14
       DEF Next, Browsing

\* What the signals of avahiclient.cpp tell an application is what
\* ServiceDiscovery promises: a service is added once, updated and removed
\* only while it is known, and found only while browserExists().
THEOREM ClientImplementsDiscovery == Spec => ImplementsDiscovery
  <1>1. Init => Discovery!SDInit
    BY DEF Init, Discovery!SDInit
  <1> QED
    BY <1>1, Inductive, StepRefines, PTL
       DEF Spec, ImplementsDiscovery, Discovery!SDSafety
=============================================================================
