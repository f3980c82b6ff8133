-------------------------- MODULE AvahiCoreProofs --------------------------
(* Proofs about the backend with the embedded stack, for any number of     *)
(* QZeroConf objects, services and leaked browsers.                        *)
EXTENDS AvahiCore, TLAPS, FiniteSetTheorems

LiveObjects == {i \in Instances : object[i] = "live"}

LEMMA InitInv == Init => IInv
  <1> SUFFICES ASSUME Init PROVE IInv
    OBVIOUS
  <1> USE DEF Init
  <1>1. LiveObjects = {}
    BY DEF LiveObjects
  <1>2. IsFiniteSet(LiveObjects) /\ Cardinality(LiveObjects) = 0
    BY <1>1, FS_EmptySet
  <1>3. resolvers \in [Instances -> [Services -> {"none", "live", "null"}]]
    BY DEF NoResolvers
  <1>4. app \in [Instances -> [Services -> {Addr, None}]]
    BY DEF NothingKnown
  <1>5. browsers \in [Instances -> 0..MaxBrowsers]
    BY CoreAssumption
  <1>6. TypeOK
    BY <1>2, <1>3, <1>4, <1>5 DEF TypeOK, LiveObjects
  <1>7. ObjectInv
    BY <1>2 DEF ObjectInv, LiveObjects
  <1>8. WaitInv /\ HandlesValid
    BY DEF WaitInv, HandlesValid
  <1>9. ViewMatchesServices
    BY DEF ViewMatchesServices, NothingKnown
  <1> QED
    BY <1>6, <1>7, <1>8, <1>9 DEF IInv

\* A step that leaves everything but the process itself alone.
LEMMA FrameInv ==
    ASSUME IInv, UNCHANGED <<serverVars, publishVars, browseVars>>,
           fault' \in BOOLEAN
    PROVE  IInv'
  BY DEF IInv, TypeOK, ObjectInv, WaitInv, HandlesValid, ViewMatchesServices,
         serverVars, publishVars, browseVars

LEMMA CrashInv == IInv /\ Crash => IInv'
  BY FrameInv DEF Crash

\* A step of a live object that changes what it publishes and nothing else.
LEMMA PublishStep ==
    ASSUME IInv, NEW i \in Instances, object[i] = "live",
           UNCHANGED <<object, referenceCount, userdata, browseVars, fault>>,
           server' = server \/ (server # "null" /\ server' \in {"registering", "running", "collision"}),
           ready' \in [Instances -> BOOLEAN],
           registerWaiting' \in [Instances -> BOOLEAN],
           group' \in [Instances -> {"none", "registering", "established"}],
           groups' \in [Instances -> Nat],
           asked' \in [Instances -> BOOLEAN],
           \A j \in Instances \ {i} :
              /\ ready'[j] = ready[j] /\ registerWaiting'[j] = registerWaiting[j]
              /\ group'[j] = group[j] /\ groups'[j] = groups[j],
           IF ready'[i] THEN ~registerWaiting'[i] ELSE group'[i] = "none",
           groups'[i] = IF group'[i] = "none" THEN 0 ELSE 1
    PROVE  IInv'
  <1>1. TypeOK'
    BY DEF IInv, TypeOK, browseVars
  <1>2. ObjectInv'
    <2>1. IsFiniteSet({j \in Instances : object[j] = "live"})'
      BY DEF IInv, ObjectInv
    <2>2. server' # "null" => userdata' \in Instances
      BY DEF IInv, ObjectInv
    <2>3. ASSUME NEW j \in Instances
          PROVE  /\ object'[j] = "none" => groups'[j] = 0 /\ browsers'[j] = 0
                 /\ object'[j] # "live" => ~ready'[j] /\ ~registerWaiting'[j] /\ ~browser'[j]
      BY DEF IInv, ObjectInv, browseVars
    <2> QED
      BY <2>1, <2>2, <2>3 DEF ObjectInv
  <1>3. WaitInv'
    BY DEF IInv, WaitInv
  <1>4. HandlesValid'
    BY DEF IInv, HandlesValid, browseVars
  <1>5. ViewMatchesServices'
    BY DEF IInv, ViewMatchesServices, browseVars
  <1> QED
    BY <1>1, <1>2, <1>3, <1>4, <1>5 DEF IInv

\* A step of a live object that changes what it browses and nothing else.
LEMMA BrowseStep ==
    ASSUME IInv, NEW i \in Instances, object[i] = "live",
           UNCHANGED <<serverVars, publishVars, fault>>,
           browser' \in [Instances -> BOOLEAN],
           browsers' \in [Instances -> 0..MaxBrowsers],
           resolvers' \in [Instances -> [Services -> {"none", "live", "null"}]],
           services' \in [Instances -> SUBSET Services],
           app' \in [Instances -> [Services -> {Addr, None}]],
           \A j \in Instances \ {i} :
              /\ browser'[j] = browser[j] /\ browsers'[j] = browsers[j]
              /\ services'[j] = services[j] /\ app'[j] = app[j],
           browser'[i] => browsers'[i] > 0,
           \A s \in Services : app'[i][s] = IF s \in services'[i] THEN Addr ELSE None
    PROVE  IInv'
  <1>1. TypeOK'
    BY DEF IInv, TypeOK, serverVars, publishVars
  <1>2. ObjectInv'
    <2>1. IsFiniteSet({j \in Instances : object[j] = "live"})'
      BY DEF IInv, ObjectInv, serverVars
    <2>2. server' # "null" => userdata' \in Instances
      BY DEF IInv, ObjectInv, serverVars
    <2>3. ASSUME NEW j \in Instances
          PROVE  /\ object'[j] = "none" => groups'[j] = 0 /\ browsers'[j] = 0
                 /\ object'[j] # "live" => ~ready'[j] /\ ~registerWaiting'[j] /\ ~browser'[j]
      BY DEF IInv, ObjectInv, serverVars, publishVars
    <2> QED
      BY <2>1, <2>2, <2>3 DEF ObjectInv
  <1>3. WaitInv'
    BY DEF IInv, WaitInv, publishVars
  <1>4. HandlesValid'
    BY DEF IInv, HandlesValid, serverVars, publishVars
  <1>5. ViewMatchesServices'
    BY DEF IInv, ViewMatchesServices
  <1> QED
    BY <1>1, <1>2, <1>3, <1>4, <1>5 DEF IInv

LEMMA CreateInv ==
    ASSUME IInv, NEW i \in Instances, Create(i)
    PROVE  IInv'
  <1> USE DEF Create, publishVars, browseVars
  <1>1. LiveObjects' = LiveObjects \cup {i} /\ i \notin LiveObjects
    BY DEF IInv, TypeOK, LiveObjects
  <1>2. /\ IsFiniteSet(LiveObjects')
        /\ Cardinality(LiveObjects') = Cardinality(LiveObjects) + 1
    BY <1>1, FS_AddElement DEF IInv, ObjectInv, LiveObjects
  <1>3. object' \in [Instances -> {"none", "live", "deleted"}]
        /\ referenceCount' = Cardinality(LiveObjects')
    BY <1>2 DEF IInv, TypeOK, LiveObjects
  <1>4. TypeOK'
    BY <1>3 DEF IInv, TypeOK, LiveObjects
  <1>5. ObjectInv'
    BY <1>2 DEF IInv, ObjectInv, TypeOK, LiveObjects
  <1>6. WaitInv' /\ ViewMatchesServices'
    BY DEF IInv, WaitInv, ViewMatchesServices
  <1>7. HandlesValid'
    BY DEF IInv, ObjectInv, WaitInv, HandlesValid, TypeOK
  <1> QED
    BY <1>4, <1>5, <1>6, <1>7 DEF IInv

\* The last object to be deleted is the only live one.
LEMMA DeleteInv ==
    ASSUME IInv, NEW i \in Instances, Delete(i)
    PROVE  IInv'
  <1>1. CASE Crash
    BY <1>1, CrashInv
  <1>2. CASE ~(\/ browser[i] /\ \E s \in Services : resolvers[i][s] = "null"
               \/ referenceCount = 1 /\ server = "null")
    <2>0. /\ object' = [object EXCEPT ![i] = "deleted"]
          /\ referenceCount' = referenceCount - 1
          /\ server' = IF referenceCount = 1 THEN "null" ELSE server
          /\ groups' = IF referenceCount = 1 THEN [j \in Instances |-> 0] ELSE groups
          /\ browsers' = IF referenceCount = 1 THEN [j \in Instances |-> 0]
                         ELSE [browsers EXCEPT ![i] = IF browser[i] THEN @ - 1 ELSE @]
          /\ ready' = [ready EXCEPT ![i] = FALSE]
          /\ registerWaiting' = [registerWaiting EXCEPT ![i] = FALSE]
          /\ group' = [group EXCEPT ![i] = "none"]
          /\ asked' = [asked EXCEPT ![i] = FALSE]
          /\ browser' = [browser EXCEPT ![i] = FALSE]
          /\ resolvers' = [resolvers EXCEPT ![i] = NoResolvers]
          /\ services' = [services EXCEPT ![i] = {}]
          /\ app' = [app EXCEPT ![i] = NothingKnown]
          /\ UNCHANGED <<userdata, fault>>
      BY <1>2 DEF Delete
    <2>1. object[i] = "live"
      BY DEF Delete, ApiCall
    <2>2. LiveObjects' = LiveObjects \ {i} /\ i \in LiveObjects
      BY <2>0, <2>1 DEF IInv, TypeOK, LiveObjects
    <2>3. /\ IsFiniteSet(LiveObjects) /\ IsFiniteSet(LiveObjects')
          /\ Cardinality(LiveObjects') = Cardinality(LiveObjects) - 1
      BY <2>2, FS_RemoveElement DEF IInv, ObjectInv, LiveObjects
    <2>4. ASSUME referenceCount = 1, NEW j \in Instances \ {i}
          PROVE  object[j] # "live"
      <3>1. Cardinality(LiveObjects) = 1
        BY <2>4 DEF IInv, TypeOK, LiveObjects
      <3>2. PICK x : LiveObjects = {x}
        BY <2>3, <3>1, FS_Singleton
      <3>3. j \notin LiveObjects
        BY <2>2, <3>2
      <3> QED
        BY <3>3 DEF LiveObjects
    <2>5. /\ object' \in [Instances -> {"none", "live", "deleted"}]
          /\ referenceCount' = Cardinality(LiveObjects')
      BY <2>0, <2>3 DEF IInv, TypeOK, LiveObjects
    <2>6. browsers' \in [Instances -> 0..MaxBrowsers]
      <3>1. browser[i] => browsers[i] > 0
        BY <2>1 DEF IInv, HandlesValid
      <3> QED
        BY <2>0, <3>1, CoreAssumption DEF IInv, TypeOK
    <2>7. /\ groups' \in [Instances -> Nat]
          /\ resolvers' \in [Instances -> [Services -> {"none", "live", "null"}]]
          /\ app' \in [Instances -> [Services -> {Addr, None}]]
      BY <2>0 DEF IInv, TypeOK, NoResolvers, NothingKnown
    <2>8. TypeOK'
      BY <2>0, <2>5, <2>6, <2>7 DEF IInv, TypeOK, LiveObjects
    <2>9. ObjectInv'
      <3>1. ASSUME NEW j \in Instances
            PROVE  /\ object'[j] = "none" => groups'[j] = 0 /\ browsers'[j] = 0
                   /\ object'[j] # "live" => ~ready'[j] /\ ~registerWaiting'[j] /\ ~browser'[j]
        <4>1. CASE j = i
          BY <2>0, <4>1 DEF IInv, TypeOK
        <4>2. CASE j # i
          BY <2>0, <4>2 DEF IInv, TypeOK, ObjectInv
        <4> QED
          BY <4>1, <4>2
      <3> QED
        BY <2>0, <2>3, <3>1 DEF IInv, ObjectInv, LiveObjects
    <2>10. WaitInv'
      BY <2>0 DEF IInv, TypeOK, WaitInv
    <2>11. HandlesValid'
      <3> SUFFICES ASSUME NEW j \in Instances, object'[j] = "live"
                   PROVE  /\ groups'[j] = IF group'[j] = "none" THEN 0 ELSE 1
                          /\ browser'[j] => browsers'[j] > 0
        BY DEF HandlesValid
      <3>1. j # i /\ object[j] = "live"
        BY <2>0 DEF IInv, TypeOK
      <3>2. referenceCount # 1
        BY <2>4, <3>1
      <3> QED
        BY <2>0, <3>1, <3>2 DEF IInv, TypeOK, HandlesValid
    <2>12. ViewMatchesServices'
      BY <2>0 DEF IInv, TypeOK, ViewMatchesServices, NothingKnown
    <2> QED
      BY <2>8, <2>9, <2>10, <2>11, <2>12 DEF IInv
  <1> QED
    BY <1>1, <1>2 DEF Delete

\* registerService() on an object without a group leaves it with one the
\* library holds, or with none.
LEMMA RegisterServiceFacts ==
    ASSUME IInv, NEW i \in Instances, object[i] = "live", group[i] = "none",
           RegisterService(i)
    PROVE  /\ group' \in [Instances -> {"none", "registering", "established"}]
           /\ groups' \in [Instances -> Nat]
           /\ asked' \in [Instances -> BOOLEAN]
           /\ \A j \in Instances \ {i} : group'[j] = group[j] /\ groups'[j] = groups[j]
           /\ groups'[i] = IF group'[i] = "none" THEN 0 ELSE 1
  <1>1. groups[i] = 0
    BY DEF IInv, HandlesValid
  <1>2. CASE /\ group' = [group EXCEPT ![i] = "registering"]
             /\ groups' = [groups EXCEPT ![i] = @ + 1]
             /\ asked' = [asked EXCEPT ![i] = TRUE]
    <2>1. groups' \in [Instances -> Nat] /\ groups'[i] = 1
      BY <1>1, <1>2 DEF IInv, TypeOK
    <2> QED
      BY <1>2, <2>1 DEF IInv, TypeOK
  <1>3. CASE /\ group' = [group EXCEPT ![i] = "none"]
             /\ asked' = [asked EXCEPT ![i] = FALSE]
             /\ UNCHANGED groups
    BY <1>1, <1>3 DEF IInv, TypeOK
  <1> QED
    BY <1>2, <1>3 DEF RegisterService

LEMMA ServerRunningInv == IInv /\ ServerRunning => IInv'
  <1> SUFFICES ASSUME IInv, ServerRunning PROVE IInv'
    OBVIOUS
  <1>1. CASE Crash
    BY <1>1, CrashInv
  <1>2. CASE object[userdata] = "live"
    <2>0. /\ server = "registering" /\ server' = "running"
          /\ ready' = [ready EXCEPT ![userdata] = TRUE]
          /\ registerWaiting' = [registerWaiting EXCEPT ![userdata] = FALSE]
          /\ IF registerWaiting[userdata]
             THEN RegisterService(userdata)
             ELSE UNCHANGED <<group, groups, asked>>
          /\ UNCHANGED <<object, referenceCount, userdata, browseVars, fault>>
      BY <1>2 DEF ServerRunning
    <2>1. userdata \in Instances
      BY <2>0 DEF IInv, ObjectInv
    <2>2. /\ ready' \in [Instances -> BOOLEAN] /\ ready'[userdata]
          /\ registerWaiting' \in [Instances -> BOOLEAN] /\ ~registerWaiting'[userdata]
          /\ \A j \in Instances \ {userdata} :
                ready'[j] = ready[j] /\ registerWaiting'[j] = registerWaiting[j]
      BY <2>0, <2>1 DEF IInv, TypeOK
    <2>3. /\ group' \in [Instances -> {"none", "registering", "established"}]
          /\ groups' \in [Instances -> Nat]
          /\ asked' \in [Instances -> BOOLEAN]
          /\ \A j \in Instances \ {userdata} : group'[j] = group[j] /\ groups'[j] = groups[j]
          /\ groups'[userdata] = IF group'[userdata] = "none" THEN 0 ELSE 1
      <3>1. CASE registerWaiting[userdata]
        <4>1. group[userdata] = "none"
          BY <2>1, <3>1 DEF IInv, WaitInv
        <4> QED
          BY <1>2, <2>0, <2>1, <3>1, <4>1, RegisterServiceFacts
      <3>2. CASE ~registerWaiting[userdata]
        BY <1>2, <2>0, <2>1, <3>2 DEF IInv, TypeOK, HandlesValid
      <3> QED
        BY <3>1, <3>2
    <2> QED
      BY <1>2, <2>0, <2>1, <2>2, <2>3, PublishStep
  <1> QED
    BY <1>1, <1>2 DEF ServerRunning

LEMMA ServerStateInv ==
    ASSUME IInv, NEW state \in {"registering", "collision"}, ServerState(state)
    PROVE  IInv'
  <1> USE DEF ServerState, publishVars, browseVars
  <1>1. TypeOK'
    BY DEF IInv, TypeOK
  <1>2. ObjectInv'
    BY DEF IInv, ObjectInv
  <1>3. WaitInv' /\ HandlesValid' /\ ViewMatchesServices'
    BY DEF IInv, WaitInv, HandlesValid, ViewMatchesServices
  <1> QED
    BY <1>1, <1>2, <1>3 DEF IInv

LEMMA PublishingInv ==
    ASSUME IInv, NEW i \in Instances, Publishing(i)
    PROVE  IInv'
  <1>1. CASE StartPublishRejected(i)
    BY <1>1, FrameInv DEF StartPublishRejected, vars, serverVars, publishVars,
                          browseVars, IInv, TypeOK
  <1>2. CASE StartPublish(i)
    <2>1. /\ object[i] = "live" /\ group[i] = "none" /\ ready[i]
          /\ RegisterService(i)
          /\ UNCHANGED <<serverVars, ready, registerWaiting, browseVars, fault>>
      BY <1>2 DEF StartPublish, ApiCall
    <2>2. ~registerWaiting[i]
      BY <2>1 DEF IInv, WaitInv
    <2>3. ready \in [Instances -> BOOLEAN] /\ registerWaiting \in [Instances -> BOOLEAN]
      BY DEF IInv, TypeOK
    <2> QED
      BY <2>1, <2>2, <2>3, RegisterServiceFacts, PublishStep DEF serverVars
  <1>3. CASE StartPublishDeferred(i)
    <2>1. /\ object[i] = "live" /\ group[i] = "none" /\ ~ready[i]
          /\ registerWaiting' = [registerWaiting EXCEPT ![i] = TRUE]
          /\ asked' = [asked EXCEPT ![i] = TRUE]
          /\ UNCHANGED <<object, referenceCount, server, userdata, ready, group,
                         groups, browseVars, fault>>
      BY <1>3 DEF StartPublishDeferred, ApiCall, serverVars
    <2>2. groups[i] = 0
      BY <2>1 DEF IInv, HandlesValid
    <2>3. /\ registerWaiting' \in [Instances -> BOOLEAN] /\ asked' \in [Instances -> BOOLEAN]
          /\ \A j \in Instances \ {i} : registerWaiting'[j] = registerWaiting[j]
          /\ ready' \in [Instances -> BOOLEAN] /\ groups' \in [Instances -> Nat]
          /\ group' \in [Instances -> {"none", "registering", "established"}]
      BY <2>1 DEF IInv, TypeOK
    <2> QED
      BY <2>1, <2>2, <2>3, PublishStep
  <1>4. CASE StopPublish(i)
    <2>1. /\ object[i] = "live" /\ group[i] # "none"
          /\ group' = [group EXCEPT ![i] = "none"]
          /\ groups' = [groups EXCEPT ![i] = @ - 1]
          /\ asked' = [asked EXCEPT ![i] = FALSE]
          /\ UNCHANGED <<object, referenceCount, server, userdata, ready,
                         registerWaiting, browseVars, fault>>
      BY <1>4 DEF StopPublish, ApiCall, serverVars
    <2>2. groups[i] = 1 /\ ready[i] /\ ~registerWaiting[i]
      BY <2>1 DEF IInv, HandlesValid, WaitInv
    <2>3. /\ group' \in [Instances -> {"none", "registering", "established"}]
          /\ groups' \in [Instances -> Nat] /\ asked' \in [Instances -> BOOLEAN]
          /\ groups'[i] = 0 /\ group'[i] = "none"
          /\ \A j \in Instances \ {i} : group'[j] = group[j] /\ groups'[j] = groups[j]
          /\ ready' \in [Instances -> BOOLEAN] /\ registerWaiting' \in [Instances -> BOOLEAN]
      BY <2>1, <2>2 DEF IInv, TypeOK
    <2> QED
      BY <2>1, <2>2, <2>3, PublishStep
  <1>5. ASSUME NEW est \in BOOLEAN, GroupCallback(i, est) PROVE IInv'
    <2>1. CASE Crash
      BY <2>1, CrashInv
    <2>2. CASE object[i] = "live"
      <3>1. /\ group' = [group EXCEPT ![i] = IF est THEN "established" ELSE "none"]
            /\ groups' = [groups EXCEPT ![i] = IF est THEN @ ELSE @ - 1]
            /\ asked' = [asked EXCEPT ![i] = FALSE]
            /\ UNCHANGED <<object, referenceCount, server, userdata, ready,
                           registerWaiting, browseVars, fault>>
            /\ groups[i] > 0
        BY <1>5, <2>2 DEF GroupCallback, serverVars
      <3>2. groups[i] = 1 /\ group[i] # "none"
        BY <2>2, <3>1 DEF IInv, HandlesValid
      <3>3. ready[i] /\ ~registerWaiting[i]
        BY <3>2 DEF IInv, WaitInv
      <3>4. /\ group' \in [Instances -> {"none", "registering", "established"}]
            /\ groups' \in [Instances -> Nat] /\ asked' \in [Instances -> BOOLEAN]
            /\ groups'[i] = IF group'[i] = "none" THEN 0 ELSE 1
            /\ \A j \in Instances \ {i} : group'[j] = group[j] /\ groups'[j] = groups[j]
            /\ ready' \in [Instances -> BOOLEAN] /\ registerWaiting' \in [Instances -> BOOLEAN]
        BY <3>1, <3>2 DEF IInv, TypeOK
      <3> QED
        BY <2>2, <3>1, <3>3, <3>4, PublishStep
    <2> QED
      BY <1>5, <2>1, <2>2 DEF GroupCallback
  <1> QED
    BY <1>1, <1>2, <1>3, <1>4, <1>5 DEF Publishing

-----------------------------------------------------------------------------
(* Browsing.  Each signal is sent for a service the picture agrees about.  *)

LEMMA ViewFacts ==
    ASSUME IInv, NEW i \in Instances, NEW s \in Services
    PROVE  /\ app[i] \in [Services -> {Addr, None}]
           /\ s \in services[i] =>
                /\ ServiceRemoved(app[i], s) = [app[i] EXCEPT ![s] = None]
                /\ ServiceUpdated(app[i], s, Addr) = [app[i] EXCEPT ![s] = Addr]
           /\ s \notin services[i] =>
                ServiceAdded(app[i], s, Addr) = [app[i] EXCEPT ![s] = Addr]
  BY CoreAssumption
     DEF IInv, TypeOK, ViewMatchesServices, ServiceRemoved, ServiceUpdated, ServiceAdded

LEMMA BroswerCleanUpInv ==
    ASSUME IInv, NEW i \in Instances, object[i] = "live", browser[i],
           BroswerCleanUp(i)
    PROVE  IInv'
  <1>1. CASE Crash
    BY <1>1, CrashInv
  <1>2. CASE ~\E s \in Services : resolvers[i][s] = "null"
    <2>1. /\ browser' = [browser EXCEPT ![i] = FALSE]
          /\ browsers' = [browsers EXCEPT ![i] = @ - 1]
          /\ app' = [app EXCEPT ![i] = [s \in Services |->
                        IF s \in services[i] THEN ServiceRemoved(app[i], s)[s]
                        ELSE app[i][s]]]
          /\ services' = [services EXCEPT ![i] = {}]
          /\ resolvers' = [resolvers EXCEPT ![i] = NoResolvers]
          /\ UNCHANGED <<serverVars, publishVars, fault>>
      BY <1>2 DEF BroswerCleanUp
    <2>2. \A s \in Services :
            (IF s \in services[i] THEN ServiceRemoved(app[i], s)[s] ELSE app[i][s]) = None
      <3> SUFFICES ASSUME NEW s \in Services
                   PROVE  (IF s \in services[i] THEN ServiceRemoved(app[i], s)[s]
                           ELSE app[i][s]) = None
        OBVIOUS
      <3>1. CASE s \in services[i]
        <4>1. /\ ServiceRemoved(app[i], s) = [app[i] EXCEPT ![s] = None]
              /\ app[i] \in [Services -> {Addr, None}]
          BY <3>1, ViewFacts
        <4> QED
          BY <3>1, <4>1
      <3>2. CASE s \notin services[i]
        BY <3>2 DEF IInv, ViewMatchesServices
      <3> QED
        BY <3>1, <3>2
    <2>3. /\ app' \in [Instances -> [Services -> {Addr, None}]]
          /\ \A s \in Services : app'[i][s] = None
          /\ \A j \in Instances \ {i} : app'[j] = app[j]
      BY <2>1, <2>2 DEF IInv, TypeOK
    <2>4. browsers[i] > 0
      BY DEF IInv, HandlesValid
    <2>5. /\ browser' \in [Instances -> BOOLEAN] /\ ~browser'[i]
          /\ browsers' \in [Instances -> 0..MaxBrowsers]
          /\ services' \in [Instances -> SUBSET Services] /\ services'[i] = {}
          /\ \A j \in Instances \ {i} :
                /\ browser'[j] = browser[j] /\ browsers'[j] = browsers[j]
                /\ services'[j] = services[j]
      BY <2>1, <2>4, CoreAssumption DEF IInv, TypeOK
    <2>6. resolvers' \in [Instances -> [Services -> {"none", "live", "null"}]]
      BY <2>1 DEF IInv, TypeOK, NoResolvers
    <2>7. /\ browser'[i] => browsers'[i] > 0
          /\ \A s \in Services : app'[i][s] = IF s \in services'[i] THEN Addr ELSE None
          /\ \A j \in Instances \ {i} :
                /\ browser'[j] = browser[j] /\ browsers'[j] = browsers[j]
                /\ services'[j] = services[j] /\ app'[j] = app[j]
          /\ UNCHANGED <<serverVars, publishVars, fault>>
      BY <2>1, <2>3, <2>5
    <2> QED
      BY <2>3, <2>5, <2>6, <2>7, BrowseStep
  <1> QED
    BY <1>1, <1>2 DEF BroswerCleanUp

LEMMA StartBrowserInv ==
    ASSUME IInv, NEW i \in Instances, NEW ok \in BOOLEAN, StartBrowser(i, ok)
    PROVE  IInv'
  <1>1. CASE Crash
    BY <1>1, CrashInv
  <1>2. CASE server # "null"
    <2>1. /\ object[i] = "live"
          /\ browser' = [browser EXCEPT ![i] = ok]
          /\ browsers[i] < MaxBrowsers
          /\ browsers' = [browsers EXCEPT ![i] = IF ok THEN @ + 1 ELSE @]
          /\ UNCHANGED <<serverVars, publishVars, resolvers, services, app, fault>>
      BY <1>2 DEF StartBrowser, ApiCall
    <2>2. /\ browser' \in [Instances -> BOOLEAN] /\ browser'[i] = ok
          /\ browsers' \in [Instances -> 0..MaxBrowsers]
          /\ ok => browsers'[i] > 0
          /\ \A j \in Instances \ {i} : browser'[j] = browser[j] /\ browsers'[j] = browsers[j]
      BY <2>1, CoreAssumption DEF IInv, TypeOK
    <2>3. /\ resolvers' \in [Instances -> [Services -> {"none", "live", "null"}]]
          /\ services' \in [Instances -> SUBSET Services]
          /\ app' \in [Instances -> [Services -> {Addr, None}]]
          /\ \A s \in Services : app'[i][s] = IF s \in services'[i] THEN Addr ELSE None
      BY <2>1 DEF IInv, TypeOK, ViewMatchesServices
    <2> QED
      BY <2>1, <2>2, <2>3, BrowseStep
  <1> QED
    BY <1>1, <1>2 DEF StartBrowser

\* A step that takes one service into the map of one object, or out of it.
LEMMA ServiceStep ==
    ASSUME IInv, NEW i \in Instances, NEW s \in Services, object[i] = "live",
           resolvers' \in [Instances -> [Services -> {"none", "live", "null"}]],
           \/ /\ services' = [services EXCEPT ![i] = @ \cup {s}]
              /\ app' = [app EXCEPT ![i] = [app[i] EXCEPT ![s] = Addr]]
           \/ /\ services' = [services EXCEPT ![i] = @ \ {s}]
              /\ app' = [app EXCEPT ![i] = [app[i] EXCEPT ![s] = None]]
           \/ UNCHANGED <<services, app>>,
           UNCHANGED <<serverVars, publishVars, browser, browsers, fault>>
    PROVE  IInv'
  <1>1. app[i] \in [Services -> {Addr, None}] /\ services[i] \subseteq Services
    BY DEF IInv, TypeOK
  <1>2. /\ services' \in [Instances -> SUBSET Services]
        /\ app' \in [Instances -> [Services -> {Addr, None}]]
        /\ \A j \in Instances \ {i} : services'[j] = services[j] /\ app'[j] = app[j]
    <2>1. /\ services \in [Instances -> SUBSET Services]
          /\ app \in [Instances -> [Services -> {Addr, None}]]
      BY DEF IInv, TypeOK
    <2>2. CASE UNCHANGED <<services, app>>
      BY <2>1, <2>2
    <2>3. CASE /\ services' = [services EXCEPT ![i] = @ \cup {s}]
               /\ app' = [app EXCEPT ![i] = [app[i] EXCEPT ![s] = Addr]]
      BY <1>1, <2>1, <2>3
    <2>4. CASE /\ services' = [services EXCEPT ![i] = @ \ {s}]
               /\ app' = [app EXCEPT ![i] = [app[i] EXCEPT ![s] = None]]
      BY <1>1, <2>1, <2>4
    <2> QED
      BY <2>2, <2>3, <2>4
  <1>3. \A t \in Services : app'[i][t] = IF t \in services'[i] THEN Addr ELSE None
    <2> SUFFICES ASSUME NEW t \in Services
                 PROVE  app'[i][t] = IF t \in services'[i] THEN Addr ELSE None
      OBVIOUS
    <2>1. app[i][t] = IF t \in services[i] THEN Addr ELSE None
      BY DEF IInv, ViewMatchesServices
    <2>2. CASE UNCHANGED <<services, app>>
      BY <2>1, <2>2
    <2>3. CASE /\ services' = [services EXCEPT ![i] = @ \cup {s}]
               /\ app' = [app EXCEPT ![i] = [app[i] EXCEPT ![s] = Addr]]
      BY <1>1, <2>1, <2>3 DEF IInv, TypeOK
    <2>4. CASE /\ services' = [services EXCEPT ![i] = @ \ {s}]
               /\ app' = [app EXCEPT ![i] = [app[i] EXCEPT ![s] = None]]
      BY <1>1, <2>1, <2>4 DEF IInv, TypeOK
    <2> QED
      BY <2>2, <2>3, <2>4
  <1>4. /\ browser' \in [Instances -> BOOLEAN]
        /\ browsers' \in [Instances -> 0..MaxBrowsers]
        /\ browser'[i] => browsers'[i] > 0
    BY DEF IInv, TypeOK, HandlesValid
  <1> QED
    BY <1>2, <1>3, <1>4, BrowseStep

\* serviceRemoved() for a service in the map; nothing for one that is not.
LEMMA RemovedFacts ==
    ASSUME IInv, NEW i \in Instances, NEW s \in Services,
           services' = [services EXCEPT ![i] = @ \ {s}],
           app' = [app EXCEPT ![i] = IF s \in services[i] THEN ServiceRemoved(app[i], s)
                                     ELSE app[i]]
    PROVE  \/ app' = [app EXCEPT ![i] = [app[i] EXCEPT ![s] = None]]
           \/ UNCHANGED <<services, app>>
  <1>1. CASE s \in services[i]
    BY <1>1, ViewFacts
  <1>2. CASE s \notin services[i]
    <2>1. services' = [services EXCEPT ![i] = services[i]]
          /\ app' = [app EXCEPT ![i] = app[i]]
      BY <1>2
    <2>2. /\ services \in [Instances -> SUBSET Services]
          /\ app \in [Instances -> [Services -> {Addr, None}]]
      BY DEF IInv, TypeOK
    <2> QED
      BY <2>1, <2>2
  <1> QED
    BY <1>1, <1>2

LEMMA BrowsingInv ==
    ASSUME IInv, NEW i \in Instances, Browsing(i)
    PROVE  IInv'
  <1>0. resolvers \in [Instances -> [Services -> {"none", "live", "null"}]]
    BY DEF IInv, TypeOK
  <1>1. CASE StopBrowser(i) \/ BrowserFailure(i)
    BY <1>1, BroswerCleanUpInv DEF StopBrowser, BrowserFailure, ApiCall
  <1>2. CASE CallbackIntoDeleted(i)
    BY <1>2, CrashInv DEF CallbackIntoDeleted
  <1>3. ASSUME NEW s \in Services, BrowserNew(i, s) PROVE IInv'
    <2>1. resolvers' \in [Instances -> [Services -> {"none", "live", "null"}]]
      BY <1>0, <1>3 DEF BrowserNew
    <2>2. object[i] = "live" /\ UNCHANGED <<serverVars, publishVars, browser,
                                            browsers, services, app, fault>>
      BY <1>3 DEF BrowserNew
    <2> QED
      BY <2>1, <2>2, ServiceStep
  <1>4. ASSUME NEW s \in Services, BrowserRemove(i, s) PROVE IInv'
    <2>1. CASE Crash
      BY <2>1, CrashInv
    <2>2. CASE resolvers[i][s] # "null"
      <3>1. /\ object[i] = "live"
            /\ resolvers' = [resolvers EXCEPT ![i][s] = "none"]
            /\ services' = [services EXCEPT ![i] = @ \ {s}]
            /\ app' = [app EXCEPT ![i] = IF s \in services[i] THEN ServiceRemoved(app[i], s)
                                         ELSE app[i]]
            /\ UNCHANGED <<serverVars, publishVars, browser, browsers, fault>>
        BY <1>4, <2>2 DEF BrowserRemove
      <3>2. resolvers' \in [Instances -> [Services -> {"none", "live", "null"}]]
        BY <1>0, <3>1
      <3>3. \/ app' = [app EXCEPT ![i] = [app[i] EXCEPT ![s] = None]]
            \/ UNCHANGED <<services, app>>
        BY <3>1, RemovedFacts
      <3> QED
        BY <3>1, <3>2, <3>3, ServiceStep
    <2> QED
      BY <1>4, <2>1, <2>2 DEF BrowserRemove
  <1>5. ASSUME NEW s \in Services, ResolverFound(i, s) PROVE IInv'
    <2>1. /\ object[i] = "live"
          /\ services' = [services EXCEPT ![i] = @ \cup {s}]
          /\ app' = [app EXCEPT ![i] = IF s \in services[i]
                                       THEN ServiceUpdated(app[i], s, Addr)
                                       ELSE ServiceAdded(app[i], s, Addr)]
          /\ UNCHANGED <<serverVars, publishVars, browser, browsers, resolvers, fault>>
      BY <1>5 DEF ResolverFound, ApiCall
    <2>2. app' = [app EXCEPT ![i] = [app[i] EXCEPT ![s] = Addr]]
      BY <2>1, ViewFacts
    <2> QED
      BY <1>0, <2>1, <2>2, ServiceStep
  <1>6. ASSUME NEW s \in Services, ResolverFailure(i, s) PROVE IInv'
    <2>1. /\ object[i] = "live"
          /\ services' = [services EXCEPT ![i] = @ \ {s}]
          /\ app' = [app EXCEPT ![i] = IF s \in services[i] THEN ServiceRemoved(app[i], s)
                                       ELSE app[i]]
          /\ UNCHANGED <<serverVars, publishVars, browser, browsers, resolvers, fault>>
      BY <1>6 DEF ResolverFailure, ApiCall
    <2>2. \/ app' = [app EXCEPT ![i] = [app[i] EXCEPT ![s] = None]]
          \/ UNCHANGED <<services, app>>
      BY <2>1, RemovedFacts
    <2> QED
      BY <1>0, <2>1, <2>2, ServiceStep
  <1> QED
    BY <1>1, <1>2, <1>3, <1>4, <1>5, <1>6, StartBrowserInv DEF Browsing

LEMMA NextInv == IInv /\ [Next]_vars => IInv'
  <1> SUFFICES ASSUME IInv, [Next]_vars PROVE IInv'
    OBVIOUS
  <1>1. CASE UNCHANGED vars
    BY <1>1, FrameInv DEF vars, serverVars, publishVars, browseVars, IInv, TypeOK
  <1> QED
    BY <1>1, ServerRunningInv, ServerStateInv, CreateInv, DeleteInv,
       PublishingInv, BrowsingInv DEF Next

LEMMA Inductive == Spec => []IInv
  <1> QED
    BY InitInv, NextInv, PTL DEF Spec

\* pri->group and pri->browser of a live object are handles the library
\* holds, and the library holds no second group of it: registerService() is
\* never reached twice, by startServicePublish() and by serverCallback().
THEOREM CoreHandlesValid == Spec => []HandlesValid
  <1>1. IInv => HandlesValid
    BY DEF IInv
  <1> QED
    BY <1>1, Inductive, PTL

\* The signals of avahicore.cpp add up to pub->services for every object,
\* also while browsers it has lost the pointer to go on calling it.
THEOREM CoreViewMatches == Spec => []ViewMatchesServices
  <1>1. IInv => ViewMatchesServices
    BY DEF IInv
  <1> QED
    BY <1>1, Inductive, PTL

\* static referenceCount is the number of live objects, whatever the order in
\* which objects are created and deleted.
THEOREM CoreTypeCorrect == Spec => []TypeOK
  <1>1. IInv => TypeOK
    BY DEF IInv
  <1> QED
    BY <1>1, Inductive, PTL
=============================================================================
