------------------------------ MODULE AndroidNsd ------------------------------
(***************************************************************************)
(* The Android backend: QZeroConfPrivate objects on the Qt thread          *)
(* (androidnsd.cpp), one QZeroConfNsdManager.java object for each, run on  *)
(* the Android main thread, and the platform's NsdManager, which calls its *)
(* listeners back on a thread of its own.                                  *)
(*                                                                         *)
(*   Qt thread --tasks--> Android thread --calls--> NsdManager             *)
(*   NsdManager --listeners--> Java object --JNI, events--> Qt thread      *)
(*                                                                         *)
(* The Java object carries the address of its C++ object as its id and     *)
(* outlives it; all Java objects share one resolver queue.  NsdManager is  *)
(* external, modelled by the calls and the listeners the code uses: a      *)
(* listener that is in use cannot be used again, and asking for that       *)
(* throws.  serviceNameChanged(), which only forwards a name, is left out. *)
(***************************************************************************)
EXTENDS Naturals, Sequences, FiniteSets, Signals

CONSTANTS
    Managers,   \* QZeroConfNsdManager objects, each with its QZeroConfPrivate
    Pointers,   \* addresses the C++ objects can be allocated at
    Services,
    Browsed,    \* the services of the type each manager browses for
    Addr,       \* the address services resolve to
    Uses,       \* the API calls the application makes on each object
    MaxTasks, MaxEvents, MaxQueue   \* bounds on the three queues

Operations == {"register", "unregister", "discover", "stopDiscovery"}

ASSUME AndroidAssumption ==
    /\ Uses \in [Managers -> SUBSET Operations]
    /\ Browsed \in [Managers -> SUBSET Services]
    /\ None \notin Services \cup Pointers /\ Addr \notin {None, Misused}
    /\ MaxTasks \in Nat /\ MaxEvents \in Nat /\ MaxQueue \in Nat

VARIABLES
    object,          \* the C++ object: "none" yet, "live" or "deleted"
    id,              \* the id of the Java object: the address of that object
    tasks,           \* runnables posted to the Android main thread
    events,          \* queued invocations in the Qt event loop
    discovery,       \* NsdManager's view of discoveryListener
    registration,    \* NsdManager's view of registrationListener
    found,           \* the services the discovery reported found
    resolverQueue,   \* static resolverQueue
    pendingResolve,  \* static pendingResolve
    resolving,       \* outstanding resolveService() calls: listener and service
    services,        \* the keys of pub->services
    app,             \* what the signals told the application
    browserExists,
    publisherExists,
    fault            \* a deleted object was read

vars == <<object, id, tasks, events, discovery, registration, found,
          resolverQueue, pendingResolve, resolving, services, app,
          browserExists, publisherExists, fault>>
resolveVars == <<resolverQueue, pendingResolve, resolving>>
qtVars == <<services, app, browserExists, publisherExists>>
nsdVars == <<discovery, registration, found>>

\* The life of a listener: a start may be asked to stop before it is answered.
ListenerStates == {"off", "starting", "on", "cancelled", "stopping"}

Events ==
    [to : Managers, kind : {"resolved", "removed"}, service : Services]
    \cup [to : Managers, kind : {"browser", "publisher"}, running : BOOLEAN]

TypeOK ==
    /\ object \in [Managers -> {"none", "live", "deleted"}]
    /\ id \in [Managers -> Pointers \cup {None}]
    /\ tasks \in Seq([manager : Managers, op : Operations]) /\ Len(tasks) <= MaxTasks
    /\ events \in Seq(Events) /\ Len(events) <= MaxEvents
    /\ discovery \in [Managers -> ListenerStates]
    /\ registration \in [Managers -> ListenerStates]
    /\ found \in [Managers -> SUBSET Services]
    /\ resolverQueue \in Seq(Services) /\ Len(resolverQueue) <= MaxQueue
    /\ pendingResolve \in Services \cup {None}
    /\ resolving \in SUBSET (Managers \X Services)
    /\ services \in [Managers -> SUBSET Services]
    /\ app \in [Managers -> [Services -> {Addr, None}]]
    /\ browserExists \in [Managers -> BOOLEAN]
    /\ publisherExists \in [Managers -> BOOLEAN]
    /\ fault \in BOOLEAN

Init ==
    /\ object = [m \in Managers |-> "none"]
    /\ id = [m \in Managers |-> None]
    /\ tasks = <<>> /\ events = <<>>
    /\ discovery = [m \in Managers |-> "off"]
    /\ registration = [m \in Managers |-> "off"]
    /\ found = [m \in Managers |-> {}]
    /\ resolverQueue = <<>> /\ pendingResolve = None /\ resolving = {}
    /\ services = [m \in Managers |-> {}]
    /\ app = [m \in Managers |-> [s \in Services |-> None]]
    /\ browserExists = [m \in Managers |-> FALSE]
    /\ publisherExists = [m \in Managers |-> FALSE]
    /\ fault = FALSE

-----------------------------------------------------------------------------
(* From Java to the Qt thread.                                             *)

\* The live object at the address the Java object holds, if there is one.
Instance(m) == {n \in Managers : object[n] = "live" /\ id[n] = id[m]}

\* Mutant: no look into s_instances, the Java object's own object is assumed.
PostUnchecked(m, event) == events' = Append(events, [event EXCEPT !.to = m])

\* The tail of every on...JNI() function: under s_instancesMutex, drop the call
\* if no live object has this address, else queue it for that object.
Post(m, event) ==
    IF Instance(m) = {}
    THEN UNCHANGED events
    ELSE \E n \in Instance(m) : events' = Append(events, [event EXCEPT !.to = n])

BrowserState(m, running) ==
    Post(m, [to |-> m, kind |-> "browser", running |-> running])
PublisherState(m, running) ==
    Post(m, [to |-> m, kind |-> "publisher", running |-> running])

NsdTurn == ~fault /\ Len(events) < MaxEvents

-----------------------------------------------------------------------------
(* The resolver queue, static in QZeroConfNsdManager.                      *)

\* processResolverQueue() of manager m, on the given queue and pendingResolve.
ProcessResolverQueue(m, queue, pending) ==
    IF queue = <<>> \/ pending # None
    THEN /\ resolverQueue' = queue
         /\ pendingResolve' = pending
         /\ UNCHANGED resolving
    ELSE /\ resolverQueue' = Tail(queue)
         /\ pendingResolve' = Head(queue)
         /\ resolving' = resolving \cup {<<m, Head(queue)>>}

\* The same after the call <<l, s>> that was outstanding has been answered.
AnswerAndProcess(l, s, queue) ==
    IF queue = <<>>
    THEN /\ resolverQueue' = queue
         /\ pendingResolve' = None
         /\ resolving' = resolving \ {<<l, s>>}
    ELSE /\ resolverQueue' = Tail(queue)
         /\ pendingResolve' = Head(queue)
         /\ resolving' = (resolving \ {<<l, s>>}) \cup {<<l, Head(queue)>>}

\* Mutant: the next service is resolved although one is pending.
ServiceFoundResolvesAtOnce(m, s) ==
    /\ NsdTurn
    /\ discovery[m] \in {"on", "stopping"}
    /\ s \in Browsed[m] \ found[m]
    /\ Len(resolverQueue) < MaxQueue
    /\ found' = [found EXCEPT ![m] = @ \cup {s}]
    /\ ProcessResolverQueue(m, Append(resolverQueue, s), None)
    /\ UNCHANGED <<object, id, tasks, events, discovery, registration, qtVars, fault>>

\* DiscoveryListener.onServiceFound(): enqueueResolver().
ServiceFound(m, s) ==
    /\ NsdTurn
    /\ discovery[m] \in {"on", "stopping"}
    /\ s \in Browsed[m] \ found[m]
    /\ Len(resolverQueue) < MaxQueue
    /\ found' = [found EXCEPT ![m] = @ \cup {s}]
    /\ ProcessResolverQueue(m, Append(resolverQueue, s), pendingResolve)
    /\ UNCHANGED <<object, id, tasks, events, discovery, registration, qtVars, fault>>

\* DiscoveryListener.onServiceLost().  A resolve that is queued or pending for
\* the service is not taken back.
ServiceLost(m, s) ==
    /\ NsdTurn
    /\ discovery[m] \in {"on", "stopping"}
    /\ s \in found[m]
    /\ found' = [found EXCEPT ![m] = @ \ {s}]
    /\ Post(m, [to |-> m, kind |-> "removed", service |-> s])
    /\ UNCHANGED <<object, id, tasks, discovery, registration, resolveVars, qtVars, fault>>

\* Mutant: the failed service is queued again and nothing starts the next one.
ResolveFailedStalls(m, s, alreadyActive) ==
    /\ NsdTurn
    /\ <<m, s>> \in resolving
    /\ resolverQueue' = IF alreadyActive THEN Append(resolverQueue, pendingResolve)
                                         ELSE resolverQueue
    /\ pendingResolve' = None
    /\ resolving' = resolving \ {<<m, s>>}
    /\ UNCHANGED <<object, id, tasks, events, nsdVars, qtVars, fault>>

\* ResolveListener.onResolveFailed(): FAILURE_ALREADY_ACTIVE puts the service
\* back at the end of the queue.
ResolveFailed(m, s, alreadyActive) ==
    /\ NsdTurn
    /\ <<m, s>> \in resolving
    /\ AnswerAndProcess(m, s, IF alreadyActive THEN Append(resolverQueue, pendingResolve)
                                               ELSE resolverQueue)
    /\ UNCHANGED <<object, id, tasks, events, nsdVars, qtVars, fault>>

\* ResolveListener.onServiceResolved(), with the id of the manager whose call
\* of processResolverQueue() started this resolve.
ServiceResolved(m, s) ==
    /\ NsdTurn
    /\ <<m, s>> \in resolving
    /\ Post(m, [to |-> m, kind |-> "resolved", service |-> s])
    /\ AnswerAndProcess(m, s, resolverQueue)
    /\ UNCHANGED <<object, id, tasks, nsdVars, qtVars, fault>>

-----------------------------------------------------------------------------
(* The other listeners.                                                    *)

\* NsdManager answers the oldest request a listener waits for: the state it
\* goes to.
Answered(state, ok) ==
    CASE state = "starting"  -> IF ok THEN "on" ELSE "off"
      [] state = "cancelled" -> IF ok THEN "stopping" ELSE "off"
      [] state = "stopping"  -> "off"

\* Whether the listener reports "running": started is, stopped and every
\* failure is not.
Running(state, ok) == ok /\ state \in {"starting", "cancelled"}

\* onDiscoveryStarted(), onDiscoveryStopped(), on...DiscoveryFailed().
DiscoveryAnswer(m, ok) ==
    /\ NsdTurn
    /\ discovery[m] \notin {"off", "on"}
    /\ discovery' = [discovery EXCEPT ![m] = Answered(@, ok)]
    /\ found' = [found EXCEPT ![m] = IF discovery[m] = "stopping" THEN {} ELSE @]
    /\ BrowserState(m, Running(discovery[m], ok))
    /\ UNCHANGED <<object, id, tasks, registration, resolveVars, qtVars, fault>>

\* Mutant: a service that was unregistered is not reported.
RegistrationAnswerSilent(m, ok) ==
    /\ NsdTurn
    /\ registration[m] \notin {"off", "on"}
    /\ registration' = [registration EXCEPT ![m] = Answered(@, ok)]
    /\ IF registration[m] = "stopping"
       THEN UNCHANGED events
       ELSE PublisherState(m, Running(registration[m], ok))
    /\ UNCHANGED <<object, id, tasks, discovery, found, resolveVars, qtVars, fault>>

\* onServiceRegistered(), onServiceUnregistered(), on...RegistrationFailed().
RegistrationAnswer(m, ok) ==
    /\ NsdTurn
    /\ registration[m] \notin {"off", "on"}
    /\ registration' = [registration EXCEPT ![m] = Answered(@, ok)]
    /\ PublisherState(m, Running(registration[m], ok))
    /\ UNCHANGED <<object, id, tasks, discovery, found, resolveVars, qtVars, fault>>

-----------------------------------------------------------------------------
(* The Java calls, on the Android main thread or, for the two stops when   *)
(* the application is suspended, on the Qt thread.                         *)

\* Starting a listener that is off; asking a started listener to stop.
Started(state) == IF state = "off" THEN "starting" ELSE state
Stopped(state) ==
    CASE state = "starting" -> "cancelled"
      [] state = "on"       -> "stopping"
      [] OTHER              -> state

\* registerService(): a listener in use throws, which is caught and reported.
RegisterService(m) ==
    /\ registration' = [registration EXCEPT ![m] = Started(@)]
    /\ IF registration[m] = "off" THEN UNCHANGED events ELSE PublisherState(m, FALSE)
    /\ UNCHANGED <<discovery, fault>>

\* discoverServices(), stopServiceDiscovery() and unregisterService() let the
\* exception escape to the JNI caller; nothing is reported.
Call(m, op) ==
    CASE op = "unregister" ->
            /\ registration' = [registration EXCEPT ![m] = Stopped(@)]
            /\ UNCHANGED <<events, discovery, fault>>
      [] op = "discover" ->
            /\ discovery' = [discovery EXCEPT ![m] = Started(@)]
            /\ UNCHANGED <<events, registration, fault>>
      [] op = "stopDiscovery" ->
            /\ discovery' = [discovery EXCEPT ![m] = Stopped(@)]
            /\ UNCHANGED <<events, registration, fault>>
      [] op = "register" -> RegisterService(m)

\* The Android main thread runs the oldest runnable.  The one that
\* startServicePublish() posted has captured `this`: it reads txtRecords,
\* publishName and publishType of the C++ object.
RunTask ==
    /\ NsdTurn
    /\ tasks # <<>>
    /\ tasks' = Tail(tasks)
    /\ LET m == Head(tasks).manager
           op == Head(tasks).op
       IN  IF op = "register" /\ object[m] = "deleted"
           THEN fault' = TRUE /\ UNCHANGED <<events, discovery, registration>>
           ELSE Call(m, op)
    /\ UNCHANGED <<object, id, found, resolveVars, qtVars>>

-----------------------------------------------------------------------------
(* The Qt thread.                                                          *)

\* QZeroConf(): the object may get the address of one that was deleted.
Create(m, p) ==
    /\ ~fault
    /\ object[m] = "none"
    /\ \A n \in Managers : object[n] = "live" => id[n] # p
    /\ object' = [object EXCEPT ![m] = "live"]
    /\ id' = [id EXCEPT ![m] = p]
    /\ UNCHANGED <<tasks, events, nsdVars, resolveVars, qtVars, fault>>

\* Mutant: invocations already queued for the object are left in the queue.
DeleteLeavesEvents(m) ==
    /\ ~fault
    /\ object[m] = "live"
    /\ object' = [object EXCEPT ![m] = "deleted"]
    /\ UNCHANGED <<id, tasks, events, nsdVars, resolveVars, qtVars, fault>>

\* What ~QObject() leaves of the event queue: the invocations for the other
\* objects, in the order they were queued.
Without(queue, m) ==
    LET kept == {i \in DOMAIN queue : queue[i].to # m}
        nth(n) == CHOOSE i \in kept : Cardinality({j \in kept : j <= i}) = n
    IN  [n \in 1..Cardinality(kept) |-> queue[nth(n)]]

\* ~QZeroConf(): the object leaves s_instances and ~QObject() drops what is
\* queued for it; its state is gone with it.  Neither discovery nor registration
\* is stopped.
Delete(m) ==
    /\ ~fault
    /\ object[m] = "live"
    /\ object' = [object EXCEPT ![m] = "deleted"]
    /\ events' = Without(events, m)
    /\ services' = [services EXCEPT ![m] = {}]
    /\ app' = [app EXCEPT ![m] = [s \in Services |-> None]]
    /\ browserExists' = [browserExists EXCEPT ![m] = FALSE]
    /\ publisherExists' = [publisherExists EXCEPT ![m] = FALSE]
    /\ UNCHANGED <<id, tasks, nsdVars, resolveVars, fault>>

\* startServicePublish(), stopServicePublish(), startBrowser(), stopBrowser().
PostTask(m, op) ==
    /\ ~fault
    /\ object[m] = "live"
    /\ Len(tasks) < MaxTasks
    /\ tasks' = Append(tasks, [manager |-> m, op |-> op])
    /\ UNCHANGED <<object, id, events, nsdVars, resolveVars, qtVars, fault>>

\* stopServicePublish() and stopBrowser() of a suspended application.
CallSuspended(m, op) ==
    /\ ~fault
    /\ object[m] = "live"
    /\ op \in {"unregister", "stopDiscovery"}
    /\ Call(m, op)
    /\ UNCHANGED <<object, id, tasks, found, resolveVars, qtVars>>

\* Mutant: every service that is resolved is announced as new.
OnServiceResolvedAlwaysNew(m, s) ==
    /\ services' = [services EXCEPT ![m] = @ \cup {s}]
    /\ app' = [app EXCEPT ![m] = ServiceAdded(@, s, Addr)]

\* onServiceResolved(): a new record is added, a known one updated.
OnServiceResolved(m, s) ==
    /\ services' = [services EXCEPT ![m] = @ \cup {s}]
    /\ app' = [app EXCEPT ![m] = IF s \in services[m]
                                 THEN ServiceUpdated(@, s, Addr)
                                 ELSE ServiceAdded(@, s, Addr)]

\* onServiceRemoved().
OnServiceRemoved(m, s) ==
    /\ services' = [services EXCEPT ![m] = @ \ {s}]
    /\ app' = [app EXCEPT ![m] = IF s \in services[m] THEN ServiceRemoved(@, s) ELSE @]

\* The Qt event loop delivers the oldest queued invocation.
\* onBrowserStateChanged() and onPublisherStateChanged() store the flag.
Deliver ==
    /\ ~fault
    /\ events # <<>>
    /\ events' = Tail(events)
    /\ LET e == Head(events) IN
       \/ /\ e.kind = "resolved"
          /\ OnServiceResolved(e.to, e.service)
          /\ UNCHANGED <<browserExists, publisherExists>>
       \/ /\ e.kind = "removed"
          /\ OnServiceRemoved(e.to, e.service)
          /\ UNCHANGED <<browserExists, publisherExists>>
       \/ /\ e.kind = "browser"
          /\ browserExists' = [browserExists EXCEPT ![e.to] = e.running]
          /\ UNCHANGED <<services, app, publisherExists>>
       \/ /\ e.kind = "publisher"
          /\ publisherExists' = [publisherExists EXCEPT ![e.to] = e.running]
          /\ UNCHANGED <<services, app, browserExists>>
    /\ UNCHANGED <<object, id, tasks, nsdVars, resolveVars, fault>>

-----------------------------------------------------------------------------
QtThread ==
    \/ Deliver
    \/ \E m \in Managers :
        \/ \E p \in Pointers : Create(m, p)
        \/ Delete(m)
        \/ \E op \in Uses[m] : PostTask(m, op) \/ CallSuspended(m, op)

ResolveAnswer ==
    \E m \in Managers, s \in Services :
        \/ ServiceResolved(m, s)
        \/ \E active \in BOOLEAN : ResolveFailed(m, s, active)

Listeners ==
    \/ ResolveAnswer
    \/ \E m \in Managers :
        \/ \E ok \in BOOLEAN : DiscoveryAnswer(m, ok) \/ RegistrationAnswer(m, ok)
        \/ \E s \in Services : ServiceFound(m, s) \/ ServiceLost(m, s)

Next ==
    \/ QtThread
    \/ RunTask
    \/ Listeners

\* The three threads keep running and NsdManager answers a resolve.  Strong
\* fairness where only the bound on the event queue disables the step.
Fairness ==
    /\ WF_vars(Deliver)
    /\ SF_vars(RunTask)
    /\ SF_vars(ResolveAnswer)

Spec == Init /\ [][Next]_vars
FairSpec == Spec /\ Fairness

-----------------------------------------------------------------------------
(* Properties.                                                             *)

\* The platform resolves one service at a time per application: there is at
\* most one outstanding resolveService(), over all Java objects, and
\* pendingResolve says which, also when a failed resolve is queued again.
OneResolveAtATime ==
    /\ Cardinality(resolving) <= 1
    /\ \A c \in resolving : pendingResolve = c[2]
    /\ pendingResolve # None => resolving # {}

\* An invocation is only ever queued for an object that is still alive when
\* the Qt event loop comes to it, whatever the Android thread did meanwhile.
EventsForLiveObjects ==
    \A i \in DOMAIN events : object[events[i].to] = "live"

\* The signals never contradict each other and the application of each object
\* knows exactly the services in that object's map.
ViewMatchesServices ==
    \A m \in Managers, s \in Services :
        app[m][s] = IF s \in services[m] THEN Addr ELSE None

\* What a flag will say once the queued invocations are delivered: what the
\* last of those that set it says.
Settled(queue, m, kind, flag) ==
    LET mine == {i \in DOMAIN queue : queue[i].to = m /\ queue[i].kind = kind}
    IN  IF mine = {} THEN flag
        ELSE \E i \in mine : queue[i].running /\ \A j \in mine : j <= i

\* browserExists() and publishExists() do not lie about what is running: once
\* the queue is delivered they are true only while NsdManager has the listener
\* started.  For an object whose address no other object had.
FlagsAreHonest ==
    \A m \in Managers :
        (object[m] = "live" /\ \A n \in Managers \ {m} : id[n] # id[m]) =>
            /\ Settled(events, m, "browser", browserExists[m]) =>
                    discovery[m] \in {"on", "stopping"}
            /\ Settled(events, m, "publisher", publisherExists[m]) =>
                    registration[m] \in {"on", "stopping"}

\* An object has an address once it exists, and its flags are down before and
\* after its life.
ObjectInv ==
    \A m \in Managers :
        /\ object[m] = "none" <=> id[m] = None
        /\ object[m] # "live" => ~browserExists[m] /\ ~publisherExists[m]

\* The inductive invariant of module AndroidNsdProofs.
IInv ==
    /\ TypeOK /\ ObjectInv /\ IsFiniteSet(resolving) /\ OneResolveAtATime
    /\ EventsForLiveObjects /\ ViewMatchesServices /\ FlagsAreHonest

\* Nothing waits in the resolver queue for ever: a queued service becomes the
\* pending one although failures send services back to the end of the queue
\* and other managers add theirs.
ResolverQueueServed ==
    \A s \in Services :
        (\E i \in DOMAIN resolverQueue : resolverQueue[i] = s)
            ~> (pendingResolve = s \/ fault)
=============================================================================
