------------------------------- MODULE Bonjour -------------------------------
(***************************************************************************)
(* The macOS, iOS and Windows backend of QZeroConf (bonjour.cpp): one      *)
(* QZeroConf object on top of Apple's dns_sd library.  Every socket        *)
(* notifier fires in the Qt event loop, so a library reply is one action;  *)
(* cleanUp(browser) is split at its emits, during which slots run.         *)
(*                                                                         *)
(* A Resolver is a heap object with two library operations of its own and  *)
(* a life of its own: the map `resolvers` is how the code finds it, and    *)
(* the socket notifiers keep calling it whether or not the map does.       *)
(***************************************************************************)
EXTENDS Integers, FiniteSets

CONSTANTS
    Services,   \* what the browser reports: a name on an interface
    Interfaces, \* interface numbers
    Iface,      \* zcs->interfaceIndex() of a service
    Keys,       \* the keys of both maps
    KeyOf,      \* the text zcs->name() + QString::number(interfaceIndex) of
                \* a service's name and any interface: two services may share it
    Ids,        \* identities of Resolver objects: bounds how many are alive
    None        \* no entry, no object

ASSUME BonjourAssumption ==
    /\ IsFiniteSet(Keys)
    /\ Iface \in [Services -> Interfaces]
    /\ KeyOf \in [Services -> [Interfaces -> Keys]]
    /\ None \notin Services \cup Ids \cup [svc : Services, addr : BOOLEAN]

\* The key that resolve() and Resolver::cleanUp() build from a Resolver's zcs.
Own(s) == KeyOf[s][Iface[s]]

VARIABLES
    alive,      \* the QZeroConf object has not been destroyed
    dnssRef,    \* pri->dnssRef: "none", "registering" or "published"
    browser,    \* pri->browser # nullptr
    heap,       \* the Resolver objects: [svc, addr] where addr says whether
                \* DNSaddressRef is running, None for an id not in use
    resolvers,  \* pri->resolvers: the id stored under a key
    services,   \* pub->services: the service stored under a key
    app,        \* per service, serviceAdded() less serviceRemoved() so far
    phase,      \* cleanUp(browser): "idle", "loop", or "slot" inside an emit
    destroying, \* cleanUp(browser) was called by the destructor
    pending,    \* keys whose serviceRemoved() the loop has yet to emit
    fault,      \* a dangling iterator or pointer ended the process
    net,        \* external: the services now advertised on the network
    reported    \* external: the services the browser reported as added

vars == <<alive, dnssRef, browser, heap, resolvers, services, app, phase,
          destroying, pending, fault, net, reported>>
resolveVars == <<heap, resolvers, services, app>>
cleanUpVars == <<phase, destroying, pending>>

Live == {r \in Ids : heap[r] # None}
Registered == {resolvers[k] : k \in Keys} \ {None}
Listed == {k \in Keys : services[k] # None}

TypeOK ==
    /\ alive \in BOOLEAN /\ browser \in BOOLEAN
    /\ dnssRef \in {"none", "registering", "published"}
    /\ heap \in [Ids -> [svc : Services, addr : BOOLEAN] \cup {None}]
    /\ resolvers \in [Keys -> Ids \cup {None}]
    /\ services \in [Keys -> Services \cup {None}]
    /\ app \in [Services -> Nat]
    /\ phase \in {"idle", "loop", "slot"}
    /\ destroying \in BOOLEAN
    /\ pending \in SUBSET Listed
    /\ fault \in BOOLEAN
    /\ net \in SUBSET Services /\ reported \in SUBSET Services

Init ==
    /\ alive = TRUE
    /\ dnssRef = "none"
    /\ browser = FALSE
    /\ heap = [r \in Ids |-> None]
    /\ resolvers = [k \in Keys |-> None]
    /\ services = [k \in Keys |-> None]
    /\ app = [s \in Services |-> 0]
    /\ phase = "idle" /\ destroying = FALSE /\ pending = {}
    /\ fault = FALSE
    /\ net \in SUBSET Services
    /\ reported = {}

\* emit serviceAdded(s) and emit serviceRemoved(s).
Added(s) == app' = [app EXCEPT ![s] = @ + 1]
Removed(s) == app' = [app EXCEPT ![s] = @ - 1]

CallbackTurn == alive /\ ~fault /\ phase = "idle"
ApiTurn == alive /\ ~fault /\ phase \in {"idle", "slot"}

\* The process ends here; nothing else changes.
Crash ==
    /\ fault' = TRUE
    /\ UNCHANGED <<alive, dnssRef, browser, resolveVars, cleanUpVars,
                   net, reported>>

-----------------------------------------------------------------------------
(* Publishing.                                                             *)

\* startServicePublish(): error() with a dnssRef already there or when the
\* library refuses, in which case cleanUp() leaves dnssRef null as it was.
StartPublish(accepted) ==
    /\ ApiTurn
    /\ dnssRef' = IF accepted /\ dnssRef = "none" THEN "registering" ELSE dnssRef
    /\ UNCHANGED <<alive, browser, resolveVars, cleanUpVars, fault, net, reported>>

\* stopServicePublish(): cleanUp(dnssRef).
StopPublish ==
    /\ ApiTurn
    /\ dnssRef' = "none"
    /\ UNCHANGED <<alive, browser, resolveVars, cleanUpVars, fault, net, reported>>

\* registerCallback(), or bsRead() whose connection to the daemon failed.
RegisterCallback(success) ==
    /\ CallbackTurn
    /\ dnssRef # "none"
    /\ dnssRef' = IF success THEN "published" ELSE "none"
    /\ UNCHANGED <<alive, browser, resolveVars, cleanUpVars, fault, net, reported>>

-----------------------------------------------------------------------------
(* Resolver objects.                                                       *)

\* Mutant: the object is deleted, its entry in the map stays.
CleanUpKeepsEntry(r) ==
    /\ heap' = [heap EXCEPT ![r] = None]
    /\ UNCHANGED resolvers

\* Resolver::cleanUp(): whatever is stored under its key leaves the map.
CleanUpResolver(r) ==
    /\ heap' = [heap EXCEPT ![r] = None]
    /\ resolvers' = [resolvers EXCEPT ![Own(heap[r].svc)] = None]

\* resolve(): a new Resolver, stored over whatever the map held.  When the
\* library refuses the operation the new object cleans itself up.
Resolve(s) ==
    \/ \E r \in Ids \ Live :
        /\ heap' = [heap EXCEPT ![r] = [svc |-> s, addr |-> FALSE]]
        /\ resolvers' = [resolvers EXCEPT ![Own(s)] = r]
    \/ /\ resolvers' = [resolvers EXCEPT ![Own(s)] = None]
       /\ UNCHANGED heap

\* A reply reaches a Resolver through its socket notifier.  Its `ref` points
\* into the QZeroConf object, so a reply after the destructor is a fault.
ResolverTurn(r) == r \in Live /\ ~fault /\ phase = "idle"

OrphanReply(r) ==
    /\ ResolverTurn(r)
    /\ ~alive
    /\ Crash

\* resolverCallback() with an error (the timeout of kDNSServiceFlagsTimeout
\* included), addressReply() with an error, a read error, or a refused
\* DNSServiceGetAddrInfo(): the Resolver goes.
ResolverError(r) ==
    /\ ResolverTurn(r)
    /\ alive
    /\ CleanUpResolver(r)
    /\ UNCHANGED <<alive, dnssRef, browser, services, app, cleanUpVars,
                   fault, net, reported>>

\* resolverCallback(): host, port and txt are known, ask for the address.  A
\* second reply replaces the address operation by a new one.
ResolverReply(r) ==
    /\ ResolverTurn(r)
    /\ alive
    /\ heap' = [heap EXCEPT ![r].addr = TRUE]
    /\ UNCHANGED <<alive, dnssRef, browser, resolvers, services, app,
                   cleanUpVars, fault, net, reported>>

\* addressReply() with kDNSServiceFlagsAdd, for interface i.  The key is the
\* Resolver's name on the interface of the reply, which need not be the one
\* the service was browsed on: serviceAdded() when the map has nothing under
\* it, else serviceUpdated(), whatever service is stored there and whether or
\* not this one was ever added.  Without the flag nothing happens.
AddressReply(r, i) ==
    LET s == heap[r].svc
        k == KeyOf[s][i]
    IN  /\ ResolverTurn(r) /\ alive /\ heap[r].addr
        /\ IF services[k] = None
           THEN services' = [services EXCEPT ![k] = s] /\ Added(s)
           ELSE UNCHANGED <<services, app>>
        /\ UNCHANGED <<alive, dnssRef, browser, heap, resolvers,
                       cleanUpVars, fault, net, reported>>

-----------------------------------------------------------------------------
(* Browsing.                                                               *)

\* browseCallback() with kDNSServiceFlagsAdd.
BrowseAdd(s) ==
    /\ CallbackTurn
    /\ browser
    /\ s \in net \ reported
    /\ reported' = reported \cup {s}
    /\ IF Own(s) \in Listed THEN UNCHANGED <<heap, resolvers>> ELSE Resolve(s)
    /\ UNCHANGED <<alive, dnssRef, browser, services, app, cleanUpVars, fault, net>>

\* Mutant: the service stays listed after it is gone.
BrowseRemoveIgnored(s) ==
    /\ CallbackTurn
    /\ browser
    /\ s \in reported \ net
    /\ reported' = reported \ {s}
    /\ UNCHANGED <<resolveVars, alive, dnssRef, browser, cleanUpVars, fault, net>>

\* browseCallback() without the flag: what the map holds under the key of the
\* service, be it another service, is removed together with the Resolver
\* stored under that key.  A service whose address is not known yet, or that
\* was added under the key of another interface, is not found there.
BrowseRemove(s) ==
    LET k == Own(s)
    IN  /\ CallbackTurn
        /\ browser
        /\ s \in reported \ net
        /\ reported' = reported \ {s}
        /\ IF k \in Listed
           THEN services' = [services EXCEPT ![k] = None] /\ Removed(services[k])
           ELSE UNCHANGED <<services, app>>
        /\ IF k \in Listed /\ resolvers[k] # None
           THEN CleanUpResolver(resolvers[k])
           ELSE UNCHANGED <<heap, resolvers>>
        /\ UNCHANGED <<alive, dnssRef, browser, cleanUpVars, fault, net>>

\* cleanUp(browser) up to its loop over pub->services.  The loop before it
\* walks `resolvers` while each Resolver::cleanUp() removes the entry the
\* iterator stands on: undefined behaviour, whose outcomes are a crash or any
\* number of resolvers after the first one skipped.  The clear() that follows
\* forgets the skipped ones without deleting them.
CleanUpBrowser(byDestructor) ==
    \/ /\ Registered # {}
       /\ Crash
    \/ \E cleaned \in SUBSET Registered :
        /\ cleaned = {} => Registered = {}
        /\ heap' = [r \in Ids |-> IF r \in cleaned THEN None ELSE heap[r]]
        /\ resolvers' = [k \in Keys |-> None]
        /\ browser' = FALSE
        /\ reported' = {}
        /\ phase' = "loop"
        /\ destroying' = byDestructor
        /\ pending' = Listed
        /\ dnssRef' = IF byDestructor THEN "none" ELSE dnssRef
        /\ UNCHANGED <<alive, services, app, fault, net>>

\* One iteration: emit serviceRemoved(service), during which slots run.
CleanUpEmit(k) ==
    /\ ~fault /\ phase # "idle"
    /\ k \in pending
    /\ pending' = pending \ {k}
    /\ Removed(services[k])
    /\ phase' = "slot"
    /\ UNCHANGED <<alive, dnssRef, browser, heap, resolvers, services,
                   destroying, fault, net, reported>>

\* Mutant: the map is not cleared once its services have been taken back.
CleanUpEndKeepsServices ==
    /\ ~fault /\ phase # "idle"
    /\ pending = {}
    /\ phase' = "idle"
    /\ alive' = ~destroying
    /\ browser' = (browser /\ ~destroying)
    /\ UNCHANGED <<dnssRef, heap, resolvers, services, app, destroying, pending,
                   fault, net, reported>>

\* After the loop: services.clear(); the destructor then deletes pri, and
\* with it a browser that a slot may have started.
CleanUpEnd ==
    /\ ~fault /\ phase # "idle"
    /\ pending = {}
    /\ services' = [k \in Keys |-> None]
    /\ phase' = "idle"
    /\ alive' = ~destroying
    /\ browser' = (browser /\ ~destroying)
    /\ UNCHANGED <<dnssRef, heap, resolvers, app, destroying, pending,
                   fault, net, reported>>

\* cleanUp(browser) called by the application.  Called by a slot, it runs
\* inside the loop of an outer cleanUp(browser): the inner one takes back once
\* more what the outer one already has, and its services.clear() frees the
\* map that the outer loop is iterating.
ApiCleanUp == IF phase = "idle" THEN CleanUpBrowser(FALSE) ELSE Crash

\* stopBrowser().
StopBrowser ==
    /\ ApiTurn
    /\ browser
    /\ ApiCleanUp

\* startBrowser(): error() with a browser already there, or when the library
\* refuses and leaves the reference null, so that cleanUp() has nothing to do.
StartBrowserRefused ==
    /\ ApiTurn
    /\ UNCHANGED vars

\* startBrowser() whose reference has no socket: cleanUp(browser), and with it
\* the Resolvers and services that an earlier browser left behind.
StartBrowserNoSocket ==
    /\ ApiTurn
    /\ ~browser
    /\ ApiCleanUp

\* startBrowser() that succeeds.
StartBrowser ==
    /\ ApiTurn
    /\ ~browser
    /\ browser' = TRUE
    /\ reported' = {}
    /\ UNCHANGED <<alive, dnssRef, resolveVars, cleanUpVars, fault, net>>

\* browseCallback() with an error, or browserRead() whose read failed:
\* clean up, then error(browserFailed).
BrowserFails ==
    /\ CallbackTurn
    /\ browser
    /\ CleanUpBrowser(FALSE)

\* ~QZeroConf(), from the event loop.
Destroy ==
    /\ CallbackTurn
    /\ IF browser
       THEN CleanUpBrowser(TRUE)
       ELSE /\ alive' = FALSE
            /\ dnssRef' = "none"
            /\ UNCHANGED <<browser, resolveVars, cleanUpVars, fault, net, reported>>

\* A service appears on the network or leaves it.
NetworkChange(s) ==
    /\ net' = IF s \in net THEN net \ {s} ELSE net \cup {s}
    /\ UNCHANGED <<alive, dnssRef, browser, resolveVars, cleanUpVars, fault, reported>>

-----------------------------------------------------------------------------
Publishing ==
    \/ StopPublish
    \/ \E ok \in BOOLEAN : StartPublish(ok) \/ RegisterCallback(ok)

Resolving ==
    \E r \in Ids :
        \/ OrphanReply(r)
        \/ ResolverError(r)
        \/ ResolverReply(r)
        \/ \E i \in Interfaces : AddressReply(r, i)

Browsing ==
    \/ StartBrowserRefused
    \/ StartBrowserNoSocket
    \/ StartBrowser
    \/ StopBrowser
    \/ BrowserFails
    \/ \E s \in Services : BrowseAdd(s) \/ BrowseRemove(s)
    \/ \E k \in Keys : CleanUpEmit(k)
    \/ CleanUpEnd
    \/ Destroy

Next ==
    \/ Publishing
    \/ Resolving
    \/ Browsing
    \/ \E s \in Services : NetworkChange(s)

\* A function that has been entered runs to its end and the browser delivers
\* the events it owes.  The application and the resolvers owe nothing.
Fairness ==
    /\ WF_vars(\E k \in Keys : CleanUpEmit(k))
    /\ WF_vars(CleanUpEnd)
    /\ \A s \in Services : WF_vars(BrowseAdd(s)) /\ WF_vars(BrowseRemove(s))

Spec == Init /\ [][Next]_vars
FairSpec == Spec /\ Fairness

-----------------------------------------------------------------------------
(* Properties.                                                             *)

\* The map never holds a pointer to a deleted Resolver, and what it holds
\* under a key resolves a service of that key, although two Resolvers, of one
\* service or of two that share the key, may be alive, either may clean up
\* first, and each removes "its" entry by key alone.
NoDanglingResolver ==
    \A k \in Keys :
        resolvers[k] # None => /\ resolvers[k] \in Live
                               /\ Own(heap[resolvers[k]].svc) = k

\* The keys under which the application still has a service: between two
\* events those of pub->services, inside cleanUp(browser) those that its loop
\* has yet to take back.
Held == IF phase = "idle" THEN Listed ELSE pending
HeldFor(s) == {k \in Held : services[k] = s}

\* serviceAdded() and serviceRemoved() add up, for every service, to the keys
\* under which the map holds it: none is taken back that was not added, none
\* is lost, although a service may sit under the keys of several interfaces,
\* a REMOVE may take out another service of the same key, and slots start
\* browsers in the middle of cleanUp(browser).
SignalsBalance == \A s \in Services : app[s] = Cardinality(HeldFor(s))

\* Outside cleanUp(browser) its loop has nothing left to emit.
PendingInv == phase = "idle" => pending = {}

\* The inductive invariant of module BonjourProofs.
IInv == TypeOK /\ NoDanglingResolver /\ SignalsBalance /\ PendingInv

\* The browser lists every service that a Resolver runs for.  A REMOVE that
\* overtakes the address reply, or a Resolver skipped by cleanUp(browser),
\* breaks this.
ResolvedWhileReported(s) == \A r \in Live : heap[r].svc = s => s \in reported

\* A service is stored under no key but its own.  An address reply for another
\* interface than the service was browsed on breaks this.
StoredUnderOwnKey(s) == \A k \in Listed : services[k] = s => k = Own(s)

\* A service that leaves the network for good is forgotten for good, in every
\* execution in which its Resolvers run only while it is reported and its
\* replies name its own interface, whatever happens to other services, those
\* that share its key included.
GoneServiceForgotten ==
    \A s \in Services :
        /\ [](ResolvedWhileReported(s) /\ StoredUnderOwnKey(s))
        /\ <>[](s \notin net)
        => <>[](app[s] = 0 \/ fault)

\* The README's promise: serviceRemoved() is how the application learns that
\* a service is unpublished, so one that stays unpublished is forgotten.
UnpublishedServiceRemoved ==
    \A s \in Services :
        <>[](s \notin net /\ browser) => <>[](app[s] = 0 \/ fault)
=============================================================================
