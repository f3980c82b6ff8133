----------------------------- MODULE AvahiClient -----------------------------
(***************************************************************************)
(* The Linux backend of QZeroConf (avahiclient.cpp): one QZeroConf object  *)
(* on top of libavahi-client.  Everything runs in the Qt event loop, so an *)
(* API call or a library callback is one action, with one exception: the   *)
(* loop of broswerCleanUp() emits serviceRemoved() in the middle of its    *)
(* work and a slot connected to that signal may call back into the object. *)
(* That function is therefore split at each emit.                          *)
(*                                                                         *)
(* libavahi-client and the daemon are external: the browser reports a      *)
(* service NEW and later REMOVE, a live resolver reports FOUND or FAILURE  *)
(* at any time, handing a library call a NULL handle ends the process.     *)
(***************************************************************************)
EXTENDS Sequences, Signals

CONSTANTS
    Services,   \* records [name, iface]: a service name and the decimal digits
                \* of the interface it is seen on, both as sequences
    Addrs,      \* the addresses a service can resolve to
    Null        \* a QMap entry whose handle is a NULL pointer; None stands for
                \* no entry

\* The key of a service in pub->services and in resolvers:
\* name + QString::number(interface).
Key(s) == s.name \o s.iface
Keys == {Key(s) : s \in Services}

\* A QZeroConfServiceData: the service it was created for and its m_ip.
Objects == [svc : Services, ip : Addrs]

ASSUME ClientAssumption ==
    /\ None \notin Services \cup Addrs \cup Objects
    /\ Misused \notin Addrs
    /\ Null \notin Services \cup {None}

VARIABLES
    alive,      \* the QZeroConf object has not been destroyed
    client,     \* pri->client # NULL: the daemon was there at construction
    group,      \* pri->group: "none", "registering" or "established"
    browser,    \* pri->browser # NULL
    resolvers,  \* pri->resolvers: the service being resolved, per key
    services,   \* pub->services: the object, per key
    app,        \* what the signals told the application, per service
    phase,      \* broswerCleanUp(): "idle", "loop", or "slot" inside an emit
    cause,      \* its caller: "stop", "failure" or "destroy"
    pending,    \* keys whose serviceRemoved() the loop has yet to emit
    fault,      \* an illegal library call or a dangling iterator ended it
    net,        \* external: the services now advertised on the network
    reported    \* external: the services the browser reported NEW

vars == <<alive, client, group, browser, resolvers, services, app,
          phase, cause, pending, fault, net, reported>>

browseVars  == <<browser, resolvers, services, app, reported>>
cleanUpVars == <<phase, cause, pending>>

TypeOK ==
    /\ alive \in BOOLEAN /\ client \in BOOLEAN /\ browser \in BOOLEAN
    /\ group \in {"none", "registering", "established"}
    /\ resolvers \in [Keys -> Services \cup {None, Null}]
    /\ services \in [Keys -> Objects \cup {None}]
    /\ app \in [Services -> Addrs \cup {None}]
    /\ phase \in {"idle", "loop", "slot"}
    /\ cause \in {"stop", "failure", "destroy"}
    /\ pending \in SUBSET Keys
    /\ fault \in BOOLEAN
    /\ net \in SUBSET Services /\ reported \in SUBSET Services

\* QZeroConf::QZeroConf and QZeroConfPrivate::QZeroConfPrivate.  The library
\* call avahi_client_new() fails when no daemon is running.
Init ==
    /\ alive = TRUE
    /\ client \in BOOLEAN
    /\ group = "none"
    /\ browser = FALSE
    /\ resolvers = [k \in Keys |-> None]
    /\ services = [k \in Keys |-> None]
    /\ app = [s \in Services |-> None]
    /\ phase = "idle" /\ cause = "stop" /\ pending = {}
    /\ fault = FALSE
    /\ net \in SUBSET Services
    /\ reported = {}

-----------------------------------------------------------------------------
(* Who may run: the event loop delivers callbacks when no call is running; *)
(* the application calls the API from the event loop or from a slot.       *)

Running == alive /\ ~fault
CallbackTurn == Running /\ phase = "idle"
ApiTurn == Running /\ phase \in {"idle", "slot"}

\* The process ends here; nothing else changes.
Crash ==
    /\ fault' = TRUE
    /\ UNCHANGED <<alive, client, group, browseVars, cleanUpVars, net>>

-----------------------------------------------------------------------------
(* Publishing.                                                             *)

\* startServicePublish() rejected, or failed in a way that frees the group:
\* error(serviceRegistrationFailed), state as before.
StartPublishRejected ==
    /\ ApiTurn
    /\ \/ ~client \/ group # "none"     \* the guard
       \/ client                        \* add_service_strlst() < 0
    /\ UNCHANGED vars

\* The service is added to a new group and the group committed.
StartPublish ==
    /\ ApiTurn
    /\ client /\ group = "none"
    /\ group' = "registering"
    /\ UNCHANGED <<alive, client, browseVars, cleanUpVars, fault, net>>

\* avahi_entry_group_new() returned NULL and the NULL goes straight into
\* add_service_strlst(); or commit() failed and pri->group is set to NULL
\* before it is passed to avahi_entry_group_free().
StartPublishFaults ==
    /\ ApiTurn
    /\ client /\ group = "none"
    /\ Crash

StopPublish ==
    /\ ApiTurn
    /\ group' = "none"
    /\ UNCHANGED <<alive, client, browseVars, cleanUpVars, fault, net>>

\* groupCallback(): servicePublished() when established; a collision or a
\* failure frees the group, so that publishing can be started again.
GroupCallback(state) ==
    /\ CallbackTurn
    /\ group # "none"
    /\ group' = IF state = "established" THEN "established" ELSE "none"
    /\ UNCHANGED <<alive, client, browseVars, cleanUpVars, fault, net>>

-----------------------------------------------------------------------------
(* Browsing.                                                               *)

\* startBrowser(): error(browserFailed) without a client, with a browser
\* already there, or when avahi_service_browser_new() returns NULL.
StartBrowserFails ==
    /\ ApiTurn
    /\ UNCHANGED vars

StartBrowser ==
    /\ ApiTurn
    /\ client /\ ~browser
    /\ browser' = TRUE
    /\ reported' = {}
    /\ UNCHANGED <<alive, client, group, resolvers, services, app,
                   cleanUpVars, fault, net>>

\* broswerCleanUp() up to its loop over pub->services.
BroswerCleanUp(caller) ==
    /\ browser' = FALSE
    /\ reported' = {}
    /\ phase' = "loop"
    /\ cause' = caller
    /\ pending' = {k \in Keys : services[k] # None}
    /\ UNCHANGED <<alive, client, group, resolvers, services, app, fault, net>>

\* One iteration: emit serviceRemoved(i.value()), during which slots run.
CleanUpEmit(k) ==
    /\ Running /\ phase # "idle"
    /\ k \in pending
    /\ pending' = pending \ {k}
    /\ app' = ServiceRemoved(app, services[k].svc)
    /\ phase' = "slot"
    /\ UNCHANGED <<alive, client, group, browser, resolvers, services,
                   cause, fault, net, reported>>

\* Mutant: the resolvers outlive the browser.
CleanUpEndLeavesResolvers ==
    /\ Running /\ phase # "idle"
    /\ pending = {}
    /\ services' = [k \in Keys |-> None]
    /\ phase' = "idle"
    /\ alive' = (cause # "destroy")
    /\ browser' = (browser /\ cause # "destroy")
    /\ group' = IF cause = "destroy" THEN "none" ELSE group
    /\ UNCHANGED <<client, resolvers, app, cause, pending, fault, net, reported>>

\* After the loop: both maps are cleared, every resolver is freed, and the
\* caller goes on.  ~QZeroConf() frees the client and with it the group and
\* a browser that a slot may have started.
CleanUpEnd ==
    /\ Running /\ phase # "idle"
    /\ pending = {}
    /\ \/ /\ \E k \in Keys : resolvers[k] = Null
          /\ Crash
       \/ /\ \A k \in Keys : resolvers[k] # Null
          /\ services' = [k \in Keys |-> None]
          /\ resolvers' = [k \in Keys |-> None]
          /\ phase' = "idle"
          /\ alive' = (cause # "destroy")
          /\ browser' = (browser /\ cause # "destroy")
          /\ group' = IF cause = "destroy" THEN "none" ELSE group
          /\ UNCHANGED <<client, app, cause, pending, fault, net, reported>>

\* stopBrowser().  A slot that restarted the browser and now stops it runs
\* the clean-up inside the outer loop and clears the map the loop iterates.
StopBrowser ==
    /\ ApiTurn
    /\ browser
    /\ IF phase = "idle" THEN BroswerCleanUp("stop") ELSE Crash

\* ~QZeroConf(), from the event loop: deleting the sender of a signal from
\* its slot is an error of the application.
Destroy ==
    /\ CallbackTurn
    /\ IF browser THEN BroswerCleanUp("destroy")
       ELSE /\ alive' = FALSE
            /\ group' = "none"
            /\ UNCHANGED <<client, browseVars, cleanUpVars, fault, net>>

\* browseCallback(AVAHI_BROWSER_FAILURE): clean up, then error(browserFailed).
BrowserFailure ==
    /\ CallbackTurn
    /\ browser
    /\ BroswerCleanUp("failure")

\* browseCallback(AVAHI_BROWSER_NEW): one resolver per key, stored even when
\* avahi_service_resolver_new() returned NULL.
BrowserNew(s) ==
    /\ CallbackTurn
    /\ browser
    /\ s \in net \ reported
    /\ reported' = reported \cup {s}
    /\ IF resolvers[Key(s)] = None
       THEN \E r \in {s, Null} : resolvers' = [resolvers EXCEPT ![Key(s)] = r]
       ELSE UNCHANGED resolvers
    /\ UNCHANGED <<alive, client, group, browser, services, app,
                   cleanUpVars, fault, net>>

\* What serviceRemoved(services[k]) leaves of the application's picture.
AppWithout(k) ==
    IF services[k] = None THEN app ELSE ServiceRemoved(app, services[k].svc)

\* Mutant: a service that is not found yet is ignored, its resolver lives on.
BrowserRemoveChecksServiceFirst(s) ==
    LET k == Key(s) IN
    /\ CallbackTurn
    /\ browser
    /\ s \in reported \ net
    /\ reported' = reported \ {s}
    /\ IF services[k] = None
       THEN UNCHANGED <<resolvers, services, app>>
       ELSE /\ resolvers' = [resolvers EXCEPT ![k] = None]
            /\ app' = AppWithout(k)
            /\ services' = [services EXCEPT ![k] = None]
    /\ UNCHANGED <<alive, client, group, browser, cleanUpVars, fault, net>>

\* Mutant: the resolver is freed and the service left in the map.
BrowserRemoveKeepsService(s) ==
    /\ CallbackTurn
    /\ browser
    /\ s \in reported \ net
    /\ reported' = reported \ {s}
    /\ resolvers' = [resolvers EXCEPT ![Key(s)] = None]
    /\ UNCHANGED <<alive, client, group, browser, services, app,
                   cleanUpVars, fault, net>>

\* browseCallback(AVAHI_BROWSER_REMOVE): the early return without a resolver,
\* else the resolver is freed and the service, if it was found, removed.
BrowserRemove(s) ==
    LET k == Key(s) IN
    /\ CallbackTurn
    /\ browser
    /\ s \in reported \ net
    /\ IF resolvers[k] = Null
       THEN Crash
       ELSE /\ reported' = reported \ {s}
            /\ IF resolvers[k] = None
               THEN UNCHANGED <<resolvers, services, app>>
               ELSE /\ resolvers' = [resolvers EXCEPT ![k] = None]
                    /\ app' = AppWithout(k)
                    /\ services' = [services EXCEPT ![k] = None]
            /\ UNCHANGED <<alive, client, group, browser, cleanUpVars, fault, net>>

\* resolveCallback(AVAHI_RESOLVER_FOUND): a new object and serviceAdded(), or
\* a new address in the object that is there and serviceUpdated().
ResolverFound(k, a) ==
    /\ CallbackTurn
    /\ resolvers[k] \notin {None, Null}
    /\ \/ /\ services[k] = None
          /\ services' = [services EXCEPT ![k] = [svc |-> resolvers[k], ip |-> a]]
          /\ app' = ServiceAdded(app, resolvers[k], a)
       \/ /\ services[k] # None
          /\ services' = [services EXCEPT ![k].ip = a]
          /\ app' = ServiceUpdated(app, services[k].svc, a)
    /\ UNCHANGED <<alive, client, group, browser, resolvers, reported,
                   cleanUpVars, fault, net>>

\* Mutant: the resolver is dropped with the service it could not resolve.
ResolverFailureDropsResolver(k) ==
    /\ CallbackTurn
    /\ resolvers[k] \notin {None, Null}
    /\ app' = AppWithout(k)
    /\ services' = [services EXCEPT ![k] = None]
    /\ resolvers' = [resolvers EXCEPT ![k] = None]
    /\ UNCHANGED <<alive, client, group, browser, reported,
                   cleanUpVars, fault, net>>

\* resolveCallback(AVAHI_RESOLVER_FAILURE): the service is removed and the
\* resolver kept, it might find the service again.
ResolverFailure(k) ==
    /\ CallbackTurn
    /\ resolvers[k] \notin {None, Null}
    /\ app' = AppWithout(k)
    /\ services' = [services EXCEPT ![k] = None]
    /\ UNCHANGED <<alive, client, group, browser, resolvers, reported,
                   cleanUpVars, fault, net>>

\* A service appears on the network or leaves it.
NetworkChange(s) ==
    /\ net' = IF s \in net THEN net \ {s} ELSE net \cup {s}
    /\ UNCHANGED <<alive, client, group, browseVars, cleanUpVars, fault>>

-----------------------------------------------------------------------------
Publishing ==
    \/ StartPublishRejected
    \/ StartPublish
    \/ StartPublishFaults
    \/ StopPublish
    \/ \E state \in {"established", "collision", "failure"} : GroupCallback(state)

Browsing ==
    \/ StartBrowserFails
    \/ StartBrowser
    \/ StopBrowser
    \/ BrowserFailure
    \/ \E s \in Services : BrowserNew(s) \/ BrowserRemove(s)
    \/ \E k \in Keys : ResolverFailure(k) \/ \E a \in Addrs : ResolverFound(k, a)
    \/ \E k \in Keys : CleanUpEmit(k)
    \/ CleanUpEnd
    \/ Destroy

Next == Publishing \/ Browsing \/ \E s \in Services : NetworkChange(s)

\* A function that has been entered runs to its end; the daemon delivers the
\* events it owes and finds a service that stays advertised.  The application
\* owes nothing.
Fairness ==
    /\ WF_vars(\E k \in Keys : CleanUpEmit(k))
    /\ WF_vars(CleanUpEnd)
    /\ \A s \in Services :
        /\ WF_vars(BrowserNew(s))
        /\ WF_vars(BrowserRemove(s))
        /\ WF_vars(/\ s \in net /\ resolvers[Key(s)] = s
                   /\ \E a \in Addrs : ResolverFound(Key(s), a))

Spec == Init /\ [][Next]_vars
FairSpec == Spec /\ Fairness

-----------------------------------------------------------------------------
(* Properties.                                                             *)

\* The inductive invariant behind the properties below, also in the middle of
\* broswerCleanUp(): the application knows exactly the services of the map
\* that the loop has not taken back yet, every object was made by the resolver
\* stored under its key, and resolvers exist only under a live browser that
\* has reported what they resolve.
ViewInv ==
    \A s \in Services :
        app[s] = IF /\ services[Key(s)] # None /\ services[Key(s)].svc = s
                    /\ phase = "idle" \/ Key(s) \in pending
                 THEN services[Key(s)].ip ELSE None

ObjectInv ==
    \A k \in Keys :
        /\ resolvers[k] \in Services => Key(resolvers[k]) = k
        /\ services[k] # None => resolvers[k] = services[k].svc

WatchInv ==
    phase = "idle" =>
        \A k \in Keys :
            /\ resolvers[k] # None => browser
            /\ resolvers[k] \in Services => resolvers[k] \in reported

PendingInv ==
    /\ phase = "idle" => pending = {}
    /\ \A k \in pending : services[k] # None

IInv == TypeOK /\ ViewInv /\ ObjectInv /\ WatchInv /\ PendingInv

\* Between two events the application's picture, built from the signals
\* alone, is exactly pub->services, and every service in it is watched: by a
\* resolver of its own and a browser that still owes its REMOVE.
\* browseCallback() returns early on a REMOVE without a resolver, so a service
\* without one would never be taken back.
ViewMatchesServices ==
    phase = "idle" =>
        /\ \A s \in Services :
              app[s] = IF services[Key(s)] # None /\ services[Key(s)].svc = s
                       THEN services[Key(s)].ip ELSE None
        /\ \A k \in Keys : services[k] # None =>
              /\ resolvers[k] = services[k].svc
              /\ browser /\ services[k].svc \in reported

\* The signals of this backend are what ServiceDiscovery promises, also when
\* a slot restarts the browser while broswerCleanUp() is still emitting.
Discovery == INSTANCE ServiceDiscovery WITH browsing <- browser, known <- app
ImplementsDiscovery == Discovery!SDSafety

\* A service that leaves the network for good leaves the application's
\* picture for good, although its resolver keeps reporting until it is freed.
GoneServiceForgotten ==
    \A s \in Services : <>[](s \notin net) => <>[](app[s] = None \/ fault)

\* While the browser stays and a resolver could be created, a service that
\* stays on the network is seen again and again even if resolving it fails in
\* between.  Not claimed for two services that share a key.
AdvertisedServiceSeen ==
    \A s \in Services :
        (\A t \in Services : Key(t) = Key(s) => t = s) =>
            (<>[](/\ CallbackTurn /\ browser /\ s \in net
                  /\ resolvers[Key(s)] # Null)
             => []<>(app[s] # None))
=============================================================================
