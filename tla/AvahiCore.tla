------------------------------ MODULE AvahiCore ------------------------------
(***************************************************************************)
(* The backend with an embedded mDNS stack (avahicore.cpp): all QZeroConf  *)
(* objects of a process share one AvahiServer, created by the first of     *)
(* them and freed with the last.  The server reports its state to the      *)
(* object that created it, and to no other.                                *)
(*                                                                         *)
(* Per object, the pointers in QZeroConfPrivate are kept apart from what   *)
(* the library holds with that object as userdata, since an overwritten    *)
(* pointer leaks the library's side and a deleted object leaves it behind. *)
(* A callback into a deleted object, or a NULL handle where the library    *)
(* asserts, is a fault.  The emit loop of broswerCleanUp() is one step     *)
(* here; module AvahiClient, whose code it is, splits it.                  *)
(***************************************************************************)
EXTENDS Naturals, FiniteSets, Signals

CONSTANTS
    Instances,      \* QZeroConf objects
    Services,       \* services that can be browsed, by key
    Addr,           \* the address they resolve to
    MaxBrowsers     \* bound on the library's browsers per object

ASSUME CoreAssumption ==
    /\ None \notin Instances /\ Addr \notin {None, Misused}
    /\ MaxBrowsers \in Nat

VARIABLES
    object,         \* "none", "live" or "deleted"
    referenceCount, \* static referenceCount
    server,         \* the shared AvahiServer: "null", "registering",
                    \* "running" or "collision"
    userdata,       \* the object serverCallback() is called for
    ready,          \* pri->ready
    registerWaiting,\* pri->registerWaiting
    group,          \* pri->group: "none", "registering" or "established"
    groups,         \* how many entry groups of the object the library holds
    browser,        \* pri->browser # NULL
    browsers,       \* how many browsers of the object the library holds
    resolvers,      \* pri->resolvers: "none", "live" or "null", per service
    services,       \* the keys of pub->services
    app,            \* what the signals told the application
    asked,          \* startServicePublish() was called and not answered yet
    fault           \* the process ended in an illegal call

vars == <<object, referenceCount, server, userdata, ready, registerWaiting,
          group, groups, browser, browsers, resolvers, services, app, asked,
          fault>>
publishVars == <<ready, registerWaiting, group, groups, asked>>
browseVars == <<browser, browsers, resolvers, services, app>>
serverVars == <<object, referenceCount, server, userdata>>

NoResolvers == [s \in Services |-> "none"]
NothingKnown == [s \in Services |-> None]

TypeOK ==
    /\ object \in [Instances -> {"none", "live", "deleted"}]
    /\ referenceCount = Cardinality({i \in Instances : object[i] = "live"})
    /\ server \in {"null", "registering", "running", "collision"}
    /\ userdata \in Instances \cup {None}
    /\ ready \in [Instances -> BOOLEAN]
    /\ registerWaiting \in [Instances -> BOOLEAN]
    /\ group \in [Instances -> {"none", "registering", "established"}]
    /\ groups \in [Instances -> Nat]
    /\ browser \in [Instances -> BOOLEAN]
    /\ browsers \in [Instances -> 0..MaxBrowsers]
    /\ resolvers \in [Instances -> [Services -> {"none", "live", "null"}]]
    /\ services \in [Instances -> SUBSET Services]
    /\ app \in [Instances -> [Services -> {Addr, None}]]
    /\ asked \in [Instances -> BOOLEAN]
    /\ fault \in BOOLEAN

Init ==
    /\ object = [i \in Instances |-> "none"]
    /\ referenceCount = 0 /\ server = "null" /\ userdata = None
    /\ ready = [i \in Instances |-> FALSE]
    /\ registerWaiting = [i \in Instances |-> FALSE]
    /\ group = [i \in Instances |-> "none"]
    /\ groups = [i \in Instances |-> 0]
    /\ browser = [i \in Instances |-> FALSE]
    /\ browsers = [i \in Instances |-> 0]
    /\ resolvers = [i \in Instances |-> NoResolvers]
    /\ services = [i \in Instances |-> {}]
    /\ app = [i \in Instances |-> NothingKnown]
    /\ asked = [i \in Instances |-> FALSE]
    /\ fault = FALSE

ApiCall(i) == ~fault /\ object[i] = "live"

\* The process ends here; nothing else changes.
Crash ==
    /\ fault' = TRUE
    /\ UNCHANGED <<serverVars, publishVars, browseVars>>

-----------------------------------------------------------------------------
(* The shared server.                                                      *)

\* QZeroConf(): the first object creates the server.  The count grows even if
\* avahi_server_new() failed, and a later object does not try again.
Create(i) ==
    /\ ~fault
    /\ object[i] = "none"
    /\ object' = [object EXCEPT ![i] = "live"]
    /\ referenceCount' = referenceCount + 1
    /\ IF referenceCount = 0
       THEN /\ server' \in {"null", "registering"}
            /\ userdata' = i
       ELSE UNCHANGED <<server, userdata>>
    /\ UNCHANGED <<publishVars, browseVars, fault>>

\* ~QZeroConf(): the browser goes, the entry group does not.  The last object
\* frees the server, and with it everything the library holds.
Delete(i) ==
    /\ ApiCall(i)
    /\ IF \/ browser[i] /\ \E s \in Services : resolvers[i][s] = "null"
          \/ referenceCount = 1 /\ server = "null"
       THEN Crash
       ELSE /\ object' = [object EXCEPT ![i] = "deleted"]
            /\ referenceCount' = referenceCount - 1
            /\ server' = IF referenceCount = 1 THEN "null" ELSE server
            /\ groups' = IF referenceCount = 1 THEN [j \in Instances |-> 0] ELSE groups
            /\ browsers' = IF referenceCount = 1 THEN [j \in Instances |-> 0]
                           ELSE [browsers EXCEPT ![i] = IF browser[i] THEN @ - 1 ELSE @]
            /\ ready' = [ready EXCEPT ![i] = FALSE]
            /\ registerWaiting' = [registerWaiting EXCEPT ![i] = FALSE]
            /\ group' = [group EXCEPT ![i] = "none"]
            /\ asked' = [asked EXCEPT ![i] = FALSE]
            /\ browser' = [browser EXCEPT ![i] = FALSE]
            /\ resolvers' = [resolvers EXCEPT ![i] = NoResolvers]
            /\ services' = [services EXCEPT ![i] = {}]
            /\ app' = [app EXCEPT ![i] = NothingKnown]
            /\ UNCHANGED <<userdata, fault>>

\* registerService(): avahi_s_entry_group_new(), add_service_strlst() and
\* commit(); when one of them fails the group is freed and error() emitted.
RegisterService(i) ==
    \/ /\ group' = [group EXCEPT ![i] = "registering"]
       /\ groups' = [groups EXCEPT ![i] = @ + 1]
       /\ asked' = [asked EXCEPT ![i] = TRUE]
    \/ /\ group' = [group EXCEPT ![i] = "none"]
       /\ asked' = [asked EXCEPT ![i] = FALSE]
       /\ UNCHANGED groups

\* Mutant: registerWaiting stays set, so the registration is done again when
\* the server runs the next time.
ServerRunningKeepsWaiting ==
    /\ ~fault
    /\ server = "registering"
    /\ IF object[userdata] # "live"
       THEN Crash
       ELSE /\ server' = "running"
            /\ ready' = [ready EXCEPT ![userdata] = TRUE]
            /\ IF registerWaiting[userdata]
               THEN RegisterService(userdata)
               ELSE UNCHANGED <<group, groups, asked>>
            /\ UNCHANGED <<object, referenceCount, userdata, browseVars,
                           registerWaiting, fault>>

\* Mutant: the registration that waited for the server is forgotten.
ServerRunningForgets ==
    /\ ~fault
    /\ server = "registering"
    /\ IF object[userdata] # "live"
       THEN Crash
       ELSE /\ server' = "running"
            /\ ready' = [ready EXCEPT ![userdata] = TRUE]
            /\ registerWaiting' = [registerWaiting EXCEPT ![userdata] = FALSE]
            /\ UNCHANGED <<object, referenceCount, userdata, browseVars, group,
                           groups, asked, fault>>

\* serverCallback(AVAHI_SERVER_RUNNING): the registration that waited for it
\* is done now.
ServerRunning ==
    /\ ~fault
    /\ server = "registering"
    /\ IF object[userdata] # "live"
       THEN Crash
       ELSE /\ server' = "running"
            /\ ready' = [ready EXCEPT ![userdata] = TRUE]
            /\ registerWaiting' = [registerWaiting EXCEPT ![userdata] = FALSE]
            /\ IF registerWaiting[userdata]
               THEN RegisterService(userdata)
               ELSE UNCHANGED <<group, groups, asked>>
            /\ UNCHANGED <<object, referenceCount, userdata, browseVars, fault>>

\* serverCallback() with AVAHI_SERVER_COLLISION, which a server that registers or
\* runs may report, or AVAHI_SERVER_REGISTERING (the host name is probed again):
\* nothing is done; only a new host name, which nobody sets, would end a collision.
ServerState(state) ==
    /\ ~fault
    /\ \/ server = "running" /\ state = "registering"
       \/ server \in {"registering", "running"} /\ state = "collision"
    /\ server' = state
    /\ UNCHANGED <<object, referenceCount, userdata, publishVars, browseVars, fault>>

-----------------------------------------------------------------------------
(* Publishing.                                                             *)

\* startServicePublish() with a group already there: error().
StartPublishRejected(i) ==
    /\ ApiCall(i)
    /\ group[i] # "none"
    /\ UNCHANGED vars

\* startServicePublish() once the server reported RUNNING to this object.
StartPublish(i) ==
    /\ ApiCall(i)
    /\ group[i] = "none" /\ ready[i]
    /\ RegisterService(i)
    /\ UNCHANGED <<serverVars, ready, registerWaiting, browseVars, fault>>

\* startServicePublish() before that: the parameters are kept for later.
StartPublishDeferred(i) ==
    /\ ApiCall(i)
    /\ group[i] = "none" /\ ~ready[i]
    /\ registerWaiting' = [registerWaiting EXCEPT ![i] = TRUE]
    /\ asked' = [asked EXCEPT ![i] = TRUE]
    /\ UNCHANGED <<serverVars, ready, group, groups, browseVars, fault>>

\* stopServicePublish(): frees the group.  Without one it does nothing, so a
\* registration that waits for the server is not called off.
StopPublish(i) ==
    /\ ApiCall(i)
    /\ group[i] # "none"
    /\ group' = [group EXCEPT ![i] = "none"]
    /\ groups' = [groups EXCEPT ![i] = @ - 1]
    /\ asked' = [asked EXCEPT ![i] = FALSE]
    /\ UNCHANGED <<serverVars, ready, registerWaiting, browseVars, fault>>

\* groupCallback(): servicePublished(), or error() and the group is freed.
GroupCallback(i, established) ==
    /\ ~fault
    /\ groups[i] > 0
    /\ IF object[i] # "live"
       THEN Crash
       ELSE /\ group' = [group EXCEPT ![i] = IF established THEN "established" ELSE "none"]
            /\ groups' = [groups EXCEPT ![i] = IF established THEN @ ELSE @ - 1]
            /\ asked' = [asked EXCEPT ![i] = FALSE]
            /\ UNCHANGED <<serverVars, ready, registerWaiting, browseVars, fault>>

-----------------------------------------------------------------------------
(* Browsing.                                                               *)

\* startBrowser(): with a browser already there error() is emitted and the
\* function goes on, so the pointer to the first browser is overwritten.  A
\* NULL server fails the library's assertion.
StartBrowser(i, ok) ==
    /\ ApiCall(i)
    /\ IF server = "null"
       THEN Crash
       ELSE /\ browser' = [browser EXCEPT ![i] = ok]
            /\ browsers[i] < MaxBrowsers
            /\ browsers' = [browsers EXCEPT ![i] = IF ok THEN @ + 1 ELSE @]
            /\ UNCHANGED <<serverVars, publishVars, resolvers, services, app, fault>>

\* Mutant: the services are dropped without a serviceRemoved().
BroswerCleanUpSilent(i) ==
    /\ browser' = [browser EXCEPT ![i] = FALSE]
    /\ browsers' = [browsers EXCEPT ![i] = @ - 1]
    /\ services' = [services EXCEPT ![i] = {}]
    /\ resolvers' = [resolvers EXCEPT ![i] = NoResolvers]
    /\ UNCHANGED <<serverVars, publishVars, app, fault>>

\* broswerCleanUp(): the browser of the pointer is freed, every service taken
\* back and every resolver freed.
BroswerCleanUp(i) ==
    IF \E s \in Services : resolvers[i][s] = "null"
    THEN Crash
    ELSE /\ browser' = [browser EXCEPT ![i] = FALSE]
         /\ browsers' = [browsers EXCEPT ![i] = @ - 1]
         /\ app' = [app EXCEPT ![i] = [s \in Services |->
                        IF s \in services[i] THEN ServiceRemoved(@, s)[s] ELSE @[s]]]
         /\ services' = [services EXCEPT ![i] = {}]
         /\ resolvers' = [resolvers EXCEPT ![i] = NoResolvers]
         /\ UNCHANGED <<serverVars, publishVars, fault>>

StopBrowser(i) ==
    /\ ApiCall(i)
    /\ browser[i]
    /\ BroswerCleanUp(i)

\* browseCallback(), called by any browser the library holds for the object.
Browses(i) == ~fault /\ browsers[i] > 0

\* A browser or a resolver that outlived its object calls into it.
CallbackIntoDeleted(i) ==
    /\ Browses(i)
    /\ object[i] # "live"
    /\ Crash

\* AVAHI_BROWSER_FAILURE.  With no pointer left only error() is emitted.
BrowserFailure(i) ==
    /\ Browses(i) /\ object[i] = "live"
    /\ browser[i]
    /\ BroswerCleanUp(i)

\* AVAHI_BROWSER_NEW.
BrowserNew(i, s) ==
    /\ Browses(i) /\ object[i] = "live"
    /\ resolvers[i][s] = "none"
    /\ \E r \in {"live", "null"} : resolvers' = [resolvers EXCEPT ![i][s] = r]
    /\ UNCHANGED <<serverVars, publishVars, browser, browsers, services, app, fault>>

\* AVAHI_BROWSER_REMOVE.
BrowserRemove(i, s) ==
    /\ Browses(i) /\ object[i] = "live"
    /\ resolvers[i][s] # "none"
    /\ IF resolvers[i][s] = "null"
       THEN Crash
       ELSE /\ resolvers' = [resolvers EXCEPT ![i][s] = "none"]
            /\ services' = [services EXCEPT ![i] = @ \ {s}]
            /\ app' = [app EXCEPT ![i] = IF s \in services[i] THEN ServiceRemoved(@, s) ELSE @]
            /\ UNCHANGED <<serverVars, publishVars, browser, browsers, fault>>

\* resolveCallback() with AVAHI_RESOLVER_FOUND or a failure.
ResolverFound(i, s) ==
    /\ ApiCall(i)
    /\ resolvers[i][s] = "live"
    /\ services' = [services EXCEPT ![i] = @ \cup {s}]
    /\ app' = [app EXCEPT ![i] = IF s \in services[i] THEN ServiceUpdated(@, s, Addr)
                                                     ELSE ServiceAdded(@, s, Addr)]
    /\ UNCHANGED <<serverVars, publishVars, browser, browsers, resolvers, fault>>

ResolverFailure(i, s) ==
    /\ ApiCall(i)
    /\ resolvers[i][s] = "live"
    /\ services' = [services EXCEPT ![i] = @ \ {s}]
    /\ app' = [app EXCEPT ![i] = IF s \in services[i] THEN ServiceRemoved(@, s) ELSE @]
    /\ UNCHANGED <<serverVars, publishVars, browser, browsers, resolvers, fault>>

-----------------------------------------------------------------------------
Publishing(i) ==
    \/ StartPublishRejected(i)
    \/ StartPublish(i)
    \/ StartPublishDeferred(i)
    \/ StopPublish(i)
    \/ \E established \in BOOLEAN : GroupCallback(i, established)

Browsing(i) ==
    \/ \E ok \in BOOLEAN : StartBrowser(i, ok)
    \/ StopBrowser(i)
    \/ BrowserFailure(i)
    \/ CallbackIntoDeleted(i)
    \/ \E s \in Services :
        BrowserNew(i, s) \/ BrowserRemove(i, s)
        \/ ResolverFound(i, s) \/ ResolverFailure(i, s)

Next ==
    \/ ServerRunning
    \/ \E state \in {"registering", "collision"} : ServerState(state)
    \/ \E i \in Instances : Create(i) \/ Delete(i) \/ Publishing(i) \/ Browsing(i)

Spec == Init /\ [][Next]_vars

-----------------------------------------------------------------------------
(* Properties.                                                             *)

\* No handle of a live object dangles and no entry group is leaked: the
\* library holds the group of pri->group and no second one, although a
\* registration may be done by the application or, later, by serverCallback().
HandlesValid ==
    \A i \in Instances : object[i] = "live" =>
        /\ groups[i] = IF group[i] = "none" THEN 0 ELSE 1
        /\ browser[i] => browsers[i] > 0

\* The signals never contradict each other and add up to pub->services, also
\* with a leaked browser that goes on finding services after stopBrowser().
ViewMatchesServices ==
    \A i \in Instances, s \in Services :
        app[i][s] = IF s \in services[i] THEN Addr ELSE None

\* What an object that is not live has left, and who the server reports to.
ObjectInv ==
    /\ IsFiniteSet({i \in Instances : object[i] = "live"})
    /\ \A i \in Instances :
        /\ object[i] = "none" => groups[i] = 0 /\ browsers[i] = 0
        /\ object[i] # "live" => ~ready[i] /\ ~registerWaiting[i] /\ ~browser[i]
    /\ server # "null" => userdata \in Instances

\* A registration waits only until the server has run once, and no group is
\* made before that: the two ways to register never meet.
WaitInv ==
    \A i \in Instances : IF ready[i] THEN ~registerWaiting[i] ELSE group[i] = "none"

\* The inductive invariant of module AvahiCoreProofs.
IInv ==
    /\ TypeOK /\ ObjectInv /\ WaitInv
    /\ HandlesValid /\ ViewMatchesServices

\* What the library may or may not do: a server does not register for ever, and
\* no group does.  Nothing here makes it true of the groups, since the embedded
\* stack can leave one REGISTERING (module EntryGroup, EveryGroupSettles).
ServerSettles == []<>(server # "registering" \/ fault)
GroupsSettle == \A i \in Instances : []<>(group[i] # "registering" \/ fault)

\* As far as the library settles, so does the backend: a publish request of the
\* object that created the server is answered by servicePublished() or error(), or
\* withdrawn, also one that had to wait, unless the host name is in conflict.
OwnerPublishAnswered ==
    ServerSettles /\ GroupsSettle =>
        \A i \in Instances :
            asked[i] /\ userdata = i ~>
                ~asked[i] \/ server \in {"collision", "null"} \/ fault
=============================================================================
