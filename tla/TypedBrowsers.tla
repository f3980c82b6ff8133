----------------------------- MODULE TypedBrowsers -----------------------------
(***************************************************************************)
(* The browsers on top of a record browser: browse-service.c and           *)
(* browse-service-type.c, which hand its events on, browse-domain.c, which *)
(* adds the domains of the configuration from a deferred event, and        *)
(* browse-dns-server.c, which resolves the host of a server before it      *)
(* tells of the server.  The user may free a browser in any callback but   *)
(* that of a DNS server.                                                   *)
(***************************************************************************)
EXTENDS Naturals, FiniteSets, Sequences, SequencesExt

CONSTANTS
    PtrNames,       \* what the records of the record browser point to
    BadNames,       \* the ones that are not a service name
    StaticDomains,  \* config.browse_domains, a sequence of names
    InfoMax         \* DNS servers a browser follows, 10 in the code

ASSUME TypedBrowsersAssumption ==
    /\ IsFiniteSet(PtrNames) /\ BadNames \subseteq PtrNames /\ InfoMax \in Nat
    /\ StaticDomains \in Seq(ToSet(StaticDomains))

VARIABLES
    btype,      \* which of the four this browser is
    ref,        \* references: the user's and, in defer_callback(), its own
    upstream,   \* what the record browser has told of and not taken back
    told,       \* what the user was told of and not told to forget
    deferred,   \* defer_event: "pending", "running", or "none"
    left,       \* the static domains defer_callback() has not told of yet
    scheduled,  \* all_for_now_scheduled
    allForNow,  \* the user was told ALL_FOR_NOW
    info        \* the DNS servers: "resolving", "found" or "failed"

browserVars == <<btype, ref, upstream, told, deferred, left, scheduled, allForNow, info>>

Forwarded(n) ==
    /\ btype \in {"service", "type"} => n \notin BadNames
    /\ btype = "domain" => n \notin ToSet(StaticDomains)

\* The four constructors start a record browser; that of a domain browser also
\* the deferred event, when there are domains to tell of.
ServiceBrowserNew == btype = "service" /\ deferred = "none" /\ left = <<>>
ServiceTypeBrowserNew == btype = "type" /\ deferred = "none" /\ left = <<>>
DnsServerBrowserNew == btype = "dns" /\ deferred = "none" /\ left = <<>>
DomainBrowserNew ==
    /\ btype = "domain" /\ left = StaticDomains
    /\ deferred = IF StaticDomains # <<>> THEN "pending" ELSE "none"

BrowserInit ==
    /\ ref = 1 /\ upstream = {} /\ told = {} /\ scheduled = FALSE /\ allForNow = FALSE
    /\ info = << >>
    /\ ServiceBrowserNew \/ ServiceTypeBrowserNew \/ DnsServerBrowserNew \/ DomainBrowserNew

\* The event loop runs: not inside defer_callback(), and the browser is there.
Ready == ref = 1 /\ deferred # "running"

-----------------------------------------------------------------------------
\* record_browser_callback() of the first three: NEW and REMOVE.
RecordNew(n) ==
    /\ Ready /\ btype # "dns" /\ n \notin upstream
    /\ upstream' = upstream \union {n}
    /\ told' = IF Forwarded(n) THEN told \union {n} ELSE told
    /\ UNCHANGED <<btype, ref, deferred, left, scheduled, allForNow, info>>

RecordRemove(n) ==
    /\ Ready /\ btype # "dns" /\ n \in upstream
    /\ upstream' = upstream \ {n}
    /\ told' = IF Forwarded(n) THEN told \ {n} ELSE told
    /\ UNCHANGED <<btype, ref, deferred, left, scheduled, allForNow, info>>

\* Mutant: ALL_FOR_NOW is handed on at once.
RecordAllForNowAtOnce ==
    /\ Ready /\ ~ allForNow /\ ~ scheduled
    /\ allForNow' = TRUE
    /\ UNCHANGED <<btype, ref, upstream, told, deferred, left, scheduled, info>>

\* ALL_FOR_NOW waits for the deferred event of a domain browser.
RecordAllForNow ==
    /\ Ready /\ ~ allForNow /\ ~ scheduled
    /\ scheduled' = (deferred = "pending")
    /\ allForNow' = (deferred # "pending")
    /\ UNCHANGED <<btype, ref, upstream, told, deferred, left, info>>

\* defer_callback(): it holds a reference of its own, ...
DeferStarts ==
    /\ Ready /\ deferred = "pending"
    /\ deferred' = "running" /\ ref' = ref + 1
    /\ UNCHANGED <<btype, upstream, told, left, scheduled, allForNow, info>>

\* ... tells of one static domain after another, ...
DeferTells ==
    /\ deferred = "running" /\ left # <<>> /\ ref > 1
    /\ told' = told \union {Head(left)} /\ left' = Tail(left)
    /\ UNCHANGED <<btype, ref, upstream, deferred, scheduled, allForNow, info>>

\* ... and stops when the user has freed the browser; the last one to let go
\* destroys it.
DeferEnds ==
    /\ deferred = "running" /\ (left = <<>> \/ ref = 1)
    /\ allForNow' = (allForNow \/ (scheduled /\ ref > 1))
    /\ deferred' = "none" /\ ref' = ref - 1
    /\ UNCHANGED <<btype, upstream, told, left, scheduled, info>>

\* avahi_s_domain_browser_free() and the other three
FreeBrowser ==
    /\ ref = (IF deferred = "running" THEN 2 ELSE 1)
    /\ ref' = ref - 1
    /\ UNCHANGED <<btype, upstream, told, deferred, left, scheduled, allForNow, info>>

-----------------------------------------------------------------------------
(* DNS servers                                                             *)
Infos == DOMAIN info
WithInfo(n, state) == [m \in Infos \union {n} |-> IF m = n THEN state ELSE info[m]]

\* NEW: beyond the limit a server is ignored; when the resolver cannot be
\* created the server is kept without one.
ServerNew(n, state) ==
    /\ Ready /\ btype = "dns" /\ n \notin upstream
    /\ upstream' = upstream \union {n}
    /\ info' = IF n \in Infos \/ Cardinality(Infos) >= InfoMax THEN info
               ELSE WithInfo(n, state)
    /\ UNCHANGED <<btype, ref, told, deferred, left, scheduled, allForNow>>

\* host_name_resolver_callback(): the first event ends the resolver.
HostResolved(n, event) ==
    /\ Ready /\ btype = "dns" /\ n \in Infos /\ info[n] = "resolving"
    /\ told' = IF event = "found" THEN told \union {n} ELSE told
    /\ info' = WithInfo(n, event)
    /\ UNCHANGED <<btype, ref, upstream, deferred, left, scheduled, allForNow>>

\* REMOVE: the user is told when there is no resolver any more, also of a server
\* whose resolver failed and which it never heard of.
ServerRemove(n) ==
    /\ Ready /\ btype = "dns" /\ n \in upstream
    /\ upstream' = upstream \ {n}
    /\ told' = IF n \in Infos /\ info[n] # "resolving" THEN told \ {n} ELSE told
    /\ info' = [m \in Infos \ {n} |-> info[m]]
    /\ UNCHANGED <<btype, ref, deferred, left, scheduled, allForNow>>

BrowserNext ==
    \/ \E n \in PtrNames : RecordNew(n) \/ RecordRemove(n) \/ ServerRemove(n)
    \/ \E n \in PtrNames, s \in {"resolving", "failed"} : ServerNew(n, s)
    \/ \E n \in PtrNames, e \in {"found", "failed"} : HostResolved(n, e)
    \/ RecordAllForNow \/ DeferStarts \/ DeferTells \/ DeferEnds \/ FreeBrowser

BrowserSpec == BrowserInit /\ [][BrowserNext]_browserVars

-----------------------------------------------------------------------------
\* The static domains defer_callback() has passed.
StaticTold == {StaticDomains[n] : n \in 1..(Len(StaticDomains) - Len(left))}

(* What the user was told of is what there is: the records that can be handed on,
   the static domains exactly once the deferred event has told of them, the DNS
   servers whose host was resolved.  And "all for now" is said when all is told:
   never before the static domains, in whatever order the record browser and
   the deferred event run and whenever the user frees the browser. *)
BrowserTellsAll ==
    /\ ref > 0 =>
         told = CASE btype = "dns" -> {n \in Infos : info[n] = "found"}
                  [] btype = "domain" -> {n \in upstream : Forwarded(n)}
                                         \union StaticTold
                  [] OTHER -> {n \in upstream : Forwarded(n)}
    /\ allForNow => left = <<>>

\* Who holds a reference; a browser that lives and waits for no deferred event
\* has told of all the static domains, and what is left is the end of the list.
DeferInv ==
    /\ btype \in {"service", "type", "domain", "dns"}
    /\ deferred \in {"pending", "running", "none"}
    /\ ref \in (IF deferred = "running" THEN {1, 2} ELSE {0, 1})
    /\ ref > 0 /\ deferred = "none" => left = <<>>
    /\ left \in Seq(ToSet(StaticDomains)) /\ Len(left) <= Len(StaticDomains)
    /\ btype = "domain" => \A n \in 1..Len(left) :
          left[n] = StaticDomains[Len(StaticDomains) - Len(left) + n]
    /\ btype # "domain" => deferred = "none"

\* The inductive invariant of module QuerierProofs.
BrowserInv == DeferInv /\ BrowserTellsAll
=============================================================================
