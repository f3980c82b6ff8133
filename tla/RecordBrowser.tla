--------------------------- MODULE RecordBrowser ---------------------------
(***************************************************************************)
(* Browsing in the embedded mDNS stack: the record cache of each interface *)
(* (avahi-core/cache.c), the queriers that keep asking for what is browsed *)
(* (querier.c), the multicast lookups (multicast-lookup.c) and the record  *)
(* browsers that own them (browse.c).                                      *)
(*                                                                         *)
(* Everything runs in one event loop.  A change of the cache calls back    *)
(* every matching lookup, a lookup calls its browser's client, and the     *)
(* client may free any browser while the callbacks are still being made.   *)
(* `work' holds the calls that the current event has still to make, in     *)
(* their order; the next event starts when it is empty.  Freeing a browser *)
(* marks it dead and each later call finds it so: here its lookups are     *)
(* gone at once and a call for them is skipped.                            *)
(*                                                                         *)
(* Durations are abstract: a timer that is set may fire at any time.  All  *)
(* lookups use multicast, as those of the Qt wrapper do.  The ALL_FOR_NOW   *)
(* event, which changes nothing here, is left out.                         *)
(***************************************************************************)
EXTENDS Naturals, FiniteSets, Sequences, SequencesExt

CONSTANTS
    Browsers,       \* the AvahiSRecordBrowser objects a client may have
    Interfaces,     \* the network interfaces
    AnyIf,          \* AVAHI_IF_UNSPEC
    Keys,           \* the keys that can be browsed for
    Records,        \* the records hosts may announce
    NoKey,          \* the target of a record that is not a CNAME
    KeyOf,          \* the key a record answers: its own or, of a CNAME, its name's
    Target,         \* the key a CNAME record leads to
    BrowsedKey,     \* b->key
    BrowsedIf,      \* b->interface
    MaxEntries,     \* config.n_cache_entries_max
    MaxLookups,     \* AVAHI_LOOKUPS_PER_BROWSER_MAX
    PoofLimit       \* unanswered questions that remove a record: 3

Lookups == Keys \X (Interfaces \cup {AnyIf})

ASSUME BrowserAssumption ==
    /\ IsFiniteSet(Browsers) /\ IsFiniteSet(Interfaces)
    /\ IsFiniteSet(Keys) /\ IsFiniteSet(Records)
    /\ AnyIf \notin Interfaces /\ NoKey \notin Keys
    /\ KeyOf \in [Records -> Keys] /\ Target \in [Records -> Keys \cup {NoKey}]
    /\ BrowsedKey \in [Browsers -> Keys]
    /\ BrowsedIf \in [Browsers -> Interfaces \cup {AnyIf}]
    /\ MaxEntries \in Nat /\ MaxLookups \in Nat \ {0} /\ PoofLimit \in Nat

VARIABLES
    announcing, \* the interfaces with i->announcing set
    cache,      \* e->state of the entry of a record on an interface, or "none"
    poof,       \* e->poof_num, which counts only in the state "poof": 0 otherwise
    used,       \* q->n_used of the querier of a key on an interface
    queriers,   \* the queriers that exist
    browser,    \* a browser: absent, waiting for its defer event, or running
    lookups,    \* b->lookups
    started,    \* the lookups with a multicast lookup in the engine
    view,       \* what a browser's callback reported: NEW and not yet REMOVE
    work,       \* the calls the current event has still to make
    aborted     \* an assertion failed

netVars == <<announcing, cache, poof>>
lookupVars == <<browser, lookups, started>>
vars == <<netVars, used, queriers, lookupVars, view, work, aborted>>

Entries == Interfaces \X Records
QuerierIds == Interfaces \X Keys

Finals == {"expiry_final", "poof_final", "goodbye_final", "replace_final"}
CacheStates == {"valid", "poof", "expiry1", "expiry2", "expiry3"} \cup Finals

IsCname(r) == Target[r] # NoKey
RootLookup(b) == <<BrowsedKey[b], BrowsedIf[b]>>

\* avahi_interface_match() on the interface a lookup is for.
InterfaceMatch(i, l) == l[2] \in {AnyIf, i}

Cached(i) == {r \in Records : cache[<<i, r>>] # "none"}

\* The calls of an event: report a record, start the multicast lookup at the
\* end of lookup_go(), tell the client that the cache is exhausted.
Calls == [op : {"new", "remove"}, b : Browsers, l : Lookups, i : Interfaces, r : Records]
            \cup [op : {"start", "exhausted"}, b : Browsers, l : Lookups]

TypeOK ==
    /\ announcing \in SUBSET Interfaces
    /\ cache \in [Entries -> CacheStates \cup {"none"}]
    /\ poof \in [Entries -> 0..PoofLimit]
    /\ used \in [QuerierIds -> Nat]
    /\ queriers \in SUBSET QuerierIds
    /\ browser \in [Browsers -> {"none", "deferred", "running"}]
    /\ lookups \in [Browsers -> SUBSET Lookups]
    /\ started \in [Browsers -> SUBSET Lookups]
    /\ view \in [Browsers -> SUBSET Entries]
    /\ work \in Seq(Calls)
    /\ aborted \in BOOLEAN

Init ==
    /\ announcing \in SUBSET Interfaces
    /\ cache = [e \in Entries |-> "none"]
    /\ poof = [e \in Entries |-> 0]
    /\ used = [q \in QuerierIds |-> 0]
    /\ queriers = {}
    /\ browser = [b \in Browsers |-> "none"]
    /\ lookups = [b \in Browsers |-> {}]
    /\ started = lookups
    /\ view = lookups
    /\ work = <<>>
    /\ aborted = FALSE

Idle == work = <<>> /\ ~aborted
-----------------------------------------------------------------------------
(* Lookups and the calls they get.                                         *)

NewCall(b, l, i, r) == [op |-> "new", b |-> b, l |-> l, i |-> i, r |-> r]

\* Mutant: a lookup that found something in the cache does not ask the
\* network, as on wide area.
LookupGoTrustsCache(b, l) ==
    LET found == {e \in Entries : cache[e] # "none" /\ KeyOf[e[2]] = l[1]
                                    /\ InterfaceMatch(e[1], l)}
    IN  SetToSeq({NewCall(b, l, e[1], e[2]) : e \in found})
            \o (IF found = {} THEN <<[op |-> "start", b |-> b, l |-> l]>> ELSE <<>>)

\* lookup_go(): report what matching interfaces have cached under the key and
\* under its CNAME key, then start.
LookupGo(b, l) ==
    LET found == {e \in Entries : cache[e] # "none" /\ KeyOf[e[2]] = l[1]
                                    /\ InterfaceMatch(e[1], l)}
        Report(S) == SetToSeq({NewCall(b, l, e[1], e[2]) : e \in S})
    IN  Report({e \in found : ~IsCname(e[2])}) \o Report({e \in found : IsCname(e[2])})
            \o <<[op |-> "start", b |-> b, l |-> l]>>

\* avahi_multicast_lookup_engine_notify(): a CNAME goes to every lookup of its
\* name, on whatever interface.
Notify(op, es) ==
    SetToSeq({[op |-> op, b |-> c[1], l |-> c[2], i |-> c[3][1], r |-> c[3][2]] :
        c \in {c \in Browsers \X Lookups \X es :
                /\ c[2] \in started[c[1]]
                /\ KeyOf[c[3][2]] = c[2][1]
                /\ IsCname(c[3][2]) \/ InterfaceMatch(c[3][1], c[2])}})

\* The lookups that a querier works for, among those in st.
Users(st, q) ==
    {c \in Browsers \X Lookups :
        c[2] \in st[c[1]] /\ c[2][1] = q[2] /\ InterfaceMatch(q[1], c[2])}

\* avahi_querier_add_for_all(): one more user of the key's querier on each
\* matching interface that announces; a querier nobody used may be taken over.
AddQueriers(l) ==
    LET asked == {q \in QuerierIds :
                    q[1] \in announcing /\ q[2] = l[1] /\ InterfaceMatch(q[1], l)}
    IN  /\ used' = [q \in QuerierIds |-> IF q \in asked THEN used[q] + 1 ELSE used[q]]
        /\ queriers' = queriers \cup asked

\* avahi_querier_remove_for_all() for the lookups of b: a querier nobody uses
\* goes at once if its question could still be withdrawn from the queue, else
\* it stays until its timer fires.
RemoveQueriers(b) ==
    LET n(q) == Cardinality({c \in Users(started, q) : c[1] = b})
        left(q) == IF used[q] > n(q) THEN used[q] - n(q) ELSE 0
        unused == {q \in queriers : n(q) > 0 /\ left(q) = 0}
    IN  /\ used' = [q \in QuerierIds |-> left(q)]
        /\ \E withdrawn \in SUBSET unused : queriers' = queriers \ withdrawn

\* browser_cancel(): the root lookup goes and takes with it what it followed.
BrowserCancel(b) ==
    /\ RemoveQueriers(b)
    /\ lookups' = [lookups EXCEPT ![b] = {}]
    /\ started' = [started EXCEPT ![b] = {}]

-----------------------------------------------------------------------------
(* The client of a record browser.                                         *)

\* avahi_s_record_browser_new()
New(b) ==
    /\ ~aborted
    /\ browser[b] = "none"
    /\ browser' = [browser EXCEPT ![b] = "deferred"]
    /\ UNCHANGED <<netVars, used, queriers, lookups, started, view, work, aborted>>

\* avahi_s_record_browser_free(), also from inside a callback.
Free(b) ==
    /\ ~aborted
    /\ browser[b] # "none"
    /\ browser' = [browser EXCEPT ![b] = "none"]
    /\ view' = [view EXCEPT ![b] = {}]
    /\ BrowserCancel(b)
    /\ UNCHANGED <<netVars, work, aborted>>

\* defer_callback(): create the root lookup and run it.
DeferCallback(b) ==
    /\ Idle
    /\ browser[b] = "deferred"
    /\ browser' = [browser EXCEPT ![b] = "running"]
    /\ lookups' = [lookups EXCEPT ![b] = {RootLookup(b)}]
    /\ work' = LookupGo(b, RootLookup(b))
                \o <<[op |-> "exhausted", b |-> b, l |-> RootLookup(b)]>>
    /\ UNCHANGED <<netVars, used, queriers, started, view, aborted>>

-----------------------------------------------------------------------------
(* The calls of an event, one after the other.                             *)

Call == Head(work)

\* The next call is for a lookup that still exists.
Due(ops) ==
    /\ ~aborted
    /\ work # <<>>
    /\ Call.op \in ops
    /\ Call.l \in lookups[Call.b]

Done == work' = Tail(work)

\* The browser or the lookup died since the event began.
Skip ==
    /\ ~aborted
    /\ work # <<>>
    /\ Call.l \notin lookups[Call.b]
    /\ Done
    /\ UNCHANGED <<netVars, used, queriers, lookupVars, view, aborted>>

\* lookup_multicast_callback(), AVAHI_BROWSER_NEW of an ordinary record.
ReportNew ==
    /\ Due({"new"})
    /\ ~IsCname(Call.r)
    /\ view' = [view EXCEPT ![Call.b] = @ \cup {<<Call.i, Call.r>>}]
    /\ Done
    /\ UNCHANGED <<netVars, used, queriers, lookupVars, aborted>>

\* lookup_multicast_callback(), AVAHI_BROWSER_REMOVE of an ordinary record.
ReportRemove ==
    /\ Due({"remove"})
    /\ ~IsCname(Call.r)
    /\ Call.l[1] = BrowsedKey[Call.b]
    /\ view' = [view EXCEPT ![Call.b] = @ \ {<<Call.i, Call.r>>}]
    /\ Done
    /\ UNCHANGED <<netVars, used, queriers, lookupVars, aborted>>

\* The same, with a client that restarts the browser from its callback, as the
\* resolvers do to look for a replacement.
ReportRemoveRestart ==
    /\ Due({"remove"})
    /\ ~IsCname(Call.r)
    /\ Call.l[1] = BrowsedKey[Call.b]
    /\ browser' = [browser EXCEPT ![Call.b] = "deferred"]
    /\ view' = [view EXCEPT ![Call.b] = {}]
    /\ BrowserCancel(Call.b)
    /\ Done
    /\ UNCHANGED <<netVars, aborted>>

\* AVAHI_BROWSER_REMOVE for a lookup that followed a CNAME:
\* assert(avahi_key_equal(b->key, l->key)) fails.
AssertBrowsedKey ==
    /\ Due({"remove"})
    /\ ~IsCname(Call.r)
    /\ Call.l[1] # BrowsedKey[Call.b]
    /\ aborted' = TRUE
    /\ UNCHANGED <<netVars, used, queriers, lookupVars, view, work>>

\* lookup_find(): the first lookup of b for a key on an interface.
LookupFind(b, k, i) == {l \in lookups[b] : l[1] = k /\ InterfaceMatch(i, l)}

\* lookup_handle_cname(): take or make a lookup for the CNAME's target and run
\* it before anything else; none is made beyond the limit.
HandleCname ==
    /\ Due({"new"})
    /\ IsCname(Call.r)
    /\ LET b == Call.b
           old == LookupFind(b, Target[Call.r], Call.i)
           new == <<Target[Call.r], Call.i>>
       IN  IF old # {}
           THEN /\ \E l \in old : work' = LookupGo(b, l) \o Tail(work)
                /\ UNCHANGED lookups
           ELSE IF Cardinality(lookups[b]) >= MaxLookups
           THEN Done /\ UNCHANGED lookups
           ELSE /\ lookups' = [lookups EXCEPT ![b] = @ \cup {new}]
                /\ work' = LookupGo(b, new) \o Tail(work)
    /\ UNCHANGED <<netVars, used, queriers, browser, started, view, aborted>>

\* The flags of every lookup, after transport_flags_from_domain(), and those
\* that lookup_multicast_callback() looks for when a CNAME goes away.
LookupFlags == {"use_multicast"}
DropCnameFlags == {}

\* lookup_drop_cname(): no lookup has just the flags it looks for, so that it
\* finds none and the lookup for the target stays.
DropCname ==
    /\ Due({"remove"})
    /\ IsCname(Call.r)
    /\ LookupFlags # DropCnameFlags
    /\ Done
    /\ UNCHANGED <<netVars, used, queriers, lookupVars, view, aborted>>

\* lookup_start() and avahi_multicast_lookup_new().
LookupStart ==
    /\ Due({"start"})
    /\ Call.l \notin started[Call.b]
    /\ AddQueriers(Call.l)
    /\ started' = [started EXCEPT ![Call.b] = @ \cup {Call.l}]
    /\ Done
    /\ UNCHANGED <<netVars, browser, lookups, view, aborted>>

\* lookup_start() of a lookup that runs: assert(!l->multicast) fails.
AssertNotStarted ==
    /\ Due({"start"})
    /\ Call.l \in started[Call.b]
    /\ aborted' = TRUE
    /\ UNCHANGED <<netVars, used, queriers, lookupVars, view, work>>

\* AVAHI_BROWSER_CACHE_EXHAUSTED
CacheExhausted ==
    /\ Due({"exhausted"})
    /\ Done
    /\ UNCHANGED <<netVars, used, queriers, lookupVars, view, aborted>>

MakeCall ==
    \/ Skip \/ ReportNew \/ ReportRemove \/ ReportRemoveRestart \/ AssertBrowsedKey
    \/ HandleCname \/ DropCname \/ LookupStart \/ AssertNotStarted \/ CacheExhausted
-----------------------------------------------------------------------------
(* The cache of an interface.                                              *)

SameKey(r, s) == KeyOf[r] = KeyOf[s] /\ IsCname(r) = IsCname(s)

\* c->n_entries >= n_cache_entries_max
CacheFull(i) == Cardinality(Cached(i)) >= MaxEntries

\* avahi_cache_update() with a TTL: with the cache-flush bit the records of the
\* key that are more than a second old are to go; the record itself is
\* refreshed or, if there is room, added and reported.
CacheUpdate(i, r) ==
    /\ Idle
    /\ i \in announcing
    /\ \E old \in SUBSET {s \in Cached(i) : SameKey(r, s)} :
        LET replaced == [e \in Entries |-> IF e[1] = i /\ e[2] \in old
                                           THEN "replace_final" ELSE cache[e]]
            kept == r \in Cached(i) \/ ~CacheFull(i)
        IN  /\ cache' = IF kept THEN [replaced EXCEPT ![<<i, r>>] = "valid"] ELSE replaced
            /\ poof' = [e \in Entries |-> IF cache'[e] = "poof" THEN poof[e] ELSE 0]
            /\ work' = IF kept /\ r \notin Cached(i) THEN Notify("new", {<<i, r>>}) ELSE <<>>
    /\ UNCHANGED <<announcing, used, queriers, lookupVars, view, aborted>>

\* avahi_cache_update() with TTL 0.
Goodbye(i, r) ==
    /\ Idle
    /\ i \in announcing
    /\ r \in Cached(i)
    /\ cache' = [cache EXCEPT ![<<i, r>>] = "goodbye_final"]
    /\ poof' = [poof EXCEPT ![<<i, r>>] = 0]
    /\ UNCHANGED <<announcing, used, queriers, lookupVars, view, work, aborted>>

\* elapse_func(): the state after the one the timer found.
NextState == [valid |-> "expiry1", poof |-> "expiry1", expiry1 |-> "expiry2",
              expiry2 |-> "expiry3", expiry3 |-> "expiry_final"]

\* Mutant: a record nobody answered for is asked for again and again.
ElapseAsksForever(i, r) ==
    /\ Idle
    /\ r \in Cached(i) /\ cache[<<i, r>>] \notin Finals
    /\ cache' = [cache EXCEPT ![<<i, r>>] =
                    IF @ = "expiry3" THEN "expiry2" ELSE NextState[@]]
    /\ poof' = [poof EXCEPT ![<<i, r>>] = 0]
    /\ UNCHANGED <<announcing, used, queriers, lookupVars, view, work, aborted>>

\* avahi_querier_shall_refresh_cache(): a querier for the key of r that nobody
\* uses is freed; there is none for the key of a CNAME.
AfterRefresh(i, r) ==
    {q \in queriers : ~(q = <<i, KeyOf[r]>> /\ ~IsCname(r) /\ used[q] = 0)}

\* elapse_func() of an entry that is not at its end: ask again if somebody
\* browses for its key.
Elapse(i, r) ==
    /\ Idle
    /\ r \in Cached(i) /\ cache[<<i, r>>] \notin Finals
    /\ cache' = [cache EXCEPT ![<<i, r>>] = NextState[@]]
    /\ poof' = [poof EXCEPT ![<<i, r>>] = 0]
    /\ queriers' = AfterRefresh(i, r)
    /\ UNCHANGED <<announcing, used, lookupVars, view, work, aborted>>

\* elapse_func() of an entry at its end: remove_entry().
Expire(i, r) ==
    /\ Idle
    /\ cache[<<i, r>>] \in Finals
    /\ cache' = [cache EXCEPT ![<<i, r>>] = "none"]
    /\ work' = Notify("remove", {<<i, r>>})
    /\ UNCHANGED <<announcing, poof, used, queriers, lookupVars, view, aborted>>

\* avahi_cache_start_poof(): somebody asked for k; what is cached under k and
\* was asked for more than a second ago without an answer comes closer to its
\* removal.
StartPoof(i, k) ==
    /\ Idle
    /\ i \in announcing
    /\ LET asked == {<<i, r>> : r \in {r \in Cached(i) : KeyOf[r] = k /\ ~IsCname(r)}}
       IN  \E late \in SUBSET {e \in asked : cache[e] = "poof"} :
            /\ cache' = [e \in Entries |->
                    IF e \in asked /\ cache[e] = "valid" THEN "poof"
                    ELSE IF e \in late /\ poof[e] >= PoofLimit THEN "poof_final"
                    ELSE cache[e]]
            /\ poof' = [e \in Entries |->
                    IF e \in late THEN (poof[e] + 1) % (PoofLimit + 1) ELSE poof[e]]
    /\ UNCHANGED <<announcing, used, queriers, lookupVars, view, work, aborted>>

\* avahi_cache_stop_poof(): the host that asked lists the record as known.
StopPoof(i, r) ==
    /\ Idle
    /\ i \in announcing
    /\ cache[<<i, r>>] \in {"poof", "poof_final"}
    /\ cache' = [cache EXCEPT ![<<i, r>>] = "valid"]
    /\ poof' = [poof EXCEPT ![<<i, r>>] = 0]
    /\ UNCHANGED <<announcing, used, queriers, lookupVars, view, work, aborted>>

\* querier_elapse_callback() of a querier nobody uses; any other asks again.
QuerierElapse(q) ==
    /\ Idle
    /\ q \in queriers /\ used[q] = 0
    /\ queriers' = queriers \ {q}
    /\ UNCHANGED <<netVars, used, lookupVars, view, work, aborted>>

-----------------------------------------------------------------------------
(* The interfaces, avahi_interface_check_relevant().                       *)

\* Mutant: lookups made before the interface came up are not asked on it.
InterfaceUpForgets(i) ==
    /\ Idle
    /\ i \notin announcing
    /\ announcing' = announcing \cup {i}
    /\ UNCHANGED <<cache, poof, used, queriers, lookupVars, view, work, aborted>>

\* avahi_multicast_lookup_engine_new_interface()
InterfaceUp(i) ==
    /\ Idle
    /\ i \notin announcing
    /\ announcing' = announcing \cup {i}
    /\ LET mine == {q \in QuerierIds : q[1] = i /\ Users(started, q) # {}}
       IN  /\ used' = [q \in QuerierIds |-> IF q \in mine
                        THEN Cardinality(Users(started, q)) ELSE used[q]]
           /\ queriers' = queriers \cup mine
    /\ UNCHANGED <<cache, poof, lookupVars, view, work, aborted>>

\* Mutant: the cache is emptied without a word to the lookups.
InterfaceDownSilent(i) ==
    /\ Idle
    /\ i \in announcing
    /\ announcing' = announcing \ {i}
    /\ used' = [q \in QuerierIds |-> IF q[1] = i THEN 0 ELSE used[q]]
    /\ queriers' = {q \in queriers : q[1] # i}
    /\ cache' = [e \in Entries |-> IF e[1] = i THEN "none" ELSE cache[e]]
    /\ poof' = [e \in Entries |-> IF e[1] = i THEN 0 ELSE poof[e]]
    /\ UNCHANGED <<lookupVars, view, work, aborted>>

\* avahi_querier_free_all() and avahi_cache_flush()
InterfaceDown(i) ==
    /\ Idle
    /\ i \in announcing
    /\ announcing' = announcing \ {i}
    /\ used' = [q \in QuerierIds |-> IF q[1] = i THEN 0 ELSE used[q]]
    /\ queriers' = {q \in queriers : q[1] # i}
    /\ cache' = [e \in Entries |-> IF e[1] = i THEN "none" ELSE cache[e]]
    /\ poof' = [e \in Entries |-> IF e[1] = i THEN 0 ELSE poof[e]]
    /\ work' = Notify("remove", {<<i, r>> : r \in Cached(i)})
    /\ UNCHANGED <<lookupVars, view, aborted>>

-----------------------------------------------------------------------------
\* assert() ended the process.
Halted == aborted /\ UNCHANGED vars

Next ==
    \/ MakeCall
    \/ Halted
    \/ \E b \in Browsers : New(b) \/ Free(b) \/ DeferCallback(b)
    \/ \E i \in Interfaces : InterfaceUp(i) \/ InterfaceDown(i)
    \/ \E i \in Interfaces : \E k \in Keys : StartPoof(i, k)
    \/ \E q \in QuerierIds : QuerierElapse(q)
    \/ \E i \in Interfaces : \E r \in Records :
        CacheUpdate(i, r) \/ Goodbye(i, r) \/ Elapse(i, r) \/ Expire(i, r) \/ StopPoof(i, r)

\* An event makes all its calls.  The event loop runs timers in the order of
\* their time, so one that is set gets its turn although other events come
\* first again and again.
Fairness ==
    /\ WF_vars(MakeCall)
    /\ \A b \in Browsers : SF_vars(DeferCallback(b))
    /\ \A i \in Interfaces : \A r \in Records : SF_vars(Elapse(i, r) \/ Expire(i, r))

Spec == Init /\ [][Next]_vars
FairSpec == Spec /\ Fairness

-----------------------------------------------------------------------------
(* Properties.                                                             *)

\* What the callbacks of a running browser reported adds up to what its
\* lookups have in the caches: between events nothing is missing, nothing is
\* left over, whatever was cached before the browser, expired, was replaced or
\* went with its interface, and whoever was freed in a callback.
ViewMatchesCache ==
    Idle => \A b \in Browsers :
        view[b] = {e \in Entries :
            /\ cache[e] # "none" /\ ~IsCname(e[2])
            /\ \E l \in lookups[b] : l[1] = KeyOf[e[2]] /\ InterfaceMatch(e[1], l)}

\* A querier counts exactly the lookups that wait for its key on its
\* interface, across interfaces that go and come back while lookups start and
\* stop: one that is counted too low stops asking for a key that is browsed,
\* one too high asks for ever.
QueriersCounted ==
    Idle => \A q \in QuerierIds :
        /\ used[q] = IF q[1] \in announcing THEN Cardinality(Users(started, q)) ELSE 0
        /\ used[q] > 0 => q \in queriers

\* A browser that waits for its defer event gets to ask the network, whatever
\* it finds in the cache first.
DeferredBrowserStarts ==
    \A b \in Browsers :
        browser[b] = "deferred" ~> \/ RootLookup(b) \in started[b]
                                   \/ browser[b] = "none" \/ aborted

\* A record that is not announced any more is taken back from every browser:
\* without a goodbye its time to live ends.  (A known answer that makes the
\* entry valid again is a step an announcement could have made, and counts as
\* one.)
GoneRecordForgotten ==
    \A r \in {r \in Records : ~IsCname(r)} :
        <>[][\A i \in Interfaces : ~CacheUpdate(i, r)]_vars =>
            <>[](aborted \/ \A b \in Browsers : \A i \in Interfaces : <<i, r>> \notin view[b])

-----------------------------------------------------------------------------
(* The inductive invariant of module RecordBrowserProofs: what the work     *)
(* still to be done makes up for.                                          *)

Answers(l, e) == l[1] = KeyOf[e[2]] /\ InterfaceMatch(e[1], l)

\* A call about e is still to come for a lookup b has.
Coming(op, b, e) ==
    \E c \in ToSet(work) : c.op = op /\ c.b = b /\ c.l \in lookups[b] /\ <<c.i, c.r>> = e

\* A call agrees with the cache: an event changes it before its first call.
CallsInv ==
    \A c \in ToSet(work) :
        /\ c.op = "new" => /\ cache[<<c.i, c.r>>] # "none"
                           /\ ~IsCname(c.r) => Answers(c.l, <<c.i, c.r>>)
        /\ c.op = "remove" => cache[<<c.i, c.r>>] = "none"

\* A lookup runs in the engine or is about to; only a running browser has any.
LookupsInv ==
    \A b \in Browsers :
        /\ browser[b] # "running" => lookups[b] = {} /\ view[b] = {}
        /\ started[b] \subseteq lookups[b]
        /\ \A l \in lookups[b] \ started[b] : [op |-> "start", b |-> b, l |-> l] \in ToSet(work)

\* What was reported is cached or about to be taken back, what is cached was
\* reported or is about to be.
ViewInv ==
    \A b \in Browsers :
        /\ \A e \in view[b] :
            /\ ~IsCname(e[2])
            /\ \E l \in lookups[b] : Answers(l, e)
            /\ cache[e] = "none" => Coming("remove", b, e)
        /\ \A e \in Entries : \A l \in lookups[b] :
            cache[e] # "none" /\ ~IsCname(e[2]) /\ Answers(l, e)
                => e \in view[b] \/ Coming("new", b, e)

\* QueriersCounted holds in the middle of an event, too.
CountInv ==
    \A q \in QuerierIds :
        /\ used[q] = IF q[1] \in announcing THEN Cardinality(Users(started, q)) ELSE 0
        /\ used[q] > 0 => q \in queriers

IInv == TypeOK /\ CallsInv /\ LookupsInv /\ ViewInv /\ CountInv
=============================================================================
