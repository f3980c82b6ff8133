------------------------------- MODULE WideArea -------------------------------
(***************************************************************************)
(* The engine for unicast DNS (wide-area.c): lookups that repeat their     *)
(* query until a reply or the last timeout, a reply that is matched to its *)
(* lookup by a 16 bit id, and a cache all lookups share.  Replies may be   *)
(* lost, late or repeated; a callback may create and free lookups.         *)
(***************************************************************************)
EXTENDS Naturals, Sequences, FiniteSets

CONSTANTS
    Slots,          \* the lookups there may be at a time
    IdSpace,        \* ids are 0 .. IdSpace - 1; 2^16 in the code
    WideKeys, WideRecords,
    Asks,           \* a set of pairs <<key, record>>: the key or its CNAME key
    ServerLists,    \* the lists of DNS servers that may be configured
    CacheMax,       \* CACHE_ENTRIES_MAX, 500 in the code
    SwitchAfter,    \* sends before another server is tried, 3 in the code
    MaxSends,       \* sends before the lookup fails, 6 in the code
    NoLookup

ASSUME WideAreaAssumption ==
    /\ IsFiniteSet(Slots) /\ IdSpace \in Nat /\ Cardinality(Slots) < IdSpace
    /\ CacheMax \in Nat /\ SwitchAfter \in Nat /\ MaxSends \in Nat
    /\ Asks \subseteq WideKeys \X WideRecords
    /\ \A s \in ServerLists : Len(s) <= 2
    /\ NoLookup \notin Slots

VARIABLES
    looks,      \* the lookups: their phase, id, key, sends, server, told records
    byId,       \* lookups_by_id
    nextId,     \* next_id
    dnsServers, \* the array dns_servers
    nServers, currentServer,
    wideCache,
    packet      \* the reply in handle_packet(), or <<>>

wideVars == <<looks, byId, nextId, dnsServers, nServers, currentServer, wideCache, packet>>

\* A lookup that is not waiting has no callback and no timer.
NoMemory == [phase |-> "none", id |-> 0, key |-> "", sent |-> 0, used |-> "", told |-> {}]
Waiting(l) == looks[l].phase = "waiting"

\* send_to_dns_server(): a query that cannot be sent counts as sent.
SendTo(look, c) ==
    [look EXCEPT !.sent = @ + 1, !.used = IF nServers > 0 THEN dnsServers[c + 1] ELSE @]

\* avahi_wide_area_engine_new() and the first avahi_wide_area_set_servers()
WideInit ==
    /\ looks = [l \in Slots |-> NoMemory]
    /\ byId = [i \in 0 .. IdSpace - 1 |-> NoLookup] /\ nextId = 0
    /\ \E s \in ServerLists : Len(s) = 2 /\ dnsServers = s /\ nServers = 2
    /\ currentServer = 0 /\ wideCache = {} /\ packet = <<>>

-----------------------------------------------------------------------------
\* find_lookup()
InUse(i) == byId[i] # NoLookup /\ looks[byId[i]].phase # "dead"

\* The loop over next_id.
NextFreeId ==
    LET distance(i) == (i + IdSpace - nextId) % IdSpace
    IN  CHOOSE i \in {j \in 0 .. IdSpace - 1 : ~ InUse(j)} :
            \A j \in 0 .. IdSpace - 1 : ~ InUse(j) => distance(i) <= distance(j)

Cached(k) == {r \in wideCache : <<k, r>> \in Asks}

\* A bound: next_id does not come round to a dead lookup before it is destroyed.
\* (find_lookup() would take its id for free, avahi_hashmap_insert() would not
\* enter the new lookup, and its reply would be lost.)
IdsOutlastTheDead(id) == \A l \in Slots : looks[l].phase = "dead" => looks[l].id # id

\* Mutant: the next id is taken whether it is in use or not.
LookupNewAnyId(l, k) ==
    /\ IdsOutlastTheDead(nextId)
    /\ looks[l].phase = "none" /\ Cached(k) = {} /\ nServers > 0
    /\ looks' = [looks EXCEPT ![l] =
         SendTo([NoMemory EXCEPT !.phase = "waiting", !.id = nextId, !.key = k], currentServer)]
    /\ byId' = [byId EXCEPT ![nextId] = IF @ = NoLookup THEN l ELSE @]
    /\ nextId' = (nextId + 1) % IdSpace
    /\ UNCHANGED <<dnsServers, nServers, currentServer, wideCache, packet>>

\* lookup_go() of a record browser: the cache is scanned, and only when it has
\* nothing avahi_wide_area_lookup_new() sends the query.  Without a server there
\* is no lookup.  An id that is still in the table is not inserted again.
LookupNew(l, k) ==
    /\ IdsOutlastTheDead(NextFreeId)
    /\ looks[l].phase = "none" /\ Cached(k) = {} /\ nServers > 0
    /\ LET id == NextFreeId
       IN  /\ looks' = [looks EXCEPT ![l] =
                SendTo([NoMemory EXCEPT !.phase = "waiting", !.id = id, !.key = k],
                       currentServer)]
           /\ byId' = [byId EXCEPT ![id] = IF @ = NoLookup THEN l ELSE @]
           /\ nextId' = (id + 1) % IdSpace
    /\ UNCHANGED <<dnsServers, nServers, currentServer, wideCache, packet>>

\* lookup_stop()
Stopped(look, phase) == [look EXCEPT !.phase = phase, !.sent = 0, !.used = "", !.told = {}]

\* avahi_wide_area_lookup_free()
LookupFree(l) ==
    /\ looks[l].phase \in {"waiting", "done"}
    /\ looks' = [looks EXCEPT ![l] = Stopped(@, "dead")]
    /\ UNCHANGED <<byId, nextId, dnsServers, nServers, currentServer, wideCache, packet>>

\* avahi_wide_area_cleanup() and lookup_destroy(), outside of any callback.
CleanupDead ==
    LET dead == {l \in Slots : looks[l].phase = "dead"}
    IN  /\ packet = <<>> /\ dead # {}
        /\ looks' = [l \in Slots |-> IF l \in dead THEN NoMemory ELSE looks[l]]
        /\ byId' = [i \in 0 .. IdSpace - 1 |->
                      IF \E l \in dead : looks[l].id = i THEN NoLookup ELSE byId[i]]
        /\ UNCHANGED <<nextId, dnsServers, nServers, currentServer, wideCache, packet>>

-----------------------------------------------------------------------------
\* next_dns_server()
NextServer == IF currentServer + 1 >= nServers THEN 0 ELSE currentServer + 1

\* Mutant: the timer is not set again once another server is asked.
SenderTimeoutOnce(l) ==
    LET same(c) == dnsServers[c + 1] = looks[l].used
        switch == looks[l].sent >= SwitchAfter /\ same(currentServer)
        server == IF switch THEN NextServer ELSE currentServer
    IN  /\ packet = <<>> /\ Waiting(l)
        /\ currentServer' = server
        /\ \/ /\ (switch /\ same(server)) \/ looks[l].sent >= MaxSends
              /\ looks' = [looks EXCEPT ![l] = Stopped(@, "done")]
           \/ /\ ~ (switch /\ same(server)) /\ looks[l].sent < MaxSends /\ ~ switch
              /\ looks' = [looks EXCEPT ![l] = SendTo(@, server)]
        /\ UNCHANGED <<byId, nextId, dnsServers, nServers, wideCache, packet>>

\* sender_timeout_callback(): the array is read even when no server is
\* configured any more.
SenderTimeout(l) ==
    LET same(c) == dnsServers[c + 1] = looks[l].used
        switch == looks[l].sent >= SwitchAfter /\ same(currentServer)
        server == IF switch THEN NextServer ELSE currentServer
    IN  /\ packet = <<>> /\ Waiting(l)
        /\ currentServer' = server
        /\ \/ /\ (switch /\ same(server)) \/ looks[l].sent >= MaxSends
              /\ looks' = [looks EXCEPT ![l] = Stopped(@, "done")]
           \/ /\ ~ (switch /\ same(server)) /\ looks[l].sent < MaxSends
              /\ looks' = [looks EXCEPT ![l] = SendTo(@, server)]
        /\ UNCHANGED <<byId, nextId, dnsServers, nServers, wideCache, packet>>

\* handle_packet() up to the loop: a reply with the id of a lookup that is not
\* dead, whether it still waits or not.
ReplyArrives(id, records) ==
    /\ packet = <<>> /\ InUse(id)
    /\ packet' = <<byId[id], records>>
    /\ UNCHANGED <<looks, byId, nextId, dnsServers, nServers, currentServer, wideCache>>

\* add_to_cache() and run_callbacks(): every lookup with a callback is told of a
\* record that was not cached, also when there is no room for it.
HandleRecord(r) ==
    /\ packet # <<>> /\ r \in packet[2]
    /\ packet' = <<packet[1], packet[2] \ {r}>>
    /\ wideCache' = IF Cardinality(wideCache) >= CacheMax THEN wideCache
                    ELSE wideCache \union {r}
    /\ looks' = [l \in Slots |->
                   IF r \notin wideCache /\ Waiting(l) /\ <<looks[l].key, r>> \in Asks
                   THEN [looks[l] EXCEPT !.told = @ \union {r}] ELSE looks[l]]
    /\ UNCHANGED <<byId, nextId, dnsServers, nServers, currentServer>>

\* The end of handle_packet(), reached from the middle of the loop by a record
\* that cannot be read: the final event, unless a callback freed the lookup.
HandleEnd ==
    /\ packet # <<>> /\ packet' = <<>>
    /\ looks' = IF looks[packet[1]].phase = "dead" THEN looks
                ELSE [looks EXCEPT ![packet[1]] = Stopped(@, "done")]
    /\ UNCHANGED <<byId, nextId, dnsServers, nServers, currentServer, wideCache>>

\* expiry_event()
ExpireWide(r) ==
    /\ packet = <<>> /\ r \in wideCache
    /\ wideCache' = wideCache \ {r}
    /\ UNCHANGED <<looks, byId, nextId, dnsServers, nServers, currentServer, packet>>

\* avahi_wide_area_set_servers() and avahi_wide_area_clear_cache(): what is
\* beyond the new list stays in the array.
SetServers(s) ==
    /\ packet = <<>>
    /\ dnsServers' = s \o SubSeq(dnsServers, Len(s) + 1, 2)
    /\ nServers' = Len(s) /\ currentServer' = 0 /\ wideCache' = {}
    /\ UNCHANGED <<looks, byId, nextId, packet>>

WideNext ==
    \/ \E l \in Slots, k \in WideKeys : LookupNew(l, k)
    \/ \E l \in Slots : LookupFree(l) \/ SenderTimeout(l)
    \/ CleanupDead \/ HandleEnd
    \/ \E i \in 0 .. IdSpace - 1, rs \in SUBSET WideRecords : ReplyArrives(i, rs)
    \/ \E r \in WideRecords : HandleRecord(r) \/ ExpireWide(r)
    \/ \E s \in ServerLists : SetServers(s)

WideSpec == WideInit /\ [][WideNext]_wideVars

-----------------------------------------------------------------------------
(* Whatever comes back reaches everyone who waits for it: the id of a waiting
   lookup leads to that lookup although ids are reused and dead lookups stay in
   the table, and a waiting lookup was told of every cached record that answers
   it, whoever asked for the record.  find_lookup(), run_callbacks(). *)
AnswersReachLookups ==
    \A l \in Slots : Waiting(l) =>
        /\ byId[looks[l].id] = l
        /\ Cached(looks[l].key) \subseteq looks[l].told

(* Replies may all be lost and servers may be taken away: a lookup still gets its
   final event, by the last of its timeouts. *)
LookupAnswered == \A l \in Slots : []<>(~ Waiting(l))

IsMemory(look) == DOMAIN look = DOMAIN NoMemory

\* lookups_by_id and the lookups are inverse to each other, dead lookups
\* included, and the one a packet is handled for is not destroyed meanwhile.
TableInv ==
    /\ DOMAIN looks = Slots /\ nextId \in 0 .. IdSpace - 1
    /\ byId \in [0 .. IdSpace - 1 -> Slots \union {NoLookup}]
    /\ \A l \in Slots : /\ IsMemory(looks[l])
                        /\ looks[l].id \in 0 .. IdSpace - 1
                        /\ looks[l].phase # "none" => byId[looks[l].id] = l
    /\ \A i \in 0 .. IdSpace - 1 :
          byId[i] # NoLookup => looks[byId[i]].id = i /\ looks[byId[i]].phase # "none"
    /\ packet # <<>> => packet[1] \in Slots /\ looks[packet[1]].phase # "none"

\* The inductive invariant of module QuerierProofs.
WideInv == TableInv /\ AnswersReachLookups
=============================================================================
