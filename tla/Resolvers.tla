------------------------------- MODULE Resolvers -------------------------------
(***************************************************************************)
(* The three resolvers: of a service (resolve-service.c), of a host name   *)
(* (resolve-host-name.c) and of an address (resolve-address.c).  Each one  *)
(* keeps the first record it hears of for every part of the answer, reports*)
(* when it has them all, looks for a replacement when one goes, and gives  *)
(* up after a timeout.  The record browsers are modelled by what they tell *)
(* of the records in the network (see RecordBrowser).                      *)
(***************************************************************************)
EXTENDS Naturals, FiniteSets

CONSTANTS
    Hosts,      \* the hosts a SRV or PTR record may name
    AskedHost,  \* the one a host name resolver is for
    Links,      \* pairs of an interface and a protocol, numbered from 1
    NetRecords, \* the records there may be
    Nothing

\* A record is its type, the host it names or belongs to, and where it is seen.
Kinds == {"srv", "txt", "a", "aaaa", "ptr"}

ASSUME ResolversAssumption ==
    /\ AskedHost \in Hosts /\ Links \subseteq Nat \ {0}
    /\ NetRecords \subseteq Kinds \X Hosts \X Links

VARIABLES
    rtype,      \* "service", "host" or "address"
    alive,      \* it has not been freed
    net,        \* the records the network holds
    settled,    \* the network does not change any more
    browse,     \* the record browsers: whether on, their scope, what they told of
    held,       \* srv_record, txt_record and address_record or ptr_record
    lock,       \* r->interface and r->protocol; 0 for any
    timer,      \* time_event
    retry,      \* retry_with_multicast: "yes", "no", or "late" when it was used
                \* although a record was kept
    answer      \* the last event: "none", "found" or "failed"

resolverVars == <<rtype, alive, net, settled, browse, held, lock, timer, retry, answer>>

\* A record browser of the resolver, and one that was just created.
Off == [on |-> FALSE, scope |-> 0, heard |-> {}]
Fresh(l) == [on |-> TRUE, scope |-> l, heard |-> {}]
Parts == {"srv", "txt", "adr"}
PartOf(k) == IF k \in {"a", "aaaa", "ptr"} THEN "adr" ELSE k
AddressKinds == {"a", "aaaa"}
NothingHeld == [p \in Parts |-> Nothing]

\* The three constructors: the record browsers they start with, ...
ServiceResolverNew == {"srv", "txt"}
HostNameResolverNew == AddressKinds
AddressResolverNew == {"ptr"}

\* ... and start_timeout().
ResolverInit ==
    /\ rtype \in {"service", "host", "address"}
    /\ alive = TRUE /\ net = {} /\ settled = FALSE /\ answer = "none" /\ timer = TRUE
    /\ lock \in {0} \union Links
    /\ browse = [k \in Kinds |->
                  IF k \in (CASE rtype = "service" -> ServiceResolverNew
                              [] rtype = "host" -> HostNameResolverNew
                              [] rtype = "address" -> AddressResolverNew)
                  THEN Fresh(lock) ELSE Off]
    /\ held = NothingHeld
    /\ retry \in IF rtype = "address" THEN {"yes", "no"} ELSE {"no"}

\* What the resolver may ask for.
Asked(r) ==
    CASE rtype = "service" ->
           r[1] # "ptr" /\ \E s \in NetRecords : s[1] = "srv" /\ s[2] = r[2]
      [] rtype = "host" -> r[1] \in AddressKinds /\ r[2] = AskedHost
      [] rtype = "address" -> r[1] = "ptr"

\* Records come and go.
NetworkChanges(r) ==
    /\ alive /\ ~ settled /\ Asked(r)
    /\ net' = IF r \in net THEN net \ {r} ELSE net \union {r}
    /\ UNCHANGED <<rtype, alive, settled, browse, held, lock, timer, retry, answer>>

NetworkSettles ==
    /\ alive /\ ~ settled /\ settled' = TRUE
    /\ UNCHANGED <<rtype, alive, net, browse, held, lock, timer, retry, answer>>

-----------------------------------------------------------------------------
\* Which records the browser for k is about: the addresses of the host that was
\* asked for, or that the service is on.
Concerns(k, r) ==
    /\ r[1] = k /\ browse[k].scope \in {0, r[3]}
    /\ k \in AddressKinds /\ rtype = "service" => held["srv"] # Nothing /\ r[2] = held["srv"][2]

\* avahi_record_equal_no_ttl()
SameRecord(r, s) == s # Nothing /\ <<r[1], r[2]>> = <<s[1], s[2]>>

Wanted == CASE rtype = "service" -> Parts [] OTHER -> {"adr"}
Complete(h) == \A p \in Wanted : h[p] # Nothing

\* finish(), which stops the timer, and start_timeout() when a record is lost.
Finish(event) == timer' = FALSE /\ answer' = event
StartTimeout(lost) == timer' = (timer \/ lost)
GoOn == UNCHANGED <<timer, answer>>

\* NEW: a record seen elsewhere than the first one is ignored, the first of its
\* part is kept.  A SRV record starts the search for the addresses of its host.
RecordAppears(k, r) ==
    /\ alive /\ browse[k].on
    /\ r \in net \ browse[k].heard /\ Concerns(k, r)
    /\ LET heard == [browse EXCEPT ![k].heard = @ \union {r}]
           new == lock \in {0, r[3]} /\ held[PartOf(k)] = Nothing
           keeps == [held EXCEPT ![PartOf(k)] = r]
       IN  /\ lock' = IF lock = 0 THEN r[3] ELSE lock
           /\ held' = IF new THEN keeps ELSE held
           /\ browse' = IF new /\ k = "srv"
                        THEN [b \in Kinds |-> IF b \in AddressKinds THEN Fresh(r[3]) ELSE heard[b]]
                        ELSE heard
           /\ IF new /\ Complete(keeps) THEN Finish("found") ELSE GoOn
    /\ UNCHANGED <<rtype, alive, net, settled, retry>>

\* Mutant: the browser goes on without being asked for a replacement.
RecordVanishesNoRestart(k, r) ==
    /\ alive /\ browse[k].on
    /\ r \in browse[k].heard \ net
    /\ LET lost == SameRecord(r, held[PartOf(k)])
           heard == [browse EXCEPT ![k].heard = @ \ {r}]
       IN  /\ held' = IF lost THEN [held EXCEPT ![PartOf(k)] = Nothing] ELSE held
           /\ browse' = IF lost /\ k = "srv"
                        THEN [b \in Kinds |-> IF b \in AddressKinds THEN Off ELSE heard[b]]
                        ELSE heard
           /\ StartTimeout(lost)
    /\ UNCHANGED <<rtype, alive, net, settled, lock, retry, answer>>

\* REMOVE: when it is the record that was kept, wherever it was seen, the
\* browsers for that part start again and report what they find anew.  The
\* address is kept when the SRV record goes.
RecordVanishes(k, r) ==
    /\ alive /\ browse[k].on
    /\ r \in browse[k].heard \ net
    /\ LET lost == SameRecord(r, held[PartOf(k)])
           heard == [browse EXCEPT ![k].heard = @ \ {r}]
           restarted(b) == IF heard[b].on THEN Fresh(heard[b].scope) ELSE Off
       IN  /\ held' = IF lost THEN [held EXCEPT ![PartOf(k)] = Nothing] ELSE held
           /\ browse' = [b \in Kinds |->
                CASE lost /\ k = "srv" /\ b \in AddressKinds -> Off
                  [] lost /\ PartOf(b) = PartOf(k) -> restarted(b)
                  [] OTHER -> heard[b]]
           /\ StartTimeout(lost)
    /\ UNCHANGED <<rtype, alive, net, settled, lock, retry, answer>>

BrowsersFreed == [k \in Kinds |-> Off]

\* FAILURE: a service resolver goes on with the other kind of address, else it
\* is the end of all browsers.
ServiceBrowserFails(k) ==
    LET goesOn == k \in AddressKinds /\ \A b \in AddressKinds : browse[b].on
    IN  /\ alive /\ browse[k].on /\ rtype = "service"
        /\ browse' = IF goesOn THEN [browse EXCEPT ![k] = Off] ELSE BrowsersFreed
        /\ IF goesOn THEN GoOn ELSE Finish("failed")
        /\ UNCHANGED <<rtype, alive, net, settled, held, lock, retry>>

HostBrowserFails(k) ==
    /\ alive /\ browse[k].on /\ rtype = "host"
    /\ browse' = BrowsersFreed /\ Finish("failed")
    /\ UNCHANGED <<rtype, alive, net, settled, held, lock, retry>>

\* An address resolver tries once more by multicast, and gives up when it has
\* done so or when that browser is not created.
AddressBrowserFails(k, again) ==
    /\ alive /\ browse[k].on /\ rtype = "address"
    /\ again => retry = "yes"
    /\ retry' = IF retry # "yes" THEN retry ELSE IF again /\ Complete(held) THEN "late" ELSE "no"
    /\ browse' = [browse EXCEPT ![k] = IF again THEN Fresh(lock) ELSE Off]
    /\ IF again THEN StartTimeout(TRUE) /\ UNCHANGED answer ELSE Finish("failed")
    /\ UNCHANGED <<rtype, alive, net, settled, held, lock>>

\* time_event_callback(): the browsers go on.
ResolverTimeout ==
    /\ alive /\ timer /\ Finish("failed")
    /\ UNCHANGED <<rtype, alive, net, settled, browse, held, lock, retry>>

\* The three destructors, in a callback or not: nothing follows a callback.
FreeResolver ==
    /\ alive /\ alive' = FALSE
    /\ browse' = BrowsersFreed /\ timer' = FALSE /\ held' = NothingHeld
    /\ UNCHANGED <<rtype, net, settled, lock, retry, answer>>

BrowserEvent == \E k \in Kinds, r \in NetRecords : RecordAppears(k, r) \/ RecordVanishes(k, r)

ResolverNext ==
    \/ \E r \in NetRecords : NetworkChanges(r)
    \/ \E k \in Kinds, r \in NetRecords : RecordAppears(k, r)
    \/ \E k \in Kinds, r \in NetRecords : RecordVanishes(k, r)
    \/ \E k \in Kinds : ServiceBrowserFails(k) \/ HostBrowserFails(k)
    \/ \E k \in Kinds, again \in BOOLEAN : AddressBrowserFails(k, again)
    \/ NetworkSettles \/ ResolverTimeout \/ FreeResolver

-----------------------------------------------------------------------------
\* The network has all that is asked for, where the resolver looks and nowhere
\* else, and no browser has failed.
Offered ==
    /\ alive /\ settled
    /\ \E l \in Links : lock \in {0, l} /\ \A r \in net : r[3] = l
    /\ CASE rtype = "service" ->
              /\ \A k \in {"srv", "txt"} : browse[k].on /\ \E r \in net : r[1] = k
              /\ held["srv"] # Nothing => \A k \in AddressKinds : browse[k].on
              /\ \A r \in net : r[1] = "srv" => \E a \in net : a[1] \in AddressKinds /\ a[2] = r[2]
         [] rtype = "host" ->
              /\ \A k \in AddressKinds : browse[k].on
              /\ \E r \in net : r[1] \in AddressKinds /\ r[2] = AskedHost
         [] rtype = "address" -> browse["ptr"].on /\ retry # "late" /\ \E r \in net : r[1] = "ptr"

Found ==
    /\ answer = "found" /\ Complete(held)
    /\ \A p \in Wanted : held[p] \in net \/ (p = "adr" /\ rtype = "service")

(* A resolver that is not freed settles on what there is: when the records of the
   service, the host or the address are there to stay, it reports FOUND, whatever
   it kept and reported before, and what it kept is in the network (but for the
   address of a service, which may be that of an earlier host).
   record_browser_callback(). *)
ResolverFinds == []<>(Found \/ ~ Offered)
=============================================================================
