------------------------------ MODULE Interfaces ------------------------------
(***************************************************************************)
(* The interfaces of the host and the address records it publishes for     *)
(* them: the netlink messages (iface-linux.c) say what there is, iface.c   *)
(* joins the multicast group where an interface has become relevant and    *)
(* fills or clears the entry group of each address, and server.c counts    *)
(* the groups that are being registered to tell when the server runs.      *)
(*                                                                         *)
(* An update of the address records may end in a change of the server's    *)
(* state, which updates all of them once more before the first update goes *)
(* on.  An entry group is modelled by the states its owner sees (see       *)
(* EntryGroup); the HINFO and workstation records are not published by     *)
(* default and are left out.                                               *)
(***************************************************************************)
EXTENDS Naturals, FiniteSets, Sequences, SequencesExt

CONSTANTS
    IfaceList,      \* the interfaces, in the order of the monitor's list
    Hw, HwOf,       \* the hardware interfaces, and which one an interface is on
    AddressesOf,    \* the addresses an interface may have
    PublishedOn,    \* the interfaces the record of an address is announced on
    HostNames,
    Nowhere

HostIfaces == ToSet(IfaceList)
Addresses == UNION {AddressesOf[i] : i \in HostIfaces}
IfaceOf(a) == CHOOSE i \in HostIfaces : a \in AddressesOf[i]

ASSUME InterfacesAssumption ==
    /\ IfaceList \in Seq(HostIfaces) /\ HwOf \in [HostIfaces -> Hw]
    /\ IsFiniteSet(Addresses)
    /\ \A i, j \in HostIfaces : i # j => AddressesOf[i] \intersect AddressesOf[j] = {}
    /\ PublishedOn \in [Addresses -> SUBSET HostIfaces]
    /\ Nowhere \notin Addresses \union HostNames

VARIABLES
    net,    \* dump: osdep.list; known: the AvahiHwInterface objects; ok: flags_ok;
            \* addrs: i->addresses; kind: the scope of an address; announcing;
            \* joined: local_mcast_address, or Nowhere without mcast_joined
    host    \* state; pending: n_host_rr_pending; name: host_name; group: the
            \* entry group of an address; under: the name it was filled for

hostVars == <<net, host>>

\* avahi_interface_monitor_new() and the server before register_stuff()
HostInit ==
    /\ net = [dump |-> "iface", known |-> {}, ok |-> [w \in Hw |-> FALSE],
              addrs |-> [i \in HostIfaces |-> <<>>], kind |-> [a \in Addresses |-> "local"],
              announcing |-> [i \in HostIfaces |-> FALSE],
              joined |-> [i \in HostIfaces |-> Nowhere]]
    /\ \E x \in HostNames :
         host = [state |-> "invalid", pending |-> 0, name |-> x,
                 group |-> [a \in Addresses |-> "empty"],
                 under |-> [a \in Addresses |-> Nowhere]]

-----------------------------------------------------------------------------
(* Relevance                                                               *)

\* global_scope, and global_scope without deprecated
Global(n, a) == n.kind[a] # "local"
Public(n, a) == n.kind[a] = "public"
On(n, i) == ToSet(n.addrs[i])

\* The others count only where there is no public one.
AddressIsRelevant(n, a) ==
    Public(n, a) \/ \A b \in On(n, IfaceOf(a)) \ {a} : ~ Public(n, b)

InterfaceIsRelevant(n, i) ==
    n.ok[HwOf[i]] /\ \E a \in On(n, i) : AddressIsRelevant(n, a)

-----------------------------------------------------------------------------
(* The multicast group: a join may fail, then the interface is not joined. *)

\* The first address with global scope, or else the first one.
Best(n, i) ==
    LET global == {k \in DOMAIN n.addrs[i] : Global(n, n.addrs[i][k])}
    IN  n.addrs[i][IF global # {} THEN Min(global) ELSE 1]

McastJoin(n, i, joins) ==
    IF n.joined[i] # Nowhere \/ n.addrs[i] = <<>> \/ ~ joins THEN n
    ELSE [n EXCEPT !.joined[i] = Best(n, i)]

McastLeave(n, i) == [n EXCEPT !.joined[i] = Nowhere]

\* Mutant: the old address is good enough as long as it exists.
McastRejoinIfGone(n, i, joins) ==
    IF n.joined[i] \in On(n, i) \union {Nowhere} THEN n
    ELSE McastJoin(McastLeave(n, i), i, joins)

McastRejoin(n, i, joins) ==
    LET j == n.joined[i]
        keeps == j \in On(n, i) /\ (Global(n, j) \/ \A a \in On(n, i) : ~ Global(n, a))
    IN  IF j = Nowhere \/ keeps THEN n ELSE McastJoin(McastLeave(n, i), i, joins)

\* avahi_interface_check_relevant(); what a change means for the announcers, the
\* queriers and the cache of the interface is in EntryGroup and RecordBrowser.
CheckRelevant(n, i, joins) ==
    LET relevant == InterfaceIsRelevant(n, i)
        joining == McastJoin(n, i, joins)
    IN  IF n.dump = "done" /\ relevant /\ ~ n.announcing[i]
        THEN [joining EXCEPT !.announcing[i] = joining.joined[i] # Nowhere]
        ELSE IF ~ relevant /\ n.announcing[i]
             THEN [McastLeave(n, i) EXCEPT !.announcing[i] = FALSE]
             ELSE McastRejoin(n, i, joins)

\* For a set of interfaces: each looks at itself only, and a join fails by itself.
CheckEach(n, is, joins) ==
    LET checked(i) == IF i \in is THEN CheckRelevant(n, i, i \in joins) ELSE n
    IN  [n EXCEPT !.announcing = [i \in HostIfaces |-> checked(i).announcing[i]],
                  !.joined = [i \in HostIfaces |-> checked(i).joined[i]]]

-----------------------------------------------------------------------------
(* The address records                                                     *)

\* The addresses of some interfaces in the order of the lists, and the set of all
Listed(n, is) ==
    FlattenSeq([k \in DOMAIN IfaceList |->
                  IF IfaceList[k] \in is THEN n.addrs[IfaceList[k]] ELSE <<>>])
Present(n) == {a \in Addresses : a \in On(n, IfaceOf(a))}
Probed(n, a) == \E i \in PublishedOn[a] : n.announcing[i]

Publishes(n, a) ==
    n.dump = "done" /\ AddressIsRelevant(n, a) /\ InterfaceIsRelevant(n, IfaceOf(a))

\* avahi_s_entry_group_reset(), and avahi_s_entry_group_commit(), which is done
\* at once where there is nobody to probe.
Cleared(h, a) == [h EXCEPT !.group[a] = "empty", !.under[a] = Nowhere]
Registration(n, a) == IF Probed(n, a) THEN "registering" ELSE "established"
Committed(n, h, a) ==
    [h EXCEPT !.group[a] = Registration(n, a), !.under[a] = h.name]

\* server_set_state(RUNNING), in the middle of an update: the update it makes is
\* not counted and ends in no other change of state, so that each address is
\* dealt with by itself.
SetRunning(n, h) ==
    LET clears == {a \in Present(n) : ~ Publishes(n, a)}
        fills == {a \in Present(n) \ clears : h.group[a] = "empty"}
        set(f, a, filled, cleared) ==
            IF a \in fills THEN filled ELSE IF a \in clears THEN cleared ELSE f[a]
    IN  [h EXCEPT !.state = "running",
           !.group = [a \in Addresses |-> set(h.group, a, Registration(n, a), "empty")],
           !.under = [a \in Addresses |-> set(h.under, a, h.name, Nowhere)]]

\* avahi_server_decrease_host_rr_pending()
DecreasePending(n, h) ==
    LET less == [h EXCEPT !.pending = @ - 1]
    IN  IF less.pending = 0 THEN SetRunning(n, less) ELSE less

\* avahi_host_rr_entry_group_callback() for REGISTERING and ESTABLISHED
CommitCounted(n, h, a) ==
    LET more == [Committed(n, h, a) EXCEPT !.pending = @ + 1]
    IN  IF Probed(n, a) THEN more ELSE DecreasePending(n, more)

\* Mutant: a group that is withdrawn before it was established stays counted.
AddressUpdateUncounted(n, h, a, remove) ==
    IF ~ remove /\ h.state \in {"registering", "running"} /\ Publishes(n, a)
    THEN CASE h.group[a] # "empty" -> h
           [] h.group[a] = "empty" /\ h.state = "registering" -> CommitCounted(n, h, a)
           [] OTHER -> Committed(n, h, a)
    ELSE Cleared(h, a)

\* avahi_interface_address_update_rrs()
AddressUpdate(n, h, a, remove) ==
    IF ~ remove /\ h.state \in {"registering", "running"} /\ Publishes(n, a)
    THEN CASE h.group[a] # "empty" -> h
           [] h.group[a] = "empty" /\ h.state = "registering" -> CommitCounted(n, h, a)
           [] OTHER -> Committed(n, h, a)
    ELSE IF h.group[a] = "registering" /\ h.state = "registering"
         THEN Cleared(DecreasePending(n, h), a)
         ELSE Cleared(h, a)

UpdateRrs(n, h, as, remove) ==
    FoldLeft(LAMBDA g, a : AddressUpdate(n, g, a, remove), h, as)
UpdateAll(n, h, remove) == UpdateRrs(n, h, Listed(n, HostIfaces), remove)

-----------------------------------------------------------------------------
(* The server                                                              *)

SetState(n, h, state) ==
    IF h.state = state THEN h ELSE UpdateAll(n, [h EXCEPT !.state = state], FALSE)

WithdrawHostRrs(n, h) == [UpdateAll(n, h, TRUE) EXCEPT !.pending = 0]

\* The counter is raised so that the state does not become RUNNING too early,
\* but only after the first update.
RegisterStuff(n, h) ==
    LET first == SetState(n, h, "registering")
        second == UpdateAll(n, [first EXCEPT !.pending = @ + 1], FALSE)
        last == [second EXCEPT !.pending = @ - 1]
    IN  IF last.pending = 0 THEN SetState(n, last, "running") ELSE last

\* The end of avahi_server_new(): avahi_interface_monitor_sync() waits for the
\* end of the dump or a failure of the netlink socket.
ServerStarts ==
    /\ host.state = "invalid"
    /\ host' = RegisterStuff(net, host)
    /\ UNCHANGED net

\* avahi_server_set_host_name() and avahi_server_set_domain_name(), in every
\* state of the server.  Of one that is REGISTERING the withdrawal of the last
\* counted group makes it RUNNING, which fills the groups that were withdrawn
\* before it once more, for the old name; what is filled is not filled again.
SetHostName(x) ==
    /\ host.state # "invalid" /\ (x # host.name \/ host.state = "collision")
    /\ host' = RegisterStuff(net, [WithdrawHostRrs(net, host) EXCEPT !.name = x])
    /\ UNCHANGED net

\* The record of an address was probed for, ...
GroupProbed(a) ==
    LET h == [host EXCEPT !.group[a] = "established"]
    IN  /\ host.group[a] = "registering" /\ Probed(net, a)
        /\ host' = IF host.state = "registering" THEN DecreasePending(net, h) ELSE h
        /\ UNCHANGED net

\* ... or is in conflict with that of another host: avahi_host_rr_entry_group_callback()
\* for COLLISION, when the records of the group are gone already.
GroupCollides(a) ==
    /\ host.group[a] # "empty" /\ host.state \in {"registering", "running"}
    /\ host' = SetState(net, WithdrawHostRrs(net, Cleared(host, a)), "collision")
    /\ UNCHANGED net

-----------------------------------------------------------------------------
(* netlink_callback(): messages are read while the list is made and, once  *)
(* the server was created, by the event loop.                              *)
Listening == host.state # "invalid" \/ net.dump # "done"
IfacesOn(w) == {i \in HostIfaces : HwOf[i] = w}

\* avahi_hw_interface_new(), with the two interfaces it makes
HwInterfaceNew(n, w) == [n EXCEPT !.known = @ \union {w}]

NewLink(w, ok, joins) ==
    LET n == CheckEach([HwInterfaceNew(net, w) EXCEPT !.ok[w] = ok], IfacesOn(w), joins)
    IN  /\ Listening
        /\ net' = n /\ host' = UpdateRrs(n, host, Listed(n, IfacesOn(w)), FALSE)

\* avahi_hw_interface_free() clears the groups, avahi_interface_free() once more:
\* the server may have become RUNNING in between and filled some of them again.
GroupsFreed(n, h, as) == UpdateRrs(n, UpdateRrs(n, h, as, TRUE), as, TRUE)
HwInterfaceFreed(n, w) ==
    LET gone == IfacesOn(w)
    IN  [n EXCEPT !.known = @ \ {w}, !.ok[w] = FALSE,
           !.addrs = [i \in HostIfaces |-> IF i \in gone THEN <<>> ELSE @[i]],
           !.kind = [a \in Addresses |-> IF IfaceOf(a) \in gone THEN "local" ELSE @[a]],
           !.announcing = [i \in HostIfaces |-> i \notin gone /\ @[i]],
           !.joined = [i \in HostIfaces |-> IF i \in gone THEN Nowhere ELSE @[i]]]

DelLink(w) ==
    /\ Listening /\ w \in net.known
    /\ host' = GroupsFreed(net, host, Listed(net, IfacesOn(w)))
    /\ net' = HwInterfaceFreed(net, w)

\* avahi_interface_address_new(): in front of the list, unless there is one.
AddressNew(n, a) ==
    [n EXCEPT !.addrs[IfaceOf(a)] = IF a \in On(n, IfaceOf(a)) THEN @ ELSE <<a>> \o @]

NewAddr(a, kind, joins) ==
    LET i == IfaceOf(a)
        n == CheckRelevant([AddressNew(net, a) EXCEPT !.kind[a] = kind], i, joins)
    IN  /\ Listening /\ HwOf[i] \in net.known
        /\ net' = n /\ host' = UpdateRrs(n, host, n.addrs[i], FALSE)

\* avahi_interface_address_free(), after the group was cleared
AddressFreed(n, a, joins) ==
    LET i == IfaceOf(a)
        without == [n EXCEPT !.kind[a] = "local",
                      !.addrs[i] = RemoveAt(@, CHOOSE k \in DOMAIN @ : @[k] = a)]
    IN  McastRejoin(without, i, joins)

\* Mutant: the addresses that stay are not looked at again.
DelAddrOnly(a, joins) ==
    /\ Listening /\ a \in On(net, IfaceOf(a))
    /\ net' = CheckRelevant(AddressFreed(net, a, joins), IfaceOf(a), joins)
    /\ host' = AddressUpdate(net, host, a, TRUE)

\* One that stays may be relevant now, for want of a public one.
DelAddr(a, joins) ==
    LET i == IfaceOf(a)
        n == CheckRelevant(AddressFreed(net, a, joins), i, joins)
    IN  /\ Listening /\ a \in On(net, i)
        /\ net' = n
        /\ host' = UpdateRrs(n, AddressUpdate(net, host, a, TRUE), n.addrs[i], FALSE)

\* NLMSG_DONE: the links are listed, then the addresses unless the request fails.
DumpDone(fails, joins) ==
    LET next == IF net.dump = "iface" /\ ~ fails THEN "addr" ELSE "done"
        n == IF next = "done" THEN CheckEach([net EXCEPT !.dump = next], HostIfaces, joins)
             ELSE [net EXCEPT !.dump = next]
    IN  /\ net.dump # "done"
        /\ net' = n
        /\ host' = IF next = "done" THEN UpdateAll(n, host, FALSE) ELSE host

HostNext ==
    \/ ServerStarts
    \/ \E x \in HostNames : SetHostName(x)
    \/ \E a \in Addresses : GroupProbed(a)
    \/ \E a \in Addresses : GroupCollides(a)
    \/ \E w \in Hw, ok \in BOOLEAN, joins \in SUBSET HostIfaces : NewLink(w, ok, joins)
    \/ \E w \in Hw : DelLink(w)
    \/ \E a \in Addresses, k \in {"public", "deprecated", "local"}, joins \in BOOLEAN :
         NewAddr(a, k, joins)
    \/ \E a \in Addresses, joins \in BOOLEAN : DelAddr(a, joins)
    \/ \E fails \in BOOLEAN, joins \in SUBSET HostIfaces : DumpDone(fails, joins)

HostSpec == HostInit /\ [][HostNext]_hostVars

-----------------------------------------------------------------------------
\* The group of an address is filled as it should be.
Current(n, h, a) ==
    h.group[a] # "empty" <=>
        h.state \in {"registering", "running"} /\ a \in Present(n) /\ Publishes(n, a)

\* The groups that are filled for another name than the host now has.
OldNameLeft(h) == {a \in Addresses : h.group[a] # "empty" /\ h.under[a] # h.name}

(* Whatever order links, addresses, conflicts and renamings come in, and wherever a
   change of state cuts into an update: a server that is registering or running
   publishes exactly the relevant addresses, and one in collision publishes none.
   They are published under the current host name, but for those that a renaming
   of a server that was still registering has left under an earlier one, and the
   next renaming of one that is not ends those.  avahi_interface_address_update_rrs(). *)
HostRecordsCurrent ==
    /\ [](\A a \in Addresses : Current(net, host, a))
    /\ [][IF host'.name = host.name THEN OldNameLeft(host') \subseteq OldNameLeft(host)
          ELSE host.state = "registering" \/ OldNameLeft(host') = {}]_hostVars

(* What core.h:119 says of avahi_server_set_host_name(): it drops the records that
   were generated and adds them again with the new name. *)
HostNameTakesEffect == OldNameLeft(host) = {}

(* A server that is REGISTERING waits for at least one group, and for no more than
   are being registered, also after a renaming has left groups that nobody counts:
   it can neither miss the end nor fail the assertion of
   avahi_server_decrease_host_rr_pending(). *)
PendingCounted ==
    IF host.state = "registering"
    THEN /\ 0 < host.pending
         /\ host.pending <= Cardinality({a \in Addresses : host.group[a] = "registering"})
    ELSE host.pending = 0

\* joined where it announces, with a global address of its own if it has one
JoinedRightly(n, i) ==
    /\ n.announcing[i] => InterfaceIsRelevant(n, i) /\ n.dump = "done"
    /\ n.joined[i] # Nowhere =>
         /\ n.announcing[i] /\ n.joined[i] \in On(n, i)
         /\ Global(n, n.joined[i]) \/ \A a \in On(n, i) : ~ Global(n, a)

(* The multicast group is joined where the server announces, and with an address
   the interface still has: a global one when there is one, although addresses
   come, go and change their scope.  interface_mdns_mcast_rejoin(). *)
MulticastAddressKept == \A i \in HostIfaces : JoinedRightly(net, i)

-----------------------------------------------------------------------------
(* The inductive invariant of module ServerProofs.                         *)

Nets == [dump : {"iface", "addr", "done"}, known : SUBSET Hw, ok : [Hw -> BOOLEAN],
         addrs : [HostIfaces -> Seq(Addresses)],
         kind : [Addresses -> {"public", "deprecated", "local"}],
         announcing : [HostIfaces -> BOOLEAN],
         joined : [HostIfaces -> Addresses \union {Nowhere}]]
Hosts == [state : {"invalid", "registering", "running", "collision"}, pending : Nat,
          name : HostNames, group : [Addresses -> {"empty", "registering", "established"}],
          under : [Addresses -> HostNames \union {Nowhere}]]

\* An interface lists only addresses of its own, each of them once.
ListsSound(n) ==
    \A i \in HostIfaces : On(n, i) \subseteq AddressesOf[i] /\ IsInjective(n.addrs[i])

\* A group that is filled is filled for some name, and only then.
NamesSound(h) == \A a \in Addresses : h.group[a] = "empty" <=> h.under[a] = Nowhere

HostIInv ==
    /\ net \in Nets /\ host \in Hosts /\ ListsSound(net) /\ NamesSound(host)
    /\ \A a \in Addresses : Current(net, host, a)
    /\ PendingCounted /\ MulticastAddressKept
=============================================================================
