----------------------------- MODULE MCAvahiCore -----------------------------
(***************************************************************************)
(* Three questions that share no state, one per behaviour (part):          *)
(*   object - two objects on one server; one service is enough, since the  *)
(*            maps treat each key by itself; two browsers per object so    *)
(*            that one can be leaked;                                      *)
(*   host   - the interfaces and addresses of that server's host: one link *)
(*            with IPv4 and IPv6, two addresses on the first, and the IPv6 *)
(*            address announced on both (publish_aaaa_on_ipv4);            *)
(*   query  - the packets that arrive on an interface: a service with its  *)
(*            PTR, SRV, TXT and A record, the TXT record too large for a   *)
(*            packet, and two CNAMEs that refer to each other.             *)
(***************************************************************************)
EXTENDS AvahiCore, Interfaces, Responder, TLC

CONSTANT Parts      \* the parts that a run is about
VARIABLE part

MCIfaceList == <<"v6", "v4">>
MCHwOf == [i \in {"v4", "v6"} |-> "eth"]
MCAddressesOf == [v4 |-> {"a1", "a2"}, v6 |-> {"b"}]
MCPublishedOn == [a1 |-> {"v4"}, a2 |-> {"v4"}, b |-> {"v4", "v6"}]

MCOwnList == <<"ptr", "srv", "txt", "a", "c1", "c2">>
MCNameOf == [ptr |-> "type", srv |-> "svc", txt |-> "svc", a |-> "host", c1 |-> "x", c2 |-> "y"]
MCTypeOf == [ptr |-> "ptr", srv |-> "srv", txt |-> "txt", a |-> "a", c1 |-> "cname", c2 |-> "cname"]
MCTargetOf == [ptr |-> "svc", srv |-> "host", c1 |-> "y", c2 |-> "x"]
MCSizeOf == [ptr |-> 1, srv |-> 2, txt |-> 4, a |-> 1, c1 |-> 2, c2 |-> 2]

Ask(name, type, unicast) == [key |-> <<name, type>>, unicast |-> unicast]
Query(questions) ==
    [query |-> TRUE, port |-> "mdns", valid |-> TRUE, near |-> TRUE, tc |-> FALSE,
     questions |-> questions, known |-> <<>>, probes |-> <<>>, broken |-> "none"]
Browse == Query(<<Ask("type", "ptr", TRUE)>>)
Many == Query(<<Ask("type", "ptr", FALSE), Ask("svc", "any", TRUE), Ask("x", "a", TRUE),
                Ask("type", "ptr", TRUE)>>)
Response == [Browse EXCEPT !.query = FALSE, !.questions = <<>>, !.known = << <<"svc", "srv">> >>]
MCInPackets ==
    {Browse, Many, [Browse EXCEPT !.port = "other"], [Many EXCEPT !.port = "other"],
     [Many EXCEPT !.known = <<"ptr", "other">>, !.tc = TRUE],
     [Browse EXCEPT !.known = <<"ptr">>],
     [Many EXCEPT !.known = <<"c1">>, !.broken = "known"],
     [Many EXCEPT !.probes = << <<"svc", "srv">> >>],
     [Browse EXCEPT !.port = "other", !.known = <<"ptr">>],
     Response, [Response EXCEPT !.known = << <<"svc", "txt">>, <<"host", "a">> >>],
     [Response EXCEPT !.near = FALSE]}

MCInit ==
    /\ part \in Parts /\ Init /\ HostInit
    /\ ResponderInit /\ (part # "query" => registered = {})
MCNext ==
    /\ UNCHANGED part
    /\ \/ part = "object" /\ Next /\ UNCHANGED <<hostVars, responderVars>>
       \/ part = "host" /\ HostNext /\ UNCHANGED <<vars, responderVars>>
       \/ part = "query" /\ ResponderNext /\ UNCHANGED <<vars, hostVars>>

MCSpec == MCInit /\ [][MCNext]_<<part, vars, hostVars, responderVars>>
=============================================================================
