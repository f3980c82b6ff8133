---------------------------- MODULE MCAvahiClient ----------------------------
(* Three services, two of which share the key "x12": "x1" on interface 2   *)
(* and "x" on interface 12.                                                *)
EXTENDS AvahiClient

CONSTANTS a1, a2

MCServices == {[name |-> <<"x", "1">>, iface |-> <<"2">>],
               [name |-> <<"x">>,      iface |-> <<"1", "2">>],
               [name |-> <<"y">>,      iface |-> <<"2">>]}
MCAddrs == {a1, a2}
=============================================================================
