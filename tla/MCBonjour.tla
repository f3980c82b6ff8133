------------------------------ MODULE MCBonjour ------------------------------
(* Names and interface numbers for which keys collide as in bonjour.cpp:   *)
(* "n" on interface 12 and "n1" on interface 2 share the key "n12".  A     *)
(* reply for the other interface leads to a key that is no service's own.  *)
EXTENDS Bonjour, TLC

MCInterfaces == {2, 12}

MCIface == ("n" :> 12) @@ ("n1" :> 2)
MCKeyOf ==
    ("n"  :> ((12 :> "n12") @@ (2 :> "n2"))) @@
    ("n1" :> ((2 :> "n12") @@ (12 :> "n112")))

\* One service, one interface.
MCIfaceOne == "n" :> 12
MCKeyOfOne == "n" :> (12 :> "n12")
=============================================================================
