---------------------------- MODULE MCAndroidNsd ----------------------------
(* Two managers that can be given the same address one after the other.    *)
(* For browsing they look for different types and one of them never stops; *)
(* for publishing neither browses.                                         *)
EXTENDS AndroidNsd, TLC

CONSTANTS m1, m2, s1, s2

BrowsedTypes == (m1 :> {s1}) @@ (m2 :> {s2})
BrowsingUses == (m1 :> {"discover", "stopDiscovery"}) @@ (m2 :> {"discover"})

NothingBrowsed == [m \in {m1, m2} |-> {}]
PublishingUses == [m \in {m1, m2} |-> {"register", "unregister"}]
=============================================================================
