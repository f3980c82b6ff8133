------------------------------- MODULE Signals -------------------------------
(***************************************************************************)
(* The three browsing signals of QZeroConf (qzeroconf.h) as an application *)
(* sees them.  A view maps each service to the address the application was *)
(* last told, or to None; a signal that contradicts the view (a service    *)
(* added twice, updated or removed while unknown) leaves the mark Misused, *)
(* which no address and no later signal repairs.                           *)
(***************************************************************************)
CONSTANT None   \* "not known"

Misused == "contradictory signal"

\* serviceAdded(s) with address a.
ServiceAdded(view, s, a) ==
    [view EXCEPT ![s] = IF view[s] = None THEN a ELSE Misused]

\* serviceUpdated(s) with address a.
ServiceUpdated(view, s, a) ==
    [view EXCEPT ![s] = IF view[s] \in {None, Misused} THEN Misused ELSE a]

\* serviceRemoved(s).
ServiceRemoved(view, s) ==
    [view EXCEPT ![s] = IF view[s] \in {None, Misused} THEN Misused ELSE None]
=============================================================================
