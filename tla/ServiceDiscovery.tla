-------------------------- MODULE ServiceDiscovery --------------------------
(***************************************************************************)
(* What a QZeroConf object promises the application that browses with it,  *)
(* whatever the platform underneath: the application is told of services   *)
(* by serviceAdded(), serviceUpdated() and serviceRemoved(), and what it   *)
(* has been told adds up to one consistent picture.  A service is added    *)
(* once, updated and removed only while it is known, found only while the  *)
(* browser exists, and taken back when the browser is stopped.             *)
(*                                                                         *)
(* The Linux backend (module AvahiClient) is shown to implement this.      *)
(***************************************************************************)
CONSTANTS
    Services,   \* the services that can be advertised
    Addrs,      \* the addresses a service can resolve to
    None        \* "not known": what an absent map entry reads as

VARIABLES
    browsing,   \* browserExists()
    known       \* what the signals told the application, per service

sdVars == <<browsing, known>>

SDTypeOK ==
    /\ browsing \in BOOLEAN
    /\ known \in [Services -> Addrs \cup {None}]

SDInit ==
    /\ browsing = FALSE
    /\ known = [s \in Services |-> None]

\* startBrowser() succeeded.
Start ==
    /\ ~browsing
    /\ browsing' = TRUE
    /\ UNCHANGED known

\* The browser ends: stopBrowser(), a browser failure or the destructor.
\* What is still known is withdrawn service by service.
Stop ==
    /\ browsing
    /\ browsing' = FALSE
    /\ UNCHANGED known

\* serviceAdded(): only for a service that is not known yet.
Add(s, a) ==
    /\ browsing
    /\ known[s] = None
    /\ known' = [known EXCEPT ![s] = a]
    /\ UNCHANGED browsing

\* serviceUpdated(): only for a service that is known.
Update(s, a) ==
    /\ browsing
    /\ known[s] # None
    /\ known' = [known EXCEPT ![s] = a]
    /\ UNCHANGED browsing

\* serviceRemoved(): only for a service that is known.
Remove(s) ==
    /\ known[s] # None
    /\ known' = [known EXCEPT ![s] = None]
    /\ UNCHANGED browsing

SDNext ==
    \/ Start
    \/ Stop
    \/ \E s \in Services : \E a \in Addrs : Add(s, a) \/ Update(s, a)
    \/ \E s \in Services : Remove(s)

SDSafety == SDInit /\ [][SDNext]_sdVars
=============================================================================
