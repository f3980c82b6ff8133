----------------------------- MODULE MCResolvers -----------------------------
(* The resolvers, the typed browsers, the wide-area engine and the probe    *)
(* scheduler, one of them in each behaviour: they share no state.           *)
EXTENDS Resolvers, TypedBrowsers, WideArea, ProbeSched, TLC

CONSTANTS h1, h2, h3,       \* three hosts
          r1, r2, r3, big   \* the records probed for

VARIABLE part       \* what this behaviour is about

vars == <<part, resolverVars, browserVars, wideVars, probeVars>>

MCNetRecords == {<<"srv", h1, 1>>, <<"srv", h2, 1>>, <<"txt", h1, 1>>,
                 <<"a", h1, 1>>, <<"aaaa", h2, 1>>,
                 <<"a", h3, 1>>, <<"aaaa", h3, 1>>, <<"a", h3, 2>>,
                 <<"ptr", h1, 1>>, <<"ptr", h2, 1>>, <<"ptr", h1, 2>>}
MCStaticDomains == <<"d1", "d2">>
MCAsks == {<<"k1", "rr">>}
MCServerLists == {<<>>, <<"s1", "s2">>}
MCProbeSize == r1 :> 1 @@ r2 :> 2 @@ r3 :> 2 @@ big :> 4

Init ==
    /\ part \in {"resolver", "browser", "wide", "probe"}
    /\ ResolverInit /\ (part # "resolver" => rtype = "host" /\ lock = 0)
    /\ BrowserInit /\ (part # "browser" => btype = "type")
    /\ WideInit /\ ProbeInit

\* Only the part named p moves: the variables of the others stay.
Only(p, others) == part = p /\ UNCHANGED part /\ UNCHANGED others

OnlyResolver == Only("resolver", <<browserVars, wideVars, probeVars>>)
OnlyBrowser == Only("browser", <<resolverVars, wideVars, probeVars>>)
OnlyWide == Only("wide", <<resolverVars, browserVars, probeVars>>)
OnlyProbe == Only("probe", <<resolverVars, browserVars, wideVars>>)

Next ==
    \/ OnlyResolver /\ ResolverNext
    \/ OnlyBrowser /\ BrowserNext
    \/ OnlyWide /\ WideNext
    \/ OnlyProbe /\ ProbeNext

(* The event loop delivers what a record browser has to tell, hands over    *)
(* the packets that came in, and fires the timer of a scheduled probe and,  *)
(* although packets keep coming, that of a lookup: it looks at the timers   *)
(* in every round.                                                          *)
Delivery == OnlyResolver /\ BrowserEvent
Packets == OnlyWide /\ HandleEnd
SendTimer(l) == OnlyWide /\ SenderTimeout(l)
ProbeTimer(r) == OnlyProbe /\ (ProbeElapse(r) \/ ProbeElapseLarge(r))

FairSpec ==
    /\ Init /\ [][Next]_vars
    /\ WF_vars(Delivery) /\ WF_vars(Packets) /\ \A l \in Slots : SF_vars(SendTimer(l))
    /\ \A r \in ProbeRecords : WF_vars(ProbeTimer(r))
=============================================================================
