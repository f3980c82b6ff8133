----------------------------- MODULE EntryGroup -----------------------------
(***************************************************************************)
(* Publishing in the embedded mDNS stack (avahi-core/announce.c, with the  *)
(* group functions of entry.c and the conflict handling of server.c): one  *)
(* entry group, its entries, and one announcer per entry and interface.    *)
(* An announcer probes for a unique name three times, waits until every    *)
(* member of the group is probed, announces, and is then established.      *)
(*                                                                         *)
(* Everything runs in one event loop and a group callback may reset or     *)
(* free the group.  The code re-reads g->dead after each callback and a    *)
(* reset leaves no announcer for the rest of the loop, so what a callback  *)
(* does is the same as doing it right after the step that called it.       *)
(*                                                                         *)
(* Every entry is published on all interfaces, under a name of its own.    *)
(* Durations are abstract: a timer that is set may fire at any time.       *)
(***************************************************************************)
EXTENDS Naturals, FiniteSets

CONSTANTS
    Entries,        \* the records that can be published
    Ifaces,         \* the network interfaces
    FlagChoices,    \* the AvahiPublishFlags an entry may be added with: sets of
                    \* "unique", "noprobe" and "noannounce"
    UintSize,       \* the number of values of n_probing, an unsigned int
    MaxProbing,     \* bound: no interface goes down once n_probing is above it
    MaxEvents       \* bound: network and update events in one behaviour

Pairs == Entries \X Ifaces

ASSUME GroupAssumption ==
    /\ IsFiniteSet(Entries) /\ IsFiniteSet(Ifaces)
    /\ FlagChoices \subseteq SUBSET {"unique", "noprobe", "noannounce"}
    /\ FlagChoices # {}
    /\ MaxProbing \in Nat /\ MaxEvents \in Nat /\ UintSize \in Nat
    /\ UintSize > MaxProbing + Cardinality(Pairs)

VARIABLES
    alive,      \* the group exists and is not dead
    group,      \* g->state
    nProbing,   \* g->n_probing
    holdoff,    \* g->register_time_event # NULL
    tried,      \* g->register_time is not 0: the group was committed before
    live,       \* the entries of the group that are not dead
    flags,      \* e->flags
    up,         \* the interfaces with i->announcing set
    ann,        \* the announcer of an entry on an interface
    probes,     \* history: probes posted since the announcer last started over
    events      \* network and update events so far

vars == <<alive, group, nProbing, holdoff, tried, live, flags, up, ann,
          probes, events>>

NoAnnouncer == [state |-> "none", n |-> 0, timer |-> FALSE]
Announcers ==
    [state : {"none", "probing", "waiting", "announcing", "established"},
     n : 0..4, timer : BOOLEAN]

TypeOK ==
    /\ alive \in BOOLEAN /\ holdoff \in BOOLEAN /\ tried \in BOOLEAN
    /\ group \in {"uncommitted", "registering", "established", "collision"}
    /\ nProbing \in 0..(UintSize - 1)
    /\ live \in SUBSET Entries
    /\ flags \in [Entries -> FlagChoices]
    /\ up \in SUBSET Ifaces
    /\ ann \in [Pairs -> Announcers]
    /\ probes \in [Pairs -> 0..3]
    /\ events \in 0..MaxEvents

\* avahi_s_entry_group_new().  The callback of a fresh group has not run yet.
Init ==
    /\ alive = TRUE /\ group = "uncommitted" /\ nProbing = 0
    /\ holdoff = FALSE /\ tried = FALSE
    /\ live = {}
    /\ flags \in [Entries -> FlagChoices]
    /\ up \in SUBSET Ifaces
    /\ ann = [p \in Pairs |-> NoAnnouncer]
    /\ probes = [p \in Pairs |-> 0]
    /\ events = 0

-----------------------------------------------------------------------------
(* The announcer.                                                          *)

NeedsProbe(e) == "unique" \in flags[e] /\ "noprobe" \notin flags[e]

\* avahi_entry_is_commited()
IsCommited(g) == g \in {"registering", "established"}

Probing(an) == {p \in Pairs : an[p].state = "probing"}

\* n_probing-- and n_probing++ on an unsigned int.
Dec(n) == (n + UintSize - 1) % UintSize
Plus(n, k) == (n + k) % UintSize

\* The state go_to_initial_state() picks.
InitialState(e, g) ==
    IF NeedsProbe(e) THEN "probing"
    ELSE IF "noannounce" \in flags[e] THEN "established"
    ELSE IF g = "established" THEN "announcing" ELSE "waiting"

\* An announcer that starts over: first iteration, timer only where a timeout
\* drives it.
StartOver(state) ==
    [state |-> state, n |-> 1, timer |-> state \in {"probing", "announcing"}]

\* The members that are to be probed for, by the state of their announcer
Stage(states) == {p \in Pairs : NeedsProbe(p[1]) /\ ann[p].state \in states}

\* avahi_entry_is_registered(): the record is defended and answered.
IsRegistered(p) ==
    \/ ann[p].state \in {"announcing", "established"}
    \/ ann[p].state = "waiting" /\ "unique" \notin flags[p[1]]

\* avahi_entry_is_probing()
IsProbing(p) ==
    \/ ann[p].state = "probing"
    \/ ann[p].state = "waiting" /\ "unique" \in flags[p[1]]

\* new_announcer() for the pairs P: only where there is none yet.
Missing(P) == {p \in P : ann[p] = NoAnnouncer}
WithAnnouncers(P, g) ==
    [p \in Pairs |-> IF p \in Missing(P) THEN StartOver(InitialState(p[1], g))
                     ELSE ann[p]]
NewProbing(P) == Cardinality({p \in Missing(P) : NeedsProbe(p[1])})

\* next_state() of an announcer that announces: one response is sent.
Announced(a) ==
    IF a.n + 1 >= 4 THEN [state |-> "established", n |-> a.n + 1, timer |-> FALSE]
    ELSE [state |-> "announcing", n |-> a.n + 1, timer |-> TRUE]

\* An announcer that waited and may announce now: at once, or after the jitter.
Released(a, immediately) ==
    IF a.state # "waiting" THEN a
    ELSE IF immediately
         THEN Announced([state |-> "announcing", n |-> 1, timer |-> FALSE])
         ELSE [state |-> "announcing", n |-> 0, timer |-> TRUE]

\* avahi_s_entry_group_change_state(): leaving the registering state frees the
\* holdoff timer.
ChangeState(state) ==
    /\ group' = state
    /\ holdoff' = (holdoff /\ ~(group = "registering" /\ state # "registering"))

\* avahi_s_entry_group_check_probed() with n_probing np and announcers an: the
\* group is established when no member is probing any more; pending says
\* whether the holdoff timer of a group that is not stays set.
CheckProbed(immediately, np, an, pending) ==
    /\ nProbing' = np
    /\ IF np = 0
       THEN /\ ChangeState("established")
            /\ ann' = [p \in Pairs |-> Released(an[p], immediately)]
       ELSE /\ group' = "registering"
            /\ holdoff' = pending
            /\ ann' = an

-----------------------------------------------------------------------------
(* Timeouts: elapse_announce() and next_state().                           *)

\* A probe is posted and the next one scheduled.
PostProbe(p) ==
    /\ ann[p].timer /\ ann[p].state = "probing" /\ ann[p].n < 4
    /\ ann' = [ann EXCEPT ![p].n = @ + 1]
    /\ probes' = [probes EXCEPT ![p] = @ + 1]
    /\ UNCHANGED <<alive, group, nProbing, holdoff, tried, live, flags, up, events>>

\* Mutant: two probes are taken for enough.
ProbingDoneEarly(p) ==
    /\ ann[p].timer /\ ann[p].state = "probing" /\ ann[p].n >= 3
    /\ IF group = "registering"
       THEN CheckProbed(TRUE, Dec(nProbing),
                [ann EXCEPT ![p].state = "waiting", ![p].timer = FALSE], holdoff)
       ELSE /\ nProbing' = Dec(nProbing)
            /\ ann' = [ann EXCEPT ![p] = Announced(StartOver("announcing"))]
            /\ UNCHANGED <<group, holdoff>>
    /\ UNCHANGED <<alive, tried, live, flags, up, probes, events>>

\* Mutant: the last member to be probed does not look at the group.
ProbingDoneUnchecked(p) ==
    /\ ann[p].timer /\ ann[p].state = "probing" /\ ann[p].n >= 4
    /\ nProbing' = Dec(nProbing)
    /\ ann' = [ann EXCEPT ![p] =
                IF group = "registering"
                THEN [state |-> "waiting", n |-> 4, timer |-> FALSE]
                ELSE Announced(StartOver("announcing"))]
    /\ UNCHANGED <<alive, group, holdoff, tried, live, flags, up, probes, events>>

\* Mutant: who is probed does not wait for the others.
ProbingDoneAlone(p) ==
    /\ ann[p].timer /\ ann[p].state = "probing" /\ ann[p].n >= 4
    /\ LET an == [ann EXCEPT ![p] = Announced(StartOver("announcing"))] IN
       IF group = "registering" THEN CheckProbed(TRUE, Dec(nProbing), an, holdoff)
       ELSE nProbing' = Dec(nProbing) /\ ann' = an /\ UNCHANGED <<group, holdoff>>
    /\ UNCHANGED <<alive, tried, live, flags, up, probes, events>>

\* Probing is over.  While the group registers the announcer waits, and the
\* last one to be probed establishes the group; otherwise it announces.
ProbingDone(p) ==
    /\ ann[p].timer /\ ann[p].state = "probing" /\ ann[p].n >= 4
    /\ IF group = "registering"
       THEN CheckProbed(TRUE, Dec(nProbing),
                [ann EXCEPT ![p].state = "waiting", ![p].timer = FALSE], holdoff)
       ELSE /\ nProbing' = Dec(nProbing)
            /\ ann' = [ann EXCEPT ![p] = Announced(StartOver("announcing"))]
            /\ UNCHANGED <<group, holdoff>>
    /\ UNCHANGED <<alive, tried, live, flags, up, probes, events>>

Announce(p) ==
    /\ ann[p].timer /\ ann[p].state = "announcing"
    /\ ann' = [ann EXCEPT ![p] = Announced(@)]
    /\ UNCHANGED <<alive, group, nProbing, holdoff, tried, live, flags, up,
                   probes, events>>

-----------------------------------------------------------------------------
(* The application's calls.                                                *)

\* server_add_internal() for a new record; avahi_announce_entry() does nothing
\* as long as the group is not committed.
AddEntry(e, f) ==
    /\ alive /\ group \in {"uncommitted", "collision"}
    /\ e \notin live
    /\ live' = live \cup {e}
    /\ flags' = [flags EXCEPT ![e] = f]
    /\ UNCHANGED <<alive, group, nProbing, holdoff, tried, up, ann, probes, events>>

\* entry_group_commit_real(): avahi_announce_group() and then check_probed().
CommitReal ==
    LET P == live \X up IN
    /\ CheckProbed(FALSE, Plus(nProbing, NewProbing(P)),
                   WithAnnouncers(P, "registering"), FALSE)
    /\ probes' = [p \in Pairs |-> IF p \in Missing(P) THEN 0 ELSE probes[p]]
    /\ tried' = TRUE
    /\ UNCHANGED <<alive, live, flags, up, events>>

CanCommit ==
    alive /\ group \in {"uncommitted", "collision"} /\ live # {}

\* avahi_s_entry_group_commit() when the holdoff time has passed, as it always
\* has the first time.
Commit == CanCommit /\ CommitReal

\* avahi_s_entry_group_commit() soon after the last one.
CommitHeldOff ==
    /\ CanCommit
    /\ tried
    /\ holdoff' = TRUE
    /\ group' = "registering"
    /\ UNCHANGED <<alive, nProbing, tried, live, flags, up, ann, probes, events>>

\* entry_group_register_time_event_callback()
HoldoffElapsed == holdoff /\ CommitReal

\* avahi_goodbye_entry(remove = 1) for every entry that is not dead, which is
\* then dead.
AllWithdrawn ==
    /\ live' = {}
    /\ ann' = [p \in Pairs |-> NoAnnouncer]
    /\ probes' = [p \in Pairs |-> 0]

\* avahi_s_entry_group_reset()
Reset ==
    /\ alive
    /\ AllWithdrawn
    /\ nProbing' = 0
    /\ ChangeState("uncommitted")
    /\ UNCHANGED <<alive, tried, flags, up, events>>

\* avahi_s_entry_group_free(); the state and the counter stay as they are.
Free ==
    /\ alive
    /\ AllWithdrawn
    /\ alive' = FALSE /\ holdoff' = FALSE
    /\ UNCHANGED <<group, nProbing, tried, flags, up, events>>

\* avahi_s_entry_group_new() for the next service.
New ==
    /\ ~alive
    /\ alive' = TRUE /\ group' = "uncommitted" /\ nProbing' = 0 /\ tried' = FALSE
    /\ UNCHANGED <<holdoff, live, flags, up, ann, probes, events>>

\* What reannounce() makes of an announcer of e.
Reannounced(e, a) ==
    IF a.state = "none" THEN a
    ELSE StartOver(
        IF a.state = "probing" \/ (a.state = "waiting" /\ NeedsProbe(e)) THEN "probing"
        ELSE IF a.state = "waiting" THEN "waiting"
        ELSE IF "noannounce" \in flags[e] THEN "established" ELSE "announcing")

\* Mutant: a record that waits after its probes goes back to probing uncounted.
UpdateUncounted(e) ==
    /\ alive /\ e \in live /\ events < MaxEvents
    /\ events' = events + 1
    /\ ann' = [p \in Pairs |-> IF p[1] = e THEN Reannounced(e, ann[p]) ELSE ann[p]]
    /\ probes' = [p \in Pairs |-> IF p[1] = e /\ ann'[p].state = "probing"
                                  THEN 0 ELSE probes[p]]
    /\ UNCHANGED <<alive, group, nProbing, holdoff, tried, live, flags, up>>

\* server_add_internal() with AVAHI_PUBLISH_UPDATE and new data: the entry is
\* reannounced on every interface.  Callers repeat the flags of the entry.
Update(e) ==
    /\ alive /\ e \in live /\ events < MaxEvents
    /\ events' = events + 1
    /\ ann' = [p \in Pairs |-> IF p[1] = e THEN Reannounced(e, ann[p]) ELSE ann[p]]
    /\ nProbing' = Plus(nProbing, Cardinality(Probing(ann') \ Probing(ann)))
    /\ probes' = [p \in Pairs |-> IF p[1] = e /\ ann'[p].state = "probing"
                                  THEN 0 ELSE probes[p]]
    /\ UNCHANGED <<alive, group, holdoff, tried, live, flags, up>>

-----------------------------------------------------------------------------
(* The network.                                                            *)

\* avahi_interface_check_relevant(), interface now relevant:
\* avahi_announce_interface().
InterfaceUp(i) ==
    LET P == IF IsCommited(group) THEN live \X {i} ELSE {} IN
    /\ i \notin up /\ events < MaxEvents
    /\ events' = events + 1
    /\ up' = up \cup {i}
    /\ ann' = WithAnnouncers(P, group)
    /\ nProbing' = Plus(nProbing, NewProbing(P))
    /\ probes' = [p \in Pairs |-> IF p \in Missing(P) THEN 0 ELSE probes[p]]
    /\ UNCHANGED <<alive, group, holdoff, tried, live, flags>>

\* avahi_goodbye_interface(remove = 1): the announcers of the interface go.
WithoutInterface(i) ==
    [p \in Pairs |-> IF p[2] = i THEN NoAnnouncer ELSE ann[p]]

\* avahi_interface_check_relevant(), no longer relevant: the announcers of the
\* interface are freed, also those that n_probing counts.
InterfaceDown(i) ==
    /\ i \in up /\ events < MaxEvents
    /\ nProbing <= MaxProbing
    /\ events' = events + 1
    /\ up' = up \ {i}
    /\ ann' = WithoutInterface(i)
    /\ probes' = [p \in Pairs |-> IF p[2] = i THEN 0 ELSE probes[p]]
    /\ UNCHANGED <<alive, group, nProbing, holdoff, tried, live, flags>>

\* withdraw_entry(): the whole group collides.
Withdraw ==
    /\ AllWithdrawn
    /\ nProbing' = 0
    /\ ChangeState("collision")
    /\ UNCHANGED <<alive, tried, flags, up>>

\* handle_conflict(): another host has the name of a registered record, which
\* returns to its initial state (avahi_entry_return_to_initial_state()).
ConflictRegistered(p) ==
    /\ IsRegistered(p) /\ events < MaxEvents
    /\ events' = events + 1
    /\ ann' = [ann EXCEPT ![p] = StartOver(InitialState(p[1], group))]
    /\ nProbing' = IF NeedsProbe(p[1]) THEN Plus(nProbing, 1) ELSE nProbing
    /\ probes' = [probes EXCEPT ![p] = 0]
    /\ UNCHANGED <<alive, group, holdoff, tried, live, flags, up>>

\* handle_conflict() for a record that is not registered yet, and
\* incoming_probe() when the other host's probe wins.
ConflictProbing(p) ==
    /\ IsProbing(p) /\ events < MaxEvents
    /\ events' = events + 1
    /\ Withdraw

-----------------------------------------------------------------------------
Next ==
    \/ \E e \in Entries : Update(e) \/ \E f \in FlagChoices : AddEntry(e, f)
    \/ Commit
    \/ CommitHeldOff
    \/ HoldoffElapsed
    \/ Reset
    \/ Free
    \/ New
    \/ \E i \in Ifaces : InterfaceUp(i) \/ InterfaceDown(i)
    \/ \E p \in Pairs :
        \/ PostProbe(p) \/ ProbingDone(p) \/ Announce(p)
        \/ ConflictRegistered(p) \/ ConflictProbing(p)

\* The event loop dispatches every timer that stays set.
Fairness ==
    /\ WF_vars(HoldoffElapsed)
    /\ \A p \in Pairs : WF_vars(PostProbe(p) \/ ProbingDone(p) \/ Announce(p))

Spec == Init /\ [][Next]_vars
FairSpec == Spec /\ Fairness

-----------------------------------------------------------------------------
(* Properties.                                                             *)

\* n_probing counts every announcer that probes, so that its decrement at the
\* end of probing (and the assertion in front of it) never meets 0.
CounterCoversProbing == alive => nProbing >= Cardinality(Probing(ann))

\* A record that is to be probed for is defended and answered on an interface
\* only after three probes on that interface since it last started over,
\* whatever updates, conflicts and interface changes come in between.
ProbedBeforeRegistered ==
    \A p \in Pairs : NeedsProbe(p[1]) /\ IsRegistered(p) => probes[p] = 3

\* The counter is also bounded: it runs ahead of the announcers that probe by
\* what interfaces that went down left behind, so it never wraps.
CounterInv ==
    alive => /\ nProbing >= Cardinality(Probing(ann))
             /\ nProbing <= MaxProbing + Cardinality(Probing(ann))

\* Where an announcer stands: n counts its probes, it announces at most three
\* times, and it leaves the probing state for good only after three probes.
ProbeInv ==
    \A p \in Pairs :
        /\ ann[p].state = "probing" => ann[p].n \in 1..4 /\ probes[p] = ann[p].n - 1
        /\ ann[p].state = "announcing" => ann[p].n <= 3
        /\ ann[p].state \in {"waiting", "announcing", "established"}
               /\ NeedsProbe(p[1]) => probes[p] = 3

\* Only a live entry of a live group has announcers, and only a live group has
\* entries and a holdoff timer.
LiveInv ==
    /\ \A p \in Pairs : ann[p].state # "none" => p[1] \in live
    /\ ~alive => live = {} /\ ~holdoff

\* Only a committed group has announcers, one waits only while the group registers,
\* and a name that is to be probed for is claimed only by an established group.
StageInv ==
    /\ \A p \in Pairs :
          /\ ann[p].state # "none" => IsCommited(group)
          /\ ann[p].state = "probing" => NeedsProbe(p[1])
          /\ ann[p].state = "waiting" => group = "registering"
    /\ Stage({"announcing", "established"}) # {} => group = "established"
    /\ holdoff => group = "registering"

\* The inductive invariant of module EntryGroupProofs, and StageInv with it.
IInv == TypeOK /\ CounterInv /\ ProbeInv /\ LiveInv

\* The names of a group that are to be probed for are claimed together, as
\* Publication promises: none before the last of them is probed on every
\* interface, whatever interfaces, updates and conflicts come in between.
Promise == INSTANCE Publication
           WITH Members <- Pairs, status <- IF alive THEN group ELSE "freed",
                probing <- Stage({"probing"}), waiting <- Stage({"waiting"}),
                claimed <- Stage({"announcing", "established"})
ImplementsPublication == Promise!PubSpec

\* The group's answer arrives: unless an announcer was lost while it probed, a
\* committed group does not stay registering.
Exact == nProbing = Cardinality(Probing(ann))
GroupSettles ==
    [](alive => Exact) => (group = "registering" ~> ~alive \/ group # "registering")

\* The unconditional form, as long as some interface stays up:
\* avahi_s_entry_group_check_probed() establishes the group once "all group
\* members have been probed".
EveryGroupSettles ==
    <>[](up # {}) => (group = "registering" ~> ~alive \/ group # "registering")
=============================================================================
