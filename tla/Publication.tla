----------------------------- MODULE Publication -----------------------------
(***************************************************************************)
(* What an entry group promises about the names in it that must be unique  *)
(* (avahi-core/announce.c): they are claimed together.  A member is one    *)
(* such name on one interface.  It is probed for, waits for the others,    *)
(* and is claimed, that is announced, answered and defended, when the last *)
(* of them is probed, which establishes the group.  A member that comes    *)
(* later, or must be probed for again, is claimed after its own probes     *)
(* while the group stays established.  If one of them is found to be taken *)
(* while it is probed for, all are given up at once.                       *)
(*                                                                         *)
(* Module EntryGroup is shown to implement this.                           *)
(***************************************************************************)
CONSTANT Members

VARIABLES
    status,     \* "uncommitted", "registering", "established", "collision" or "freed"
    probing, waiting, claimed   \* the members at each stage

pubVars == <<status, probing, waiting, claimed>>

Nobody == probing' = {} /\ waiting' = {} /\ claimed' = {}
Committed == status \in {"registering", "established"}

PubInit == status = "uncommitted" /\ probing = {} /\ waiting = {} /\ claimed = {}

\* Committing, or waiting for the time to do so
Register ==
    /\ status \in {"uncommitted", "collision"} /\ status' = "registering"
    /\ probing' \subseteq Members
    /\ UNCHANGED <<waiting, claimed>>

\* Members are probed for, for the first time or again.
Probe(P) ==
    /\ Committed
    /\ probing' = probing \union P /\ waiting' = waiting \ P /\ claimed' = claimed \ P
    /\ UNCHANGED status

\* One is done, and waits for the others.
Probed(p) ==
    /\ status = "registering" /\ p \in probing
    /\ probing' = probing \ {p} /\ waiting' = waiting \union {p}
    /\ UNCHANGED <<status, claimed>>

\* The last one is done, or nobody had to be probed for.
Establish ==
    /\ status \in {"uncommitted", "collision", "registering"} /\ status' = "established"
    /\ \A p, q \in probing : p = q
    /\ probing' = {} /\ waiting' = {} /\ claimed' = waiting \union probing

\* One is done in a group that is established.
Claim(p) ==
    /\ status = "established" /\ p \in probing
    /\ probing' = probing \ {p} /\ claimed' = claimed \union {p}
    /\ UNCHANGED <<status, waiting>>

\* The interface of these members is gone.
Lose(P) ==
    /\ Committed
    /\ probing' = probing \ P /\ waiting' = waiting \ P /\ claimed' = claimed \ P
    /\ UNCHANGED status

\* A name is taken, or the group is reset or freed; a freed one is replaced.
GiveUp ==
    /\ \/ Committed /\ status' = "collision"
       \/ status # "freed" /\ status' \in {"uncommitted", "freed"}
       \/ status = "freed" /\ status' = "uncommitted"
    /\ Nobody

PubNext ==
    \/ Register \/ Establish \/ GiveUp
    \/ \E P \in SUBSET Members : Probe(P) \/ Lose(P)
    \/ \E p \in Members : Probed(p) \/ Claim(p)

PubSpec == PubInit /\ [][PubNext]_pubVars
=============================================================================
