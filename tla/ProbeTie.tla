------------------------------ MODULE ProbeTie ------------------------------
(***************************************************************************)
(* Two hosts probe for the same name at the same time: incoming_probe() of *)
(* avahi-core/server.c on both of them.  Each compares every record of the *)
(* other's probe with its own of that key and withdraws unless one of its  *)
(* own is the same or greater.  The name may have several keys: that of a  *)
(* service has an SRV and a TXT record, both unique.  All records of a     *)
(* host are of one entry group, they are being probed for, and the group   *)
(* is withdrawn as a whole (withdraw_rrset(), withdraw_entry()).           *)
(*                                                                         *)
(* What is compared, and how, is left open: module Records has the         *)
(* comparison of rr.c.                                                     *)
(***************************************************************************)
EXTENDS Integers, FiniteSets

CONSTANTS
    ProbeHosts,     \* the two hosts
    RRsets,         \* a sequence of sets of records to probe for, of one name each
    RecordKey(_),   \* the key of a record
    Valid(_),       \* avahi_record_is_valid()
    Compare(_, _),  \* avahi_record_lexicographical_compare(): -1, 0 or 1
    Agree(_, _)     \* avahi_record_equal_no_ttl()

\* Entries are valid when they are added (entry.c:213).
Candidates(n) == {r \in RRsets[n] : Valid(r)}

OfKey(records, k) == {r \in records : RecordKey(r) = k}

\* Records of one key are compared by a total order, up to records that are equal.
ASSUME TieAssumption ==
    /\ \A h, o, q \in ProbeHosts : h # o /\ h # q => o = q
    /\ \A n \in DOMAIN RRsets :
         /\ IsFiniteSet(RRsets[n])
         /\ \A a, b \in Candidates(n) : RecordKey(a) = RecordKey(b) =>
              /\ Compare(a, b) \in {-1, 0, 1} /\ Compare(a, b) = - Compare(b, a)
              /\ Compare(a, b) = 0 => Agree(a, b)
         /\ \A a, b, c \in Candidates(n) : RecordKey(a) = RecordKey(b) /\ RecordKey(b) = RecordKey(c) =>
              (Compare(a, b) >= 0 /\ Compare(b, c) >= 0 => Compare(a, c) >= 0)

VARIABLES rrset,  \* what each host probes for
          heard,  \* the other host's records it has received so far
          lost    \* the key over which it withdrew, or none: a set

probeTieVars == <<rrset, heard, lost>>

TieInit ==
    /\ \E n \in DOMAIN RRsets : rrset \in [ProbeHosts -> (SUBSET Candidates(n)) \ {{}}]
    /\ heard = [h \in ProbeHosts |-> {}]
    /\ lost = [h \in ProbeHosts |-> {}]

\* Mutant: a host withdraws as soon as one of its records is the smaller.
IncomingProbeLostFirst(h, r) ==
    /\ r \notin heard[h]
    /\ heard' = [heard EXCEPT ![h] = @ \cup {r}]
    /\ LET own == OfKey(rrset[h], RecordKey(r))
           ours == \E e \in own : Compare(e, r) = 0
           smaller == \E e \in own : Compare(e, r) < 0
       IN lost' = IF lost[h] # {} \/ ours \/ ~ smaller THEN lost
                  ELSE [lost EXCEPT ![h] = {RecordKey(r)}]
    /\ UNCHANGED rrset

\* incoming_probe() for one record of the other host's probe, which may be
\* under way still when that host withdraws.  Entries that were withdrawn are
\* dead and are not looked at, whatever key they are of.
IncomingProbe(h, r) ==
    /\ r \notin heard[h]
    /\ heard' = [heard EXCEPT ![h] = @ \cup {r}]
    /\ LET own == OfKey(rrset[h], RecordKey(r))
           ours == \E e \in own : Compare(e, r) = 0
           won == \E e \in own : Compare(e, r) > 0
       IN lost' = IF lost[h] # {} \/ own = {} \/ ours \/ won THEN lost
                  ELSE [lost EXCEPT ![h] = {RecordKey(r)}]
    /\ UNCHANGED rrset

TieNext == \E h, o \in ProbeHosts : \E r \in rrset[o] : h # o /\ IncomingProbe(h, r)

TieSpec == TieInit /\ [][TieNext]_probeTieVars

-----------------------------------------------------------------------------
\* Over one key never both hosts withdraw (over two both may, each losing one).
\* When each has heard the other and neither withdrew, they have on every key
\* they share a record in common by the equality that handle_conflict() uses, so
\* that the announcements that follow are no conflict.
OneProbeLoses ==
    /\ \A h, o \in ProbeHosts : h # o => lost[h] \cap lost[o] = {}
    /\ (\A h, o \in ProbeHosts : h # o => lost[h] = {} /\ heard[h] = rrset[o]) =>
          \A h, o \in ProbeHosts : h # o =>
              \A r \in rrset[h], s \in rrset[o] : RecordKey(r) = RecordKey(s) =>
                  \E a \in OfKey(rrset[h], RecordKey(r)), b \in OfKey(rrset[o], RecordKey(r)) :
                      Agree(a, b)

\* The inductive invariant of module ServerProofs: who withdrew over a key has heard
\* a record above all of its own, and who did not withdraw has one to match whatever
\* it has heard.
TieInv ==
    /\ \E n \in DOMAIN RRsets :
         /\ rrset \in [ProbeHosts -> (SUBSET Candidates(n)) \ {{}}]
         /\ heard \in [ProbeHosts -> SUBSET Candidates(n)]
         /\ lost \in [ProbeHosts -> SUBSET {RecordKey(r) : r \in Candidates(n)}]
    /\ \A h \in ProbeHosts : \A k \in lost[h] :
         /\ OfKey(rrset[h], k) # {}
         /\ \E o \in ProbeHosts \ {h} : \E r \in OfKey(rrset[o], k) :
                \A e \in OfKey(rrset[h], k) : Compare(e, r) < 0
    /\ \A h \in ProbeHosts : lost[h] = {} =>
         \A r \in heard[h] : LET own == OfKey(rrset[h], RecordKey(r)) IN
             own # {} => \E e \in own : Compare(e, r) >= 0
=============================================================================
