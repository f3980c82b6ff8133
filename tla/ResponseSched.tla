---------------------------- MODULE ResponseSched ----------------------------
(***************************************************************************)
(* The answers of one interface (avahi-core/response-sched.c).  An answer  *)
(* waits a little; it is dropped if the only host that asked says it knows *)
(* it, done if another host multicasts it first, and refused if it was     *)
(* sent a moment ago.  Whatever fits travels with the answer that is due,  *)
(* and so do its auxiliary records.                                        *)
(*                                                                         *)
(* Durations are abstract: a timer that is set may fire at any time, which *)
(* also covers the outdated entries the find functions drop.               *)
(***************************************************************************)
EXTENDS Naturals, FiniteSets, FiniteSetsExt

CONSTANTS
    ResponseRecords,    \* the records this host answers with
    Askers,             \* the other hosts, who ask
    Ttls,               \* the TTLs of records; 0 is a goodbye
    Unique,             \* the records published with the unique flag
    Aux,                \* the auxiliary records of a record
    MaxSuppressed       \* bound: suppressed answers at a time

Announcement == "announcement"      \* a post without a querier

ASSUME ResponseSchedAssumption ==
    /\ IsFiniteSet(ResponseRecords) /\ IsFiniteSet(Askers) /\ Announcement \notin Askers
    /\ Ttls \subseteq Nat
    /\ Unique \subseteq ResponseRecords /\ MaxSuppressed \in Nat
    /\ Aux \in [ResponseRecords -> SUBSET ResponseRecords]

VARIABLES
    rjobs,      \* s->jobs: scheduled answers, [ttl, flush, querier]
    rhist,      \* s->history: answers seen on the wire, [ttl, flush]
    suppressed, \* s->suppressed: the TTL of the answer a host said it knows
    sending,    \* send_response_packet() or force() is filling a packet
    owed        \* history: who was promised the answer and has not got it

responseVars == <<rjobs, rhist, suppressed, sending, owed>>

ResponseInit ==
    /\ rjobs = <<>> /\ rhist = <<>> /\ suppressed = <<>> /\ sending = "no"
    /\ owed = [r \in ResponseRecords |-> {}]

Drop(f, S) == [x \in DOMAIN f \ S |-> f[x]]
Assign(f, x, v) == [y \in DOMAIN f \union {x} |-> IF y = x THEN v ELSE f[y]]

\* A record of that TTL makes sending one of this TTL superfluous.
Covers(that, this) == (that = 0) = (this = 0) /\ that >= this \div 2

\* avahi_response_scheduler_post(): what it does to a scheduler's jobs, history
\* and debts s when each record of rs is posted for querier q.  A post reads and
\* changes its own record alone, so the order does not matter.
Refused(s, r, ttl, flush, q) ==
    \/ <<r, q>> \in DOMAIN suppressed /\ Covers(suppressed[<<r, q>>], ttl)
    \/ /\ r \in DOMAIN s.hist /\ Covers(s.hist[r].ttl, ttl)
       /\ s.hist[r].flush \/ ~ flush

PostedAnswer(s, r, ttl, q) ==
    IF r \in DOMAIN s.jobs
    THEN [ttl |-> ttl, flush |-> r \in Unique \/ s.jobs[r].flush,
          querier |-> IF q = s.jobs[r].querier THEN q ELSE Announcement]
    ELSE [ttl |-> ttl, flush |-> r \in Unique, querier |-> q]

PostedResponse(s, rs, ttl, q) ==
    LET new == {r \in rs : ~ Refused(s, r, ttl, r \in Unique, q)}
    IN [jobs |-> [r \in DOMAIN s.jobs \union new |->
                    IF r \in new THEN PostedAnswer(s, r, ttl, q) ELSE s.jobs[r]],
        hist |-> Drop(s.hist, new),
        owed |-> [r \in ResponseRecords |->
                    IF r \in new THEN s.owed[r] \union {q} ELSE s.owed[r]]]

State == [jobs |-> rjobs, hist |-> rhist, owed |-> owed]
Becomes(s) == rjobs' = s.jobs /\ rhist' = s.hist /\ owed' = s.owed

\* job_mark_done()
ResponseDone(s, r) ==
    [jobs |-> Drop(s.jobs, {r}),
     hist |-> Assign(s.hist, r, [ttl |-> s.jobs[r].ttl, flush |-> s.jobs[r].flush]),
     owed |-> [s.owed EXCEPT ![r] = {}]]

PostResponse(r, ttl, q) ==
    /\ sending = "no"
    /\ Becomes(PostedResponse(State, {r}, ttl, q))
    /\ UNCHANGED <<suppressed, sending>>

-----------------------------------------------------------------------------
(* send_response_packet() and elapse_callback()                            *)

\* packet_add_response_job(): enumerate_aux_records_callback() posts each
\* auxiliary record as the server holds it, then the job is done.
AddToPacket(r) ==
    Becomes(ResponseDone(
        PostedResponse(State, Aux[r], Max(Ttls), rjobs[r].querier), r))

ResponseElapse(r) ==
    /\ sending = "no" /\ r \in DOMAIN rjobs
    /\ AddToPacket(r) /\ sending' = "packet"
    /\ UNCHANGED suppressed

FillPacket(r) ==
    /\ sending # "no" /\ r \in DOMAIN rjobs
    /\ AddToPacket(r)
    /\ UNCHANGED <<sending, suppressed>>

\* The jobs that are left do not fit; force() goes on with another packet.
SendResponse ==
    /\ sending = "packet" \/ (sending = "force" /\ rjobs = <<>>)
    /\ sending' = "no"
    /\ UNCHANGED <<rjobs, rhist, suppressed, owed>>

\* Not even a packet of its own is large enough: "Record too large, cannot send".
ResponseTooLarge(r) ==
    /\ sending = "no" /\ r \in DOMAIN rjobs
    /\ Becomes(ResponseDone(State, r))
    /\ UNCHANGED <<suppressed, sending>>

\* avahi_response_scheduler_force(): packets until no job is left.
ForceResponses ==
    /\ sending = "no" /\ rjobs # <<>> /\ sending' = "force"
    /\ UNCHANGED <<rjobs, rhist, suppressed, owed>>

\* elapse_callback() of an entry of the history or of a suppressed answer.
ForgetResponse ==
    /\ sending = "no"
    /\ \/ \E r \in DOMAIN rhist : rhist' = Drop(rhist, {r}) /\ UNCHANGED suppressed
       \/ \E x \in DOMAIN suppressed :
             suppressed' = Drop(suppressed, {x}) /\ UNCHANGED rhist
    /\ UNCHANGED <<rjobs, sending, owed>>

-----------------------------------------------------------------------------
(* What the network says                                                   *)

\* avahi_response_scheduler_incoming(): another host multicasts the record.  An
\* answer it does not cover stays scheduled.
IncomingResponse(r, ttl, flush) ==
    /\ sending = "no"
    /\ IF r \in DOMAIN rjobs
       THEN IF (~ rjobs[r].flush \/ flush) /\ Covers(ttl, rjobs[r].ttl)
            THEN Becomes(ResponseDone(State, r))
            ELSE UNCHANGED <<rjobs, rhist, owed>>
       ELSE /\ rhist' = Assign(rhist, r, [ttl |-> ttl, flush |-> flush])
            /\ UNCHANGED <<rjobs, owed>>
    /\ UNCHANGED <<suppressed, sending>>

\* avahi_response_scheduler_suppress(): host q says it knows the answer.  The
\* job is dropped if q alone asked for it.
KnowsEnough(r, ttl) == r \in DOMAIN rjobs /\ Covers(ttl, rjobs[r].ttl)
Suppressed(r, q, ttl) == Assign(suppressed, <<r, q>>, ttl)

\* Mutant: whoever asked last is taken for the only one.
SuppressUnchecked(r, q, ttl) ==
    /\ sending = "no"
    /\ rjobs' = IF KnowsEnough(r, ttl) THEN Drop(rjobs, {r}) ELSE rjobs
    /\ owed' = IF KnowsEnough(r, ttl) THEN [owed EXCEPT ![r] = @ \ {q}] ELSE owed
    /\ suppressed' = Suppressed(r, q, ttl)
    /\ Cardinality(DOMAIN suppressed') <= MaxSuppressed
    /\ UNCHANGED <<rhist, sending>>

Suppress(r, q, ttl) ==
    /\ sending = "no"
    /\ rjobs' = IF KnowsEnough(r, ttl) /\ rjobs[r].querier = q
                THEN Drop(rjobs, {r}) ELSE rjobs
    /\ owed' = IF KnowsEnough(r, ttl) THEN [owed EXCEPT ![r] = @ \ {q}] ELSE owed
    /\ suppressed' = Suppressed(r, q, ttl)
    /\ Cardinality(DOMAIN suppressed') <= MaxSuppressed
    /\ UNCHANGED <<rhist, sending>>

\* avahi_response_scheduler_clear(), when the interface goes down.
ClearResponses ==
    /\ sending = "no"
    /\ rjobs' = <<>> /\ rhist' = <<>> /\ suppressed' = <<>>
    /\ owed' = [r \in ResponseRecords |-> {}]
    /\ UNCHANGED sending

ResponseNext ==
    \/ \E r \in ResponseRecords :
          \/ ResponseElapse(r) \/ FillPacket(r) \/ ResponseTooLarge(r)
          \/ \E ttl \in Ttls, flush \in BOOLEAN : IncomingResponse(r, ttl, flush)
          \/ \E ttl \in Ttls, q \in Askers \union {Announcement} : PostResponse(r, ttl, q)
          \/ \E ttl \in Ttls, q \in Askers : Suppress(r, q, ttl)
    \/ SendResponse \/ ForceResponses \/ ForgetResponse \/ ClearResponses

ResponseSpec == ResponseInit /\ [][ResponseNext]_responseVars

-----------------------------------------------------------------------------
(* Known-answer suppression costs nobody else the answer: while a host that
   asked, or an announcement, still waits for a record, the record is scheduled.
   A scheduled record is not also in the history, where it would refuse its own
   update. *)
OwedAnswersScheduled ==
    \A r \in ResponseRecords :
       /\ owed[r] # {} => r \in DOMAIN rjobs
       /\ r \in DOMAIN rjobs => r \notin DOMAIN rhist

(* An answer that one host alone asked for is owed to nobody else: only then may
   that host's knowing it drop the job. *)
SoleQuerier ==
    \A r \in DOMAIN rjobs :
       rjobs[r].querier # Announcement => owed[r] \subseteq {rjobs[r].querier}

\* The inductive invariant of module QuerierProofs.
ResponseInv ==
    /\ DOMAIN rjobs \subseteq ResponseRecords
    /\ \A r \in DOMAIN rjobs : rjobs[r].querier \in Askers \union {Announcement}
    /\ owed \in [ResponseRecords -> SUBSET (Askers \union {Announcement})]
    /\ OwedAnswersScheduled /\ SoleQuerier
=============================================================================
