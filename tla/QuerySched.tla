----------------------------- MODULE QuerySched -----------------------------
(***************************************************************************)
(* The questions of one interface (avahi-core/query-sched.c) and the       *)
(* queriers that post them (querier.c).  A question waits a little so that *)
(* others can share its packet; the same question of another host makes it *)
(* superfluous; a question asked a moment ago is refused; a querier that   *)
(* loses its last user takes its question back by id.                      *)
(*                                                                         *)
(* Durations are abstract: a timer that is set may fire at any time.  The  *)
(* outdated entry that find_history_job() drops is the entry whose timer   *)
(* fires just before.  An id is the smallest that nobody remembers, which  *)
(* is next_id++ up to renaming.                                            *)
(***************************************************************************)
EXTENDS Naturals, FiniteSets, FiniteSetsExt

CONSTANTS
    Keys,           \* the resource record keys asked for
    AnswersOf,      \* the cached records of a key, below half of their TTL
    AnswerSize,     \* the size of a record in a packet
    QuerySpace,     \* the room for known answers in a packet without questions
    MaxUsers,       \* bound: users of a querier
    MaxPosted       \* bound: n_posted

Answers == UNION {AnswersOf[k] : k \in Keys}

ASSUME QuerySchedAssumption ==
    /\ IsFiniteSet(Keys) /\ IsFiniteSet(Answers)
    /\ AnswerSize \in [Answers -> Nat \ {0}] /\ QuerySpace \in Nat
    /\ MaxUsers \in Nat /\ MaxPosted \in Nat

VARIABLES
    qjobs,      \* s->jobs: the scheduled job of a key, [id, n_posted], if any
    qhist,      \* s->history: the keys with a job that is done
    querier,    \* the querier of a key, [n_used, post_id], if any
    known,      \* s->known_answers
    qpacket,    \* the packet elapse_callback() is putting together, if any
    kaHistory,  \* history: known answers of this query: walked and appended
    asked       \* history: keys asked on the wire since their querier exists

queryVars == <<qjobs, qhist, querier, known, qpacket, kaHistory, asked>>

NoPacket == [empty |-> TRUE, space |-> -1]
Scheduled == DOMAIN qjobs
Queriers == DOMAIN querier

QueryInit ==
    /\ qjobs = <<>> /\ qhist = {} /\ querier = <<>> /\ known = {}
    /\ qpacket = NoPacket /\ kaHistory = [walked |-> {}, sent |-> {}] /\ asked = {}

-----------------------------------------------------------------------------
(* Nothing else runs while elapse_callback() builds its packets.           *)
Idle == qpacket = NoPacket

Without(f, S) == [k \in DOMAIN f \ S |-> f[k]]
With(f, k, v) == [j \in DOMAIN f \union {k} |-> IF j = k THEN v ELSE f[j]]

UsedIds == {qjobs[k].id : k \in Scheduled} \union {querier[k].id : k \in Queriers}
FreshId == Min((0..2 * Cardinality(Keys)) \ UsedIds)
NoId == 2 * Cardinality(Keys) + 1

\* job_new(), for a question that is scheduled.
NewJob == [id |-> FreshId, n |-> 1]

\* job_mark_done() for several keys.
MarkDone(ks) == qjobs' = Without(qjobs, ks) /\ qhist' = qhist \union ks

\* avahi_query_scheduler_post(): a question in the history is refused, one that
\* is scheduled already is shared.
Accepted(k) == k \notin qhist
PostedJob(k) == IF k \in Scheduled THEN [qjobs[k] EXCEPT !.n = @ + 1] ELSE NewJob
Post(k) ==
    /\ k \in Scheduled => qjobs[k].n < MaxPosted
    /\ qjobs' = IF Accepted(k) THEN With(qjobs, k, PostedJob(k)) ELSE qjobs
    /\ UNCHANGED qhist

\* The cache and the reflector post and keep no id.
PostAnonymous(k) ==
    /\ Idle /\ Post(k) /\ UNCHANGED <<querier, known, qpacket, kaHistory, asked>>

\* avahi_query_scheduler_incoming(): another host asks the question.
IncomingQuestion(k) ==
    /\ Idle /\ MarkDone({k}) /\ asked' = asked \union {k}
    /\ UNCHANGED <<querier, known, qpacket, kaHistory>>

\* elapse_callback() of a job that is done.
QueryHistoryElapse(k) ==
    /\ Idle /\ k \in qhist
    /\ qhist' = qhist \ {k}
    /\ UNCHANGED <<qjobs, querier, known, qpacket, kaHistory, asked>>

-----------------------------------------------------------------------------
(* elapse_callback() of a scheduled job: the question that is due and the  *)
(* others that fit, with their known answers in as many packets as needed. *)

\* known_answer_walk_callback(), with packet_add_query_job().
WalkKnownAnswers(ks) == known' = UNION {AnswersOf[k] : k \in ks}

QueryElapse(k) ==
    /\ Idle /\ k \in Scheduled
    /\ \E others \in SUBSET (Scheduled \ {k}), space \in 0..QuerySpace :
          /\ MarkDone({k} \union others)
          /\ asked' = asked \union {k} \union others
          /\ WalkKnownAnswers({k} \union others)
          /\ qpacket' = [empty |-> FALSE, space |-> space]
    /\ kaHistory' = [walked |-> known', sent |-> {}]
    /\ UNCHANGED querier

\* append_known_answers_and_send(): a record that fits, one that needs the next
\* packet, one that is too large for any.
AppendKnownAnswer(ka) ==
    /\ ~ Idle /\ ka \in known
    /\ \/ /\ AnswerSize[ka] <= qpacket.space
          /\ qpacket' = [empty |-> FALSE, space |-> qpacket.space - AnswerSize[ka]]
          /\ kaHistory' = [kaHistory EXCEPT !.sent = @ \union {ka}]
          /\ known' = known \ {ka}
       \/ /\ AnswerSize[ka] > qpacket.space /\ ~ qpacket.empty
          /\ qpacket' = [empty |-> TRUE, space |-> QuerySpace]
          /\ UNCHANGED <<known, kaHistory>>
       \/ /\ AnswerSize[ka] > qpacket.space /\ qpacket.empty
          /\ known' = known \ {ka}
          /\ UNCHANGED <<kaHistory, qpacket>>
    /\ UNCHANGED <<qjobs, qhist, querier, asked>>

SendQuery ==
    /\ ~ Idle /\ known = {}
    /\ qpacket' = NoPacket /\ kaHistory' = [walked |-> {}, sent |-> {}]
    /\ UNCHANGED <<qjobs, qhist, querier, known, asked>>

-----------------------------------------------------------------------------
(* querier.c and the interface                                             *)

\* avahi_query_scheduler_withdraw_by_id(): a job others posted too loses one
\* poster, and Withdrawn says whether it was freed.
JobsWithId(i) == {k \in Scheduled : qjobs[k].id = i}
Withdrawn(i) == \E k \in JobsWithId(i) : qjobs[k].n = 1
Withdraw(i) ==
    qjobs' = [k \in {j \in Scheduled : j \in JobsWithId(i) => qjobs[j].n > 1} |->
                IF k \in JobsWithId(i) THEN [qjobs[k] EXCEPT !.n = @ - 1] ELSE qjobs[k]]

\* A querier without users may be recycled: it keeps the id of its last post
\* and posts nothing.
AddUser(k) ==
    /\ Idle
    /\ IF k \in Queriers
       THEN /\ querier[k].used < MaxUsers
            /\ querier' = [querier EXCEPT ![k].used = @ + 1]
            /\ UNCHANGED <<qjobs, qhist, asked>>
       ELSE /\ Post(k)
            /\ querier' = With(querier, k,
                  [used |-> 1, id |-> IF Accepted(k) THEN PostedJob(k).id ELSE NoId])
            /\ asked' = IF Accepted(k) THEN asked \ {k} ELSE asked \union {k}
    /\ UNCHANGED <<known, qpacket, kaHistory>>

\* Mutant: a querier that loses a user withdraws although others remain.
RemoveUserWithdraws(k) ==
    /\ Idle /\ k \in Queriers /\ querier[k].used > 0
    /\ Withdraw(querier[k].id)
    /\ querier' = IF querier[k].used = 1 THEN Without(querier, {k})
                  ELSE [querier EXCEPT ![k].used = @ - 1]
    /\ UNCHANGED <<qhist, known, qpacket, kaHistory, asked>>

RemoveUser(k) ==
    /\ Idle /\ k \in Queriers /\ querier[k].used > 0
    /\ \/ /\ querier[k].used > 1
          /\ querier' = [querier EXCEPT ![k].used = @ - 1]
          /\ UNCHANGED qjobs
       \/ /\ querier[k].used = 1
          /\ Withdraw(querier[k].id)
          /\ querier' = IF Withdrawn(querier[k].id) THEN Without(querier, {k})
                        ELSE [querier EXCEPT ![k].used = 0]
    /\ UNCHANGED <<qhist, known, qpacket, kaHistory, asked>>

QuerierElapse(k) ==
    /\ Idle /\ k \in Queriers
    /\ \/ /\ querier[k].used = 0
          /\ querier' = Without(querier, {k})
          /\ UNCHANGED <<qjobs, qhist>>
       \/ /\ querier[k].used > 0
          /\ Post(k)
          /\ querier' = IF Accepted(k) THEN [querier EXCEPT ![k].id = PostedJob(k).id]
                        ELSE querier
    /\ UNCHANGED <<known, qpacket, kaHistory, asked>>

\* The interface goes down: avahi_query_scheduler_clear() and the queriers.
ClearQueries ==
    /\ Idle
    /\ qjobs' = <<>> /\ qhist' = {} /\ querier' = <<>>
    /\ UNCHANGED <<known, qpacket, kaHistory, asked>>

QueryNext ==
    \/ \E k \in Keys :
          \/ PostAnonymous(k) \/ IncomingQuestion(k) \/ QueryHistoryElapse(k)
          \/ QueryElapse(k) \/ AddUser(k) \/ RemoveUser(k) \/ QuerierElapse(k)
    \/ \E ka \in Answers : AppendKnownAnswer(ka)
    \/ SendQuery \/ ClearQueries

QuerySpec == QueryInit /\ [][QueryNext]_queryVars

-----------------------------------------------------------------------------
(* Whoever uses a querier has the question queued, or on the wire since the
   querier exists: neither a shared job that another poster takes back, nor
   duplicate suppression, nor a recycled querier leaves a user unasked.  And no
   known answer that fits a packet is lost where one packet ends and the next
   begins. *)
QuestionsKept ==
    /\ \A k \in Queriers : querier[k].used > 0 => k \in Scheduled \union asked
    /\ \A k \in Scheduled : k \notin qhist /\ qjobs[k].n >= 1
    /\ ~ Idle /\ known = {} =>
          {ka \in kaHistory.walked : AnswerSize[ka] <= QuerySpace} \subseteq kaHistory.sent

\* Jobs have different ids, and the id a querier remembers is of no other key's
\* job, so that withdrawing by id takes back nobody else's question.
IdInv ==
    /\ \A k \in Scheduled : qjobs[k].id \in 0..2 * Cardinality(Keys)
    /\ \A j, k \in Scheduled : qjobs[j].id = qjobs[k].id => j = k
    /\ \A k \in Queriers, j \in Scheduled : querier[k].id = qjobs[j].id => j = k

\* Every querier, also one without users that may be recycled, has its question
\* queued or asked.
JobInv ==
    /\ Scheduled \subseteq Keys /\ Queriers \subseteq Keys
    /\ \A k \in Scheduled : qjobs[k].n \in Nat /\ qjobs[k].n >= 1 /\ k \notin qhist
    /\ \A k \in Queriers : k \in Scheduled \union asked

\* A known answer that fits is in the packet or still to come, and a packet that
\* holds nothing has all its room.
AnswerInv ==
    ~ Idle =>
       /\ qpacket.empty => qpacket.space = QuerySpace
       /\ {ka \in kaHistory.walked : AnswerSize[ka] <= QuerySpace}
            \subseteq known \union kaHistory.sent

\* The inductive invariant of module QuerierProofs.
QueryInv == JobInv /\ IdInv /\ AnswerInv
=============================================================================
