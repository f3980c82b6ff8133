---------------------------- MODULE QuerierProofs ----------------------------
(* Proofs about what waits for its time and what waits for an answer: the  *)
(* question and the answer scheduler of an interface, for any keys,        *)
(* records, hosts and TTLs and any room in a packet; the event loop of     *)
(* avahi-common, for any watches and timeouts; the wide-area engine, for   *)
(* any number of lookups smaller than the id space; and the typed          *)
(* browsers, for any records and any configured domains.                   *)
EXTENDS QuerySched, ResponseSched, SimplePoll, WideArea, TypedBrowsers,
        TLAPS, FiniteSetTheorems, WellFoundedInduction

-----------------------------------------------------------------------------
(* The answers: response-sched.c.                                          *)

\* ResponseInv for a scheduler's jobs, history and debts.
ResponseKept(s) ==
    /\ DOMAIN s.jobs \subseteq ResponseRecords
    /\ s.owed \in [ResponseRecords -> SUBSET (Askers \union {Announcement})]
    /\ \A r \in DOMAIN s.jobs :
          /\ s.jobs[r].querier \in Askers \union {Announcement}
          /\ s.jobs[r].querier # Announcement => s.owed[r] \subseteq {s.jobs[r].querier}
    /\ \A r \in ResponseRecords :
          /\ s.owed[r] # {} => r \in DOMAIN s.jobs
          /\ r \in DOMAIN s.jobs => r \notin DOMAIN s.hist

LEMMA StateKept == ResponseInv => ResponseKept(State)
  BY DEF ResponseInv, ResponseKept, State, OwedAnswersScheduled, SoleQuerier

LEMMA BecomesKept ==
    ASSUME NEW s, ResponseKept(s), Becomes(s)
    PROVE  ResponseInv'
  BY DEF ResponseInv, ResponseKept, Becomes, OwedAnswersScheduled, SoleQuerier

\* Posting schedules what it promises, and a job that a second querier joins
\* is no longer that of one querier alone.
LEMMA PostedKept ==
    ASSUME NEW s, ResponseKept(s), NEW rs \in SUBSET ResponseRecords, NEW ttl,
           NEW q \in Askers \union {Announcement}
    PROVE  ResponseKept(PostedResponse(s, rs, ttl, q))
  <1> DEFINE new == {r \in rs : ~ Refused(s, r, ttl, r \in Unique, q)}
             t == PostedResponse(s, rs, ttl, q)
  <1>1. /\ t.jobs = [r \in DOMAIN s.jobs \union new |->
                       IF r \in new THEN PostedAnswer(s, r, ttl, q) ELSE s.jobs[r]]
        /\ t.hist = [r \in DOMAIN s.hist \ new |-> s.hist[r]]
        /\ t.owed = [r \in ResponseRecords |->
                       IF r \in new THEN s.owed[r] \union {q} ELSE s.owed[r]]
    BY DEF PostedResponse, Drop
  <1>2. new \subseteq ResponseRecords
    OBVIOUS
  <1> HIDE DEF new, t
  <1>3. /\ DOMAIN s.jobs \subseteq ResponseRecords
        /\ s.owed \in [ResponseRecords -> SUBSET (Askers \union {Announcement})]
    BY DEF ResponseKept
  <1>4. /\ DOMAIN t.jobs = DOMAIN s.jobs \union new /\ DOMAIN t.hist = DOMAIN s.hist \ new
        /\ t.owed \in [ResponseRecords -> SUBSET (Askers \union {Announcement})]
    BY <1>1, <1>2, <1>3
  <1>5. ASSUME NEW r \in DOMAIN t.jobs
        PROVE  /\ t.jobs[r].querier \in Askers \union {Announcement}
               /\ t.jobs[r].querier # Announcement => t.owed[r] \subseteq {t.jobs[r].querier}
    <2>1. CASE r \notin new
      BY <1>1, <1>3, <1>4, <1>5, <2>1 DEF ResponseKept
    <2>2. CASE r \in new
      <3>1. t.jobs[r] = PostedAnswer(s, r, ttl, q) /\ t.owed[r] = s.owed[r] \union {q}
        BY <1>1, <1>2, <2>2
      <3>2. CASE r \in DOMAIN s.jobs
        <4>1. t.jobs[r].querier = IF q = s.jobs[r].querier THEN q ELSE Announcement
          BY <3>1, <3>2 DEF PostedAnswer
        <4> QED
          BY <3>1, <3>2, <4>1 DEF ResponseKept
      <3>3. CASE r \notin DOMAIN s.jobs
        <4>1. t.jobs[r].querier = q
          BY <3>1, <3>3 DEF PostedAnswer
        <4>2. s.owed[r] = {}
          BY <1>2, <2>2, <3>3 DEF ResponseKept
        <4> QED
          BY <3>1, <4>1, <4>2
      <3> QED
        BY <3>2, <3>3
    <2> QED
      BY <2>1, <2>2
  <1>6. ASSUME NEW r \in ResponseRecords
        PROVE  /\ t.owed[r] # {} => r \in DOMAIN t.jobs
               /\ r \in DOMAIN t.jobs => r \notin DOMAIN t.hist
    BY <1>1, <1>4 DEF ResponseKept
  <1>7. ResponseKept(t)
    BY <1>2, <1>3, <1>4, <1>5, <1>6 DEF ResponseKept
  <1> QED
    BY <1>7 DEF t

\* A job that is done owes nothing.
LEMMA DoneKept ==
    ASSUME NEW s, ResponseKept(s), NEW r \in DOMAIN s.jobs
    PROVE  ResponseKept(ResponseDone(s, r))
  <1> DEFINE t == ResponseDone(s, r)
  <1>1. /\ t.jobs = [x \in DOMAIN s.jobs \ {r} |-> s.jobs[x]]
        /\ DOMAIN t.hist = DOMAIN s.hist \union {r}
        /\ t.owed = [s.owed EXCEPT ![r] = {}]
    BY DEF ResponseDone, Drop, Assign
  <1> HIDE DEF t
  <1>2. /\ DOMAIN s.jobs \subseteq ResponseRecords
        /\ s.owed \in [ResponseRecords -> SUBSET (Askers \union {Announcement})]
    BY DEF ResponseKept
  <1>3. ResponseKept(t)
    BY <1>1, <1>2 DEF ResponseKept
  <1> QED
    BY <1>3 DEF t

LEMMA AddToPacketInv ==
    ASSUME ResponseInv, NEW r \in DOMAIN rjobs, AddToPacket(r)
    PROVE  ResponseInv'
  <1> DEFINE t == PostedResponse(State, Aux[r], Max(Ttls), rjobs[r].querier)
  <1>1. /\ Aux[r] \in SUBSET ResponseRecords
        /\ rjobs[r].querier \in Askers \union {Announcement}
    BY ResponseSchedAssumption DEF ResponseInv
  <1>2. ResponseKept(t)
    BY <1>1, StateKept, PostedKept
  <1>3. r \in DOMAIN t.jobs
    BY DEF PostedResponse, State
  <1>4. Becomes(ResponseDone(t, r))
    BY DEF AddToPacket
  <1> HIDE DEF t
  <1> QED
    BY <1>2, <1>3, <1>4, DoneKept, BecomesKept

\* Known-answer suppression drops a job only with the last debt.
LEMMA SuppressInv ==
    ASSUME ResponseInv, NEW r \in ResponseRecords, NEW q \in Askers, NEW ttl,
           Suppress(r, q, ttl)
    PROVE  ResponseInv'
  <1>0. /\ q # Announcement /\ rhist' = rhist
        /\ owed \in [ResponseRecords -> SUBSET (Askers \union {Announcement})]
    BY ResponseSchedAssumption DEF Suppress, ResponseInv
  <1>1. CASE ~ KnowsEnough(r, ttl)
    <2>1. rjobs' = rjobs /\ owed' = owed
      BY <1>1 DEF Suppress
    <2> QED
      BY <1>0, <2>1 DEF ResponseInv, OwedAnswersScheduled, SoleQuerier
  <1>2. CASE KnowsEnough(r, ttl) /\ rjobs[r].querier # q
    <2>1. rjobs' = rjobs /\ owed' = [owed EXCEPT ![r] = @ \ {q}]
      BY <1>2 DEF Suppress
    <2> QED
      BY <1>0, <2>1 DEF ResponseInv, OwedAnswersScheduled, SoleQuerier
  <1>3. CASE KnowsEnough(r, ttl) /\ rjobs[r].querier = q
    <2>1. /\ rjobs' = [x \in DOMAIN rjobs \ {r} |-> rjobs[x]]
          /\ owed' = [owed EXCEPT ![r] = @ \ {q}]
      BY <1>3 DEF Suppress, Drop
    <2>2. owed'[r] = {} /\ \A x \in ResponseRecords \ {r} : owed'[x] = owed[x]
      BY <1>0, <1>3, <2>1 DEF ResponseInv, SoleQuerier, KnowsEnough
    <2>3. owed' \in [ResponseRecords -> SUBSET (Askers \union {Announcement})]
      BY <1>0, <2>1
    <2> QED
      BY <1>0, <2>1, <2>2, <2>3 DEF ResponseInv, OwedAnswersScheduled, SoleQuerier
  <1> QED
    BY <1>1, <1>2, <1>3

LEMMA IncomingResponseInv ==
    ASSUME ResponseInv, NEW r \in ResponseRecords, NEW ttl, NEW flush,
           IncomingResponse(r, ttl, flush)
    PROVE  ResponseInv'
  <1>1. CASE UNCHANGED <<rjobs, rhist, owed>>
    BY <1>1 DEF ResponseInv, OwedAnswersScheduled, SoleQuerier
  <1>2. CASE r \in DOMAIN rjobs /\ Becomes(ResponseDone(State, r))
    <2>1. r \in DOMAIN State.jobs
      BY <1>2 DEF State
    <2> QED
      BY <1>2, <2>1, StateKept, DoneKept, BecomesKept
  <1>3. CASE /\ r \notin DOMAIN rjobs /\ UNCHANGED <<rjobs, owed>>
             /\ rhist' = Assign(rhist, r, [ttl |-> ttl, flush |-> flush])
    <2>1. DOMAIN rhist' = DOMAIN rhist \union {r}
      BY <1>3 DEF Assign
    <2> QED
      BY <1>3, <2>1 DEF ResponseInv, OwedAnswersScheduled, SoleQuerier
  <1> QED
    BY <1>1, <1>2, <1>3 DEF IncomingResponse

LEMMA ResponseNextInv == ResponseInv /\ [ResponseNext]_responseVars => ResponseInv'
  <1> SUFFICES ASSUME ResponseInv, [ResponseNext]_responseVars PROVE ResponseInv'
    OBVIOUS
  <1>1. ASSUME NEW r \in ResponseRecords, ResponseElapse(r) \/ FillPacket(r)
        PROVE  ResponseInv'
    BY <1>1, AddToPacketInv DEF ResponseElapse, FillPacket
  <1>2. ASSUME NEW r \in ResponseRecords, ResponseTooLarge(r) PROVE ResponseInv'
    <2>1. r \in DOMAIN State.jobs /\ Becomes(ResponseDone(State, r))
      BY <1>2 DEF ResponseTooLarge, State
    <2> QED
      BY <2>1, StateKept, DoneKept, BecomesKept
  <1>3. ASSUME NEW r \in ResponseRecords, NEW ttl \in Ttls,
               NEW q \in Askers \union {Announcement}, PostResponse(r, ttl, q)
        PROVE  ResponseInv'
    <2>1. ResponseKept(PostedResponse(State, {r}, ttl, q))
      BY StateKept, PostedKept
    <2> QED
      BY <1>3, <2>1, BecomesKept DEF PostResponse
  <1>4. CASE SendResponse \/ ForceResponses \/ UNCHANGED responseVars
    <2>1. UNCHANGED <<rjobs, rhist, owed>>
      <3>1. CASE SendResponse
        BY <3>1 DEF SendResponse
      <3>2. CASE ForceResponses
        BY <3>2 DEF ForceResponses
      <3>3. CASE UNCHANGED responseVars
        BY <3>3 DEF responseVars
      <3> QED
        BY <1>4, <3>1, <3>2, <3>3
    <2> QED
      BY <2>1 DEF ResponseInv, OwedAnswersScheduled, SoleQuerier
  <1>5. CASE ForgetResponse
    <2>1. UNCHANGED <<rjobs, owed>> /\ DOMAIN rhist' \subseteq DOMAIN rhist
      BY <1>5 DEF ForgetResponse, Drop
    <2> QED
      BY <2>1 DEF ResponseInv, OwedAnswersScheduled, SoleQuerier
  <1>6. CASE ClearResponses
    <2>1. /\ DOMAIN rjobs' = {} /\ DOMAIN rhist' = {}
          /\ owed' = [r \in ResponseRecords |-> {}]
      BY <1>6 DEF ClearResponses
    <2> QED
      BY <2>1 DEF ResponseInv, OwedAnswersScheduled, SoleQuerier
  <1> QED
    BY <1>1, <1>2, <1>3, <1>4, <1>5, <1>6, SuppressInv, IncomingResponseInv
    DEF ResponseNext

\* While a host that asked, or an announcement, waits for a record, that record
\* is scheduled, whichever other hosts say that they know it; and it is not in
\* the history, where it would refuse its own update.
THEOREM AnswersOwedScheduled == ResponseSpec => []OwedAnswersScheduled
  <1>1. ResponseInit => ResponseInv
    <2> SUFFICES ASSUME ResponseInit PROVE ResponseInv
      OBVIOUS
    <2>1. DOMAIN rjobs = {} /\ DOMAIN rhist = {} /\ owed = [r \in ResponseRecords |-> {}]
      BY DEF ResponseInit
    <2> QED
      BY <2>1 DEF ResponseInv, OwedAnswersScheduled, SoleQuerier
  <1>2. ResponseInv => OwedAnswersScheduled
    BY DEF ResponseInv
  <1> QED
    BY <1>1, <1>2, ResponseNextInv, PTL DEF ResponseSpec

-----------------------------------------------------------------------------
(* The questions: query-sched.c and querier.c.                             *)

LEMMA MinFacts ==
    ASSUME NEW T \in SUBSET Nat, T # {}
    PROVE  Min(T) \in T
  <1>1. PICK x \in T : \A y \in T : ~ (<<y, x>> \in OpToRel(<, Nat))
    BY NatLessThanWellFounded, WFMin
  <1>2. \A y \in T : x <= y
    <2> SUFFICES ASSUME NEW y \in T PROVE x <= y
      OBVIOUS
    <2>1. ~ (y < x)
      <3>1. <<y, x>> \in Nat \X Nat
        OBVIOUS
      <3> QED
        BY <1>1, <3>1 DEF OpToRel
    <2> QED
      BY <2>1
  <1> QED
    BY <1>2 DEF Min

\* next_id++: there is an id nobody remembers, since each key has at most one
\* job and one querier.
LEMMA FreshFacts ==
    ASSUME QueryInv
    PROVE  /\ FreshId \in 0..2 * Cardinality(Keys) /\ FreshId \notin UsedIds
           /\ NoId \notin 0..2 * Cardinality(Keys)
  <1> DEFINE c == Cardinality(Keys)
             jobIds == {qjobs[k].id : k \in Scheduled}
             querierIds == {querier[k].id : k \in Queriers}
  <1>0. IsFiniteSet(Keys) /\ c \in Nat
    BY QuerySchedAssumption, FS_CardinalityType
  <1>1. /\ IsFiniteSet(Scheduled) /\ Cardinality(Scheduled) <= c
        /\ IsFiniteSet(Queriers) /\ Cardinality(Queriers) <= c
    BY <1>0, FS_Subset DEF QueryInv, JobInv
  <1>2. IsFiniteSet(jobIds) /\ Cardinality(jobIds) <= Cardinality(Scheduled)
    <2> DEFINE f == [k \in Scheduled |-> qjobs[k].id]
    <2>1. f \in Surjection(Scheduled, jobIds)
      BY DEF Surjection
    <2> QED
      BY <1>1, <2>1, FS_Surjection
  <1>3. IsFiniteSet(querierIds) /\ Cardinality(querierIds) <= Cardinality(Queriers)
    <2> DEFINE f == [k \in Queriers |-> querier[k].id]
    <2>1. f \in Surjection(Queriers, querierIds)
      BY DEF Surjection
    <2> QED
      BY <1>1, <2>1, FS_Surjection
  <1>4. UsedIds = jobIds \union querierIds
    BY DEF UsedIds
  <1> HIDE DEF c, jobIds, querierIds
  <1>5. IsFiniteSet(UsedIds) /\ Cardinality(UsedIds) \in Nat /\ Cardinality(UsedIds) <= 2 * c
    <2>1. /\ Cardinality(jobIds) \in Nat /\ Cardinality(querierIds) \in Nat
          /\ Cardinality(Scheduled) \in Nat /\ Cardinality(Queriers) \in Nat
          /\ Cardinality(jobIds \cap querierIds) \in Nat
      BY <1>1, <1>2, <1>3, FS_CardinalityType, FS_Intersection
    <2>2. /\ IsFiniteSet(UsedIds)
          /\ Cardinality(UsedIds) = Cardinality(jobIds) + Cardinality(querierIds)
                                      - Cardinality(jobIds \cap querierIds)
      BY <1>2, <1>3, <1>4, FS_Union
    <2>3. Cardinality(UsedIds) \in Nat
      BY <2>2, FS_CardinalityType
    <2> QED
      BY <1>0, <1>1, <1>2, <1>3, <2>1, <2>2, <2>3
  <1>6. IsFiniteSet(0..2 * c) /\ Cardinality(0..2 * c) = 2 * c + 1
    BY <1>0, FS_Interval
  <1>7. (0..2 * c) \ UsedIds # {}
    <2> SUFFICES ASSUME (0..2 * c) \subseteq UsedIds PROVE FALSE
      OBVIOUS
    <2>1. Cardinality(0..2 * c) <= Cardinality(UsedIds)
      BY <1>5, FS_Subset
    <2> QED
      BY <1>0, <1>5, <1>6, <2>1
  <1>8. (0..2 * c) \ UsedIds \in SUBSET Nat
    BY <1>0
  <1>9. FreshId \in (0..2 * c) \ UsedIds
    BY <1>7, <1>8, MinFacts DEF FreshId, c
  <1>10. NoId = 2 * c + 1
    BY DEF NoId, c
  <1>11. NoId \notin 0..2 * c
    BY <1>0, <1>10
  <1> QED
    BY <1>9, <1>11 DEF c

\* A job that is posted is shared or new: in both cases its id is of no other
\* job and no other querier.
LEMMA PostedJobFacts ==
    ASSUME QueryInv, NEW k \in Keys
    PROVE  /\ PostedJob(k).id \in 0..2 * Cardinality(Keys)
           /\ PostedJob(k).n \in Nat /\ PostedJob(k).n >= 1
           /\ \A j \in Scheduled : qjobs[j].id = PostedJob(k).id => j = k
           /\ \A j \in Queriers : querier[j].id = PostedJob(k).id => j = k
  <1>1. CASE k \in Scheduled
    <2>1. PostedJob(k) = [qjobs[k] EXCEPT !.n = @ + 1]
      BY <1>1 DEF PostedJob
    <2>2. PostedJob(k).id = qjobs[k].id /\ PostedJob(k).n = qjobs[k].n + 1
      BY <2>1
    <2> QED
      BY <1>1, <2>2 DEF QueryInv, JobInv, IdInv
  <1>2. CASE k \notin Scheduled
    <2>1. PostedJob(k).id = FreshId /\ PostedJob(k).n = 1
      BY <1>2 DEF PostedJob, NewJob
    <2>2. \A j \in Scheduled : qjobs[j].id # FreshId
      BY FreshFacts DEF UsedIds
    <2>3. \A j \in Queriers : querier[j].id # FreshId
      BY FreshFacts DEF UsedIds
    <2> QED
      BY <2>1, <2>2, <2>3, FreshFacts
  <1> QED
    BY <1>1, <1>2

\* A step between two packets keeps AnswerInv.
LEMMA IdleInv ==
    ASSUME QueryInv, Idle, UNCHANGED qpacket
    PROVE  AnswerInv'
  BY DEF AnswerInv, Idle

\* avahi_query_scheduler_post().
LEMMA PostInv ==
    ASSUME QueryInv, NEW k \in Keys, Post(k)
    PROVE  /\ DOMAIN qjobs' \subseteq Keys /\ Scheduled \subseteq DOMAIN qjobs'
           /\ \A j \in DOMAIN qjobs' :
                 /\ qjobs'[j].n \in Nat /\ qjobs'[j].n >= 1 /\ j \notin qhist'
                 /\ qjobs'[j].id \in 0..2 * Cardinality(Keys)
           /\ \A i, j \in DOMAIN qjobs' : qjobs'[i].id = qjobs'[j].id => i = j
           /\ \A j \in Queriers, i \in DOMAIN qjobs' : querier[j].id = qjobs'[i].id => i = j
           /\ Accepted(k) => k \in DOMAIN qjobs' /\ qjobs'[k].id = PostedJob(k).id
  <1> DEFINE v == PostedJob(k)
  <1>0. /\ v.id \in 0..2 * Cardinality(Keys) /\ v.n \in Nat /\ v.n >= 1
        /\ \A j \in Scheduled : qjobs[j].id = v.id => j = k
        /\ \A j \in Queriers : querier[j].id = v.id => j = k
    BY PostedJobFacts
  <1>1. qhist' = qhist /\ qjobs' = IF Accepted(k) THEN With(qjobs, k, v) ELSE qjobs
    BY DEF Post
  <1> HIDE DEF v
  <1>2. CASE ~ Accepted(k)
    BY <1>1, <1>2 DEF QueryInv, JobInv, IdInv, Scheduled
  <1>3. CASE Accepted(k)
    <2>1. /\ DOMAIN qjobs' = Scheduled \union {k} /\ qjobs'[k] = v
          /\ \A j \in Scheduled \ {k} : qjobs'[j] = qjobs[j]
      BY <1>1, <1>3 DEF With, Scheduled
    <2>2. k \notin qhist
      BY <1>3 DEF Accepted
    <2>3. /\ Scheduled \subseteq Keys
          /\ \A j \in Scheduled : /\ qjobs[j].n \in Nat /\ qjobs[j].n >= 1 /\ j \notin qhist
                                  /\ qjobs[j].id \in 0..2 * Cardinality(Keys)
          /\ \A i, j \in Scheduled : qjobs[i].id = qjobs[j].id => i = j
          /\ \A j \in Queriers, i \in Scheduled : querier[j].id = qjobs[i].id => i = j
      BY DEF QueryInv, JobInv, IdInv
    <2>4. DOMAIN qjobs' \subseteq Keys /\ Scheduled \subseteq DOMAIN qjobs'
      BY <2>1, <2>3
    <2>5. ASSUME NEW j \in DOMAIN qjobs'
          PROVE  /\ qjobs'[j].n \in Nat /\ qjobs'[j].n >= 1 /\ j \notin qhist'
                 /\ qjobs'[j].id \in 0..2 * Cardinality(Keys)
      BY <1>0, <1>1, <2>1, <2>2, <2>3
    <2>6. ASSUME NEW i \in DOMAIN qjobs', NEW j \in DOMAIN qjobs', qjobs'[i].id = qjobs'[j].id
          PROVE  i = j
      BY <1>0, <2>1, <2>3, <2>6
    <2>7. ASSUME NEW j \in Queriers, NEW i \in DOMAIN qjobs', querier[j].id = qjobs'[i].id
          PROVE  i = j
      BY <1>0, <2>1, <2>3, <2>7
    <2> QED
      BY <2>1, <2>4, <2>5, <2>6, <2>7 DEF v
  <1> QED
    BY <1>2, <1>3

LEMMA PostAnonymousInv ==
    ASSUME QueryInv, NEW k \in Keys, PostAnonymous(k)
    PROVE  QueryInv'
  <1>1. Post(k) /\ Idle /\ UNCHANGED <<querier, qpacket, asked>>
    BY DEF PostAnonymous
  <1>2. AnswerInv'
    BY <1>1, IdleInv
  <1>3. JobInv' /\ IdInv'
    BY <1>1, PostInv DEF QueryInv, JobInv, IdInv, Scheduled, Queriers
  <1> QED
    BY <1>2, <1>3 DEF QueryInv

\* Jobs that are done, with the questions on the wire.
LEMMA MarkDoneInv ==
    ASSUME QueryInv, NEW ks \in SUBSET Keys, MarkDone(ks),
           asked' = asked \union ks, UNCHANGED querier
    PROVE  JobInv' /\ IdInv'
  <1>1. /\ DOMAIN qjobs' = Scheduled \ ks /\ qhist' = qhist \union ks
        /\ \A j \in Scheduled \ ks : qjobs'[j] = qjobs[j]
    BY DEF MarkDone, Without, Scheduled
  <1> QED
    BY <1>1 DEF QueryInv, JobInv, IdInv, Scheduled, Queriers

LEMMA IncomingQuestionInv ==
    ASSUME QueryInv, NEW k \in Keys, IncomingQuestion(k)
    PROVE  QueryInv'
  <1>1. /\ MarkDone({k}) /\ asked' = asked \union {k} /\ Idle
        /\ UNCHANGED <<querier, qpacket>>
    BY DEF IncomingQuestion
  <1> QED
    BY <1>1, MarkDoneInv, IdleInv DEF QueryInv

LEMMA QueryHistoryElapseInv ==
    ASSUME QueryInv, NEW k \in Keys, QueryHistoryElapse(k)
    PROVE  QueryInv'
  <1>1. /\ qhist' = qhist \ {k} /\ Idle /\ UNCHANGED <<qjobs, querier, qpacket, asked>>
    BY DEF QueryHistoryElapse
  <1>2. JobInv' /\ IdInv'
    BY <1>1 DEF QueryInv, JobInv, IdInv, Scheduled, Queriers
  <1> QED
    BY <1>1, <1>2, IdleInv DEF QueryInv

LEMMA QueryElapseInv ==
    ASSUME QueryInv, NEW k \in Keys, QueryElapse(k)
    PROVE  QueryInv'
  <1>1. PICK others \in SUBSET (Scheduled \ {k}), space \in 0..QuerySpace :
          /\ MarkDone({k} \union others)
          /\ asked' = asked \union {k} \union others
          /\ qpacket' = [empty |-> FALSE, space |-> space]
    BY DEF QueryElapse
  <1>2. kaHistory' = [walked |-> known', sent |-> {}] /\ UNCHANGED querier
    BY DEF QueryElapse
  <1>3. {k} \union others \in SUBSET Keys
    BY DEF QueryInv, JobInv
  <1>4. asked' = asked \union ({k} \union others)
    BY <1>1
  <1>5. JobInv' /\ IdInv'
    BY <1>1, <1>2, <1>3, <1>4, MarkDoneInv
  <1>6. AnswerInv'
    BY <1>1, <1>2 DEF AnswerInv
  <1> QED
    BY <1>5, <1>6 DEF QueryInv

\* append_known_answers_and_send(): only an answer too large for a packet of its
\* own is left out.
LEMMA AppendKnownAnswerInv ==
    ASSUME QueryInv, NEW ka \in Answers, AppendKnownAnswer(ka)
    PROVE  QueryInv'
  <1>1. ~ Idle /\ ka \in known /\ UNCHANGED <<qjobs, qhist, querier, asked>>
    BY DEF AppendKnownAnswer
  <1>2. JobInv' /\ IdInv'
    BY <1>1 DEF QueryInv, JobInv, IdInv, Scheduled, Queriers
  <1>3. /\ qpacket.empty => qpacket.space = QuerySpace
        /\ \A x \in kaHistory.walked : AnswerSize[x] <= QuerySpace => x \in known \union kaHistory.sent
    BY <1>1 DEF QueryInv, AnswerInv
  <1>4. AnswerSize[ka] \in Nat /\ QuerySpace \in Nat
    BY QuerySchedAssumption
  <1>5. CASE /\ qpacket' = [empty |-> FALSE, space |-> qpacket.space - AnswerSize[ka]]
             /\ kaHistory' = [kaHistory EXCEPT !.sent = @ \union {ka}]
             /\ known' = known \ {ka}
    <2>1. kaHistory'.walked = kaHistory.walked /\ kaHistory.sent \union {ka} \subseteq kaHistory'.sent
      BY <1>5
    <2> QED
      BY <1>2, <1>3, <1>5, <2>1 DEF QueryInv, AnswerInv
  <1>6. CASE qpacket' = [empty |-> TRUE, space |-> QuerySpace] /\ UNCHANGED <<known, kaHistory>>
    BY <1>2, <1>3, <1>6 DEF QueryInv, AnswerInv
  <1>7. CASE /\ AnswerSize[ka] > qpacket.space /\ qpacket.empty
             /\ known' = known \ {ka} /\ UNCHANGED <<kaHistory, qpacket>>
    <2>1. ~ (AnswerSize[ka] <= QuerySpace)
      BY <1>3, <1>4, <1>7
    <2> QED
      BY <1>2, <1>3, <1>7, <2>1 DEF QueryInv, AnswerInv
  <1> QED
    BY <1>5, <1>6, <1>7 DEF AppendKnownAnswer

LEMMA SendQueryInv ==
    ASSUME QueryInv, SendQuery
    PROVE  QueryInv'
  <1>1. Idle' /\ UNCHANGED <<qjobs, qhist, querier, asked>>
    BY DEF SendQuery, Idle
  <1> QED
    BY <1>1 DEF QueryInv, JobInv, IdInv, AnswerInv, Scheduled, Queriers

\* A querier with more users, or a new one that posts its question: a refused
\* question was asked a moment ago.
LEMMA AddUserInv ==
    ASSUME QueryInv, NEW k \in Keys, AddUser(k)
    PROVE  QueryInv'
  <1>0. Idle /\ UNCHANGED qpacket
    BY DEF AddUser
  <1>1. CASE k \in Queriers
    <2>0. /\ querier' = [querier EXCEPT ![k].used = @ + 1]
          /\ UNCHANGED <<qjobs, qhist, asked>>
      BY <1>1 DEF AddUser
    <2>1. /\ DOMAIN querier' = Queriers /\ UNCHANGED <<qjobs, qhist, asked>>
          /\ \A j \in Queriers : querier'[j].id = querier[j].id
      BY <2>0 DEF Queriers
    <2>2. JobInv' /\ IdInv'
      BY <2>1 DEF QueryInv, JobInv, IdInv, Scheduled, Queriers
    <2> QED
      BY <1>0, <2>2, IdleInv DEF QueryInv
  <1>2. CASE k \notin Queriers
    <2> DEFINE i == IF Accepted(k) THEN PostedJob(k).id ELSE NoId
    <2>1. /\ Post(k) /\ querier' = With(querier, k, [used |-> 1, id |-> i])
          /\ asked' = IF Accepted(k) THEN asked \ {k} ELSE asked \union {k}
      BY <1>2 DEF AddUser
    <2>2. /\ DOMAIN querier' = Queriers \union {k} /\ querier'[k].id = i
          /\ \A j \in Queriers \ {k} : querier'[j] = querier[j]
      BY <2>1 DEF With, Queriers
    <2>3. \A j \in DOMAIN qjobs' : i = qjobs'[j].id => j = k
      <3>1. CASE Accepted(k)
        BY <2>1, <3>1, PostInv
      <3>2. CASE ~ Accepted(k)
        BY <2>1, <3>2, PostInv, FreshFacts
      <3> QED
        BY <3>1, <3>2
    <2> HIDE DEF i
    <2>4. IdInv'
      <3>1. \A j \in DOMAIN querier', n \in DOMAIN qjobs' :
               querier'[j].id = qjobs'[n].id => n = j
        BY <2>1, <2>2, <2>3, PostInv
      <3> QED
        BY <2>1, <3>1, PostInv DEF IdInv, Scheduled, Queriers
    <2>5. JobInv'
      <3>1. \A j \in DOMAIN querier' : j \in DOMAIN qjobs' \union asked'
        <4> SUFFICES ASSUME NEW j \in DOMAIN querier' PROVE j \in DOMAIN qjobs' \union asked'
          OBVIOUS
        <4>1. CASE j = k
          BY <2>1, <4>1, PostInv
        <4>2. CASE j # k
          <5>1. j \in Scheduled \union asked
            BY <2>2, <4>2 DEF QueryInv, JobInv
          <5> QED
            BY <2>1, <4>2, <5>1, PostInv
        <4> QED
          BY <4>1, <4>2
      <3> QED
        BY <2>1, <2>2, <3>1, PostInv DEF QueryInv, JobInv, Scheduled, Queriers
    <2> QED
      BY <1>0, <2>4, <2>5, IdleInv DEF QueryInv
  <1> QED
    BY <1>1, <1>2

\* avahi_query_scheduler_withdraw_by_id() with the id of a querier touches the
\* job of its key at most, and frees it only if Withdrawn says so.
LEMMA WithdrawFacts ==
    ASSUME QueryInv, NEW k \in Queriers, Withdraw(querier[k].id)
    PROVE  /\ DOMAIN qjobs' \subseteq Scheduled /\ Scheduled \ {k} \subseteq DOMAIN qjobs'
           /\ \A j \in DOMAIN qjobs' : /\ qjobs'[j].id = qjobs[j].id
                                       /\ qjobs'[j].n \in Nat /\ qjobs'[j].n >= 1
           /\ k \in Scheduled /\ k \notin DOMAIN qjobs' => Withdrawn(querier[k].id)
  <1> DEFINE w == JobsWithId(querier[k].id)
  <1>1. w \subseteq {k} /\ w \subseteq Scheduled
    BY DEF JobsWithId, QueryInv, IdInv
  <1>2. \A j \in Scheduled : qjobs[j].n \in Nat /\ qjobs[j].n >= 1
    BY DEF QueryInv, JobInv
  <1>3. qjobs' = [j \in {j \in Scheduled : j \in w => qjobs[j].n > 1} |->
                    IF j \in w THEN [qjobs[j] EXCEPT !.n = @ - 1] ELSE qjobs[j]]
    BY DEF Withdraw
  <1>4. Withdrawn(querier[k].id) <=> \E j \in w : qjobs[j].n = 1
    BY DEF Withdrawn
  <1> HIDE DEF w
  <1>5. DOMAIN qjobs' = {j \in Scheduled : j \in w => qjobs[j].n > 1}
    BY <1>3
  <1>6. ASSUME NEW j \in DOMAIN qjobs'
        PROVE  qjobs'[j].id = qjobs[j].id /\ qjobs'[j].n \in Nat /\ qjobs'[j].n >= 1
    <2>1. CASE j \in w
      <3>1. qjobs'[j] = [qjobs[j] EXCEPT !.n = @ - 1] /\ qjobs[j].n > 1
        BY <1>3, <1>5, <1>6, <2>1
      <3>2. qjobs'[j].id = qjobs[j].id /\ qjobs'[j].n = qjobs[j].n - 1
        BY <3>1
      <3> QED
        BY <1>2, <1>5, <3>1, <3>2
    <2>2. CASE j \notin w
      BY <1>2, <1>3, <1>5, <2>2
    <2> QED
      BY <2>1, <2>2
  <1>7. k \in Scheduled /\ k \notin DOMAIN qjobs' => \E j \in w : qjobs[j].n = 1
    BY <1>2, <1>5
  <1> QED
    BY <1>1, <1>4, <1>5, <1>6, <1>7

LEMMA RemoveUserInv ==
    ASSUME QueryInv, NEW k \in Keys, RemoveUser(k)
    PROVE  QueryInv'
  <1>0. /\ Idle /\ k \in Queriers /\ UNCHANGED <<qpacket, qhist, asked>>
    BY DEF RemoveUser
  <1>1. CASE querier' = [querier EXCEPT ![k].used = @ - 1] /\ UNCHANGED qjobs
    <2>1. /\ DOMAIN querier' = Queriers
          /\ \A j \in Queriers : querier'[j].id = querier[j].id
      BY <1>1 DEF Queriers
    <2>2. JobInv' /\ IdInv'
      BY <1>0, <1>1, <2>1 DEF QueryInv, JobInv, IdInv, Scheduled, Queriers
    <2> QED
      BY <1>0, <2>2, IdleInv DEF QueryInv
  <1>2. CASE /\ Withdraw(querier[k].id)
             /\ querier' = IF Withdrawn(querier[k].id) THEN Without(querier, {k})
                           ELSE [querier EXCEPT ![k].used = 0]
    <2>1. /\ DOMAIN querier' = IF Withdrawn(querier[k].id) THEN Queriers \ {k} ELSE Queriers
          /\ \A j \in DOMAIN querier' : querier'[j].id = querier[j].id
      BY <1>2 DEF Without, Queriers
    <2>2. DOMAIN querier' \subseteq Queriers
      BY <2>1
    <2>3. IdInv'
      <3>1. DOMAIN qjobs' \subseteq Scheduled /\ \A j \in DOMAIN qjobs' : qjobs'[j].id = qjobs[j].id
        BY <1>0, <1>2, WithdrawFacts
      <3>2. /\ \A j \in Scheduled : qjobs[j].id \in 0..2 * Cardinality(Keys)
            /\ \A i, j \in Scheduled : qjobs[i].id = qjobs[j].id => i = j
            /\ \A j \in Queriers, i \in Scheduled : querier[j].id = qjobs[i].id => i = j
        BY DEF QueryInv, IdInv
      <3>3. /\ \A j \in DOMAIN qjobs' : qjobs'[j].id \in 0..2 * Cardinality(Keys)
            /\ \A i, j \in DOMAIN qjobs' : qjobs'[i].id = qjobs'[j].id => i = j
            /\ \A j \in DOMAIN querier', i \in DOMAIN qjobs' :
                  querier'[j].id = qjobs'[i].id => i = j
        BY <2>1, <2>2, <3>1, <3>2
      <3> QED
        BY <3>3 DEF IdInv, Scheduled, Queriers
    <2>4. \A j \in DOMAIN querier' : j \in DOMAIN qjobs' \union asked
      <3> SUFFICES ASSUME NEW j \in DOMAIN querier', j \notin asked PROVE j \in DOMAIN qjobs'
        OBVIOUS
      <3>1. j \in Scheduled
        BY <2>2 DEF QueryInv, JobInv
      <3>2. CASE j # k
        BY <1>0, <1>2, <3>1, <3>2, WithdrawFacts
      <3>3. CASE j = k
        BY <1>0, <1>2, <2>1, <3>1, <3>3, WithdrawFacts
      <3> QED
        BY <3>2, <3>3
    <2>5. JobInv'
      BY <1>0, <1>2, <2>2, <2>4, WithdrawFacts DEF QueryInv, JobInv, Scheduled, Queriers
    <2> QED
      BY <1>0, <2>3, <2>5, IdleInv DEF QueryInv
  <1> QED
    BY <1>1, <1>2 DEF RemoveUser

LEMMA QuerierElapseInv ==
    ASSUME QueryInv, NEW k \in Keys, QuerierElapse(k)
    PROVE  QueryInv'
  <1>0. Idle /\ k \in Queriers /\ UNCHANGED <<qpacket, asked>>
    BY DEF QuerierElapse
  <1>1. CASE querier' = Without(querier, {k}) /\ UNCHANGED <<qjobs, qhist>>
    <2>1. /\ DOMAIN querier' = Queriers \ {k}
          /\ \A j \in DOMAIN querier' : querier'[j] = querier[j]
      BY <1>1 DEF Without, Queriers
    <2>2. JobInv'
      BY <1>0, <1>1, <2>1 DEF QueryInv, JobInv, Scheduled, Queriers
    <2>3. IdInv'
      <3>1. \A j \in DOMAIN querier' : j \in Queriers /\ querier'[j].id = querier[j].id
        BY <2>1
      <3>2. \A j \in DOMAIN querier', i \in Scheduled : querier'[j].id = qjobs[i].id => i = j
        BY <3>1 DEF QueryInv, IdInv
      <3> QED
        BY <1>1, <3>2 DEF QueryInv, IdInv, Scheduled, Queriers
    <2> QED
      BY <1>0, <2>2, <2>3, IdleInv DEF QueryInv
  <1>2. CASE /\ Post(k)
             /\ querier' = IF Accepted(k) THEN [querier EXCEPT ![k].id = PostedJob(k).id]
                           ELSE querier
    <2>1. /\ DOMAIN querier' = Queriers
          /\ \A j \in Queriers \ {k} : querier'[j].id = querier[j].id
          /\ \/ querier'[k].id = querier[k].id
             \/ Accepted(k) /\ querier'[k].id = PostedJob(k).id
      BY <1>0, <1>2 DEF Queriers
    <2>2. \A j \in Queriers, i \in DOMAIN qjobs' : querier'[j].id = qjobs'[i].id => i = j
      BY <1>2, <2>1, PostInv
    <2>3. IdInv'
      BY <1>2, <2>1, <2>2, PostInv DEF IdInv, Scheduled, Queriers
    <2>4. JobInv'
      BY <1>0, <1>2, <2>1, PostInv DEF QueryInv, JobInv, Scheduled, Queriers
    <2> QED
      BY <1>0, <2>3, <2>4, IdleInv DEF QueryInv
  <1> QED
    BY <1>1, <1>2 DEF QuerierElapse

LEMMA EmptyInv ==
    ASSUME QueryInit
    PROVE  QueryInv
  <1>1. DOMAIN qjobs = {} /\ DOMAIN querier = {} /\ Idle
    BY DEF QueryInit, Idle
  <1> QED
    BY <1>1 DEF QueryInv, JobInv, IdInv, AnswerInv, Scheduled, Queriers

LEMMA ClearQueriesInv ==
    ASSUME QueryInv, ClearQueries
    PROVE  QueryInv'
  <1>1. DOMAIN qjobs' = {} /\ DOMAIN querier' = {} /\ Idle /\ UNCHANGED qpacket
    BY DEF ClearQueries
  <1>2. JobInv' /\ IdInv'
    BY <1>1 DEF JobInv, IdInv, Scheduled, Queriers
  <1> QED
    BY <1>1, <1>2, IdleInv DEF QueryInv

LEMMA QueryNextInv == QueryInv /\ [QueryNext]_queryVars => QueryInv'
  <1> SUFFICES ASSUME QueryInv, [QueryNext]_queryVars PROVE QueryInv'
    OBVIOUS
  <1>1. CASE UNCHANGED queryVars
    <2>1. UNCHANGED <<qjobs, qhist, querier, known, qpacket, kaHistory, asked>>
      BY <1>1 DEF queryVars
    <2> QED
      BY <2>1 DEF QueryInv, JobInv, IdInv, AnswerInv, Scheduled, Queriers, Idle
  <1> QED
    BY <1>1, PostAnonymousInv, IncomingQuestionInv, QueryHistoryElapseInv, QueryElapseInv,
       AddUserInv, RemoveUserInv, QuerierElapseInv, AppendKnownAnswerInv, SendQueryInv,
       ClearQueriesInv
    DEF QueryNext

\* Whoever uses a querier has the question queued or asked, however shared jobs
\* are posted, withdrawn by id, suppressed by other hosts and refused; a job is
\* never scheduled and done at once; and no known answer that fits is lost where
\* one packet ends and the next begins.
THEOREM QuestionsAreKept == QuerySpec => []QuestionsKept
  <1>1. QueryInv => QuestionsKept
    <2> SUFFICES ASSUME QueryInv PROVE QuestionsKept
      OBVIOUS
    <2>1. ~ Idle /\ known = {} =>
            {ka \in kaHistory.walked : AnswerSize[ka] <= QuerySpace} \subseteq kaHistory.sent
      BY DEF QueryInv, AnswerInv
    <2> QED
      BY <2>1 DEF QueryInv, JobInv, QuestionsKept
  <1> QED
    BY <1>1, EmptyInv, QueryNextInv, PTL DEF QuerySpec

-----------------------------------------------------------------------------
(* The event loop: simple-watch.c and thread-watch.c.                      *)

\* prepare(): what poll() waits for is up to date when the mutex is released.
\* Freeing what is dead arms no timeout.
LEMMA PrepareWakeup ==
    ASSUME Prepare
    PROVE  WakeupNotLost'
  <1>1. CASE pc' = "ended"
    BY <1>1 DEF WakeupNotLost
  <1>2. CASE ~ quit /\ Rebuild /\ timed' = Armed
    <2>1. quit' = FALSE /\ rebuild' = FALSE
      BY <1>2 DEF Prepare, Rebuild
    <2>2. Armed' \subseteq Armed
      BY DEF Prepare, CleanUp, Armed
    <2> QED
      BY <1>2, <2>1, <2>2 DEF WakeupNotLost
  <1> QED
    BY <1>1, <1>2 DEF Prepare

LEMMA PollNextWakeup == WakeupNotLost /\ [PollNext]_pollVars => WakeupNotLost'
  <1> SUFFICES ASSUME WakeupNotLost, [PollNext]_pollVars PROVE WakeupNotLost'
    OBVIOUS
  <1>1. ASSUME pipe' = TRUE PROVE WakeupNotLost'
    BY <1>1 DEF WakeupNotLost
  <1>2. ASSUME NEW w \in Watches, WatchNew(w) \/ WatchUpdate(w) \/ WatchFree(w)
        PROVE  WakeupNotLost'
    BY <1>1, <1>2 DEF WatchNew, WatchUpdate, WatchFree, Wakeup
  <1>3. ASSUME NEW t \in Timeouts, NEW s,
               TimeoutFree(t) \/ TimeoutNew(t, s) \/ TimeoutUpdate(t, s)
        PROVE  WakeupNotLost'
    BY <1>1, <1>3 DEF TimeoutFree, TimeoutNew, TimeoutUpdate, Wakeup
  <1>4. CASE Quit
    BY <1>1, <1>4 DEF Quit, Wakeup
  <1>5. ASSUME UNCHANGED <<pc, timeout, timed, rebuild, quit, pipe>> PROVE WakeupNotLost'
    BY <1>5 DEF WakeupNotLost, Armed
  <1>6. CASE AppLock \/ AppUnlock \/ UNCHANGED pollVars
    BY <1>5, <1>6 DEF AppLock, AppUnlock, pollVars
  <1>7. ASSUME pc' # "poll" PROVE WakeupNotLost'
    BY <1>7 DEF WakeupNotLost
  <1>8. CASE StartThread \/ PollFails \/ ThreadLocks \/ CallbackEnds \/ DispatchWatch
    BY <1>7, <1>8 DEF StartThread, PollFails, ThreadLocks, CallbackEnds, DispatchWatch
  <1>9. ASSUME NEW ready, PollReturns(ready) PROVE WakeupNotLost'
    BY <1>7, <1>9 DEF PollReturns
  <1>10. ASSUME NEW t, DispatchTimeout(t) PROVE WakeupNotLost'
    BY <1>7, <1>10 DEF DispatchTimeout
  <1> QED
    BY <1>2, <1>3, <1>4, <1>6, <1>8, <1>9, <1>10, PrepareWakeup DEF PollNext, LoopStep

\* No change of a watch or a timeout and no request to quit is slept through:
\* while poll() waits for something out of date there is a byte in the pipe.
\* The invariant is inductive as it stands: prepare() reads the pipe empty
\* before it looks at anything else, with the mutex held.
THEOREM PollWakeupNotLost == PollSpec => []WakeupNotLost
  <1>1. PollInit => WakeupNotLost
    BY DEF PollInit, ThreadInit, WakeupNotLost
  <1> QED
    BY <1>1, PollNextWakeup, PTL DEF PollSpec

-----------------------------------------------------------------------------
(* Wide-area lookups: wide-area.c.                                         *)

Ids == 0 .. IdSpace - 1

\* There are more ids than lookups, so one is free.
LEMMA SomeIdFree ==
    ASSUME WideInv
    PROVE  \E i \in Ids : ~ InUse(i)
  <1> SUFFICES ASSUME \A i \in Ids : InUse(i)
               PROVE  FALSE
    OBVIOUS
  <1>1. \A i \in Ids : byId[i] \in Slots /\ looks[byId[i]].id = i
    BY DEF WideInv, TableInv, InUse, Ids
  <1>2. byId \in Injection(Ids, Slots)
    BY <1>1 DEF WideInv, TableInv, Ids, Injection, IsInjective
  <1>3. Cardinality(Ids) = IdSpace
    <2>1. IdSpace \in Nat /\ IdSpace > 0
      BY WideAreaAssumption, FS_CardinalityType
    <2> QED
      BY <2>1, FS_Interval DEF Ids
  <1>4. Cardinality(Ids) <= Cardinality(Slots)
    BY <1>2, FS_Injection, WideAreaAssumption
  <1>5. Cardinality(Slots) \in Nat
    BY FS_CardinalityType, WideAreaAssumption
  <1> QED
    BY <1>3, <1>4, <1>5, WideAreaAssumption

\* A nonempty set of numbers has a least one.
LEMMA LeastExists ==
    ASSUME NEW T \in SUBSET Nat, T # {}
    PROVE  \E x \in T : \A y \in T : x <= y
  <1>1. PICK x \in T : \A y \in T : ~ (<<y, x>> \in OpToRel(<, Nat))
    BY NatLessThanWellFounded, WFMin
  <1> SUFFICES ASSUME NEW y \in T PROVE x <= y
    OBVIOUS
  <1>2. <<y, x>> \in Nat \X Nat
    OBVIOUS
  <1>3. ~ (y < x)
    BY <1>1, <1>2 DEF OpToRel
  <1> QED
    BY <1>3

\* The loop over next_id ends at an id that is not in use.
LEMMA NextFreeIdFacts ==
    ASSUME WideInv
    PROVE  NextFreeId \in Ids /\ ~ InUse(NextFreeId)
  <1> DEFINE distance(i) == (i + IdSpace - nextId) % IdSpace
             free == {j \in Ids : ~ InUse(j)}
             T == {distance(i) : i \in free}
  <1>1. IdSpace \in Nat /\ IdSpace > 0 /\ nextId \in Ids
    BY WideAreaAssumption, FS_CardinalityType DEF WideInv, TableInv, Ids
  <1>2. \A i \in Ids : distance(i) \in Nat
    <2> SUFFICES ASSUME NEW i \in Ids PROVE distance(i) \in Nat
      OBVIOUS
    <2>1. i + IdSpace - nextId \in Nat
      BY <1>1 DEF Ids
    <2> QED
      BY <1>1, <2>1
  <1>3. T \in SUBSET Nat /\ T # {}
    BY <1>2, SomeIdFree
  <1>4. \E x \in T : \A y \in T : x <= y
    BY <1>3, LeastExists
  <1>5. \E i \in free : \A j \in Ids : ~ InUse(j) => distance(i) <= distance(j)
    BY <1>4
  <1>6. NextFreeId = CHOOSE i \in free : \A j \in Ids : ~ InUse(j) => distance(i) <= distance(j)
    BY DEF NextFreeId, Ids
  <1>7. NextFreeId \in free
    BY <1>5, <1>6
  <1> QED
    BY <1>7

\* With no dead lookup at the id the loop found, the place in the table is empty.
LEMMA FreeIdIsEmpty ==
    ASSUME WideInv, IdsOutlastTheDead(NextFreeId)
    PROVE  byId[NextFreeId] = NoLookup
  BY NextFreeIdFacts DEF WideInv, TableInv, InUse, IdsOutlastTheDead, Ids

LEMMA WideInitInv == WideInit => WideInv
  <1> SUFFICES ASSUME WideInit PROVE WideInv
    OBVIOUS
  <1>1. IdSpace \in Nat /\ IdSpace > 0
    BY WideAreaAssumption, FS_CardinalityType
  <1>2. \A l \in Slots : looks[l] = NoMemory
    BY DEF WideInit
  <1>3. NoMemory.id = 0 /\ NoMemory.phase = "none" /\ IsMemory(NoMemory)
    BY DEF NoMemory, IsMemory
  <1>4. TableInv
    BY <1>1, <1>2, <1>3 DEF WideInit, TableInv
  <1>5. AnswersReachLookups
    BY <1>2, <1>3 DEF AnswersReachLookups, Waiting
  <1> QED
    BY <1>4, <1>5 DEF WideInv

\* What the record operations do to a lookup.
LEMMA SendToFacts ==
    ASSUME NEW look, IsMemory(look), NEW c
    PROVE  /\ IsMemory(SendTo(look, c))
           /\ SendTo(look, c).phase = look.phase /\ SendTo(look, c).id = look.id
           /\ SendTo(look, c).key = look.key /\ SendTo(look, c).told = look.told
  BY DEF SendTo, NoMemory, IsMemory

LEMMA StoppedFacts ==
    ASSUME NEW look, IsMemory(look), NEW ph
    PROVE  /\ IsMemory(Stopped(look, ph))
           /\ Stopped(look, ph).phase = ph /\ Stopped(look, ph).id = look.id
  BY DEF Stopped, NoMemory, IsMemory

LEMMA LookupNewInv ==
    ASSUME WideInv, NEW l \in Slots, NEW k \in WideKeys, LookupNew(l, k)
    PROVE  WideInv'
  <1> DEFINE id == NextFreeId
             made == [NoMemory EXCEPT !.phase = "waiting", !.id = id, !.key = k]
             look == SendTo(made, currentServer)
  <1>1. id \in Ids /\ byId[id] = NoLookup
    BY NextFreeIdFacts, FreeIdIsEmpty DEF LookupNew
  <1>2. /\ IsMemory(made) /\ made.phase = "waiting" /\ made.id = id
        /\ made.key = k
    BY DEF NoMemory, IsMemory
  <1>3. /\ IsMemory(look) /\ look.phase = "waiting" /\ look.id = id
        /\ look.key = k
    <2> HIDE DEF made
    <2> QED
      BY <1>2, SendToFacts
  <1>4. /\ looks' = [looks EXCEPT ![l] = look] /\ byId' = [byId EXCEPT ![id] = l]
        /\ nextId' = (id + 1) % IdSpace /\ looks[l].phase = "none" /\ Cached(k) = {}
        /\ wideCache' = wideCache /\ packet' = packet
    BY <1>1 DEF LookupNew
  <1> HIDE DEF id, made, look
  <1>5. nextId' \in Ids
    BY <1>1, <1>4, WideAreaAssumption, FS_CardinalityType DEF Ids
  <1>6. TableInv'
    <2>1. /\ DOMAIN looks = Slots /\ byId \in [Ids -> Slots \union {NoLookup}]
          /\ \A x \in Slots : /\ IsMemory(looks[x]) /\ looks[x].id \in Ids
                              /\ looks[x].phase # "none" => byId[looks[x].id] = x
          /\ \A i \in Ids : byId[i] # NoLookup => looks[byId[i]].id = i
                                                /\ looks[byId[i]].phase # "none"
          /\ packet # <<>> => packet[1] \in Slots /\ looks[packet[1]].phase # "none"
      BY DEF WideInv, TableInv, Ids
    <2>2. DOMAIN looks' = Slots /\ byId' \in [Ids -> Slots \union {NoLookup}]
      BY <2>1, <1>1, <1>4
    <2>3. /\ looks'[l] = look /\ byId'[id] = l /\ l # NoLookup
          /\ \A x \in Slots : x # l => looks'[x] = looks[x]
          /\ \A i \in Ids : i # id => byId'[i] = byId[i]
      BY <2>1, <1>1, <1>4, WideAreaAssumption
    <2>4. \A x \in Slots : /\ IsMemory(looks'[x]) /\ looks'[x].id \in Ids
                           /\ looks'[x].phase # "none" => byId'[looks'[x].id] = x
      BY <2>1, <2>3, <1>1, <1>3, WideAreaAssumption
    <2>5. \A i \in Ids : byId'[i] # NoLookup => looks'[byId'[i]].id = i
                                                /\ looks'[byId'[i]].phase # "none"
      BY <2>1, <2>3, <1>1, <1>3, <1>4
    <2>6. packet' # <<>> => packet'[1] \in Slots /\ looks'[packet'[1]].phase # "none"
      BY <2>1, <2>3, <1>3, <1>4
    <2> QED
      BY <2>2, <2>4, <2>5, <2>6, <1>5 DEF TableInv, Ids
  <1>7. AnswersReachLookups'
    BY <1>1, <1>3, <1>4, WideAreaAssumption
       DEF WideInv, TableInv, AnswersReachLookups, Waiting, Cached, Ids
  <1> QED
    BY <1>6, <1>7 DEF WideInv

\* A lookup that ends, by a timeout, a reply or its user, stays in the table.
LEMMA EndedInv ==
    ASSUME WideInv, NEW l \in Slots, looks[l].phase # "none",
           NEW ph \in {"done", "dead"},
           looks' = [looks EXCEPT ![l] = Stopped(@, ph)],
           UNCHANGED <<byId, nextId, wideCache>>, packet' \in {packet, <<>>}
    PROVE  WideInv'
  <1>1. /\ IsMemory(looks'[l]) /\ looks'[l].phase = ph
        /\ looks'[l].id = looks[l].id
    BY StoppedFacts DEF WideInv, TableInv
  <1>2. DOMAIN looks' = Slots /\ \A m \in Slots : m # l => looks'[m] = looks[m]
    BY DEF WideInv, TableInv
  <1>3. TableInv'
    BY <1>1, <1>2 DEF WideInv, TableInv
  <1>4. AnswersReachLookups'
    BY <1>1, <1>2 DEF WideInv, AnswersReachLookups, Waiting, Cached
  <1> QED
    BY <1>3, <1>4 DEF WideInv

LEMMA LookupFreeInv ==
    ASSUME WideInv, NEW l \in Slots, LookupFree(l)
    PROVE  WideInv'
  BY EndedInv DEF LookupFree

LEMMA SenderTimeoutInv ==
    ASSUME WideInv, NEW l \in Slots, SenderTimeout(l)
    PROVE  WideInv'
  <1>1. /\ looks[l].phase = "waiting"
        /\ UNCHANGED <<byId, nextId, wideCache, packet>>
    BY DEF SenderTimeout, Waiting
  <1>2. CASE looks' = [looks EXCEPT ![l] = Stopped(@, "done")]
    BY <1>1, <1>2, EndedInv
  <1>3. ASSUME NEW c, looks' = [looks EXCEPT ![l] = SendTo(@, c)]
        PROVE  WideInv'
    <2>1. /\ IsMemory(looks'[l]) /\ looks'[l].phase = "waiting"
          /\ looks'[l].id = looks[l].id /\ looks'[l].key = looks[l].key
          /\ looks'[l].told = looks[l].told
      BY <1>1, <1>3, SendToFacts DEF WideInv, TableInv
    <2>2. DOMAIN looks' = Slots /\ \A m \in Slots : m # l => looks'[m] = looks[m]
      BY <1>3 DEF WideInv, TableInv
    <2>3. TableInv'
      BY <1>1, <2>1, <2>2 DEF WideInv, TableInv
    <2>4. AnswersReachLookups'
      BY <1>1, <2>1, <2>2 DEF WideInv, AnswersReachLookups, Waiting, Cached
    <2> QED
      BY <2>3, <2>4 DEF WideInv
  <1> QED
    BY <1>2, <1>3 DEF SenderTimeout

LEMMA CleanupDeadInv ==
    ASSUME WideInv, CleanupDead
    PROVE  WideInv'
  <1> DEFINE dead == {l \in Slots : looks[l].phase = "dead"}
  <1>1. /\ packet = <<>> /\ UNCHANGED <<nextId, wideCache, packet>>
        /\ looks' = [l \in Slots |-> IF l \in dead THEN NoMemory ELSE looks[l]]
        /\ byId' = [i \in Ids |-> IF \E l \in dead : looks[l].id = i THEN NoLookup ELSE byId[i]]
    BY DEF CleanupDead, Ids
  <1>2. NoMemory.id = 0 /\ NoMemory.phase = "none" /\ 0 \in Ids /\ IsMemory(NoMemory)
    BY WideAreaAssumption, FS_CardinalityType DEF NoMemory, Ids, IsMemory
  <1>3. \A l \in Slots : looks'[l].phase # "none" => /\ looks'[l] = looks[l] /\ l \notin dead
                                                   /\ looks[l].phase # "none"
    BY <1>1, <1>2
  <1>4. \A l \in Slots : looks'[l].phase # "none" => byId'[looks[l].id] = l
    <2> SUFFICES ASSUME NEW l \in Slots, looks'[l].phase # "none"
                 PROVE  byId'[looks[l].id] = l
      OBVIOUS
    <2>1. looks[l].id \in Ids /\ byId[looks[l].id] = l /\ l \notin dead
      BY <1>3 DEF WideInv, TableInv, Ids
    <2>2. \A m \in dead : looks[m].id # looks[l].id
      BY <2>1 DEF WideInv, TableInv
    <2> QED
      BY <1>1, <2>1, <2>2
  <1>5. \A i \in Ids : byId'[i] # NoLookup =>
           byId'[i] = byId[i] /\ byId[i] \in Slots \ dead /\ looks[byId[i]].id = i
           /\ looks[byId[i]].phase # "none"
    BY <1>1 DEF WideInv, TableInv, Ids
  <1>6. /\ DOMAIN looks' = Slots /\ nextId' \in Ids
        /\ byId' \in [Ids -> Slots \union {NoLookup}]
        /\ \A l \in Slots : IsMemory(looks'[l]) /\ looks'[l].id \in Ids
    BY <1>1, <1>2 DEF WideInv, TableInv, Ids
  <1>7. \A i \in Ids : byId'[i] # NoLookup =>
           looks'[byId'[i]].id = i /\ looks'[byId'[i]].phase # "none"
    BY <1>1, <1>5
  <1>8. packet' = <<>> /\ wideCache' = wideCache
    BY <1>1
  <1>9. TableInv'
    BY <1>3, <1>4, <1>6, <1>7, <1>8 DEF TableInv, Ids
  <1>10. AnswersReachLookups'
    <2> SUFFICES ASSUME NEW l \in Slots, looks'[l].phase = "waiting"
                 PROVE  /\ byId'[looks'[l].id] = l
                        /\ Cached(looks[l].key)' \subseteq looks'[l].told
      BY DEF AnswersReachLookups, Waiting, Cached
    <2>1. looks'[l] = looks[l] /\ byId'[looks[l].id] = l
      BY <1>3, <1>4
    <2> QED
      BY <1>8, <2>1 DEF WideInv, AnswersReachLookups, Waiting, Cached
  <1> QED
    BY <1>9, <1>10 DEF WideInv

LEMMA ReplyArrivesInv ==
    ASSUME WideInv, NEW i \in Ids, NEW rs \in SUBSET WideRecords, ReplyArrives(i, rs)
    PROVE  WideInv'
  <1>1. TableInv'
    BY DEF WideInv, TableInv, ReplyArrives, InUse, Ids
  <1>2. AnswersReachLookups'
    BY DEF WideInv, ReplyArrives, AnswersReachLookups, Waiting, Cached
  <1> QED
    BY <1>1, <1>2 DEF WideInv

\* run_callbacks() tells everyone who waits for a record what is new in the cache.
LEMMA HandleRecordInv ==
    ASSUME WideInv, NEW r \in WideRecords, HandleRecord(r)
    PROVE  WideInv'
  <1>1. /\ DOMAIN looks' = Slots /\ UNCHANGED <<byId, nextId>>
        /\ wideCache' \subseteq wideCache \union {r}
        /\ packet # <<>> /\ packet'[1] = packet[1]
    BY DEF HandleRecord
  <1>2. \A l \in Slots :
          /\ IsMemory(looks'[l]) /\ looks'[l].phase = looks[l].phase
          /\ looks'[l].id = looks[l].id /\ looks'[l].key = looks[l].key
          /\ looks[l].told \subseteq looks'[l].told
          /\ r \notin wideCache /\ Waiting(l) /\ <<looks[l].key, r>> \in Asks
               => r \in looks'[l].told
    <2> SUFFICES ASSUME NEW l \in Slots
                 PROVE  /\ IsMemory(looks'[l])
                        /\ looks'[l].phase = looks[l].phase
                        /\ looks'[l].id = looks[l].id /\ looks'[l].key = looks[l].key
                        /\ looks[l].told \subseteq looks'[l].told
                        /\ r \notin wideCache /\ Waiting(l) /\ <<looks[l].key, r>> \in Asks
                             => r \in looks'[l].told
      OBVIOUS
    <2>1. DOMAIN looks[l] = {"phase", "id", "key", "sent", "used", "told"}
      <3>1. IsMemory(looks[l])
        BY DEF WideInv, TableInv
      <3> QED
        BY <3>1 DEF IsMemory, NoMemory
    <2>2. looks'[l] = IF r \notin wideCache /\ Waiting(l) /\ <<looks[l].key, r>> \in Asks
                      THEN [looks[l] EXCEPT !.told = @ \union {r}] ELSE looks[l]
      BY DEF HandleRecord
    <2> QED
      BY <2>1, <2>2 DEF IsMemory, NoMemory
  <1>3. TableInv'
    BY <1>1, <1>2 DEF WideInv, TableInv
  <1>4. AnswersReachLookups'
    <2> SUFFICES ASSUME NEW l \in Slots, Waiting(l)'
                 PROVE  /\ byId'[looks'[l].id] = l
                        /\ Cached(looks[l].key)' \subseteq looks'[l].told
      BY <1>2 DEF AnswersReachLookups, Cached
    <2>1. Waiting(l)
      BY <1>2 DEF Waiting
    <2>2. byId[looks[l].id] = l /\ Cached(looks[l].key) \subseteq looks[l].told
      BY <2>1 DEF WideInv, AnswersReachLookups
    <2>3. ASSUME NEW q \in wideCache', <<looks[l].key, q>> \in Asks
          PROVE  q \in looks'[l].told
      BY <1>1, <1>2, <2>1, <2>2, <2>3 DEF Cached
    <2> QED
      BY <1>1, <1>2, <2>2, <2>3 DEF Cached
  <1> QED
    BY <1>3, <1>4 DEF WideInv

LEMMA HandleEndInv ==
    ASSUME WideInv, HandleEnd
    PROVE  WideInv'
  <1>1. packet[1] \in Slots /\ looks[packet[1]].phase # "none"
    BY DEF WideInv, TableInv, HandleEnd
  <1>2. packet' = <<>> /\ UNCHANGED <<byId, nextId, wideCache>>
    BY DEF HandleEnd
  <1>3. CASE looks[packet[1]].phase = "dead"
    <2>1. looks' = looks
      BY <1>3 DEF HandleEnd
    <2>2. TableInv' /\ AnswersReachLookups'
      BY <1>2, <2>1 DEF WideInv, TableInv, AnswersReachLookups, Waiting, Cached
    <2> QED
      BY <2>2 DEF WideInv
  <1>4. CASE looks[packet[1]].phase # "dead"
    BY <1>1, <1>2, <1>4, EndedInv DEF HandleEnd
  <1> QED
    BY <1>3, <1>4

\* expiry_event() and avahi_wide_area_set_servers() only take from the cache.
LEMMA ForgottenInv ==
    ASSUME WideInv, wideCache' \subseteq wideCache, UNCHANGED <<looks, byId, nextId, packet>>
    PROVE  WideInv'
  <1>1. TableInv'
    BY DEF WideInv, TableInv
  <1>2. AnswersReachLookups'
    BY DEF WideInv, AnswersReachLookups, Waiting, Cached
  <1> QED
    BY <1>1, <1>2 DEF WideInv

LEMMA WideStepInv == WideInv /\ [WideNext]_wideVars => WideInv'
  <1> SUFFICES ASSUME WideInv, [WideNext]_wideVars PROVE WideInv'
    OBVIOUS
  <1>1. ASSUME NEW l \in Slots, NEW k \in WideKeys, LookupNew(l, k) PROVE WideInv'
    BY <1>1, LookupNewInv
  <1>2. ASSUME NEW l \in Slots, LookupFree(l) \/ SenderTimeout(l) PROVE WideInv'
    BY <1>2, LookupFreeInv, SenderTimeoutInv
  <1>3. CASE CleanupDead
    BY <1>3, CleanupDeadInv
  <1>4. CASE HandleEnd
    BY <1>4, HandleEndInv
  <1>5. ASSUME NEW i \in Ids, NEW rs \in SUBSET WideRecords, ReplyArrives(i, rs)
        PROVE  WideInv'
    BY <1>5, ReplyArrivesInv
  <1>6. ASSUME NEW r \in WideRecords, HandleRecord(r) PROVE WideInv'
    BY <1>6, HandleRecordInv
  <1>7. ASSUME NEW r \in WideRecords, ExpireWide(r) PROVE WideInv'
    BY <1>7, ForgottenInv DEF ExpireWide
  <1>8. ASSUME NEW s \in ServerLists, SetServers(s) PROVE WideInv'
    BY <1>8, ForgottenInv DEF SetServers
  <1>9. CASE UNCHANGED wideVars
    BY <1>9, ForgottenInv DEF wideVars
  <1> QED
    BY <1>1, <1>2, <1>3, <1>4, <1>5, <1>6, <1>7, <1>8, <1>9 DEF WideNext, Ids

(* A reply reaches the lookup that asked and all others that wait for its
   records, for any number of lookups below the number of ids: ids are reused,
   lookups die in callbacks and stay in the table until the cleanup, servers
   come and go. *)
THEOREM WideAnswersReach == WideSpec => []AnswersReachLookups
  <1>1. WideInv => AnswersReachLookups
    BY DEF WideInv
  <1> QED
    BY WideInitInv, WideStepInv, <1>1, PTL DEF WideSpec

-----------------------------------------------------------------------------
(* The typed browsers: browse-service.c and its three siblings.            *)

\* The domains that are told of and the ones that are left, by position.
LEMMA StaticFacts ==
    ASSUME DeferInv
    PROVE  /\ StaticDomains \in Seq(ToSet(StaticDomains))
           /\ Len(StaticDomains) \in Nat /\ Len(left) \in Nat
           /\ StaticTold \subseteq ToSet(StaticDomains)
  <1>1. StaticDomains \in Seq(ToSet(StaticDomains)) /\ left \in Seq(ToSet(StaticDomains))
    BY TypedBrowsersAssumption DEF DeferInv
  <1>2. Len(StaticDomains) \in Nat /\ Len(left) \in Nat
    BY <1>1
  <1>3. DOMAIN StaticDomains = 1..Len(StaticDomains)
    BY <1>1
  <1> QED
    BY <1>1, <1>2, <1>3 DEF StaticTold, ToSet

LEMMA BrowserInitInv == BrowserInit => BrowserInv
  <1> SUFFICES ASSUME BrowserInit PROVE BrowserInv
    OBVIOUS
  <1> USE DEF BrowserInit, ServiceBrowserNew, ServiceTypeBrowserNew, DnsServerBrowserNew,
              DomainBrowserNew
  <1>1. StaticDomains \in Seq(ToSet(StaticDomains)) /\ Len(StaticDomains) \in Nat
    BY TypedBrowsersAssumption
  <1>2. DeferInv
    <2>1. left = <<>> \/ (btype = "domain" /\ left = StaticDomains)
      OBVIOUS
    <2>2. left \in Seq(ToSet(StaticDomains)) /\ Len(left) <= Len(StaticDomains)
      <3>1. CASE left = <<>>
        <4>1. Len(left) = 0 /\ left \in Seq(ToSet(StaticDomains))
          BY <3>1
        <4> QED
          BY <1>1, <4>1
      <3>2. CASE left = StaticDomains
        BY <1>1, <3>2
      <3> QED
        BY <2>1, <3>1, <3>2
    <2>3. /\ btype \in {"service", "type", "domain", "dns"} /\ ref = 1
          /\ deferred \in {"pending", "none"} /\ (deferred = "none" => left = <<>>)
          /\ btype # "domain" => deferred = "none"
      OBVIOUS
    <2>4. ASSUME btype = "domain", NEW n \in 1..Len(left)
          PROVE  left[n] = StaticDomains[Len(StaticDomains) - Len(left) + n]
      <3>1. left = StaticDomains
        BY <2>4
      <3>2. Len(StaticDomains) - Len(left) + n = n
        BY <1>1, <3>1
      <3> QED
        BY <3>1, <3>2
    <2> QED
      BY <2>2, <2>3, <2>4 DEF DeferInv
  <1>3. btype = "domain" => StaticTold = {}
    BY <1>1 DEF StaticTold
  <1>4. Infos = {}
    BY DEF Infos
  <1>5. BrowserTellsAll
    BY <1>3, <1>4 DEF BrowserTellsAll
  <1> QED
    BY <1>2, <1>5 DEF BrowserInv

\* What the user was told, one kind of browser at a time.
ToldFor(kind) ==
    CASE kind = "dns" -> {n \in Infos : info[n] = "found"}
      [] kind = "domain" -> {n \in upstream : Forwarded(n)} \union StaticTold
      [] OTHER -> {n \in upstream : Forwarded(n)}

\* A record comes or goes: the static domains are not touched by either, since
\* record_browser_callback() does not hand them on.
LEMMA RecordInv ==
    ASSUME BrowserInv, NEW n \in PtrNames, RecordNew(n) \/ RecordRemove(n)
    PROVE  BrowserInv'
  <1>1. /\ Ready /\ btype # "dns"
        /\ UNCHANGED <<btype, ref, deferred, left, scheduled, allForNow, info>>
    BY DEF RecordNew, RecordRemove
  <1>2. DeferInv'
    BY <1>1 DEF BrowserInv, DeferInv
  <1>3. StaticTold' = StaticTold /\ \A m : Forwarded(m)' <=> Forwarded(m)
    BY <1>1 DEF StaticTold, Forwarded
  <1>4. CASE btype = "domain"
    <2>1. told = {m \in upstream : Forwarded(m)} \union StaticTold
      BY <1>1, <1>4 DEF BrowserInv, BrowserTellsAll, Ready
    <2>2. Forwarded(n) => n \notin StaticTold
      BY <1>4, StaticFacts DEF BrowserInv, Forwarded
    <2>3. told' = {m \in upstream' : Forwarded(m)} \union StaticTold
      BY <2>1, <2>2 DEF RecordNew, RecordRemove
    <2> QED
      BY <1>1, <1>2, <1>3, <1>4, <2>3 DEF BrowserInv, BrowserTellsAll
  <1>5. CASE btype # "domain"
    <2>1. told = {m \in upstream : Forwarded(m)}
      BY <1>1, <1>5 DEF BrowserInv, BrowserTellsAll, Ready
    <2>2. told' = {m \in upstream' : Forwarded(m)}
      BY <2>1 DEF RecordNew, RecordRemove
    <2> QED
      BY <1>1, <1>2, <1>3, <1>5, <2>2 DEF BrowserInv, BrowserTellsAll
  <1> QED
    BY <1>4, <1>5

\* Nobody is told of anything: what there is to tell stays what it was.
LEMMA SilentTells ==
    ASSUME BrowserInv, UNCHANGED <<btype, upstream, told, left, info>>,
           ref' > 0 => ref > 0, allForNow' => left = <<>>
    PROVE  BrowserTellsAll'
  <1>1. StaticTold' = StaticTold /\ Infos' = Infos /\ \A m : Forwarded(m)' <=> Forwarded(m)
    BY DEF StaticTold, Infos, Forwarded
  <1>2. ToldFor(btype)' = ToldFor(btype)
    BY <1>1 DEF ToldFor
  <1>3. ref > 0 => told = ToldFor(btype)
    BY DEF BrowserInv, BrowserTellsAll, ToldFor
  <1>4. ref' > 0 => told' = ToldFor(btype)'
    BY <1>2, <1>3
  <1> QED
    BY <1>4 DEF BrowserTellsAll, ToldFor

LEMMA RecordAllForNowInv ==
    ASSUME BrowserInv, RecordAllForNow
    PROVE  BrowserInv'
  <1>1. DeferInv'
    BY DEF BrowserInv, DeferInv, RecordAllForNow
  <1>2. allForNow' => left = <<>>
    <2>1. ref = 1 /\ (deferred # "pending" => deferred = "none")
      BY DEF BrowserInv, DeferInv, RecordAllForNow, Ready
    <2>2. deferred # "pending" => left = <<>>
      BY <2>1 DEF BrowserInv, DeferInv
    <2>3. allForNow' = (deferred # "pending")
      BY DEF RecordAllForNow
    <2> QED
      BY <2>2, <2>3
  <1>3. BrowserTellsAll'
    BY <1>2, SilentTells DEF RecordAllForNow
  <1> QED
    BY <1>1, <1>3 DEF BrowserInv

LEMMA DeferStartsInv ==
    ASSUME BrowserInv, DeferStarts
    PROVE  BrowserInv'
  <1>1. DeferInv'
    BY DEF BrowserInv, DeferInv, DeferStarts, Ready
  <1>2. BrowserTellsAll'
    BY SilentTells DEF DeferStarts, Ready, BrowserInv, BrowserTellsAll
  <1> QED
    BY <1>1, <1>2 DEF BrowserInv

\* The next domain of the list is the next one defer_callback() tells of.
LEMMA DeferTellsInv ==
    ASSUME BrowserInv, DeferTells
    PROVE  BrowserInv'
  <1> DEFINE done == Len(StaticDomains) - Len(left)
  <1>1. /\ UNCHANGED <<btype, ref, upstream, deferred, allForNow, info>>
        /\ left # <<>> /\ left' = Tail(left) /\ told' = told \union {Head(left)}
        /\ btype = "domain" /\ ref > 0
    BY DEF DeferTells, BrowserInv, DeferInv
  <1>2. left \in Seq(ToSet(StaticDomains)) /\ Len(StaticDomains) \in Nat
    BY StaticFacts DEF BrowserInv, DeferInv
  <1>3. /\ Len(left) \in Nat \ {0} /\ Len(left') = Len(left) - 1
        /\ left' \in Seq(ToSet(StaticDomains)) /\ Head(left) = left[1]
        /\ \A n \in 1..Len(left') : left'[n] = left[n + 1]
    BY <1>1, <1>2
  <1>4. done \in Nat /\ Len(StaticDomains) - Len(left') = done + 1
    BY <1>2, <1>3 DEF BrowserInv, DeferInv
  <1>5. \A n \in 1..Len(left) : left[n] = StaticDomains[done + n]
    BY <1>1 DEF BrowserInv, DeferInv
  <1>6. \A n \in 1..Len(left') : left'[n] = StaticDomains[(done + 1) + n]
    <2> SUFFICES ASSUME NEW n \in 1..Len(left')
                 PROVE  left'[n] = StaticDomains[(done + 1) + n]
      OBVIOUS
    <2>1. n + 1 \in 1..Len(left) /\ done + (n + 1) = (done + 1) + n
      BY <1>3, <1>4
    <2> QED
      BY <1>3, <1>5, <2>1
  <1>7. StaticTold' = StaticTold \union {Head(left)}
    <2>1. 1..(done + 1) = (1..done) \union {done + 1}
      BY <1>4
    <2>2. Head(left) = StaticDomains[done + 1]
      BY <1>3, <1>5
    <2>3. StaticTold = {StaticDomains[n] : n \in 1..done}
      BY DEF StaticTold
    <2>4. StaticTold' = {StaticDomains[n] : n \in 1..(done + 1)}
      BY <1>4 DEF StaticTold
    <2> HIDE DEF done
    <2> QED
      BY <2>1, <2>2, <2>3, <2>4
  <1>8. DeferInv'
    <2>1. Len(left') <= Len(StaticDomains)
      BY <1>2, <1>3, <1>4
    <2>2. \A n \in 1..Len(left') : left'[n] = StaticDomains[Len(StaticDomains) - Len(left') + n]
      BY <1>4, <1>6
    <2>3. deferred = "running" /\ ref \in {1, 2}
      BY DEF BrowserInv, DeferInv, DeferTells
    <2> QED
      BY <1>1, <1>3, <2>1, <2>2, <2>3 DEF DeferInv
  <1>9. told = {m \in upstream : Forwarded(m)} \union StaticTold
    BY <1>1 DEF BrowserInv, BrowserTellsAll
  <1>10. \A m : Forwarded(m)' <=> Forwarded(m)
    BY <1>1 DEF Forwarded
  <1>11. told' = {m \in upstream' : Forwarded(m)'} \union StaticTold'
    BY <1>1, <1>7, <1>9, <1>10
  <1>12. ~ allForNow
    BY <1>1 DEF BrowserInv, BrowserTellsAll
  <1> QED
    BY <1>1, <1>8, <1>11, <1>12 DEF BrowserInv, BrowserTellsAll

LEMMA DeferEndsInv ==
    ASSUME BrowserInv, DeferEnds
    PROVE  BrowserInv'
  <1>1. DeferInv'
    BY DEF BrowserInv, DeferInv, DeferEnds
  <1>2. ref' > 0 => ref > 0
    BY DEF BrowserInv, DeferInv, DeferEnds
  <1>3. allForNow' => left = <<>>
    <2>1. allForNow' = (allForNow \/ (scheduled /\ ref > 1))
      BY DEF DeferEnds
    <2>2. allForNow => left = <<>>
      BY DEF BrowserInv, BrowserTellsAll
    <2>3. ref > 1 => left = <<>>
      BY DEF BrowserInv, DeferInv, DeferEnds
    <2> QED
      BY <2>1, <2>2, <2>3, Zenon
  <1>4. BrowserTellsAll'
    BY <1>2, <1>3, SilentTells DEF DeferEnds
  <1> QED
    BY <1>1, <1>4 DEF BrowserInv

LEMMA FreeBrowserInv ==
    ASSUME BrowserInv, FreeBrowser
    PROVE  BrowserInv'
  <1>1. DeferInv'
    BY DEF BrowserInv, DeferInv, FreeBrowser
  <1>2. ref' > 0 => ref > 0
    BY DEF BrowserInv, DeferInv, FreeBrowser
  <1>3. BrowserTellsAll'
    BY <1>2, SilentTells DEF FreeBrowser, BrowserInv, BrowserTellsAll
  <1> QED
    BY <1>1, <1>3 DEF BrowserInv

\* The servers: told of while their entry says "found".
LEMMA ServerInv ==
    ASSUME BrowserInv, NEW n \in PtrNames,
           \/ \E s \in {"resolving", "failed"} : ServerNew(n, s)
           \/ \E e \in {"found", "failed"} : HostResolved(n, e)
           \/ ServerRemove(n)
    PROVE  BrowserInv'
  <1>1. /\ Ready /\ btype = "dns"
        /\ UNCHANGED <<btype, ref, deferred, left, scheduled, allForNow>>
    BY DEF ServerNew, HostResolved, ServerRemove
  <1>2. DeferInv'
    BY <1>1 DEF BrowserInv, DeferInv
  <1>3. told = {m \in DOMAIN info : info[m] = "found"}
    BY <1>1 DEF BrowserInv, BrowserTellsAll, Ready, Infos
  <1>4. told' = {m \in DOMAIN info' : info'[m] = "found"}
    <2>1. ASSUME NEW s \in {"resolving", "failed"}, ServerNew(n, s)
          PROVE  told' = {m \in DOMAIN info' : info'[m] = "found"}
      BY <1>3, <2>1 DEF ServerNew, WithInfo, Infos
    <2>2. ASSUME NEW e \in {"found", "failed"}, HostResolved(n, e)
          PROVE  told' = {m \in DOMAIN info' : info'[m] = "found"}
      BY <1>3, <2>2 DEF HostResolved, WithInfo, Infos
    <2>3. CASE ServerRemove(n)
      BY <1>3, <2>3 DEF ServerRemove, Infos
    <2> QED
      BY <2>1, <2>2, <2>3
  <1> QED
    BY <1>1, <1>2, <1>4 DEF BrowserInv, BrowserTellsAll, Infos

LEMMA BrowserStepInv == BrowserInv /\ [BrowserNext]_browserVars => BrowserInv'
  <1> SUFFICES ASSUME BrowserInv, [BrowserNext]_browserVars PROVE BrowserInv'
    OBVIOUS
  <1>1. ASSUME NEW n \in PtrNames, RecordNew(n) \/ RecordRemove(n) PROVE BrowserInv'
    BY <1>1, RecordInv
  <1>2. ASSUME NEW n \in PtrNames,
               \/ \E s \in {"resolving", "failed"} : ServerNew(n, s)
               \/ \E e \in {"found", "failed"} : HostResolved(n, e)
               \/ ServerRemove(n)
        PROVE  BrowserInv'
    BY <1>2, ServerInv
  <1>3. CASE RecordAllForNow
    BY <1>3, RecordAllForNowInv
  <1>4. CASE DeferStarts
    BY <1>4, DeferStartsInv
  <1>5. CASE DeferTells
    BY <1>5, DeferTellsInv
  <1>6. CASE DeferEnds
    BY <1>6, DeferEndsInv
  <1>7. CASE FreeBrowser
    BY <1>7, FreeBrowserInv
  <1>8. CASE UNCHANGED browserVars
    <2>1. DeferInv'
      BY <1>8 DEF BrowserInv, DeferInv, browserVars
    <2>2. BrowserTellsAll'
      BY <1>8, SilentTells DEF BrowserInv, BrowserTellsAll, browserVars
    <2> QED
      BY <2>1, <2>2 DEF BrowserInv
  <1> QED
    BY <1>1, <1>2, <1>3, <1>4, <1>5, <1>6, <1>7, <1>8 DEF BrowserNext

(* For any records and any list of configured domains, with repetitions too: the
   user of a service, type, domain or DNS server browser was told of exactly
   what there is, and of ALL_FOR_NOW only when no static domain is left to tell
   of, whatever the order of the record browser's events and the deferred event,
   and although the browser may be freed within its own callback. *)
THEOREM BrowserToldAll == BrowserSpec => []BrowserTellsAll
  <1>1. BrowserInv => BrowserTellsAll
    BY DEF BrowserInv
  <1> QED
    BY BrowserInitInv, BrowserStepInv, <1>1, PTL DEF BrowserSpec
==============================================================================
