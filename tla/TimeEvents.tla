----------------------------- MODULE TimeEvents -----------------------------
(***************************************************************************)
(* All timers of the embedded stack (avahi-core/timeeventq.c): time events *)
(* in one priority queue, served by a single timeout of the event loop,    *)
(* here the Qt one (avahi-qt/qt-watch.cpp).  A callback runs with the      *)
(* queue open to every change, the freeing of its own event included.      *)
(*                                                                         *)
(* The clock ticks every half millisecond: a QTimer counts milliseconds    *)
(* and AvahiTimeout::update() rounds down, so it may fire a tick early.    *)
(***************************************************************************)
EXTENDS PrioQueue

CONSTANTS
    Events,     \* the time events, numbered
    MaxNow      \* bound: the last tick of the clock

ASSUME TimeEventsAssumption ==
    IsFiniteSet(Events) /\ Events \subseteq Nat /\ NullNode \notin Events /\ MaxNow \in Nat

VARIABLES
    tq,         \* q->prioq
    expiry,     \* e->expiry
    lastRun,    \* e->last_run
    now,        \* gettimeofday()
    timer,      \* the tick at which the QTimer fires, or Off
    running     \* the callback of an event is running

timeVars == <<tq, expiry, lastRun, now, timer, running>>

Off == -1

TimeInit ==
    /\ tq = EmptyQueue(Events) /\ expiry = [e \in Events |-> 0]
    /\ lastRun = [e \in Events |-> 0]
    /\ now = 0 /\ timer = Off /\ running = FALSE

\* compare(): earlier expiry first, then the event that ran longer ago.
EventKey(ex, lr) == [e \in Events |-> ex[e] * (MaxNow + 2) + lr[e]]

\* AvahiTimeout::update()
TimerAt(t) == IF t <= now THEN now ELSE now + 2 * ((t - now) \div 2)

\* update_timeout(), for the queue and the times a step leaves behind.
UpdateTimeout == timer' = IF tq'.root = NullNode THEN Off ELSE TimerAt(expiry'[tq'.root])

\* avahi_time_event_new(); expiry 0 is "at once".
TimeEventNew(e, t) ==
    /\ e \notin tq.used /\ \A f \in Events \ tq.used : e <= f
    /\ expiry' = [expiry EXCEPT ![e] = t] /\ lastRun' = [lastRun EXCEPT ![e] = 0]
    /\ tq' = QueuePut(tq, e, EventKey(expiry', lastRun'))
    /\ UpdateTimeout
    /\ UNCHANGED <<now, running>>

\* Mutant: the timeout keeps waiting for the event that is gone.
TimeEventFreeSilent(e) ==
    /\ e \in tq.used
    /\ tq' = QueueRemove(tq, e, EventKey(expiry, lastRun))
    /\ expiry' = [expiry EXCEPT ![e] = 0] /\ lastRun' = [lastRun EXCEPT ![e] = 0]
    /\ UNCHANGED <<now, running, timer>>

TimeEventFree(e) ==
    /\ e \in tq.used
    /\ tq' = QueueRemove(tq, e, EventKey(expiry, lastRun))
    /\ expiry' = [expiry EXCEPT ![e] = 0] /\ lastRun' = [lastRun EXCEPT ![e] = 0]
    /\ UpdateTimeout
    /\ UNCHANGED <<now, running>>

TimeEventUpdate(e, t) ==
    /\ e \in tq.used
    /\ expiry' = [expiry EXCEPT ![e] = t]
    /\ tq' = Shuffle(tq, e, EventKey(expiry', lastRun))
    /\ UpdateTimeout
    /\ UNCHANGED <<now, running, lastRun>>

\* The QTimer, a single shot, fires and expiration_event() runs the root if it
\* is due.
ExpirationEvent ==
    /\ ~ running /\ timer # Off /\ timer <= now
    /\ \/ /\ expiry[tq.root] <= now
          /\ lastRun' = [lastRun EXCEPT ![tq.root] = now]
          /\ tq' = Shuffle(tq, tq.root, EventKey(expiry, lastRun'))
          /\ running' = TRUE /\ timer' = Off
          /\ UNCHANGED <<now, expiry>>
       \/ /\ expiry[tq.root] > now
          /\ UNCHANGED <<tq, expiry, lastRun, now, running>>
          /\ UpdateTimeout

CallbackReturns ==
    /\ running /\ running' = FALSE
    /\ UNCHANGED <<tq, expiry, lastRun, now>>
    /\ UpdateTimeout

ClockTick ==
    /\ now < MaxNow /\ now' = now + 1
    /\ UNCHANGED <<tq, expiry, lastRun, timer, running>>

TimeNext ==
    \/ \E e \in Events, t \in 0..MaxNow + 1 : TimeEventNew(e, t) \/ TimeEventUpdate(e, t)
    \/ \E e \in Events : TimeEventFree(e)
    \/ ExpirationEvent \/ CallbackReturns \/ ClockTick

-----------------------------------------------------------------------------
(* Whatever callbacks do to the queue, the event loop waits for the right event:
   outside of a callback the QTimer is off exactly if there is no event and
   never fires later than the first event is due.  The root of the queue is an
   event nobody precedes, in this queue as in a larger one with any priorities. *)
NextEventIsTimed ==
    /\ QueueSound /\ TreeSound(tq, EventKey(expiry, lastRun))
    /\ ~ running => (timer = Off) = (tq.used = {})
    /\ ~ running => \A e \in tq.used :
          timer <= (IF expiry[e] > now THEN expiry[e] ELSE now)
=============================================================================
