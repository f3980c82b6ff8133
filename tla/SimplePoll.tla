----------------------------- MODULE SimplePoll -----------------------------
(***************************************************************************)
(* avahi-common's own event loop (simple-watch.c), run by a helper thread  *)
(* (thread-watch.c).  The helper holds the mutex except inside poll();     *)
(* the application changes watches and timeouts under the mutex and writes *)
(* to a pipe to make poll() return.  Watches and timeouts are marked dead  *)
(* and freed by the next prepare.                                          *)
(***************************************************************************)
EXTENDS Naturals, FiniteSets

CONSTANTS
    Watches,    \* the watches the application may create
    Timeouts    \* its timeouts

ASSUME SimplePollAssumption == IsFiniteSet(Watches) /\ IsFiniteSet(Timeouts)

VARIABLES
    pc,         \* where the helper thread is
    mutex,      \* who holds p->mutex: "loop", "app" or "free"
    watch,      \* a watch: "none", "live", or "dead" and not yet freed
    indexed,    \* the watches with w->idx # -1
    revents,    \* the watches with an event in pollfds
    timeout,    \* a timeout: "none", "off", "armed", or "dead"
    timed,      \* the timeouts the sleep time was computed for
    rebuild,    \* s->rebuild_pollfds
    cleanup,    \* the requests: a subset of {"watch", "timeout"}
    quit,       \* s->quit
    pipe        \* a byte in the wakeup pipe

pollVars == <<pc, mutex, watch, indexed, revents, timeout, timed, rebuild,
              cleanup, quit, pipe>>

\* avahi_threaded_poll_new()
ThreadInit == pc = "off" /\ mutex = "free"

PollInit ==
    /\ ThreadInit
    /\ watch = [w \in Watches |-> "none"] /\ indexed = {} /\ revents = {}
    /\ timeout = [t \in Timeouts |-> "none"] /\ timed = {}
    /\ rebuild = TRUE /\ cleanup = {} /\ quit = FALSE /\ pipe = FALSE

Live == {w \in Watches : watch[w] = "live"}
Armed == {t \in Timeouts : timeout[t] = "armed"}

-----------------------------------------------------------------------------
(* The API, called before the thread starts, under the mutex, or from a    *)
(* callback.  Every change ends poll(): avahi_simple_poll_wakeup().        *)
MayCall == pc = "off" \/ mutex = "app" \/ pc = "callback"

Wakeup == pipe' = TRUE
ApiFrame == UNCHANGED <<pc, mutex, timed>>

\* Mutant: the thread in poll() is not told.
WatchNewSilent(w) ==
    /\ MayCall /\ watch[w] = "none"
    /\ watch' = [watch EXCEPT ![w] = "live"]
    /\ indexed' = indexed \ {w} /\ rebuild' = TRUE
    /\ ApiFrame /\ UNCHANGED <<revents, timeout, cleanup, quit, pipe>>

WatchNew(w) ==
    /\ MayCall /\ watch[w] = "none"
    /\ watch' = [watch EXCEPT ![w] = "live"]
    /\ indexed' = indexed \ {w} /\ rebuild' = TRUE
    /\ Wakeup
    /\ ApiFrame /\ UNCHANGED <<revents, timeout, cleanup, quit>>

\* watch_update() writes the pollfd of a watch that has one.
WatchUpdate(w) ==
    /\ MayCall /\ watch[w] = "live"
    /\ Wakeup
    /\ revents' = revents \ {w}
    /\ rebuild' = (rebuild \/ w \notin indexed)
    /\ ApiFrame /\ UNCHANGED <<watch, indexed, timeout, cleanup, quit>>

WatchFree(w) ==
    /\ MayCall /\ watch[w] = "live"
    /\ Wakeup
    /\ watch' = [watch EXCEPT ![w] = "dead"]
    /\ rebuild' = (rebuild \/ w \in indexed)
    /\ cleanup' = cleanup \union {"watch"}
    /\ ApiFrame /\ UNCHANGED <<indexed, revents, timeout, quit>>

TimeoutNew(t, state) ==
    /\ MayCall /\ timeout[t] = "none"
    /\ Wakeup
    /\ timeout' = [timeout EXCEPT ![t] = state]
    /\ ApiFrame /\ UNCHANGED <<watch, indexed, revents, rebuild, cleanup, quit>>

TimeoutUpdate(t, state) ==
    /\ MayCall /\ timeout[t] \in {"off", "armed"}
    /\ Wakeup
    /\ timeout' = [timeout EXCEPT ![t] = state]
    /\ pc' = pc /\ mutex' = mutex /\ timed' = timed \ {t}
    /\ UNCHANGED <<watch, indexed, revents, rebuild, cleanup, quit>>

TimeoutFree(t) ==
    /\ MayCall /\ timeout[t] \in {"off", "armed"}
    /\ Wakeup
    /\ timeout' = [timeout EXCEPT ![t] = "dead"]
    /\ cleanup' = cleanup \union {"timeout"}
    /\ ApiFrame /\ UNCHANGED <<watch, indexed, revents, rebuild, quit>>

\* avahi_simple_poll_quit(), by avahi_threaded_poll_stop() under the mutex or by
\* avahi_threaded_poll_quit() in a callback.
Quit ==
    /\ mutex = "app" \/ pc = "callback"
    /\ quit' = TRUE /\ Wakeup
    /\ ApiFrame /\ UNCHANGED <<watch, indexed, revents, timeout, rebuild, cleanup>>

\* avahi_threaded_poll_lock() and unlock().
AppLock ==
    /\ pc # "off" /\ mutex = "free" /\ mutex' = "app"
    /\ UNCHANGED <<pc, watch, indexed, revents, timeout, timed, rebuild, cleanup, quit, pipe>>

AppUnlock ==
    /\ mutex = "app" /\ mutex' = "free"
    /\ UNCHANGED <<pc, watch, indexed, revents, timeout, timed, rebuild, cleanup, quit, pipe>>

-----------------------------------------------------------------------------
(* The helper thread                                                       *)

\* avahi_threaded_poll_start()
StartThread ==
    /\ pc = "off" /\ pc' = "starting"
    /\ UNCHANGED <<mutex, watch, indexed, revents, timeout, timed, rebuild, cleanup, quit, pipe>>

ThreadLocks ==
    /\ pc = "starting" /\ mutex = "free"
    /\ pc' = "prepare" /\ mutex' = "loop"
    /\ UNCHANGED <<watch, indexed, revents, timeout, timed, rebuild, cleanup, quit, pipe>>

\* cleanup_watches() and cleanup_timeouts().  The former clears the request of
\* the latter, and its own stays set.
CleanUp ==
    /\ watch' = [w \in Watches |-> IF "watch" \in cleanup /\ watch[w] = "dead"
                                   THEN "none" ELSE watch[w]]
    /\ timeout' = [t \in Timeouts |-> IF cleanup = {"timeout"} /\ timeout[t] = "dead"
                                      THEN "none" ELSE timeout[t]]
    /\ cleanup' = cleanup \ {"timeout"}

\* rebuild(): the pollfds of the live watches.
Rebuild ==
    /\ indexed' = IF rebuild THEN Live ELSE indexed
    /\ revents' = IF rebuild THEN {} ELSE revents
    /\ rebuild' = FALSE

\* Mutant: a thread with work to set up does not look for the request to quit.
PrepareForgetsQuit ==
    /\ pc = "prepare" /\ pipe' = FALSE
    /\ CleanUp /\ UNCHANGED quit
    /\ \/ /\ quit /\ ~ rebuild
          /\ pc' = "ended" /\ mutex' = "free"
          /\ UNCHANGED <<indexed, revents, timed, rebuild>>
       \/ /\ ~ quit \/ rebuild
          /\ Rebuild
          /\ timed' = Armed /\ pc' = "poll" /\ mutex' = "free"

\* avahi_simple_poll_prepare() and the unlock in poll_func(); with a request to
\* quit the loop ends and thread() unlocks.
Prepare ==
    /\ pc = "prepare" /\ pipe' = FALSE
    /\ CleanUp /\ UNCHANGED quit
    /\ \/ /\ quit
          /\ pc' = "ended" /\ mutex' = "free"
          /\ UNCHANGED <<indexed, revents, timed, rebuild>>
       \/ /\ ~ quit
          /\ Rebuild
          /\ timed' = Armed /\ pc' = "poll" /\ mutex' = "free"

\* poll() returns for a wakeup, an event or the end of the sleep, and poll_func()
\* takes the mutex again.
PollReturns(ready) ==
    /\ pc = "poll" /\ mutex = "free"
    /\ pipe \/ ready # {} \/ timed # {}
    /\ pc' = "dispatch" /\ mutex' = "loop" /\ revents' = ready
    /\ UNCHANGED <<watch, indexed, timeout, timed, rebuild, cleanup, quit, pipe>>

\* poll() fails: avahi_simple_poll_loop() returns.
PollFails ==
    /\ pc = "poll" /\ mutex = "free"
    /\ pc' = "ended"
    /\ UNCHANGED <<mutex, watch, indexed, revents, timeout, timed, rebuild, cleanup, quit, pipe>>

\* avahi_simple_poll_dispatch(): one callback, of a timeout that is due ...
DispatchTimeout(t) ==
    /\ pc = "dispatch" /\ t \in Armed
    /\ timeout' = [timeout EXCEPT ![t] = "off"]
    /\ pc' = "callback"
    /\ UNCHANGED <<mutex, watch, indexed, revents, timed, rebuild, cleanup, quit, pipe>>

\* ... or else of a watch.  A watch created during poll() has no index and, being
\* new, is the first of the list: assert(w->idx >= 0).
DispatchWatch ==
    /\ pc = "dispatch"
    /\ pc' = CASE Live \ indexed # {} -> "aborted"
               [] Live \cap revents # {} -> "callback"
               [] OTHER -> "prepare"
    /\ UNCHANGED <<mutex, watch, indexed, revents, timeout, timed, rebuild, cleanup, quit, pipe>>

CallbackEnds ==
    /\ pc = "callback" /\ pc' = "prepare"
    /\ UNCHANGED <<mutex, watch, indexed, revents, timeout, timed, rebuild, cleanup, quit, pipe>>

LoopStep ==
    \/ ThreadLocks \/ Prepare \/ \E ready \in SUBSET indexed : PollReturns(ready)
    \/ (\E t \in Timeouts : DispatchTimeout(t)) \/ DispatchWatch \/ CallbackEnds

PollNext ==
    \/ \E w \in Watches : WatchNew(w) \/ WatchUpdate(w) \/ WatchFree(w)
    \/ \E t \in Timeouts : TimeoutFree(t)
    \/ \E t \in Timeouts, s \in {"off", "armed"} : TimeoutNew(t, s) \/ TimeoutUpdate(t, s)
    \/ Quit \/ AppLock \/ AppUnlock \/ StartThread \/ PollFails \/ LoopStep

PollSpec == PollInit /\ [][PollNext]_pollVars

-----------------------------------------------------------------------------
(* A change made while the helper is in poll(), on its old pollfds and its old
   sleep time, is never slept through: whenever what poll() waits for is out of
   date, there is a byte in the pipe. *)
WakeupNotLost ==
    pc = "poll" /\ (quit \/ rebuild \/ ~ Armed \subseteq timed) => pipe

(* avahi_threaded_poll_stop() gets to join: after a request to quit, by the
   application or from a callback, the helper leaves its loop. *)
StopEndsThread == quit ~> pc \in {"ended", "aborted"}
=============================================================================
