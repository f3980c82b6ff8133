----------------------------- MODULE ProbeSched -----------------------------
(***************************************************************************)
(* The probes of one interface (avahi-core/probe-sched.c).  A probe that   *)
(* is due takes along others that fit into the packet: jobs are marked     *)
(* "chosen" by estimated size while the questions are written, and then    *)
(* their records are appended until one does not fit after all.            *)
(*                                                                         *)
(* A job stays in the list, with its timer, until it is done; the timer of *)
(* a job that is due fires again as long as the job exists.                *)
(***************************************************************************)
EXTENDS Naturals, FiniteSets, FiniteSetsExt

CONSTANTS
    ProbeRecords,   \* the records probed for
    ProbeSize,      \* avahi_record_get_estimate_size(), with the question
    ProbeSpace,     \* the room in a packet of the interface's MTU
    MaxBadEstimates \* bound: records that turn out larger than estimated

ASSUME ProbeSchedAssumption ==
    /\ IsFiniteSet(ProbeRecords) /\ ProbeSize \in [ProbeRecords -> Nat]
    /\ ProbeSpace \in Nat /\ MaxBadEstimates \in Nat

VARIABLES
    pjobs,      \* s->jobs: the records scheduled
    chosen,     \* the scheduled jobs with pj->chosen set
    phist,      \* s->history: the records probed a moment ago
    bad         \* bad estimates so far

probeVars == <<pjobs, chosen, phist, bad>>

ProbeInit == pjobs = {} /\ chosen = {} /\ phist = {} /\ bad = 0

\* avahi_probe_scheduler_post(): refused after a recent probe, shared with a
\* job that is scheduled, which at most becomes due earlier.
PostProbe(r) ==
    /\ pjobs' = IF r \in phist THEN pjobs ELSE pjobs \union {r}
    /\ UNCHANGED <<chosen, phist, bad>>

\* elapse_callback() of a job that is done.
ProbeHistoryElapse(r) ==
    /\ r \in phist /\ phist' = phist \ {r}
    /\ UNCHANGED <<pjobs, chosen, bad>>

\* job_mark_done() for several records.
ProbesDone(rs) == pjobs' = pjobs \ rs /\ phist' = phist \union rs

\* The timer of a job.  packet_add_probe_query() asserts that it is not marked:
\* a job left marked from an earlier packet would never get past this.
Due(r) == r \in pjobs /\ r \notin chosen

\* A record too large for the MTU gets a packet of its own, whether or not that
\* can be sent.
ProbeElapseLarge(r) ==
    /\ Due(r) /\ ProbeSize[r] > ProbeSpace
    /\ ProbesDone({r})
    /\ UNCHANGED <<chosen, bad>>

\* packet_add_probe_query(): the jobs that may go with r; which of those that
\* fit are taken depends on their order and on the names they share.
TotalSize(rs) == MapThenSumSet(LAMBDA x : ProbeSize[x], rs)
ChosenWith(r) ==
    {rs \in SUBSET (pjobs \ chosen) : r \in rs /\ TotalSize(rs) <= ProbeSpace}

\* Every record that was chosen is appended.
ProbeElapse(r) ==
    /\ Due(r) /\ ProbeSize[r] <= ProbeSpace
    /\ \E rs \in ChosenWith(r) \union {{r}} : ProbesDone(rs \union chosen)
    /\ chosen' = {}
    /\ UNCHANGED bad

\* Mutant: those behind it stay marked.
ProbeElapseKeepsChosen(r) ==
    /\ bad < MaxBadEstimates /\ bad' = bad + 1
    /\ Due(r) /\ ProbeSize[r] <= ProbeSpace
    /\ \E rs \in ChosenWith(r) \union {{r}} :
          \E sent \in SUBSET (rs \union chosen) :
             /\ sent # rs \union chosen /\ ProbesDone(sent)
             /\ chosen' = (rs \union chosen) \ sent

\* One of them does not fit: it and those behind it are unmarked.
ProbeElapseBadEstimate(r) ==
    /\ bad < MaxBadEstimates /\ bad' = bad + 1
    /\ Due(r) /\ ProbeSize[r] <= ProbeSpace
    /\ \E rs \in ChosenWith(r) \union {{r}} :
          \E sent \in SUBSET (rs \union chosen) :
             sent # rs \union chosen /\ ProbesDone(sent)
    /\ chosen' = {}

\* avahi_probe_scheduler_clear(), when the interface goes down.
ClearProbes ==
    /\ pjobs' = {} /\ phist' = {} /\ chosen' = {}
    /\ UNCHANGED bad

ProbeNext ==
    \/ \E r \in ProbeRecords :
          \/ PostProbe(r) \/ ProbeHistoryElapse(r) \/ ProbeElapseLarge(r)
          \/ ProbeElapse(r) \/ ProbeElapseBadEstimate(r)
    \/ ClearProbes

-----------------------------------------------------------------------------
(* A scheduled probe goes out, or the interface does: however estimates fail, no
   job is left behind marked for a packet it was not in. *)
ProbeGoesOut == \A r \in ProbeRecords : []<>(r \notin pjobs)
=============================================================================
