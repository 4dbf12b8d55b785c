-------------------------- MODULE ProcessingQueue --------------------------
(***************************************************************************)
(* The durable processing queue: the jobs of processing_jobs.json, the     *)
(* worker processes that poll it, the threads that execute claimed jobs,   *)
(* and the users who enqueue and cancel.  Processes stop and restart;      *)
(* threads and _active die with them, the jobs file does not.              *)
(*                                                                         *)
(* Simplifications.                                                        *)
(*  - A store operation is one step: it runs under the lease file.  That   *)
(*    a lease older than 30 s is taken away from its holder is left out.   *)
(*  - finish() and the removal from _active that follows are one step: the *)
(*    latter only frees a slot.                                            *)
(*  - The process that claimed a job is gone exactly when it stopped: a    *)
(*    reused pid that hides it is left out.                                *)
(*  - The hour of day is not kept: every poll may see any limit of Limits. *)
(***************************************************************************)
EXTENDS Naturals, FiniteSets

CONSTANTS
  Workers,      \* worker processes sharing the jobs file
  Host,         \* the host each of them runs on
  MaxJobs,      \* bound: jobs ever enqueued
  Limits,       \* what processing_limit may return
  None,
  MaxCrashes,   \* bound: process stops and finish() calls that fail
  MaxLong       \* bound: executions that outlast stale_after

ASSUME ConstantsAssumption ==
  /\ IsFiniteSet(Workers) /\ None \notin Workers
  /\ MaxJobs \in Nat /\ MaxCrashes \in Nat /\ MaxLong \in Nat
  /\ Limits \subseteq Nat \ {0} /\ IsFiniteSet(Limits) /\ Limits # {}

Jobs == 1 .. MaxJobs      \* in the order of the file

VARIABLES
  \* the jobs file
  status, scheduled, owner, attempt,
  \* jobs whose owner has stopped, jobs claimed more than stale_after ago
  lost, old,
  \* the processes: which run, _active of each, scans under way, threads
  up, active, scanning, threads,
  \* bounds and history
  crashes, long, asked

file    == <<status, scheduled, owner, attempt>>
procs   == <<up, active, scanning, threads>>
bounds  == <<crashes, long>>
vars    == <<file, lost, old, procs, bounds, asked>>

Threads  == [worker : Workers, job : Jobs, attempt : Nat]
Terminal == {"COMPLETED", "FAILED", "CANCELLED"}
Statuses == {"ABSENT", "QUEUED", "ACTIVE", "CANCEL_REQUESTED"} \cup Terminal

TypeOK ==
  /\ status \in [Jobs -> Statuses]
  /\ scheduled \subseteq Jobs
  /\ owner \in [Jobs -> Workers \cup {None}]
  /\ attempt \in [Jobs -> Nat]
  /\ lost \subseteq Jobs /\ old \subseteq Jobs
  /\ up \subseteq Workers /\ scanning \subseteq up
  /\ active \in [Workers -> SUBSET Jobs]
  /\ threads \subseteq Threads
  /\ \A t \in threads : t.worker \in up /\ t.attempt \in 1 .. attempt[t.job]
  /\ crashes \in 0 .. MaxCrashes /\ long \in 0 .. MaxLong
  /\ asked \subseteq Jobs

Init ==
  /\ status = [j \in Jobs |-> "ABSENT"]
  /\ scheduled = {} /\ owner = [j \in Jobs |-> None]
  /\ attempt = [j \in Jobs |-> 0]
  /\ lost = {} /\ old = {}
  /\ up = Workers /\ active = [w \in Workers |-> {}]
  /\ scanning = {} /\ threads = {}
  /\ crashes = 0 /\ long = 0 /\ asked = {}

With(s) == {j \in Jobs : status[j] \in s}
First(js) == CHOOSE j \in js : \A k \in js : j <= k

-----------------------------------------------------------------------------
(* Enqueueing.                                                             *)

AddEntry(isScheduled) ==
  LET j == First(With({"ABSENT"}))
  IN  /\ With({"ABSENT"}) # {}
      /\ status' = [status EXCEPT ![j] = "QUEUED"]
      /\ scheduled' = IF isScheduled THEN scheduled \cup {j} ELSE scheduled
      /\ UNCHANGED <<owner, attempt>>

\* A run requested by a user, or the job of a finished upload.
Enqueue ==
  /\ AddEntry(FALSE)
  /\ UNCHANGED <<lost, old, procs, bounds, asked>>

\* scan_once lists the jobs and goes on if nothing is pending ...
ScanCheck(w) ==
  /\ w \in up \ scanning
  /\ With({"QUEUED", "ACTIVE", "CANCEL_REQUESTED"}) = {}
  /\ scanning' = scanning \cup {w}
  /\ UNCHANGED <<file, lost, old, up, active, threads, bounds, asked>>

NoScheduledPending == scheduled \cap With({"QUEUED", "ACTIVE"}) = {}

\* ... and enqueues what it found later, unless a scheduled job is there by
\* then, or found nothing.
ScanEnqueue(w) ==
  /\ w \in scanning
  /\ scanning' = scanning \ {w}
  /\ \/ NoScheduledPending /\ AddEntry(TRUE)
     \/ UNCHANGED file
  /\ UNCHANGED <<lost, old, up, active, threads, bounds, asked>>

-----------------------------------------------------------------------------
(* Claiming.                                                               *)

\* Mutant of Recoverable: only jobs whose process is gone are recovered.
RecoverableIfGone(w) ==
  {j \in With({"ACTIVE"}) : j \in lost /\ Host[owner[j]] = Host[w]}

\* ACTIVE jobs that go back to the queue: their process is gone, as far as a
\* process of the same host can see, or they were claimed too long ago.
Recoverable(w) ==
  {j \in With({"ACTIVE"}) : (j \in lost /\ Host[owner[j]] = Host[w]) \/ j \in old}

\* The jobs after the first loop of claim_next.
Swept(w) ==
  [j \in Jobs |-> CASE status[j] = "CANCEL_REQUESTED" -> "CANCELLED"
                    [] j \in Recoverable(w)           -> "QUEUED"
                    [] OTHER                          -> status[j]]

\* Jobs the worker may take: queued ones, as long as fewer than limit are ACTIVE.
Candidates(w, limit) ==
  {j \in Jobs : /\ Swept(w)[j] = "QUEUED"
                /\ Cardinality({k \in Jobs : Swept(w)[k] = "ACTIVE"}) < limit}

\* Mutant of NextAttempt: the claim does not count.
NextAttemptUncounted(j) == attempt[j]

NextAttempt(j) == attempt[j] + 1

\* One iteration of run_pending_once: the first candidate gets a thread.  The
\* loop that polls is the one that scans.
Claim(w, limit) ==
  /\ w \in up \ scanning /\ Cardinality(active[w]) < limit
  /\ IF Candidates(w, limit) = {}
     THEN /\ status' = Swept(w)
          /\ old' = old \ Recoverable(w) /\ lost' = lost \ Recoverable(w)
          /\ UNCHANGED <<owner, attempt, active, threads>>
     ELSE LET j == First(Candidates(w, limit))
          IN  /\ status' = [Swept(w) EXCEPT ![j] = "ACTIVE"]
              /\ owner' = [owner EXCEPT ![j] = w]
              /\ attempt' = [attempt EXCEPT ![j] = NextAttempt(j)]
              /\ old' = old \ Recoverable(w) /\ lost' = lost \ (Recoverable(w) \cup {j})
              /\ active' = [active EXCEPT ![w] = @ \cup {j}]
              /\ threads' = threads \cup {[worker |-> w, job |-> j, attempt |-> NextAttempt(j)]}
  /\ UNCHANGED <<scheduled, up, scanning, bounds, asked>>

-----------------------------------------------------------------------------
(* Executing.                                                              *)

\* The thread ends and leaves _active; the entry may be that of a later
\* attempt of the same job.
Leave(t) ==
  /\ threads' = threads \ {t}
  /\ active' = [active EXCEPT ![t.worker] = @ \ {t.job}]
  /\ UNCHANGED <<up, scanning>>

\* Mutant of Outcome: the guard on the status is dropped.
OutcomeUnguarded(j, reported) ==
  IF status[j] = "CANCEL_REQUESTED" THEN "CANCELLED" ELSE reported

\* What finish() makes of the reported outcome.
Outcome(j, reported) ==
  CASE status[j] = "ACTIVE"           -> reported
    [] status[j] = "CANCEL_REQUESTED" -> "CANCELLED"
    [] OTHER                          -> status[j]

\* The executor returned or raised; a cancelled execution returns.
Finish(t) ==
  /\ t \in threads
  /\ \E reported \in {"COMPLETED", "FAILED"} :
       status' = [status EXCEPT ![t.job] = Outcome(t.job, reported)]
  /\ Leave(t)
  /\ UNCHANGED <<scheduled, owner, attempt, lost, old, bounds, asked>>

\* finish() could not get the lease or write the file.
LoseFinish(t) ==
  /\ t \in threads /\ crashes < MaxCrashes
  /\ Leave(t)
  /\ crashes' = crashes + 1
  /\ UNCHANGED <<file, lost, old, long, asked>>

Cancel(j) ==
  /\ status[j] \in {"QUEUED", "ACTIVE"}
  /\ status' = [status EXCEPT ![j] =
                  IF @ = "QUEUED" THEN "CANCELLED" ELSE "CANCEL_REQUESTED"]
  /\ asked' = asked \cup {j}
  /\ UNCHANGED <<scheduled, owner, attempt, lost, old, procs, bounds>>

-----------------------------------------------------------------------------
(* Time, stops and restarts.                                               *)

\* The claim that made the job ACTIVE still has its thread.
Executing(j) == \E t \in threads : t.job = j /\ t.attempt = attempt[j]

\* stale_after passes; the heartbeat is written by the claim only.
GrowOld(j) ==
  /\ status[j] = "ACTIVE" /\ j \notin old
  /\ IF Executing(j) THEN long < MaxLong /\ long' = long + 1 ELSE long' = long
  /\ old' = old \cup {j}
  /\ UNCHANGED <<file, lost, procs, crashes, asked>>

Crash(w) ==
  /\ w \in up /\ crashes < MaxCrashes
  /\ up' = up \ {w} /\ scanning' = scanning \ {w}
  /\ active' = [active EXCEPT ![w] = {}]
  /\ threads' = {t \in threads : t.worker # w}
  /\ lost' = lost \cup {j \in With({"ACTIVE", "CANCEL_REQUESTED"}) : owner[j] = w}
  /\ crashes' = crashes + 1
  /\ UNCHANGED <<file, old, long, asked>>

Restart(w) ==
  /\ w \notin up
  /\ up' = up \cup {w}
  /\ UNCHANGED <<file, lost, old, active, scanning, threads, bounds, asked>>

-----------------------------------------------------------------------------

Poll(w) == \E limit \in Limits : Claim(w, limit)

Next ==
  \/ Enqueue
  \/ \E w \in Workers :
       ScanCheck(w) \/ ScanEnqueue(w) \/ Poll(w) \/ Crash(w) \/ Restart(w)
  \/ \E t \in threads : Finish(t) \/ LoseFinish(t)
  \/ \E j \in Jobs : Cancel(j) \/ GrowOld(j)

Spec == Init /\ [][Next]_vars

\* The loop scans and polls, an execution ends, stopped processes are restarted, and
\* time passes for a job nobody executes.
Fairness ==
  /\ \A w \in Workers : WF_vars(Poll(w)) /\ WF_vars(ScanEnqueue(w)) /\ WF_vars(Restart(w))
  /\ WF_vars(\E t \in threads : Finish(t))
  /\ \A j \in Jobs : WF_vars(~Executing(j) /\ GrowOld(j))

FairSpec == Spec /\ Fairness

-----------------------------------------------------------------------------
(* Correctness.                                                            *)

\* At most one scheduled job is queued or running, although several processes
\* look for pending work and enqueue it later.
ScheduledOnce == Cardinality(scheduled \cap With({"QUEUED", "ACTIVE"})) <= 1

\* Unless an execution outlasts stale_after, no job is executed twice at the
\* same time, recovery after a stop included.
JobRunsOnce ==
  long = 0 => \A t, u \in threads : t.job = u.job => t = u

\* The concurrency limit holds for all processes together.
RunsWithinLimit == \A n \in Limits : (\A m \in Limits : m <= n) => Cardinality(threads) <= n

\* So it does as long as nothing was cancelled or outlasted stale_after.
RunsWithinLimitUndisturbed == asked = {} /\ long = 0 => RunsWithinLimit

\* Jobs are scheduled and executed once each, within the limit.
ExecutionsBounded == ScheduledOnce /\ JobRunsOnce /\ RunsWithinLimitUndisturbed

\* A late finish(), a sweep or a recovery never touches what is decided: a job
\* that ended stays as it ended and is not tried again, and one that is asked to
\* stop can only become cancelled, whatever its thread reports and wherever its
\* process stops.
DecidedIsFinal ==
  [][\A j \in Jobs :
       /\ status[j] \in Terminal => status'[j] = status[j] /\ attempt'[j] = attempt[j]
       /\ status[j] = "CANCEL_REQUESTED" =>
            status'[j] \in {"CANCEL_REQUESTED", "CANCELLED"}]_vars

\* What the processes share holds for all of them together: ExecutionsBounded
\* and DecidedIsFinal.
JobsSafe == []ExecutionsBounded /\ DecidedIsFinal

\* Every queued job ends one day: stopped processes, on whatever host, and
\* lost outcomes do not block it or its slot for good.
QueuedIsSettled ==
  \A j \in Jobs : status[j] = "QUEUED" ~> status[j] \in Terminal

=============================================================================
