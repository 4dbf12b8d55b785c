---------------------------- MODULE QueueManager ----------------------------
(***************************************************************************)
(* The legacy queue over Redis: a job's record in one hash, its identifier *)
(* in one of four lists, and workers that move it from list to list with   *)
(* one command at a time.  A command can raise, applied or not; a worker   *)
(* then drops what it holds, and a caller runs the job itself.             *)
(*                                                                         *)
(* Simplifications.                                                        *)
(*  - A record is the fields that steer its job; handlers end or raise.    *)
(*  - A popped job has its record: it was stored before the first push and *)
(*    is removed with the list entry of a completed job only.              *)
(*  - Stopping lets the workers finish, so it is not shown; the end of the *)
(*    process takes what they hold.                                        *)
(***************************************************************************)
EXTENDS Integers, FiniteSets, Sequences, SequencesExt

CONSTANTS
  Jobs,
  Workers,
  MaxRetries, \* max_retries
  MaxFaults,  \* bound: commands that raise, and ends of the process
  None

VARIABLES
  data,       \* jobs:data
  pending,    \* jobs:pending, oldest first
  processing, \* jobs:processing: how often each job is in it
  completed,  \* jobs:completed
  failed,     \* jobs:failed
  caller,     \* where enqueue_job is for each job
  worker,     \* what each worker holds, and where it is
  \* history
  faults,
  runs,       \* how often each job's handler ran for a worker
  tries,      \* the retries asked for
  stale,      \* jobs loaded with fewer retries than were asked for
  dropped     \* jobs a fault took from a worker

qvars == <<data, pending, processing, completed, failed, caller, worker,
           faults, runs, tries, stale, dropped>>

Statuses == {"queued", "retrying", "completed", "failed"}
Rec(status, retries) == [status |-> status, retries |-> retries]
Stages == {"popped", "loaded", "listed", "done", "unlisted", "settled"}

TypeOK ==
  /\ data \in [Jobs -> [status : Statuses, retries : 0 .. MaxRetries] \cup {None}]
  /\ pending \in Seq(Jobs)
  /\ \A list \in {processing, completed, failed} : list \in [Jobs -> Nat]
  /\ caller \in [Jobs -> {"new", "stored", "direct", "returned"}]
  /\ worker \in [Workers -> [job : Jobs, at : Stages, status : Statuses,
                             retries : 0 .. MaxRetries, ok : BOOLEAN] \cup {None}]
  /\ faults \in 0 .. MaxFaults /\ runs \in [Jobs -> Nat] /\ tries \in [Jobs -> Nat]
  /\ stale \subseteq Jobs /\ dropped \subseteq Jobs

Init ==
  /\ data = [j \in Jobs |-> None] /\ pending = <<>>
  /\ processing = [j \in Jobs |-> 0] /\ completed = processing /\ failed = processing
  /\ caller = [j \in Jobs |-> "new"] /\ worker = [w \in Workers |-> None]
  /\ faults = 0 /\ runs = processing /\ tries = processing /\ stale = {} /\ dropped = {}

Plus(list, j)  == [list EXCEPT ![j] = @ + 1]
Minus(list, j) == [list EXCEPT ![j] = IF @ > 0 THEN @ - 1 ELSE 0]

-----------------------------------------------------------------------------
(* enqueue_job.                                                            *)

Quiet   == UNCHANGED <<worker, runs, tries, stale, dropped>>
History == <<runs, tries, stale, dropped>>
Lists   == <<processing, completed, failed>>

Fault == faults < MaxFaults /\ faults' = faults + 1

Call(j, from, to) == caller[j] = from /\ caller' = [caller EXCEPT ![j] = to]

Stored(j) == data' = [data EXCEPT ![j] = Rec("queued", 0)] /\ UNCHANGED pending
Pushed(j) == pending' = Append(pending, j) /\ UNCHANGED data

StoreJob(j) == Call(j, "new", "stored") /\ Stored(j) /\ UNCHANGED <<Lists, faults>> /\ Quiet
PushJob(j)  == Call(j, "stored", "returned") /\ Pushed(j) /\ UNCHANGED <<Lists, faults>> /\ Quiet

\* A command raised: the caller processes the job itself.
StoreRaises(j) ==
  /\ Fault /\ Call(j, "new", "direct")
  /\ Stored(j) \/ UNCHANGED <<data, pending>>
  /\ UNCHANGED Lists /\ Quiet

PushRaises(j) ==
  /\ Fault /\ Call(j, "stored", "direct")
  /\ Pushed(j) \/ UNCHANGED <<data, pending>>
  /\ UNCHANGED Lists /\ Quiet

\* _process_job_directly: the record is not touched.
Direct(j) ==
  /\ Call(j, "direct", "returned")
  /\ UNCHANGED <<data, pending, Lists, faults>> /\ Quiet

-----------------------------------------------------------------------------
(* _worker_loop, command by command.                                       *)

Holds(w, stage) == worker[w] # None /\ worker[w].at = stage
Job(w)  == worker[w].job
To(w, stage) == worker' = [worker EXCEPT ![w].at = stage]

Pop(w) ==
  /\ worker[w] = None /\ pending # <<>>
  /\ worker' = [worker EXCEPT ![w] = [job |-> Head(pending), at |-> "popped",
                                       status |-> "queued", retries |-> 0, ok |-> FALSE]]
  /\ pending' = Tail(pending)
  /\ UNCHANGED <<data, Lists, caller, faults, History>>

PopRaises(w) ==
  /\ Fault /\ worker[w] = None /\ pending # <<>>
  /\ pending' = Tail(pending) /\ dropped' = dropped \cup {Head(pending)}
  /\ UNCHANGED <<data, Lists, caller, worker, runs, tries, stale>>

Load(w) ==
  /\ Holds(w, "popped")
  /\ LET d == data[Job(w)]
     IN  /\ worker' = [worker EXCEPT ![w].at = "loaded", ![w].retries = d.retries,
                                     ![w].status = d.status]
         /\ stale' = IF d.retries < tries[Job(w)] THEN stale \cup {Job(w)} ELSE stale
  /\ UNCHANGED <<data, pending, Lists, caller, faults, runs, tries, dropped>>

Shift(w) ==
  /\ Holds(w, "loaded") /\ To(w, "listed") /\ processing' = Plus(processing, Job(w))
  /\ UNCHANGED <<data, pending, completed, failed, caller, faults, History>>

\* _process_job.
Run(w) ==
  /\ Holds(w, "listed")
  /\ \E ok \in BOOLEAN : worker' = [worker EXCEPT ![w].at = "done", ![w].ok = ok]
  /\ runs' = Plus(runs, Job(w))
  /\ UNCHANGED <<data, pending, Lists, caller, faults, tries, stale, dropped>>

Unshift(w) ==
  /\ Holds(w, "done") /\ To(w, "unlisted") /\ processing' = Minus(processing, Job(w))
  /\ UNCHANGED <<data, pending, completed, failed, caller, faults, History>>

MayRetry(retries) == retries < MaxRetries

\* The list a finished job goes to, and what its record will say.
Verdict(h) == IF h.ok THEN "completed" ELSE IF MayRetry(h.retries) THEN "retrying" ELSE "failed"

Listed(verdict, j) ==
  /\ completed' = IF verdict = "completed" THEN Plus(completed, j) ELSE completed
  /\ failed' = IF verdict = "failed" THEN Plus(failed, j) ELSE failed
  /\ pending' = IF verdict = "retrying" THEN Append(pending, j) ELSE pending
  /\ tries' = IF verdict = "retrying" THEN Plus(tries, j) ELSE tries
  /\ UNCHANGED processing

Settle(w) ==
  /\ Holds(w, "unlisted")
  /\ LET verdict == Verdict(worker[w])
     IN  /\ Listed(verdict, Job(w))
         /\ worker' = [worker EXCEPT
              ![w].at = "settled", ![w].status = verdict,
              ![w].retries = IF verdict = "retrying" THEN @ + 1 ELSE @]
  /\ UNCHANGED <<data, caller, faults, runs, stale, dropped>>

\* Mutant of Kept: the status is that of the retry before.
KeptUnmarked(h) == Rec("retrying", h.retries)

Kept(h) == Rec(h.status, h.retries)

Save(w) ==
  /\ Holds(w, "settled")
  /\ data' = [data EXCEPT ![Job(w)] = Kept(worker[w])]
  /\ worker' = [worker EXCEPT ![w] = None]
  /\ UNCHANGED <<pending, Lists, caller, faults, History>>

\* The exception is logged and the worker goes on with the next job.
Dropped(w) == Fault /\ worker' = [worker EXCEPT ![w] = None] /\ UNCHANGED <<caller, runs, stale>>

Loses(w) == dropped' = dropped \cup {Job(w)}

LoadRaises(w) ==
  /\ Holds(w, "popped") /\ Dropped(w) /\ Loses(w)
  /\ UNCHANGED <<data, pending, Lists, tries>>

ShiftRaises(w) ==
  /\ Holds(w, "loaded") /\ Dropped(w) /\ Loses(w)
  /\ processing' = Plus(processing, Job(w)) \/ processing' = processing
  /\ UNCHANGED <<data, pending, completed, failed, tries>>

UnshiftRaises(w) ==
  /\ Holds(w, "done") /\ Dropped(w) /\ Loses(w)
  /\ processing' = Minus(processing, Job(w)) \/ processing' = processing
  /\ UNCHANGED <<data, pending, completed, failed, tries>>

SettleRaises(w) ==
  /\ Holds(w, "unlisted") /\ Dropped(w) /\ Loses(w) /\ UNCHANGED data
  /\ \/ Listed(Verdict(worker[w]), Job(w))
     \/ UNCHANGED <<pending, Lists, tries>>

SaveRaises(w) ==
  /\ Holds(w, "settled") /\ Dropped(w) /\ Loses(w) /\ UNCHANGED <<pending, Lists, tries>>
  /\ data' = [data EXCEPT ![Job(w)] = Kept(worker[w])] \/ data' = data

\* The process ends; nothing reads jobs:processing when it starts again.
Crash ==
  /\ Fault /\ worker' = [w \in Workers |-> None]
  /\ dropped' = dropped \cup {worker[w].job : w \in {x \in Workers : worker[x] # None}}
  /\ UNCHANGED <<data, pending, Lists, caller, runs, tries, stale>>

\* clear_completed_jobs: any completed job may be old enough.
Clear(j) ==
  /\ completed[j] > 0 /\ data[j] # None /\ data[j].status = "completed"
  /\ completed' = Minus(completed, j) /\ data' = [data EXCEPT ![j] = None]
  /\ UNCHANGED <<pending, processing, failed, caller, worker, faults, History>>

Next ==
  \/ \E j \in Jobs : StoreJob(j) \/ PushJob(j) \/ StoreRaises(j) \/ PushRaises(j) \/ Direct(j)
                     \/ Clear(j)
  \/ \E w \in Workers :
       \/ Pop(w) \/ Load(w) \/ Shift(w) \/ Run(w) \/ Unshift(w) \/ Settle(w) \/ Save(w)
       \/ PopRaises(w) \/ LoadRaises(w) \/ ShiftRaises(w) \/ UnshiftRaises(w)
       \/ SettleRaises(w) \/ SaveRaises(w)
  \/ Crash

-----------------------------------------------------------------------------
(* Properties.                                                             *)

Waits(j)  == Cardinality({i \in DOMAIN pending : pending[i] = j})
Held(j)   == {w \in Workers : worker[w] # None /\ worker[w].job = j}
Before(j) == {w \in Held(j) : worker[w].at # "settled"}
Places(j) == Waits(j) + Cardinality(Before(j)) + completed[j] + failed[j]

\* A job is in one place: two workers never run it at the same time.
InOnePlace == \A j \in Jobs : Places(j) <= 1

\* A job taken over is waiting, held or settled until it is cleared, unless a
\* fault took it from a worker, or a late count brought back its record.
NotForgotten ==
  \A j \in Jobs \ (dropped \cup stale) :
    caller[j] = "returned" /\ data[j] # None /\ (faults = 0 \/ runs[j] > 0) => Places(j) = 1

\* A job runs once and is retried max_retries times, unless a worker took it
\* before the one that failed had stored the count.
RetriesBounded == \A j \in Jobs : runs[j] > MaxRetries + 1 => j \in stale

\* When nobody holds a job, its record says which list it is in, unless a
\* count was stale or a fault came between.
RecordAgrees ==
  \A j \in Jobs : Held(j) = {} /\ data[j] # None /\ j \notin stale \cup dropped =>
    /\ (completed[j] > 0) = (data[j].status = "completed")
    /\ (failed[j] > 0) = (data[j].status = "failed")

JobsSafe == InOnePlace /\ NotForgotten /\ RetriesBounded /\ RecordAgrees

=============================================================================
