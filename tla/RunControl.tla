----------------------------- MODULE RunControl -----------------------------
(***************************************************************************)
(* Runs of the pipeline as the dashboard controls them: the requests of    *)
(* api_run, _run_state, the jobs its worker claims and executes in         *)
(* threads, their cancellation, the scheduled scan, the reprocessing of    *)
(* one video, and restarts of the dashboard.                               *)
(*                                                                         *)
(* Simplifications.                                                        *)
(*  - The dashboard is the only process that claims jobs (ProcessingQueue  *)
(*    has several), and every run is a full one.                           *)
(*  - Three stages stand for the eight of PIPELINE_STAGES: compress,       *)
(*    transcribe and store.  _apply_stage_derivation completes all stages  *)
(*    before the furthest one, so that one and its mark are kept.          *)
(***************************************************************************)
EXTENDS Naturals, FiniteSets

CONSTANTS
  Requests,      \* calls of api_run
  MaxJobs,       \* bound: jobs ever enqueued
  Limit,         \* what processing_limit returns
  MaxReprocess,  \* bound: calls of api_video_reprocess
  MaxRestarts,   \* bound: restarts of the dashboard
  MaxFaults,     \* bound: jobs that could not be enqueued
  None

ASSUME ConstantsAssumption ==
  /\ IsFiniteSet(Requests) /\ Limit \in Nat \ {0}
  /\ {MaxJobs, MaxReprocess, MaxRestarts, MaxFaults} \subseteq Nat
  /\ None \notin {"ok", "error", "cancelled"}

Jobs   == 1 .. MaxJobs     \* in the order of the file
Stages == 0 .. 3           \* none reached, compress, transcribe, store

VARIABLES
  status,      \* the jobs file
  exec,        \* the thread of each job
  run,         \* _run_state
  request,     \* calls of api_run
  scanning,    \* scan_once: "no", "listed", "found"
  inflight,    \* _reprocess_inflight is not empty
  reprocesses, restarts, faults,
  \* history
  own,         \* how the pipeline of each job ended
  last,        \* how the last one ended, None when a run was accepted since
  mixed,       \* jobs that met another execution, or a failure to enqueue
  withdrawn    \* a job was cancelled before it was claimed

bounds  == <<reprocesses, restarts, faults>>
history == <<own, last, mixed, withdrawn>>
vars    == <<status, exec, run, request, scanning, inflight, bounds, history>>

Outcomes == {"ok", "error", "cancelled", None}
NoThread == [pc |-> "none", verdict |-> None]
NoRun    == [running |-> FALSE, error |-> FALSE, stage |-> 0, mark |-> "pending"]
NewRun   == [NoRun EXCEPT !.running = TRUE]

TypeOK ==
  /\ status \in [Jobs -> {"ABSENT", "QUEUED", "ACTIVE", "CANCEL_REQUESTED",
                          "CANCELLED", "COMPLETED", "FAILED"}]
  /\ exec \in [Jobs -> [pc : {"none", "begin", "compress", "master", "exit", "close",
                              "judge", "report"},
                        verdict : {"COMPLETED", "FAILED", None}]]
  /\ run \in [running : BOOLEAN, error : BOOLEAN, stage : Stages,
              mark : {"pending", "running", "completed", "failed"}]
  /\ (run.stage = 0) <=> (run.mark = "pending")
  /\ request \in [Requests -> {"new", "accepted", "done"}]
  /\ scanning \in {"no", "listed", "found"} /\ inflight \in BOOLEAN
  /\ reprocesses \in 0 .. MaxReprocess /\ restarts \in 0 .. MaxRestarts
  /\ faults \in 0 .. MaxFaults
  /\ own \in [Jobs -> Outcomes] /\ last \in Outcomes
  /\ mixed \subseteq Jobs /\ withdrawn \in BOOLEAN

Init ==
  /\ status = [j \in Jobs |-> "ABSENT"]
  /\ exec = [j \in Jobs |-> NoThread]
  /\ run = NoRun
  /\ request = [r \in Requests |-> "new"]
  /\ scanning = "no" /\ inflight = FALSE
  /\ reprocesses = 0 /\ restarts = 0 /\ faults = 0
  /\ own = [j \in Jobs |-> None] /\ last = None
  /\ mixed = {} /\ withdrawn = FALSE

With(s)   == {j \in Jobs : status[j] \in s}
Pending   == With({"QUEUED", "ACTIVE", "CANCEL_REQUESTED"})
Threads   == {j \in Jobs : exec[j].pc # "none"}
Accepted  == {r \in Requests : request[r] = "accepted"}
First(js) == CHOOSE j \in js : \A k \in js : j <= k

-----------------------------------------------------------------------------
(* Enqueueing.                                                             *)

Append == /\ With({"ABSENT"}) # {}
          /\ status' = [status EXCEPT ![First(With({"ABSENT"}))] = "QUEUED"]

\* Others leave a place in the file for the runs that were accepted.
Room == Cardinality(With({"ABSENT"})) > Cardinality(Accepted)

\* api_run: under the lock, nothing runs and no job is pending ...
Accept(r) ==
  /\ request[r] = "new" /\ Room
  /\ ~run.running /\ Pending = {}
  /\ run' = NewRun
  /\ request' = [request EXCEPT ![r] = "accepted"]
  /\ last' = None
  /\ UNCHANGED <<status, exec, scanning, inflight, bounds, own, mixed, withdrawn>>

\* ... and after it the job is enqueued ...
EnqueueRun(r) ==
  /\ r \in Accepted
  /\ Append
  /\ request' = [request EXCEPT ![r] = "done"]
  /\ UNCHANGED <<exec, run, scanning, inflight, bounds, history>>

\* Mutant of NotQueued: only the error is noted.
NotQueuedStill(state) == [state EXCEPT !.error = TRUE]

NotQueued(state) == [state EXCEPT !.running = FALSE, !.error = TRUE]

\* ... or cannot be.
FailEnqueue(r) ==
  /\ r \in Accepted /\ faults < MaxFaults
  /\ faults' = faults + 1
  /\ request' = [request EXCEPT ![r] = "done"]
  /\ run' = NotQueued(run)
  /\ mixed' = mixed \cup Threads
  /\ last' = None
  /\ UNCHANGED <<status, exec, scanning, inflight, reprocesses, restarts, own, withdrawn>>

\* The job of a finished upload.
Upload ==
  /\ Room /\ Append
  /\ UNCHANGED <<exec, run, request, scanning, inflight, bounds, history>>

\* scan_once of the worker's loop.
ScanList ==
  /\ scanning = "no" /\ Pending = {}
  /\ scanning' = "listed"
  /\ UNCHANGED <<status, exec, run, request, inflight, bounds, history>>

\* scan_pending: it looks for media unless something runs.
ScanLook ==
  /\ scanning = "listed"
  /\ \/ scanning' = "no"
     \/ ~run.running /\ scanning' = "found"
  /\ UNCHANGED <<status, exec, run, request, inflight, bounds, history>>

ScanEnqueue ==
  /\ scanning = "found"
  /\ scanning' = "no"
  /\ IF Room THEN Append ELSE UNCHANGED status
  /\ UNCHANGED <<exec, run, request, inflight, bounds, history>>

-----------------------------------------------------------------------------
(* Claiming, cancelling, reprocessing, restarting.                         *)

\* The loop that polls is the one that scans.  A cancellation is settled by any
\* poll, and a job of the dashboard before its restart is queued again.
Claim ==
  LET swept == [j \in Jobs |-> CASE status[j] = "CANCEL_REQUESTED" -> "CANCELLED"
                                 [] status[j] = "ACTIVE" /\ j \notin Threads -> "QUEUED"
                                 [] OTHER -> status[j]]
      queued == {j \in Jobs : swept[j] = "QUEUED"}
      full   == Cardinality({j \in Jobs : swept[j] = "ACTIVE"}) >= Limit
  IN
  /\ scanning = "no" /\ Cardinality(Threads) < Limit
  /\ IF queued = {} \/ full
     THEN status' = swept /\ UNCHANGED <<exec, own, mixed>>
     ELSE LET j == First(queued)
          IN  /\ status' = [swept EXCEPT ![j] = "ACTIVE"]
              /\ exec' = [exec EXCEPT ![j].pc = "begin"]
              /\ own' = [own EXCEPT ![j] = None]
              /\ mixed' = IF Threads = {} THEN mixed ELSE mixed \cup Threads \cup {j}
  /\ UNCHANGED <<run, request, scanning, inflight, bounds, last, withdrawn>>

Cancel(j) ==
  /\ status[j] \in {"QUEUED", "ACTIVE"}
  /\ status' = [status EXCEPT ![j] = IF @ = "QUEUED" THEN "CANCELLED" ELSE "CANCEL_REQUESTED"]
  /\ withdrawn' = (withdrawn \/ status[j] = "QUEUED")
  /\ UNCHANGED <<exec, run, request, scanning, inflight, bounds, own, last, mixed>>

Reprocess ==
  /\ ~inflight /\ ~run.running /\ reprocesses < MaxReprocess
  /\ inflight' = TRUE
  /\ reprocesses' = reprocesses + 1
  /\ UNCHANGED <<status, exec, run, request, scanning, restarts, faults, history>>

EndReprocess ==
  /\ inflight /\ inflight' = FALSE
  /\ UNCHANGED <<status, exec, run, request, scanning, bounds, history>>

\* Threads, requests and _run_state die with the dashboard.
Restart ==
  /\ restarts < MaxRestarts
  /\ restarts' = restarts + 1
  /\ exec' = [j \in Jobs |-> NoThread]
  /\ run' = NoRun
  /\ request' = [r \in Requests |-> IF r \in Accepted THEN "done" ELSE request[r]]
  /\ scanning' = "no" /\ inflight' = FALSE
  /\ last' = None
  /\ UNCHANGED <<status, reprocesses, faults, own, mixed, withdrawn>>

-----------------------------------------------------------------------------
(* The execution of a job.                                                 *)

At(j, pc) == exec[j].pc = pc
GoTo(j, pc) == exec' = [exec EXCEPT ![j].pc = pc]
CancelSeen(j) == status[j] \in {"CANCEL_REQUESTED", "CANCELLED"}

\* Mutant of Begun: only api_run says that something runs.
BegunUnsaid(state) == IF state.running THEN state ELSE NoRun

\* What an execution makes of _run_state, which api_run may have prepared.
Begun(state) == IF state.running THEN state ELSE NewRun

Begin(j) ==
  /\ At(j, "begin")
  /\ run' = Begun(run)
  /\ GoTo(j, "compress")
  /\ UNCHANGED <<status, request, scanning, inflight, bounds, history>>

\* append_log: the furthest stage of the whole log, running again or failed.
Logged(state, stage) ==
  LET furthest == IF stage > state.stage THEN stage ELSE state.stage
  IN  IF furthest = 0 THEN state
      ELSE [state EXCEPT !.stage = furthest,
                         !.mark = IF state.error THEN "failed" ELSE "running"]

\* Mutant of MarkedAs: whatever the mark was.
MarkedAlways(state, mark) == [state EXCEPT !.mark = mark]

\* _mark_all_reached_completed, _mark_failed_stage.
MarkedAs(state, mark) == IF state.mark = "running" THEN [state EXCEPT !.mark = mark] ELSE state

\* The compressor: its exit code is only logged.
Compress(j) ==
  /\ At(j, "compress") /\ ~CancelSeen(j)
  /\ run' = Logged(run, 1)
  /\ GoTo(j, "master")
  /\ UNCHANGED <<status, request, scanning, inflight, bounds, history>>

\* The master prints what it does.
Master(j) ==
  /\ At(j, "master") /\ ~CancelSeen(j)
  /\ run' \in {run, Logged(run, 2)}
  /\ GoTo(j, "exit")
  /\ UNCHANGED <<status, request, scanning, inflight, bounds, history>>

Ended(j, outcome) ==
  /\ GoTo(j, "close")
  /\ own' = [own EXCEPT ![j] = outcome]
  /\ last' = outcome
  /\ UNCHANGED <<status, request, scanning, inflight, bounds, mixed, withdrawn>>

Succeed(j) ==
  /\ At(j, "exit")
  /\ run' = MarkedAs(Logged(run, 3), "completed")
  /\ Ended(j, "ok")

Failure(state) == MarkedAs(Logged([state EXCEPT !.error = TRUE], 0), "failed")

Fail(j) ==
  /\ exec[j].pc \in {"compress", "master", "exit"}
  /\ run' = Failure(run)
  /\ Ended(j, "error")

\* A cancellation is noticed before a program starts, and on its next line.
NoticeCancel(j) ==
  /\ exec[j].pc \in {"compress", "master", "exit"} /\ CancelSeen(j)
  /\ run' = [run EXCEPT !.error = FALSE]
  /\ Ended(j, "cancelled")

\* The end of _run_pipeline.
Close(j) ==
  /\ At(j, "close")
  /\ run' = [run EXCEPT !.running = FALSE]
  /\ GoTo(j, "judge")
  /\ UNCHANGED <<status, request, scanning, inflight, bounds, history>>

\* _execute_processing_job raises if _run_state has an error.
Judge(j) ==
  /\ At(j, "judge")
  /\ exec' = [exec EXCEPT ![j] = [pc |-> "report",
                verdict |-> IF run.error THEN "FAILED" ELSE "COMPLETED"]]
  /\ run' = [run EXCEPT !.running = FALSE]
  /\ UNCHANGED <<status, request, scanning, inflight, bounds, history>>

\* finish() of the job store.
Report(j) ==
  /\ At(j, "report")
  /\ status' = [status EXCEPT ![j] = CASE @ = "ACTIVE" -> exec[j].verdict
                                       [] @ = "CANCEL_REQUESTED" -> "CANCELLED"
                                       [] OTHER -> @]
  /\ exec' = [exec EXCEPT ![j] = NoThread]
  /\ UNCHANGED <<run, request, scanning, inflight, bounds, history>>

Execute(j) ==
  \/ Begin(j) \/ Compress(j) \/ Master(j) \/ Succeed(j) \/ Fail(j) \/ NoticeCancel(j)
  \/ Close(j) \/ Judge(j) \/ Report(j)

-----------------------------------------------------------------------------
Next ==
  \/ \E r \in Requests : Accept(r) \/ EnqueueRun(r) \/ FailEnqueue(r)
  \/ Upload \/ ScanList \/ ScanLook \/ ScanEnqueue
  \/ Claim \/ Reprocess \/ EndReprocess \/ Restart
  \/ \E j \in Jobs : Cancel(j) \/ Execute(j)

Spec == Init /\ [][Next]_vars

\* Requests go on, the loop scans and polls, executions end.
Fairness ==
  /\ \A r \in Requests : WF_vars(EnqueueRun(r))
  /\ WF_vars(ScanLook) /\ WF_vars(ScanEnqueue) /\ WF_vars(Claim)
  /\ \A j \in Jobs : WF_vars(Execute(j))

FairSpec == Spec /\ Fairness

-----------------------------------------------------------------------------
(* Properties.                                                             *)

\* A job is recorded with the outcome of its own pipeline although all share one
\* _run_state, and so is what the dashboard shows between two runs, unless
\* executions met or a run could not be enqueued beside one.
OutcomeIsOwn ==
  /\ \A j \in Jobs \ mixed :
       /\ status[j] = "COMPLETED" => own[j] = "ok"
       /\ status[j] = "FAILED" => own[j] = "error"
       /\ own[j] = "cancelled" => status[j] \in {"CANCEL_REQUESTED", "CANCELLED"}
  /\ mixed = {} /\ Threads = {} /\ last # None =>
       /\ run.error = (last = "error")
       /\ run.mark = "failed" <=> last = "error" /\ run.stage > 0
       /\ run.mark = "completed" <=> last = "ok"

\* A video is reprocessed only while no pipeline runs, unless executions met.
ReprocessStartsAlone ==
  [][~inflight /\ inflight' =>
       \A j \in Jobs \ mixed : exec[j].pc \notin {"compress", "master", "exit"}]_vars

\* Runs keep their outcomes and reprocessing apart.
RunsApart == []OutcomeIsOwn /\ ReprocessStartsAlone

\* Something that runs ends, restarts, cancellations and failures included, so
\* that a later run is accepted, unless a job was cancelled in the queue.
RunEnds == run.running ~> (~run.running \/ withdrawn)

=============================================================================
