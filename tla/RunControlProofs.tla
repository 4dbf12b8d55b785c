-------------------------- MODULE RunControlProofs --------------------------
(***************************************************************************)
(* Proofs about RunControl, for any number of requests and jobs, any limit *)
(* on executions at the same time, and any number of reprocessings,        *)
(* restarts and jobs that could not be enqueued.                           *)
(***************************************************************************)
EXTENDS RunControl, FiniteSetTheorems, WellFoundedInduction, TLAPS

\* The first of some jobs is one of them.
LEMMA FirstLemma ==
  ASSUME NEW js, js \subseteq Jobs, js # {}
  PROVE  First(js) \in js
<1>1. js \subseteq Nat
  BY ConstantsAssumption DEF Jobs
<1>2. \E j \in js : \A k \in js : <<k, j>> \notin OpToRel(<, Nat)
  BY <1>1, NatLessThanWellFounded, WFMin
<1>3. \A j, k \in Nat : <<k, j>> \notin OpToRel(<, Nat) => j <= k
  BY DEF OpToRel
<1> QED
  BY <1>1, <1>2, <1>3 DEF First

Marks    == {"pending", "running", "completed", "failed"}
RunStates == {s \in [running : BOOLEAN, error : BOOLEAN, stage : Stages, mark : Marks] :
                (s.stage = 0) <=> (s.mark = "pending")}

\* Stages are ordered as numbers.
LEMMA StagesLemma ==
  /\ {0, 1, 2, 3} \subseteq Stages
  /\ \A s, t \in Stages : s \in Nat /\ (s > t => s # 0) /\ (3 > t \/ t = 3)
BY DEF Stages

\* What is made of _run_state is one: the log never unmarks a stage.
LEMMA RunStatesLemma ==
  /\ NoRun \in RunStates /\ NewRun \in RunStates
  /\ \A state \in RunStates :
       /\ Begun(state) \in RunStates /\ NotQueued(state) \in RunStates /\ Failure(state) \in RunStates
       /\ \A stage \in Stages : Logged(state, stage) \in RunStates
       /\ MarkedAs(Logged(state, 3), "completed") \in RunStates
       /\ [state EXCEPT !.error = FALSE] \in RunStates
       /\ [state EXCEPT !.running = FALSE] \in RunStates
<1> DEFINE States == [running : BOOLEAN, error : BOOLEAN, stage : Stages, mark : Marks]
<1>0. \A s : s \in RunStates <=> s \in States /\ ((s.stage = 0) <=> (s.mark = "pending"))
  BY DEF RunStates
<1>1. NoRun \in RunStates /\ NewRun \in RunStates
  <2>1. NoRun \in States /\ NewRun \in States
    BY StagesLemma DEF NoRun, NewRun, Marks
  <2>2. NoRun.stage = 0 /\ NoRun.mark = "pending" /\ NewRun.stage = 0 /\ NewRun.mark = "pending"
    BY DEF NoRun, NewRun
  <2> QED
    BY <1>0, <2>1, <2>2
<1> USE DEF RunStates, Marks
<1>2. ASSUME NEW state \in RunStates, NEW stage \in Stages
      PROVE  /\ Logged(state, stage) \in RunStates
             /\ stage = 3 => Logged(state, stage).stage = 3
  <2> DEFINE furthest == IF stage > state.stage THEN stage ELSE state.stage
             mark == IF state.error THEN "failed" ELSE "running"
  <2>1. Logged(state, stage) =
          IF furthest = 0 THEN state ELSE [state EXCEPT !.stage = furthest, !.mark = mark]
    BY DEF Logged
  <2>2. furthest \in Stages /\ (stage = 3 => furthest = 3) /\ (furthest = 0 => stage # 3)
    BY StagesLemma
  <2>3. mark \in {"failed", "running"}
    OBVIOUS
  <2> HIDE DEF furthest, mark
  <2>4. state \in States /\ ((state.stage = 0) <=> (state.mark = "pending"))
    OBVIOUS
  <2> DEFINE next == [state EXCEPT !.stage = furthest, !.mark = mark]
  <2>5. next \in States
    BY <2>2, <2>3, <2>4
  <2>6. next.stage = furthest /\ next.mark = mark
    BY <2>4
  <2> QED
    BY <2>1, <2>2, <2>3, <2>4, <2>5, <2>6
<1>3. ASSUME NEW state \in RunStates
      PROVE  MarkedAs(Logged(state, 3), "completed") \in RunStates
  <2>1. Logged(state, 3) \in RunStates /\ Logged(state, 3).stage = 3
    BY <1>2, StagesLemma
  <2> QED
    BY <2>1 DEF MarkedAs
<1>4. ASSUME NEW state \in RunStates
      PROVE  Failure(state) \in RunStates
  <2>1. [state EXCEPT !.error = TRUE] \in RunStates
    OBVIOUS
  <2>2. Logged([state EXCEPT !.error = TRUE], 0) \in RunStates
    BY <1>2, <2>1, StagesLemma
  <2> QED
    BY <2>2 DEF Failure, MarkedAs
<1>5. ASSUME NEW state \in RunStates
      PROVE  /\ Begun(state) \in RunStates /\ NotQueued(state) \in RunStates
             /\ [state EXCEPT !.error = FALSE] \in RunStates
             /\ [state EXCEPT !.running = FALSE] \in RunStates
  BY <1>1 DEF Begun, NotQueued
<1> QED
  BY <1>1, <1>2, <1>3, <1>4, <1>5

-----------------------------------------------------------------------------
(* Types.                                                                  *)

Statuses == {"ABSENT", "QUEUED", "ACTIVE", "CANCEL_REQUESTED", "CANCELLED", "COMPLETED", "FAILED"}
ThreadStates ==
  [pc : {"none", "begin", "compress", "master", "exit", "close", "judge", "report"},
   verdict : {"COMPLETED", "FAILED", None}]

\* An execution reports what was judged of it.
Judged == \A j \in Jobs : exec[j].pc = "report" => exec[j].verdict \in {"COMPLETED", "FAILED"}

\* No job is there, and _run_state is new.
LEMMA TypeInit == Init => TypeOK /\ Judged
<1> SUFFICES ASSUME Init PROVE TypeOK /\ Judged
  OBVIOUS
<1>1. run \in RunStates
  BY RunStatesLemma DEF Init
<1>2. NoThread \in ThreadStates
  BY DEF NoThread, ThreadStates
<1>3. 0 \in 0 .. MaxReprocess /\ 0 \in 0 .. MaxRestarts /\ 0 \in 0 .. MaxFaults
  BY ConstantsAssumption
<1> QED
  BY <1>1, <1>2, <1>3 DEF Init, TypeOK, Judged, NoThread, RunStates, Marks, ThreadStates, Outcomes

\* What a claim makes of the file before it takes a job.
Swept == [j \in Jobs |-> CASE status[j] = "CANCEL_REQUESTED" -> "CANCELLED"
                           [] status[j] = "ACTIVE" /\ j \notin Threads -> "QUEUED"
                           [] OTHER -> status[j]]

\* A claim sweeps the file and may start one execution, of a job without one.
LEMMA ClaimLemma ==
  ASSUME TypeOK, Claim
  PROVE  /\ \A j \in Jobs :
              /\ Swept[j] \in Statuses
              /\ status[j] = "CANCEL_REQUESTED" => Swept[j] = "CANCELLED"
              /\ status[j] = "ACTIVE" /\ j \notin Threads => Swept[j] = "QUEUED"
              /\ status[j] # "CANCEL_REQUESTED" /\ ~(status[j] = "ACTIVE" /\ j \notin Threads)
                   => Swept[j] = status[j]
         /\ \/ status' = Swept /\ UNCHANGED <<exec, own, mixed>>
            \/ \E j \in Jobs :
                 /\ Swept[j] = "QUEUED"
                 /\ status' = [Swept EXCEPT ![j] = "ACTIVE"]
                 /\ exec' = [exec EXCEPT ![j].pc = "begin"]
                 /\ own' = [own EXCEPT ![j] = None]
                 /\ mixed' = IF Threads = {} THEN mixed ELSE mixed \cup Threads \cup {j}
         /\ UNCHANGED <<run, request, scanning, inflight, bounds, last, withdrawn>>
<1> DEFINE queued == {j \in Jobs : Swept[j] = "QUEUED"}
<1>1. \A j \in Jobs :
        /\ Swept[j] \in Statuses
        /\ status[j] = "CANCEL_REQUESTED" => Swept[j] = "CANCELLED"
        /\ status[j] = "ACTIVE" /\ j \notin Threads => Swept[j] = "QUEUED"
        /\ status[j] # "CANCEL_REQUESTED" /\ ~(status[j] = "ACTIVE" /\ j \notin Threads)
             => Swept[j] = status[j]
  BY DEF Swept, Statuses, TypeOK
<1>2. \/ status' = Swept /\ UNCHANGED <<exec, own, mixed>>
      \/ /\ queued # {}
         /\ status' = [Swept EXCEPT ![First(queued)] = "ACTIVE"]
         /\ exec' = [exec EXCEPT ![First(queued)].pc = "begin"]
         /\ own' = [own EXCEPT ![First(queued)] = None]
         /\ mixed' = IF Threads = {} THEN mixed ELSE mixed \cup Threads \cup {First(queued)}
  BY DEF Claim, Swept
<1>3. queued # {} => First(queued) \in Jobs /\ Swept[First(queued)] = "QUEUED"
  BY FirstLemma
<1>4. UNCHANGED <<run, request, scanning, inflight, bounds, last, withdrawn>>
  BY DEF Claim
<1> HIDE DEF queued
<1> QED
  BY <1>1, <1>2, <1>3, <1>4

\* The types are inductive.
LEMMA TypeNext == TypeOK /\ Judged /\ [Next]_vars => TypeOK'
<1> SUFFICES ASSUME TypeOK, Judged, [Next]_vars PROVE TypeOK'
  OBVIOUS
<1>0. run \in RunStates /\ exec \in [Jobs -> ThreadStates] /\ status \in [Jobs -> Statuses]
  BY DEF TypeOK, RunStates, Marks, ThreadStates, Statuses
<1>a. ASSUME run' \in RunStates
      PROVE  /\ run' \in [running : BOOLEAN, error : BOOLEAN, stage : Stages,
                          mark : {"pending", "running", "completed", "failed"}]
             /\ (run'.stage = 0) <=> (run'.mark = "pending")
  BY <1>a DEF RunStates, Marks
<1>b. ASSUME Append
      PROVE  status' \in [Jobs -> Statuses]
  <2>1. First(With({"ABSENT"})) \in Jobs
    BY <1>b, FirstLemma DEF Append, With
  <2> QED
    BY <1>0, <1>b, <2>1 DEF Append, Statuses
<1> USE DEF TypeOK, bounds, history, ThreadStates, Statuses
<1>1. ASSUME NEW r \in Requests, Accept(r)
      PROVE  TypeOK'
  BY <1>1, <1>a, RunStatesLemma DEF Accept, Outcomes
<1>2. ASSUME NEW r \in Requests, EnqueueRun(r)
      PROVE  TypeOK'
  BY <1>2, <1>b DEF EnqueueRun
<1>3. ASSUME NEW r \in Requests, FailEnqueue(r)
      PROVE  TypeOK'
  <2>1. run' \in RunStates
    BY <1>0, <1>3, RunStatesLemma DEF FailEnqueue
  <2>2. faults' \in 0 .. MaxFaults /\ mixed' \subseteq Jobs
    BY <1>3, ConstantsAssumption DEF FailEnqueue, Threads
  <2> QED
    BY <1>3, <1>a, <2>1, <2>2 DEF FailEnqueue, Outcomes
<1>4. CASE Upload
  BY <1>4, <1>b DEF Upload
<1>5. CASE ScanList \/ ScanLook
  BY <1>5 DEF ScanList, ScanLook
<1>6. CASE ScanEnqueue
  BY <1>6, <1>b DEF ScanEnqueue
<1>7. CASE Claim
  <2>1. CASE status' = Swept /\ UNCHANGED <<exec, own, mixed>>
    <3>1. status' \in [Jobs -> Statuses]
      BY <1>7, <2>1, ClaimLemma DEF Swept
    <3> QED
      BY <1>7, <2>1, <3>1, ClaimLemma
  <2>2. ASSUME NEW j \in Jobs,
               status' = [Swept EXCEPT ![j] = "ACTIVE"], exec' = [exec EXCEPT ![j].pc = "begin"],
               own' = [own EXCEPT ![j] = None],
               mixed' = IF Threads = {} THEN mixed ELSE mixed \cup Threads \cup {j}
        PROVE  TypeOK'
    <3>1. status' \in [Jobs -> Statuses]
      BY <1>7, <2>2, ClaimLemma DEF Swept
    <3>2. exec' \in [Jobs -> ThreadStates] /\ own' \in [Jobs -> Outcomes] /\ mixed' \subseteq Jobs
      BY <2>2 DEF Outcomes, Threads
    <3> QED
      BY <1>7, <3>1, <3>2, ClaimLemma
  <2> QED
    BY <1>7, <2>1, <2>2, ClaimLemma
<1>8. CASE Reprocess
  BY <1>8, ConstantsAssumption DEF Reprocess
<1>9. CASE EndReprocess
  BY <1>9 DEF EndReprocess
<1>10. CASE Restart
  <2>1. exec' \in [Jobs -> ThreadStates] /\ restarts' \in 0 .. MaxRestarts
    BY <1>10, ConstantsAssumption DEF Restart, NoThread
  <2>2. request' \in [Requests -> {"new", "accepted", "done"}]
    BY <1>10 DEF Restart
  <2> QED
    BY <1>10, <1>a, <2>1, <2>2, RunStatesLemma DEF Restart, Outcomes
<1>11. ASSUME NEW j \in Jobs, Cancel(j)
       PROVE  TypeOK'
  BY <1>11 DEF Cancel
<1>12. ASSUME NEW j \in Jobs, Execute(j)
       PROVE  TypeOK'
  <2>1. ASSUME NEW pc \in {"compress", "master", "exit", "close", "judge"}, GoTo(j, pc)
        PROVE  exec' \in [Jobs -> ThreadStates]
    BY <2>1 DEF GoTo
  <2>2. CASE Begin(j) \/ Compress(j) \/ Master(j) \/ Close(j)
    <3>1. run' \in RunStates
      <4>1. CASE Begin(j)
        BY <1>0, <4>1, RunStatesLemma DEF Begin
      <4>2. CASE Compress(j)
        BY <1>0, <4>2, RunStatesLemma, StagesLemma DEF Compress
      <4>3. CASE Master(j)
        <5>1. Logged(run, 2) \in RunStates
          BY <1>0, RunStatesLemma, StagesLemma
        <5> QED
          BY <1>0, <4>3, <5>1 DEF Master
      <4>4. CASE Close(j)
        BY <1>0, <4>4, RunStatesLemma DEF Close
      <4> QED
        BY <2>2, <4>1, <4>2, <4>3, <4>4
    <3> QED
      BY <1>a, <2>1, <2>2, <3>1 DEF Begin, Compress, Master, Close
  <2>3. CASE Succeed(j) \/ Fail(j) \/ NoticeCancel(j)
    <3>1. run' \in RunStates
      <4>1. CASE Succeed(j)
        BY <1>0, <4>1, RunStatesLemma DEF Succeed
      <4>2. CASE Fail(j)
        BY <1>0, <4>2, RunStatesLemma DEF Fail
      <4>3. CASE NoticeCancel(j)
        BY <1>0, <4>3, RunStatesLemma DEF NoticeCancel
      <4> QED
        BY <2>3, <4>1, <4>2, <4>3
    <3>2. PICK outcome \in Outcomes : Ended(j, outcome)
      BY <2>3 DEF Succeed, Fail, NoticeCancel, Outcomes
    <3>3. own' \in [Jobs -> Outcomes] /\ last' \in Outcomes
      BY <3>2 DEF Ended
    <3> QED
      BY <1>a, <2>1, <3>1, <3>2, <3>3 DEF Ended
  <2>4. CASE Judge(j)
    <3>1. run' \in RunStates
      BY <1>0, <2>4, RunStatesLemma DEF Judge
    <3>2. exec' \in [Jobs -> ThreadStates]
      BY <2>4 DEF Judge
    <3> QED
      BY <1>a, <2>4, <3>1, <3>2 DEF Judge
  <2>5. CASE Report(j)
    <3>1. status' \in [Jobs -> Statuses]
      <4>1. status[j] = "ACTIVE" => exec[j].pc = "report" /\ exec[j].verdict \in {"COMPLETED", "FAILED"}
        BY <2>5 DEF Report, Judged, At
      <4> QED
        BY <2>5, <4>1 DEF Report
    <3>2. exec' \in [Jobs -> ThreadStates]
      BY <2>5 DEF Report, NoThread
    <3> QED
      BY <2>5, <3>1, <3>2 DEF Report
  <2> QED
    BY <1>12, <2>2, <2>3, <2>4, <2>5 DEF Execute
<1>13. CASE UNCHANGED vars
  BY <1>13 DEF vars
<1> QED
  BY <1>1, <1>2, <1>3, <1>4, <1>5, <1>6, <1>7, <1>8, <1>9, <1>10, <1>11, <1>12, <1>13 DEF Next

\* A thread reports after it has judged.
LEMMA JudgedNext == TypeOK /\ Judged /\ [Next]_vars => Judged'
<1> SUFFICES ASSUME TypeOK, Judged, [Next]_vars PROVE Judged'
  OBVIOUS
<1>0. exec \in [Jobs -> ThreadStates]
  BY DEF TypeOK, ThreadStates
<1>1. CASE UNCHANGED exec
  BY <1>1 DEF Judged
<1>2. CASE Claim
  BY <1>0, <1>2, ClaimLemma DEF Judged, ThreadStates
<1>3. CASE Restart
  BY <1>3 DEF Restart, Judged, NoThread
<1>4. ASSUME NEW j \in Jobs, Execute(j)
      PROVE  Judged'
  <2>1. ASSUME NEW pc \in {"compress", "master", "exit", "close", "judge"}, GoTo(j, pc)
        PROVE  Judged'
    BY <1>0, <2>1 DEF Judged, GoTo, ThreadStates
  <2>2. CASE Judge(j)
    BY <1>0, <2>2 DEF Judge, Judged, ThreadStates
  <2>3. CASE Report(j)
    BY <1>0, <2>3 DEF Report, Judged, NoThread
  <2> QED
    BY <1>4, <2>1, <2>2, <2>3
       DEF Execute, Begin, Compress, Master, Succeed, Fail, NoticeCancel, Ended, Close
<1> QED
  BY <1>1, <1>2, <1>3, <1>4 DEF Next, Accept, EnqueueRun, FailEnqueue, Upload, ScanList, ScanLook,
    ScanEnqueue, Reprocess, EndReprocess, Cancel, vars

\* Types, for any number of requests, jobs, restarts and failures to enqueue.
THEOREM TypeCorrect == Spec => []TypeOK
BY TypeInit, TypeNext, JudgedNext, PTL DEF Spec

-----------------------------------------------------------------------------
(* The inductive invariant.                                                *)

Working == {"compress", "master", "exit", "close"}

\* While something is said to run, either a request has just prepared _run_state
\* or an execution works with it.
Prepared == run.running /\ run # NewRun => \E k \in Jobs : exec[k].pc \in Working

\* The file says of a job that is executed that it is, or was cancelled.
Claimed == \A j \in Threads : status[j] \in {"ACTIVE", "CANCEL_REQUESTED", "CANCELLED"}

\* What the dashboard shows is the last outcome.
Shown ==
  last # None =>
    /\ run.error = (last = "error")
    /\ run.mark = "failed" <=> last = "error" /\ run.stage > 0
    /\ run.mark = "completed" <=> last = "ok"

\* How far an execution that met no other has come, and what it has made of
\* _run_state; a cancelled job may be followed by an accepted run before its
\* thread ends.
Progress(j) ==
  LET pc == exec[j].pc
  IN  /\ pc \in Working => run.running
      /\ pc = "compress" => run = NewRun
      /\ pc \in {"master", "exit"} => ~run.error /\ run.stage > 0 /\ run.mark = "running"
      /\ pc = "close" => own[j] = last /\ last # None
      /\ pc \in {"close", "judge", "report"} => Shown
      /\ pc \in {"close", "judge"} /\ status[j] \in {"ACTIVE", "CANCEL_REQUESTED"} =>
           run.error = (own[j] = "error") /\ own[j] # None
      /\ pc = "report" /\ status[j] = "ACTIVE" =>
           own[j] # None /\ exec[j].verdict = IF own[j] = "error" THEN "FAILED" ELSE "COMPLETED"

Undisturbed == \A j \in Threads \ mixed : Threads = {j} /\ Progress(j)

\* The outcome of a job that met no other.
Own(j) ==
  /\ status[j] = "COMPLETED" => own[j] = "ok"
  /\ status[j] = "FAILED" => own[j] = "error"
  /\ own[j] = "cancelled" => status[j] \in {"CANCEL_REQUESTED", "CANCELLED"}

RInv == /\ TypeOK /\ Judged /\ Prepared /\ Claimed /\ Undisturbed
        /\ \A j \in Jobs \ mixed : Own(j)
        /\ mixed = {} /\ Threads = {} => Shown

\* The invariant says of the jobs that ended what the property asks.
LEMMA RInvOutcome == RInv => OutcomeIsOwn
BY DEF RInv, OutcomeIsOwn, Own, Shown

-----------------------------------------------------------------------------
(* Claims.                                                                 *)

\* A claim starts no second thread of a job.
LEMMA StartLemma ==
  ASSUME TypeOK, Claimed, Claim
  PROVE  /\ \/ Threads' = Threads /\ UNCHANGED <<exec, own, mixed>>
            \/ \E j \in Jobs \ Threads :
                 /\ Threads' = Threads \cup {j} /\ exec'[j].pc = "begin"
                 /\ status'[j] = "ACTIVE" /\ own'[j] = None
                 /\ \A k \in Jobs \ {j} : exec'[k] = exec[k] /\ own'[k] = own[k]
                 /\ mixed' = IF Threads = {} THEN mixed ELSE mixed \cup Threads \cup {j}
         /\ \A k \in Jobs :
              \/ status'[k] = status[k]
              \/ status[k] = "CANCEL_REQUESTED" /\ status'[k] = "CANCELLED"
              \/ k \notin Threads /\ status[k] = "ACTIVE" /\ status'[k] = "QUEUED"
              \/ k \notin Threads /\ status[k] \in {"QUEUED", "ACTIVE"} /\ status'[k] = "ACTIVE"
         /\ UNCHANGED <<run, request, scanning, inflight, bounds, last, withdrawn>>
<1>0. exec \in [Jobs -> ThreadStates] /\ own \in [Jobs -> Outcomes]
  BY DEF TypeOK, ThreadStates
<1>1. CASE status' = Swept /\ UNCHANGED <<exec, own, mixed>>
  <2>1. Threads' = Threads
    BY <1>1 DEF Threads
  <2> QED
    BY <1>1, <2>1, ClaimLemma
<1>2. ASSUME NEW j \in Jobs, Swept[j] = "QUEUED",
             status' = [Swept EXCEPT ![j] = "ACTIVE"], exec' = [exec EXCEPT ![j].pc = "begin"],
             own' = [own EXCEPT ![j] = None],
             mixed' = IF Threads = {} THEN mixed ELSE mixed \cup Threads \cup {j}
      PROVE  /\ j \in Jobs \ Threads /\ Threads' = Threads \cup {j} /\ exec'[j].pc = "begin"
             /\ status'[j] = "ACTIVE" /\ own'[j] = None
             /\ \A k \in Jobs \ {j} : exec'[k] = exec[k] /\ own'[k] = own[k]
             /\ \A k \in Jobs \ {j} : status'[k] = Swept[k]
             /\ status[j] \in {"QUEUED", "ACTIVE"}
  <2>1. status[j] \in {"QUEUED", "ACTIVE"} /\ j \notin Threads
    BY <1>2, ClaimLemma DEF Claimed
  <2>2. exec'[j].pc = "begin" /\ \A k \in Jobs \ {j} : exec'[k] = exec[k]
    BY <1>0, <1>2 DEF ThreadStates
  <2>3. Threads' = Threads \cup {j}
    BY <2>2 DEF Threads
  <2>4. status'[j] = "ACTIVE" /\ \A k \in Jobs \ {j} : status'[k] = Swept[k]
    BY <1>2 DEF Swept
  <2>5. own'[j] = None /\ \A k \in Jobs \ {j} : own'[k] = own[k]
    BY <1>0, <1>2
  <2> QED
    BY <2>1, <2>2, <2>3, <2>4, <2>5
<1> QED
  BY <1>1, <1>2, ClaimLemma

-----------------------------------------------------------------------------
(* Steps of requests, of the loop and of claims.                           *)

\* What a step of another than its execution may do to a job.
Moves(k) ==
  \/ status'[k] = status[k]
  \/ /\ k \notin Threads /\ status[k] \in {"ABSENT", "QUEUED", "ACTIVE"}
     /\ status'[k] \in {"QUEUED", "ACTIVE", "CANCELLED", "CANCEL_REQUESTED"}
  \/ status[k] \in {"ACTIVE", "CANCEL_REQUESTED"} /\ status'[k] \in {"CANCEL_REQUESTED", "CANCELLED"}

\* Such a move keeps the outcome of a job.
LEMMA MovesLemma ==
  ASSUME NEW k \in Jobs, Moves(k)
  PROVE  /\ Own(k) /\ own'[k] = own[k] => Own(k)'
         /\ k \in Threads /\ status[k] \in {"ACTIVE", "CANCEL_REQUESTED", "CANCELLED"} =>
              /\ status'[k] \in {"ACTIVE", "CANCEL_REQUESTED", "CANCELLED"}
              /\ status'[k] = "ACTIVE" => status[k] = "ACTIVE"
              /\ status'[k] \in {"ACTIVE", "CANCEL_REQUESTED"} =>
                   status[k] \in {"ACTIVE", "CANCEL_REQUESTED"}
BY DEF Moves, Own

\* Steps that only move jobs in the file.
LEMMA FileKeeps ==
  ASSUME RInv, TypeOK', UNCHANGED <<exec, run, own, last, mixed>>, \A k \in Jobs : Moves(k)
  PROVE  RInv'
<1>1. Threads' = Threads
  BY DEF Threads
<1>2. Judged' /\ Prepared'
  BY DEF RInv, Judged, Prepared
<1>3. Claimed'
  BY <1>1, MovesLemma DEF RInv, Claimed, Threads
<1>4. Shown => Shown'
  BY DEF Shown
<1>5. ASSUME NEW j \in Threads, Progress(j)
      PROVE  Progress(j)'
  <2>1. j \in Jobs /\ status[j] \in {"ACTIVE", "CANCEL_REQUESTED", "CANCELLED"}
    BY DEF RInv, Claimed, Threads
  <2>2. /\ status'[j] = "ACTIVE" => status[j] = "ACTIVE"
        /\ status'[j] \in {"ACTIVE", "CANCEL_REQUESTED"} =>
             status[j] \in {"ACTIVE", "CANCEL_REQUESTED"}
    BY <2>1, MovesLemma
  <2> QED
    BY <1>4, <1>5, <2>2 DEF Progress
<1>6. Undisturbed'
  BY <1>1, <1>5 DEF RInv, Undisturbed
<1>7. \A j \in Jobs \ mixed' : Own(j)'
  BY MovesLemma DEF RInv
<1>8. (mixed = {} /\ Threads = {} => Shown)'
  BY <1>1, <1>4 DEF RInv
<1> QED
  BY <1>2, <1>3, <1>6, <1>7, <1>8 DEF RInv

\* A job that is enqueued moves in the file.
LEMMA AppendMoves ==
  ASSUME RInv, Append
  PROVE  \A k \in Jobs : Moves(k)
<1>1. PICK k \in Jobs : status[k] = "ABSENT" /\ status' = [status EXCEPT ![k] = "QUEUED"]
  BY FirstLemma DEF Append, With
<1>2. k \notin Threads
  BY <1>1 DEF RInv, Claimed
<1> QED
  BY <1>1, <1>2 DEF RInv, TypeOK, Moves

\* A run is accepted when nothing runs and no job is pending: the threads left
\* are those of cancelled jobs.
LEMMA AcceptKeeps ==
  ASSUME RInv, TypeOK', NEW r \in Requests, Accept(r)
  PROVE  RInv'
<1>1. Threads' = Threads /\ UNCHANGED <<exec, status, own, mixed>>
  BY DEF Accept, Threads
<1>2. run' = NewRun /\ last' = None /\ Shown' /\ ~run.running
  BY DEF Accept, Shown
<1>3. ASSUME NEW j \in Threads \ mixed
      PROVE  Threads' = {j} /\ Progress(j)'
  <2>1. Threads = {j} /\ Progress(j) /\ j \in Jobs
    BY <1>3 DEF RInv, Undisturbed, Threads
  <2>2. status[j] \notin {"ACTIVE", "CANCEL_REQUESTED"}
    BY <2>1 DEF Accept, Pending, With
  <2>3. exec[j].pc \notin Working
    BY <1>2, <2>1 DEF Progress
  <2>4. exec[j].pc \notin {"compress", "master", "exit", "close"}
    BY <2>3 DEF Working
  <2>5. Progress(j)'
    BY <1>1, <1>2, <2>2, <2>3, <2>4 DEF Progress
  <2> QED
    BY <1>1, <2>1, <2>5
<1>4. Undisturbed'
  BY <1>1, <1>3 DEF Undisturbed
<1>5. Judged' /\ Prepared' /\ Claimed'
  BY <1>1, <1>2 DEF RInv, Judged, Prepared, Claimed
<1>6. \A j \in Jobs \ mixed' : Own(j)'
  BY <1>1 DEF RInv, Own
<1> QED
  BY <1>2, <1>4, <1>5, <1>6 DEF RInv

\* A failure to enqueue marks the executions it meets.
LEMMA FailEnqueueKeeps ==
  ASSUME RInv, TypeOK', NEW r \in Requests, FailEnqueue(r)
  PROVE  RInv'
<1>1. Threads' = Threads /\ UNCHANGED <<exec, status, own>> /\ mixed' = mixed \cup Threads
  BY DEF FailEnqueue, Threads
<1>2. last' = None /\ Shown' /\ ~run'.running
  BY DEF FailEnqueue, Shown, NotQueued, RInv, TypeOK
<1>3. Judged' /\ Prepared' /\ Claimed'
  BY <1>1, <1>2 DEF RInv, Judged, Prepared, Claimed
<1>4. Undisturbed'
  BY <1>1 DEF Undisturbed
<1>5. \A j \in Jobs \ mixed' : Own(j)'
  BY <1>1 DEF RInv, Own
<1> QED
  BY <1>2, <1>3, <1>4, <1>5 DEF RInv

\* A restart ends all threads.
LEMMA RestartKeeps ==
  ASSUME RInv, TypeOK', Restart
  PROVE  RInv'
<1>1. Threads' = {} /\ UNCHANGED <<status, own, mixed>>
  BY DEF Restart, Threads, NoThread
<1>2. Shown' /\ ~run'.running
  BY DEF Restart, Shown, NoRun
<1>3. Judged'
  BY DEF Restart, Judged, NoThread
<1>4. Prepared' /\ Claimed' /\ Undisturbed'
  BY <1>1, <1>2 DEF Prepared, Claimed, Undisturbed
<1>5. \A j \in Jobs \ mixed' : Own(j)'
  BY <1>1 DEF RInv, Own
<1> QED
  BY <1>2, <1>3, <1>4, <1>5 DEF RInv

\* A claim starts an execution alone, or marks all of them.
LEMMA ClaimKeeps ==
  ASSUME RInv, TypeOK', Judged', Claim
  PROVE  RInv'
<1>1. \A k \in Jobs :
        \/ status'[k] = status[k]
        \/ status[k] = "CANCEL_REQUESTED" /\ status'[k] = "CANCELLED"
        \/ k \notin Threads /\ status[k] = "ACTIVE" /\ status'[k] = "QUEUED"
        \/ k \notin Threads /\ status[k] \in {"QUEUED", "ACTIVE"} /\ status'[k] = "ACTIVE"
  BY StartLemma DEF RInv
<1>2. \A k \in Jobs : Moves(k)
  BY <1>1 DEF Moves
<1>3. UNCHANGED <<run, last>>
  BY DEF Claim
<1>4. CASE UNCHANGED <<exec, own, mixed>>
  BY <1>2, <1>3, <1>4, FileKeeps
<1>5. ASSUME NEW j \in Jobs \ Threads,
             Threads' = Threads \cup {j}, exec'[j].pc = "begin",
             status'[j] = "ACTIVE", own'[j] = None,
             \A k \in Jobs \ {j} : exec'[k] = exec[k] /\ own'[k] = own[k],
             mixed' = IF Threads = {} THEN mixed ELSE mixed \cup Threads \cup {j}
      PROVE  RInv'
  <2>1. Prepared'
    <3>1. exec[j].pc \notin Working
      BY <1>5 DEF Threads, Working
    <3> QED
      BY <1>3, <1>5, <3>1 DEF RInv, Prepared
  <2>2. Claimed'
    <3>1. \A k \in Threads : k \in Jobs /\ status[k] \in {"ACTIVE", "CANCEL_REQUESTED", "CANCELLED"}
      BY DEF RInv, Claimed, Threads
    <3>2. \A k \in Threads : status'[k] \in {"ACTIVE", "CANCEL_REQUESTED", "CANCELLED"}
      BY <1>2, <3>1, MovesLemma
    <3> QED
      BY <1>5, <3>2 DEF Claimed
  <2>3. Progress(j)'
    BY <1>5 DEF Progress, Working
  <2>4. Undisturbed'
    <3>1. CASE Threads = {}
      BY <1>5, <2>3, <3>1 DEF Undisturbed
    <3>2. CASE Threads # {}
      BY <1>5, <3>2 DEF Undisturbed
    <3> QED
      BY <3>1, <3>2
  <2>5. ASSUME NEW k \in Jobs \ mixed'
        PROVE  Own(k)'
    <3>1. CASE k = j
      BY <1>5, <3>1, ConstantsAssumption DEF Own
    <3>2. CASE k # j
      <4>1. Own(k)
        BY <1>5, <2>5, <3>2 DEF RInv
      <4> QED
        BY <1>2, <1>5, <3>2, <4>1, MovesLemma
    <3> QED
      BY <3>1, <3>2
  <2>6. Threads' # {}
    BY <1>5
  <2> QED
    BY <2>1, <2>2, <2>4, <2>5, <2>6 DEF RInv
<1> QED
  BY <1>4, <1>5, StartLemma DEF RInv

-----------------------------------------------------------------------------
(* Steps of an execution.                                                  *)

\* What the log makes of _run_state.
LEMMA LoggedLemma ==
  ASSUME NEW state \in RunStates
  PROVE  /\ \A stage \in {1, 2, 3} :
              /\ Logged(state, stage).error = state.error
              /\ Logged(state, stage).running = state.running
              /\ Logged(state, stage).stage > 0
              /\ ~state.error => Logged(state, stage).mark = "running"
         /\ Failure(state).error = TRUE
         /\ Failure(state).running = state.running
         /\ Failure(state).stage = state.stage
         /\ state.stage > 0 => Failure(state).mark = "failed"
         /\ ~(state.stage > 0) => Failure(state).mark = "pending"
<1>0. /\ state \in [running : BOOLEAN, error : BOOLEAN, stage : Stages, mark : Marks]
      /\ (state.stage = 0) <=> (state.mark = "pending")
  BY DEF RunStates
<1>1. ASSUME NEW stage \in {1, 2, 3}
      PROVE  /\ Logged(state, stage).error = state.error
             /\ Logged(state, stage).running = state.running
             /\ Logged(state, stage).stage > 0
             /\ ~state.error => Logged(state, stage).mark = "running"
  <2> DEFINE furthest == IF stage > state.stage THEN stage ELSE state.stage
             mark == IF state.error THEN "failed" ELSE "running"
  <2>1. furthest > 0 /\ furthest # 0
    BY <1>0 DEF Stages
  <2>2. Logged(state, stage) = [state EXCEPT !.stage = furthest, !.mark = mark]
    BY <2>1 DEF Logged
  <2>3. ~state.error => mark = "running"
    OBVIOUS
  <2> HIDE DEF furthest, mark
  <2> QED
    BY <1>0, <2>1, <2>2, <2>3
<1>2. /\ Failure(state).error = TRUE
      /\ Failure(state).running = state.running
      /\ Failure(state).stage = state.stage
      /\ state.stage > 0 => Failure(state).mark = "failed"
      /\ ~(state.stage > 0) => Failure(state).mark = "pending"
  <2> DEFINE failed == [state EXCEPT !.error = TRUE]
             next == [failed EXCEPT !.stage = state.stage, !.mark = "failed"]
  <2>1. failed.error = TRUE /\ failed.stage = state.stage /\ failed.mark = state.mark
        /\ failed.running = state.running
    BY <1>0
  <2>2. state.stage > 0 <=> state.stage # 0
    BY <1>0 DEF Stages
  <2>3. Logged(failed, 0) = IF state.stage = 0 THEN failed ELSE next
    <3>1. (IF 0 > state.stage THEN 0 ELSE state.stage) = state.stage
      BY <1>0 DEF Stages
    <3> HIDE DEF failed
    <3> QED
      BY <2>1, <3>1 DEF Logged
  <2>4. next.error = TRUE /\ next.stage = state.stage /\ next.mark = "failed"
        /\ next.running = state.running
    BY <1>0
  <2>5. Failure(state) = MarkedAs(Logged(failed, 0), "failed")
    BY DEF Failure
  <2> HIDE DEF failed, next
  <2>6. CASE state.stage = 0
    BY <1>0, <2>1, <2>2, <2>3, <2>5, <2>6 DEF MarkedAs
  <2>7. CASE state.stage # 0
    BY <2>2, <2>3, <2>4, <2>5, <2>7 DEF MarkedAs
  <2> QED
    BY <2>6, <2>7
<1> QED
  BY <1>1, <1>2

\* A step of an execution keeps it claimed, or ends it.
LEMMA ExecuteClaimed ==
  ASSUME RInv, NEW j \in Jobs, Execute(j)
  PROVE  /\ Claimed' /\ j \in Threads /\ mixed' = mixed
         /\ Threads' = IF Report(j) THEN Threads \ {j} ELSE Threads
         /\ \A k \in Jobs \ {j} : exec'[k] = exec[k] /\ own'[k] = own[k] /\ status'[k] = status[k]
<1>0. exec \in [Jobs -> ThreadStates] /\ own \in [Jobs -> Outcomes] /\ status \in [Jobs -> Statuses]
  BY DEF RInv, TypeOK, ThreadStates, Statuses
<1>1. j \in Threads /\ mixed' = mixed
  BY DEF Execute, Begin, Compress, Master, Succeed, Fail, NoticeCancel, Ended, Close, Judge,
         Report, At, Threads, history
<1>2. CASE Report(j)
  <2>1. exec'[j].pc = "none" /\ \A k \in Jobs \ {j} : exec'[k] = exec[k] /\ status'[k] = status[k]
    BY <1>0, <1>2 DEF Report, NoThread
  <2>2. own' = own
    BY <1>2 DEF Report, history
  <2>3. Threads' = Threads \ {j}
    BY <2>1 DEF Threads
  <2>4. Claimed'
    BY <2>1, <2>3 DEF RInv, Claimed, Threads
  <2> QED
    BY <1>1, <1>2, <2>1, <2>2, <2>3, <2>4
<1>3. CASE ~Report(j)
  <2>1. exec'[j].pc # "none" /\ \A k \in Jobs \ {j} : exec'[k] = exec[k]
    BY <1>0, <1>3 DEF Execute, Begin, Compress, Master, Succeed, Fail, NoticeCancel, Ended, Close,
                      Judge, GoTo, ThreadStates
  <2>2. status' = status
    BY <1>3 DEF Execute, Begin, Compress, Master, Succeed, Fail, NoticeCancel, Ended, Close, Judge
  <2>3. Threads' = Threads
    BY <1>1, <2>1 DEF Threads
  <2>4. Claimed'
    BY <2>2, <2>3 DEF RInv, Claimed
  <2>5. \A k \in Jobs \ {j} : own'[k] = own[k]
    BY <1>0, <1>3 DEF Execute, Begin, Compress, Master, Succeed, Fail, NoticeCancel, Ended, Close,
                      Judge, history
  <2> QED
    BY <1>1, <1>3, <2>1, <2>2, <2>3, <2>4, <2>5
<1> QED
  BY <1>2, <1>3

\* _run_state runs while some execution works with it.
LEMMA ExecutePrepared ==
  ASSUME RInv, NEW j \in Jobs, Execute(j)
  PROVE  Prepared'
<1>0. exec \in [Jobs -> ThreadStates] /\ run \in RunStates
  BY DEF RInv, TypeOK, ThreadStates, RunStates, Marks
<1>1. CASE Close(j) \/ Judge(j)
  BY <1>0, <1>1 DEF Close, Judge, Prepared, RunStates
<1>2. CASE Report(j)
  <2>1. run' = run /\ exec[j].pc \notin Working /\ \A k \in Jobs \ {j} : exec'[k] = exec[k]
    BY <1>0, <1>2 DEF Report, At, Working
  <2> QED
    BY <2>1 DEF RInv, Prepared
<1>3. CASE Begin(j) \/ Compress(j) \/ Master(j) \/ Succeed(j) \/ Fail(j) \/ NoticeCancel(j)
  <2>1. exec'[j].pc \in Working
    BY <1>0, <1>3 DEF Begin, Compress, Master, Succeed, Fail, NoticeCancel, Ended, GoTo, Working,
                      ThreadStates
  <2> QED
    BY <2>1 DEF Prepared
<1> QED
  BY <1>1, <1>2, <1>3 DEF Execute

\* An execution that met no other proceeds on its own _run_state.
LEMMA ExecuteAlone ==
  ASSUME RInv, TypeOK', NEW j \in Jobs \ mixed, Execute(j)
  PROVE  /\ Own(j)'
         /\ ~Report(j) => Progress(j)'
         /\ Report(j) => Shown'
<1>0. exec \in [Jobs -> ThreadStates] /\ run \in RunStates /\ own \in [Jobs -> Outcomes]
  BY DEF RInv, TypeOK, ThreadStates, RunStates, Marks
<1>1. Threads = {j} /\ Progress(j) /\ Own(j)
  BY ExecuteClaimed DEF RInv, Undisturbed
<1>2. status[j] \in {"ACTIVE", "CANCEL_REQUESTED", "CANCELLED"}
  BY <1>1 DEF RInv, Claimed
<1>3. ASSUME NEW pc \in {"compress", "master", "exit", "close", "judge"}, GoTo(j, pc)
      PROVE  exec'[j].pc = pc
  BY <1>0, <1>3 DEF GoTo, ThreadStates
<1>4. UNCHANGED <<status, own>> => Own(j)'
  BY <1>1 DEF Own
<1>5. CASE Begin(j)
  <2>1. exec[j].pc = "begin" /\ exec'[j].pc = "compress"
    BY <1>3, <1>5 DEF Begin, At
  <2>2. \A k \in Jobs : exec[k].pc \notin Working
    BY <1>1, <2>1 DEF Threads, Working
  <2>3. run' = NewRun
    BY <1>5, <2>2 DEF Begin, Begun, RInv, Prepared
  <2>4. NewRun.running
    BY DEF NewRun, NoRun
  <2>5. Progress(j)'
    BY <2>1, <2>3, <2>4 DEF Progress, Working
  <2> QED
    BY <1>4, <1>5, <2>1, <2>5 DEF Begin, history, Report, At
<1>6. CASE Compress(j)
  <2>1. exec[j].pc = "compress" /\ exec'[j].pc = "master"
    BY <1>3, <1>6 DEF Compress, At
  <2>2. run = NewRun /\ run' = Logged(run, 1)
    BY <1>1, <1>6, <2>1 DEF Progress, Compress
  <2>3. run'.running /\ ~run'.error /\ run'.stage > 0 /\ run'.mark = "running"
    <3>1. ~run.error /\ run.running
      BY <2>2 DEF NewRun, NoRun
    <3> QED
      BY <1>0, <2>2, <3>1, LoggedLemma
  <2>4. Progress(j)'
    BY <2>1, <2>3 DEF Progress
  <2> QED
    BY <1>4, <1>6, <2>1, <2>4 DEF Compress, history, Report, At
<1>7. CASE Master(j)
  <2>1. exec[j].pc = "master" /\ exec'[j].pc = "exit"
    BY <1>3, <1>7 DEF Master, At
  <2>2. run.running /\ ~run.error /\ run.stage > 0 /\ run.mark = "running"
    BY <1>1, <2>1 DEF Progress, Working
  <2>3. run'.running /\ ~run'.error /\ run'.stage > 0 /\ run'.mark = "running"
    <3>1. CASE run' = run
      BY <2>2, <3>1
    <3>2. CASE run' = Logged(run, 2)
      BY <1>0, <2>2, <3>2, LoggedLemma
    <3> QED
      BY <1>7, <3>1, <3>2 DEF Master
  <2>4. Progress(j)'
    BY <2>1, <2>3 DEF Progress
  <2> QED
    BY <1>4, <1>7, <2>1, <2>4 DEF Master, history, Report, At
<1>8. ASSUME NEW outcome \in {"ok", "error", "cancelled"}, Ended(j, outcome),
             run'.running, run'.error = (outcome = "error"),
             run'.mark = "failed" <=> outcome = "error" /\ run'.stage > 0,
             run'.mark = "completed" <=> outcome = "ok",
             outcome = "cancelled" => CancelSeen(j)
      PROVE  Own(j)' /\ Progress(j)'
  <2>1. exec'[j].pc = "close" /\ own'[j] = outcome /\ last' = outcome /\ status' = status
    BY <1>0, <1>3, <1>8 DEF Ended
  <2>2. Shown'
    BY <1>8, <2>1 DEF Shown
  <2>3. outcome # None
    BY ConstantsAssumption
  <2>4. Progress(j)'
    BY <1>8, <2>1, <2>2, <2>3 DEF Progress
  <2>5. Own(j)'
    BY <1>2, <1>8, <2>1 DEF Own, CancelSeen
  <2> QED
    BY <2>4, <2>5
<1>9. CASE Succeed(j)
  <2>1. exec[j].pc = "exit"
    BY <1>9 DEF Succeed, At
  <2>2. run.running /\ ~run.error
    BY <1>1, <2>1 DEF Progress, Working
  <2>3. PICK logged \in RunStates : logged = Logged(run, 3)
    BY <1>0, RunStatesLemma, StagesLemma
  <2>4. logged.running /\ ~logged.error /\ logged.mark = "running"
    BY <1>0, <2>2, <2>3, LoggedLemma
  <2>5. run' = [logged EXCEPT !.mark = "completed"]
    BY <1>9, <2>3, <2>4 DEF Succeed, MarkedAs
  <2>6. run'.running /\ run'.error = FALSE /\ run'.mark = "completed"
    BY <2>4, <2>5 DEF RunStates
  <2> QED
    BY <1>8, <1>9, <2>1, <2>6 DEF Succeed, Report, At
<1>10. CASE Fail(j)
  <2>1. exec[j].pc \in Working /\ exec[j].pc # "report"
    BY <1>10 DEF Fail, Working
  <2>2. run.running
    BY <1>1, <2>1 DEF Progress
  <2>3. /\ run'.running /\ run'.error = TRUE
        /\ run'.mark = "failed" <=> run'.stage > 0
        /\ run'.mark # "completed"
    BY <1>0, <1>10, <2>2, LoggedLemma DEF Fail
  <2> QED
    BY <1>8, <1>10, <2>1, <2>3 DEF Fail, Report, At
<1>11. CASE NoticeCancel(j)
  <2>1. exec[j].pc \in {"compress", "master", "exit"} /\ CancelSeen(j) /\ exec[j].pc \in Working
    BY <1>11 DEF NoticeCancel, Working
  <2>2. run.running /\ run.mark \notin {"failed", "completed"}
    BY <1>1, <2>1 DEF Progress, NewRun, NoRun
  <2>3. run'.running /\ run'.error = FALSE /\ run'.mark = run.mark
    BY <1>0, <1>11, <2>2 DEF NoticeCancel, RunStates
  <2> QED
    BY <1>8, <1>11, <2>1, <2>2, <2>3 DEF NoticeCancel, Report, At
<1>12. CASE Close(j)
  <2>1. exec[j].pc = "close" /\ exec'[j].pc = "judge" /\ UNCHANGED <<status, own, last>>
    BY <1>3, <1>12 DEF Close, At, history
  <2>2. run'.error = run.error /\ run'.mark = run.mark /\ run'.stage = run.stage
    BY <1>0, <1>12 DEF Close, RunStates
  <2>3. Shown'
    BY <1>1, <2>1, <2>2 DEF Progress, Shown
  <2>4. Progress(j)'
    BY <1>1, <2>1, <2>2, <2>3 DEF Progress, Working
  <2> QED
    BY <1>4, <1>12, <2>1, <2>4 DEF Report, At
<1>13. CASE Judge(j)
  <2>1. /\ exec[j].pc = "judge" /\ exec'[j].pc = "report" /\ UNCHANGED <<status, own, last>>
        /\ exec'[j].verdict = IF run.error THEN "FAILED" ELSE "COMPLETED"
    BY <1>0, <1>13 DEF Judge, At, history
  <2>2. run'.error = run.error /\ run'.mark = run.mark /\ run'.stage = run.stage
    BY <1>0, <1>13 DEF Judge, RunStates
  <2>3. Shown'
    BY <1>1, <2>1, <2>2 DEF Progress, Shown
  <2>4. Progress(j)'
    BY <1>1, <2>1, <2>3 DEF Progress, Working
  <2> QED
    BY <1>4, <1>13, <2>1, <2>4 DEF Report, At
<1>14. CASE Report(j)
  <2>1. exec[j].pc = "report" /\ UNCHANGED <<run, own, last>>
    BY <1>14 DEF Report, At, history
  <2>2. Shown'
    BY <1>1, <2>1 DEF Progress, Shown
  <2>3. /\ status[j] = "ACTIVE" => status'[j] = exec[j].verdict
        /\ status[j] # "ACTIVE" => status'[j] = "CANCELLED"
    BY <1>2, <1>14 DEF Report, RInv, TypeOK
  <2>4. Own(j)'
    BY <1>0, <1>1, <1>2, <2>1, <2>3 DEF Own, Progress, Outcomes
  <2> QED
    BY <1>14, <2>2, <2>4
<1> QED
  BY <1>5, <1>6, <1>7, <1>9, <1>10, <1>11, <1>12, <1>13, <1>14 DEF Execute

\* An execution changes _run_state as its own progress says, or has met another.
LEMMA ExecuteKeeps ==
  ASSUME RInv, TypeOK', Judged', NEW j \in Jobs, Execute(j)
  PROVE  RInv'
<1>1. /\ Claimed' /\ j \in Threads /\ mixed' = mixed
      /\ Threads' = IF Report(j) THEN Threads \ {j} ELSE Threads
      /\ \A k \in Jobs \ {j} : exec'[k] = exec[k] /\ own'[k] = own[k] /\ status'[k] = status[k]
  BY ExecuteClaimed
<1>2. \A k \in Jobs \ (mixed \cup {j}) : Own(k)'
  BY <1>1 DEF RInv, Own
<1>3. CASE j \in mixed
  <2>1. Threads \ mixed = {}
    BY <1>1, <1>3 DEF RInv, Undisturbed
  <2>2. Undisturbed'
    BY <1>1, <2>1 DEF Undisturbed
  <2> QED
    BY <1>1, <1>2, <1>3, <2>2, ExecutePrepared DEF RInv
<1>4. CASE j \notin mixed
  <2>1. Threads = {j} /\ (~Report(j) => Progress(j)') /\ (Report(j) => Shown') /\ Own(j)'
    BY <1>1, <1>4, ExecuteAlone DEF RInv, Undisturbed
  <2>2. Undisturbed'
    <3>1. CASE Report(j)
      <4>1. Threads' = {}
        BY <1>1, <2>1, <3>1
      <4> QED
        BY <4>1 DEF Undisturbed
    <3>2. CASE ~Report(j)
      BY <1>1, <2>1, <3>2 DEF Undisturbed
    <3> QED
      BY <3>1, <3>2
  <2>3. (mixed = {} /\ Threads = {} => Shown)'
    BY <1>1, <2>1
  <2>4. \A k \in Jobs \ mixed' : Own(k)'
    BY <1>1, <1>2, <2>1
  <2> QED
    BY <1>1, <2>2, <2>3, <2>4, ExecutePrepared DEF RInv
<1> QED
  BY <1>3, <1>4

-----------------------------------------------------------------------------
(* The theorem.                                                            *)

\* Nothing runs and nothing was shown.
LEMMA RInvInit == Init => RInv
<1> SUFFICES ASSUME Init PROVE RInv
  OBVIOUS
<1>1. Threads = {} /\ ~run.running /\ last = None
  BY DEF Init, Threads, NoThread, NoRun
<1>2. \A j \in Jobs : Own(j)
  BY ConstantsAssumption DEF Init, Own
<1> QED
  BY <1>1, <1>2, TypeInit DEF RInv, Prepared, Claimed, Undisturbed, Shown

\* The invariant is inductive.
LEMMA RInvNext == RInv /\ [Next]_vars => RInv'
<1> SUFFICES ASSUME RInv, [Next]_vars PROVE RInv'
  OBVIOUS
<1>0. TypeOK' /\ Judged'
  BY TypeNext, JudgedNext DEF RInv
<1>1. CASE UNCHANGED <<exec, run, own, last, mixed, status>>
  <2>1. \A k \in Jobs : Moves(k)
    BY <1>1 DEF Moves
  <2> QED
    BY <1>0, <1>1, <2>1, FileKeeps
<1>2. CASE Append /\ UNCHANGED <<exec, run, own, last, mixed>>
  BY <1>0, <1>2, AppendMoves, FileKeeps
<1>3. ASSUME NEW j \in Jobs, Cancel(j)
      PROVE  RInv'
  <2>1. status[j] = "QUEUED" => j \notin Threads
    BY DEF RInv, Claimed
  <2>2. \A k \in Jobs : Moves(k)
    BY <1>3, <2>1 DEF Cancel, Moves, RInv, TypeOK
  <2> QED
    BY <1>0, <1>3, <2>2, FileKeeps DEF Cancel
<1> QED
  BY <1>0, <1>1, <1>2, <1>3, AcceptKeeps, FailEnqueueKeeps, RestartKeeps, ClaimKeeps, ExecuteKeeps
  DEF Next, EnqueueRun, Upload, ScanList, ScanLook, ScanEnqueue, Reprocess, EndReprocess, history,
      vars

\* Runs keep their outcomes and reprocessing apart, for any number of requests,
\* jobs, threads at a time, restarts and failures to enqueue.
THEOREM RunsApartTheorem == Spec => RunsApart
<1>1. RInv => OutcomeIsOwn
  BY RInvOutcome
<1>2. RInv /\ [Next]_vars =>
        [~inflight /\ inflight' =>
           \A j \in Jobs \ mixed : exec[j].pc \notin {"compress", "master", "exit"}]_vars
  <2> SUFFICES ASSUME RInv, Next, ~inflight, inflight', NEW j \in Jobs \ mixed
               PROVE  exec[j].pc \notin {"compress", "master", "exit"}
    OBVIOUS
  <2>1. Reprocess
    BY DEF Next, Accept, EnqueueRun, FailEnqueue, Upload, ScanList, ScanLook, ScanEnqueue, Claim,
           EndReprocess, Restart, Cancel, Execute, Begin, Compress, Master, Succeed, Fail,
           NoticeCancel, Ended, Close, Judge, Report
  <2>2. ~run.running
    BY <2>1 DEF Reprocess
  <2> QED
    BY <2>2 DEF RInv, Undisturbed, Threads, Progress, Working
<1> QED
  BY <1>1, <1>2, RInvInit, RInvNext, PTL DEF Spec, RunsApart, ReprocessStartsAlone

=============================================================================
