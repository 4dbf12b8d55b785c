--------------------------- MODULE RecordsProofs ---------------------------
(***************************************************************************)
(* Proofs about records that several processes share: the queue of         *)
(* processing jobs, for any number of processes on any hosts, any number   *)
(* of jobs and any set of limits, stops and overlong executions; and the   *)
(* edited copies, the release validation and the delivery gates of         *)
(* MCRecords, for any sources, specifications, changes, validations and    *)
(* deliveries.                                                             *)
(***************************************************************************)
EXTENDS ProcessingQueue, MCRecords, Sequences, FiniteSetTheorems,
        WellFoundedInduction, TLAPS

-----------------------------------------------------------------------------
(* The queue of processing jobs.                                           *)
-----------------------------------------------------------------------------
(* Operators.                                                              *)

\* The first of some jobs is one of them.
LEMMA FirstLemma ==
  ASSUME NEW js, js \subseteq Jobs, js # {}
  PROVE  First(js) \in js
<1>1. js \subseteq Nat
  BY ConstantsAssumption DEF Jobs
<1>2. \E j \in js : \A k \in js : <<k, j>> \notin OpToRel(<, Nat)
  BY <1>1, NatLessThanWellFounded, WFMin
<1>3. \A j, k \in Nat : <<k, j>> \notin OpToRel(<, Nat) => j <= k
  BY DEF OpToRel
<1> QED
  BY <1>1, <1>2, <1>3 DEF First

\* There are finitely many jobs.
LEMMA FiniteLemma == ASSUME NEW js, js \subseteq Jobs PROVE IsFiniteSet(js)
<1>1. IsFiniteSet(Jobs)
  BY ConstantsAssumption, FS_Interval, 1 \in Int, MaxJobs \in Int DEF Jobs
<1> QED
  BY <1>1, FS_Subset

\* claim_next changes jobs that are asked to stop or recoverable, and no others.
LEMMA SweptLemma ==
  ASSUME NEW w \in Workers, status \in [Jobs -> Statuses]
  PROVE  /\ Swept(w) \in [Jobs -> Statuses]
         /\ \A j \in Jobs :
              /\ status[j] \notin {"ACTIVE", "CANCEL_REQUESTED"} => Swept(w)[j] = status[j]
              /\ status[j] = "CANCEL_REQUESTED" => Swept(w)[j] = "CANCELLED"
              /\ status[j] = "ACTIVE" =>
                   Swept(w)[j] = IF j \in Recoverable(w) THEN "QUEUED" ELSE "ACTIVE"
              /\ j \in Recoverable(w) => status[j] = "ACTIVE" /\ (j \in lost \/ j \in old)
BY DEF Swept, Recoverable, With, Statuses, Terminal

-----------------------------------------------------------------------------
(* Types.                                                                  *)

\* The jobs file is empty and nothing is executed.
LEMMA TypeInit == Init => TypeOK
BY ConstantsAssumption DEF Init, TypeOK, Statuses, Threads, Jobs

\* A claim sweeps the jobs and starts threads for those it takes.
LEMMA TypeClaim ==
  ASSUME TypeOK, NEW w \in Workers, NEW limit \in Limits, Claim(w, limit)
  PROVE  TypeOK'
<1>1. CASE Candidates(w, limit) = {}
  BY <1>1, SweptLemma DEF Claim, TypeOK, bounds, Threads
<1>2. CASE Candidates(w, limit) # {}
  <2> DEFINE j == First(Candidates(w, limit))
             t == [worker |-> w, job |-> j, attempt |-> NextAttempt(j)]
  <2>1. j \in Jobs
    BY <1>2, FirstLemma DEF Candidates
  <2> HIDE DEF j
  <2>2. NextAttempt(j) \in Nat /\ NextAttempt(j) > attempt[j] /\ NextAttempt(j) >= 1
    BY <2>1 DEF NextAttempt, TypeOK
  <2>3. /\ status' = [Swept(w) EXCEPT ![j] = "ACTIVE"]
        /\ owner' = [owner EXCEPT ![j] = w]
        /\ attempt' = [attempt EXCEPT ![j] = NextAttempt(j)]
        /\ old' = old \ Recoverable(w) /\ lost' = lost \ (Recoverable(w) \cup {j})
        /\ active' = [active EXCEPT ![w] = @ \cup {j}]
        /\ threads' = threads \cup {t}
        /\ w \in up \ scanning
        /\ UNCHANGED <<scheduled, up, scanning, bounds, asked>>
    BY <1>2 DEF Claim, j
  <2>4. t \in Threads
    BY <2>1, <2>2 DEF Threads
  <2>5. ASSUME NEW u \in threads'
        PROVE  u.worker \in up' /\ u.attempt \in 1 .. attempt'[u.job]
    <3>1. CASE u = t
      BY <2>1, <2>2, <2>3, <3>1 DEF TypeOK
    <3>2. CASE u \in threads
      BY <2>1, <2>2, <2>3, <3>2 DEF TypeOK, Threads
    <3> QED
      BY <2>3, <3>1, <3>2
  <2>6. status' \in [Jobs -> Statuses]
    BY <2>1, <2>3, SweptLemma DEF TypeOK, Statuses
  <2> QED
    BY <2>1, <2>2, <2>3, <2>4, <2>5, <2>6 DEF TypeOK, bounds
<1> QED
  BY <1>1, <1>2

\* The types are inductive.
LEMMA TypeNext == TypeOK /\ [Next]_vars => TypeOK'
<1> SUFFICES ASSUME TypeOK, [Next]_vars PROVE TypeOK'
  OBVIOUS
<1> USE DEF TypeOK
<1>1. ASSUME NEW isScheduled \in BOOLEAN, AddEntry(isScheduled)
      PROVE  /\ status' \in [Jobs -> Statuses] /\ scheduled' \subseteq Jobs
             /\ UNCHANGED <<owner, attempt>>
  <2>1. First(With({"ABSENT"})) \in Jobs
    BY <1>1, FirstLemma DEF AddEntry, With
  <2> QED
    BY <1>1, <2>1 DEF AddEntry, Statuses
<1>2. CASE Enqueue
  BY <1>1, <1>2 DEF Enqueue, procs, bounds
<1>3. ASSUME NEW w \in Workers, ScanCheck(w)
      PROVE  TypeOK'
  BY <1>3 DEF ScanCheck, file, bounds
<1>4. ASSUME NEW w \in Workers, ScanEnqueue(w)
      PROVE  TypeOK'
  BY <1>1, <1>4 DEF ScanEnqueue, file, bounds
<1>5. ASSUME NEW w \in Workers, Poll(w)
      PROVE  TypeOK'
  BY <1>5, TypeClaim DEF Poll
<1>6. ASSUME NEW t \in threads, Leave(t)
      PROVE  /\ active' \in [Workers -> SUBSET Jobs] /\ threads' \subseteq threads
             /\ UNCHANGED <<up, scanning>>
  BY <1>6 DEF Leave, Threads
<1>7. ASSUME NEW t \in threads, Finish(t)
      PROVE  TypeOK'
  <2>1. \A told \in {"COMPLETED", "FAILED"} : Outcome(t.job, told) \in Statuses
    BY DEF Outcome, Statuses, Terminal, Threads
  <2>2. status' \in [Jobs -> Statuses]
    BY <1>7, <2>1 DEF Finish, Threads
  <2> QED
    BY <1>6, <1>7, <2>2 DEF Finish, bounds
<1>8. ASSUME NEW t \in threads, LoseFinish(t)
      PROVE  TypeOK'
  BY <1>6, <1>8, ConstantsAssumption DEF LoseFinish, file
<1>9. ASSUME NEW j \in Jobs, Cancel(j)
      PROVE  TypeOK'
  BY <1>9 DEF Cancel, Statuses, Terminal, procs, bounds
<1>10. ASSUME NEW j \in Jobs, GrowOld(j)
       PROVE  TypeOK'
  BY <1>10, ConstantsAssumption DEF GrowOld, file, procs
<1>11. ASSUME NEW w \in Workers, Crash(w)
       PROVE  TypeOK'
  <2>1. /\ up' \subseteq Workers /\ scanning' \subseteq up' /\ active' \in [Workers -> SUBSET Jobs]
        /\ lost' \subseteq Jobs /\ crashes' \in 0 .. MaxCrashes
    BY <1>11, ConstantsAssumption DEF Crash, With
  <2>2. /\ threads' \subseteq threads
        /\ \A t \in threads' : t.worker \in up'
    BY <1>11 DEF Crash
  <2> QED
    BY <1>11, <2>1, <2>2 DEF Crash, file
<1>12. ASSUME NEW w \in Workers, Restart(w)
       PROVE  TypeOK'
  BY <1>12 DEF Restart, file, bounds
<1>13. CASE UNCHANGED vars
  BY <1>13 DEF vars, file, procs, bounds
<1> QED
  BY <1>2, <1>3, <1>4, <1>5, <1>7, <1>8, <1>9, <1>10, <1>11, <1>12, <1>13 DEF Next

\* Types, for any number of processes, jobs, stops and overlong executions.
THEOREM TypeCorrect == Spec => []TypeOK
BY TypeInit, TypeNext, PTL DEF Spec

-----------------------------------------------------------------------------
(* The inductive invariant.                                                *)

Pending  == scheduled \cap With({"QUEUED", "ACTIVE"})
Quiet(j) == \A t \in threads : t.job # j

\* The scan adds a scheduled job only where none is pending, and the entry it
\* appends is a new one.
PendingAlone ==
  /\ \A i, j \in Pending : i = j
  /\ \A j \in Jobs : status[j] = "ABSENT" => j \notin scheduled

\* A job waits without a heartbeat of an earlier claim.
QueuedIsYoung == \A j \in Jobs : status[j] \in {"ABSENT", "QUEUED"} => j \notin old

\* While no execution outlasts stale_after, a thread belongs to the last claim
\* of its job, and a job that may be claimed or recovered has no thread.
ThreadsAreOwned ==
  long = 0 =>
    /\ \A t \in threads : t.attempt = attempt[t.job] /\ t.worker = owner[t.job]
    /\ \A j \in Jobs :
         status[j] \in {"ABSENT", "QUEUED"} \/ (status[j] = "ACTIVE" /\ j \in lost \cup old)
           => Quiet(j)

\* Without cancellations every thread has an ACTIVE job, so that the limit on
\* ACTIVE jobs is one on threads.
ThreadsAreActive == long = 0 /\ asked = {} => \A t \in threads : status[t.job] = "ACTIVE"

IInv ==
  /\ TypeOK /\ PendingAlone /\ QueuedIsYoung /\ ThreadsAreOwned /\ ThreadsAreActive
  /\ RunsWithinLimitUndisturbed

\* Threads of the same job are the same thread.
LEMMA OneThreadLemma == TypeOK /\ ThreadsAreOwned => JobRunsOnce
BY DEF TypeOK, ThreadsAreOwned, JobRunsOnce, Threads

\* There are finitely many threads while they have different jobs, no more of
\* them than of any jobs that include theirs.
LEMMA ThreadsLemma ==
  ASSUME TypeOK, \A t, u \in threads : t.job = u.job => t = u,
         NEW js, js \subseteq Jobs, \A t \in threads : t.job \in js
  PROVE  /\ IsFiniteSet(threads) /\ Cardinality(threads) \in Nat
         /\ Cardinality(js) \in Nat /\ Cardinality(threads) <= Cardinality(js)
<1> DEFINE f == [t \in threads |-> t.job]
<1>1. IsFiniteSet(js)
  BY FiniteLemma
<1>2. f \in Injection(threads, js)
  BY DEF Injection, IsInjective
<1>3. IsFiniteSet(threads) /\ Cardinality(threads) <= Cardinality(js)
  BY <1>1, <1>2, FS_Injection DEF ExistsInjection
<1> QED
  BY <1>1, <1>3, FS_CardinalityType

\* Fewer threads are within the limit if more are.
LEMMA FewerLemma ==
  ASSUME TypeOK, ThreadsAreOwned, long = 0, RunsWithinLimit, threads' \subseteq threads
  PROVE  RunsWithinLimit'
<1>1. IsFiniteSet(threads) /\ Cardinality(threads) \in Nat
  <2>1. \A t \in threads : t.job \in Jobs
    BY DEF TypeOK, Threads
  <2>2. \A t, u \in threads : t.job = u.job => t = u
    BY OneThreadLemma DEF JobRunsOnce
  <2> QED
    BY <2>1, <2>2, ThreadsLemma
<1>2. Cardinality(threads') \in Nat /\ Cardinality(threads') <= Cardinality(threads)
  BY <1>1, FS_Subset, FS_CardinalityType
<1>3. \A n \in Limits : n \in Nat
  BY ConstantsAssumption
<1> QED
  BY <1>1, <1>2, <1>3 DEF RunsWithinLimit

-----------------------------------------------------------------------------
(* The claim.                                                              *)

\* What a claim does, whichever job it takes: only jobs that may be taken
\* become QUEUED or ACTIVE, and nobody executes the one taken.
LEMMA ClaimLemma ==
  ASSUME TypeOK, QueuedIsYoung, NEW w \in Workers, NEW limit \in Limits, Claim(w, limit)
  PROVE  /\ \A k \in Jobs :
              /\ status'[k] = "ABSENT" <=> status[k] = "ABSENT"
              /\ status'[k] \in {"QUEUED", "ACTIVE"} => status[k] \in {"QUEUED", "ACTIVE"}
              /\ status'[k] = "QUEUED" => k \notin old'
              /\ status'[k] = "QUEUED" => \/ status[k] = "QUEUED"
                                          \/ status[k] = "ACTIVE" /\ k \in lost \cup old
         /\ \/ /\ UNCHANGED <<attempt, owner, threads>>
               /\ old' \subseteq old /\ lost' \subseteq lost
               /\ \A k \in Jobs : status'[k] = "ACTIVE" => status[k] = "ACTIVE"
            \/ \E j \in Jobs :
                 /\ \/ status[j] = "QUEUED"
                    \/ status[j] = "ACTIVE" /\ j \in lost \cup old
                 /\ status'[j] = "ACTIVE" /\ j \notin lost' \cup old'
                 /\ old' \subseteq old /\ lost' \subseteq lost
                 /\ owner' = [owner EXCEPT ![j] = w]
                 /\ attempt' = [attempt EXCEPT ![j] = NextAttempt(j)]
                 /\ threads' = threads \cup {[worker |-> w, job |-> j, attempt |-> NextAttempt(j)]}
                 /\ \A k \in Jobs \ {j} : status'[k] = "ACTIVE" => status[k] = "ACTIVE"
                 /\ Cardinality({k \in Jobs : Swept(w)[k] = "ACTIVE"}) < limit
         /\ \A k \in Jobs : status[k] = "ACTIVE" /\ k \notin lost \cup old => status'[k] = "ACTIVE"
         /\ UNCHANGED <<scheduled, bounds, asked>>
<1> DEFINE j == First(Candidates(w, limit))
<1>0. /\ status \in [Jobs -> Statuses] /\ Swept(w) \in [Jobs -> Statuses]
      /\ \A k \in Jobs :
           /\ status[k] \notin {"ACTIVE", "CANCEL_REQUESTED"} => Swept(w)[k] = status[k]
           /\ status[k] = "CANCEL_REQUESTED" => Swept(w)[k] = "CANCELLED"
           /\ status[k] = "ACTIVE" =>
                Swept(w)[k] = IF k \in Recoverable(w) THEN "QUEUED" ELSE "ACTIVE"
           /\ k \in Recoverable(w) => status[k] = "ACTIVE" /\ (k \in lost \/ k \in old)
  <2>1. status \in [Jobs -> Statuses]
    BY DEF TypeOK
  <2> QED
    BY <2>1, SweptLemma
<1>1. CASE Candidates(w, limit) = {}
  <2>1. /\ status' = Swept(w) /\ old' = old \ Recoverable(w) /\ lost' = lost \ Recoverable(w)
        /\ UNCHANGED <<attempt, owner, threads, scheduled, bounds, asked>>
    BY <1>1 DEF Claim
  <2> QED
    BY <1>0, <2>1 DEF QueuedIsYoung, Statuses, Terminal
<1>2. CASE Candidates(w, limit) # {}
  <2>1. /\ j \in Jobs /\ Swept(w)[j] = "QUEUED"
        /\ Cardinality({k \in Jobs : Swept(w)[k] = "ACTIVE"}) < limit
    BY <1>2, FirstLemma DEF Candidates
  <2>2. /\ status' = [Swept(w) EXCEPT ![j] = "ACTIVE"]
        /\ owner' = [owner EXCEPT ![j] = w]
        /\ attempt' = [attempt EXCEPT ![j] = NextAttempt(j)]
        /\ old' = old \ Recoverable(w) /\ lost' = lost \ (Recoverable(w) \cup {j})
        /\ threads' = threads \cup {[worker |-> w, job |-> j, attempt |-> NextAttempt(j)]}
        /\ UNCHANGED <<scheduled, bounds, asked>>
    BY <1>2 DEF Claim
  <2> HIDE DEF j
  <2>3. \/ status[j] = "QUEUED"
        \/ status[j] = "ACTIVE" /\ j \in Recoverable(w)
    BY <1>0, <2>1 DEF Statuses, Terminal
  <2>4. status'[j] = "ACTIVE" /\ j \notin lost' \cup old'
    BY <1>0, <2>1, <2>2, <2>3 DEF QueuedIsYoung
  <2>5. \A k \in Jobs \ {j} : status'[k] = Swept(w)[k]
    BY <1>0, <2>2
  <2> QED
    BY <1>0, <2>1, <2>2, <2>3, <2>4, <2>5 DEF QueuedIsYoung, Statuses, Terminal
<1> QED
  BY <1>1, <1>2

\* A claim adds a thread only where fewer than limit jobs are ACTIVE.
LEMMA ClaimWithinLimit ==
  ASSUME TypeOK, QueuedIsYoung, ThreadsAreOwned, ThreadsAreActive, RunsWithinLimitUndisturbed,
         NEW w \in Workers, NEW limit \in Limits, Claim(w, limit)
  PROVE  RunsWithinLimitUndisturbed'
<1> SUFFICES ASSUME asked = {}, long = 0
             PROVE  RunsWithinLimit'
  BY DEF RunsWithinLimitUndisturbed, Claim, bounds
<1>1. CASE threads' = threads
  BY <1>1 DEF RunsWithinLimitUndisturbed, RunsWithinLimit
<1>2. CASE \E t : threads' = threads \cup {t} /\
                  Cardinality({k \in Jobs : Swept(w)[k] = "ACTIVE"}) < limit
  <2> DEFINE running == {k \in Jobs : Swept(w)[k] = "ACTIVE"}
  <2>1. \A t \in threads : t.job \in running
    <3>1. status \in [Jobs -> Statuses] /\ \A t \in threads : t.job \in Jobs
      BY DEF TypeOK, Threads
    <3>2. \A t \in threads : status[t.job] = "ACTIVE" /\ t.job \notin lost \cup old
      BY <3>1 DEF ThreadsAreActive, ThreadsAreOwned, Quiet
    <3> QED
      BY <3>1, <3>2, SweptLemma
  <2>2. \A t, u \in threads : t.job = u.job => t = u
    BY OneThreadLemma DEF JobRunsOnce
  <2>3. running \subseteq Jobs /\ Cardinality(running) < limit
    BY <1>2
  <2> HIDE DEF running
  <2>4. /\ IsFiniteSet(threads) /\ Cardinality(threads) \in Nat
        /\ Cardinality(running) \in Nat /\ Cardinality(threads) <= Cardinality(running)
    BY <2>1, <2>2, <2>3, ThreadsLemma
  <2>5. PICK t : threads' = threads \cup {t}
    BY <1>2
  <2>6. Cardinality(threads') \in {Cardinality(threads), Cardinality(threads) + 1}
    BY <2>4, <2>5, FS_AddElement
  <2>7. \A n \in Limits : n \in Nat
    BY ConstantsAssumption
  <2>8. limit \in Nat /\ Cardinality(threads') <= limit /\ Cardinality(threads') \in Nat
    BY <2>3, <2>4, <2>6, <2>7
  <2> QED
    BY <2>7, <2>8 DEF RunsWithinLimit
<1> QED
  BY <1>1, <1>2, ClaimLemma

\* A claim takes jobs that have no thread, and no more than the limit leaves room for.
LEMMA ClaimKeeps ==
  ASSUME IInv, NEW w \in Workers, NEW limit \in Limits, Claim(w, limit)
  PROVE  PendingAlone' /\ QueuedIsYoung' /\ ThreadsAreOwned' /\ ThreadsAreActive'
<1> USE DEF IInv
<1>0. /\ scheduled' = scheduled /\ long' = long /\ asked' = asked
      /\ \A t \in threads : t.job \in Jobs
      /\ status \in [Jobs -> Statuses] /\ status' \in [Jobs -> Statuses]
      /\ attempt \in [Jobs -> Nat] /\ owner \in [Jobs -> Workers \cup {None}]
  BY TypeClaim, ClaimLemma DEF bounds, TypeOK, Threads
<1>1. PendingAlone'
  BY <1>0, ClaimLemma DEF PendingAlone, Pending, With
<1>2. QueuedIsYoung'
  <2>1. \A k \in Jobs : status'[k] = "QUEUED" => k \notin old'
    BY ClaimLemma
  <2>2. \A k \in Jobs : status'[k] = "ABSENT" => k \notin old'
    BY ClaimLemma DEF QueuedIsYoung
  <2> QED
    BY <2>1, <2>2 DEF QueuedIsYoung
<1>3. CASE /\ UNCHANGED <<attempt, owner, threads>>
           /\ old' \subseteq old /\ lost' \subseteq lost
           /\ \A k \in Jobs : status'[k] = "ACTIVE" => status[k] = "ACTIVE"
  <2>1. ThreadsAreOwned'
    BY <1>0, <1>3, ClaimLemma DEF ThreadsAreOwned, Quiet
  <2>2. ThreadsAreActive'
    BY <1>0, <1>3, ClaimLemma DEF ThreadsAreOwned, ThreadsAreActive, Quiet
  <2> QED
    BY <1>1, <1>2, <2>1, <2>2
<1>4. CASE \E j \in Jobs :
             /\ \/ status[j] = "QUEUED"
                \/ status[j] = "ACTIVE" /\ j \in lost \cup old
             /\ status'[j] = "ACTIVE" /\ j \notin lost' \cup old'
             /\ old' \subseteq old /\ lost' \subseteq lost
             /\ owner' = [owner EXCEPT ![j] = w]
             /\ attempt' = [attempt EXCEPT ![j] = NextAttempt(j)]
             /\ threads' = threads \cup {[worker |-> w, job |-> j, attempt |-> NextAttempt(j)]}
             /\ \A k \in Jobs \ {j} : status'[k] = "ACTIVE" => status[k] = "ACTIVE"
  <2>1. PICK j \in Jobs :
             /\ \/ status[j] = "QUEUED"
                \/ status[j] = "ACTIVE" /\ j \in lost \cup old
             /\ status'[j] = "ACTIVE" /\ j \notin lost' \cup old'
             /\ old' \subseteq old /\ lost' \subseteq lost
             /\ owner' = [owner EXCEPT ![j] = w]
             /\ attempt' = [attempt EXCEPT ![j] = NextAttempt(j)]
             /\ threads' = threads \cup {[worker |-> w, job |-> j, attempt |-> NextAttempt(j)]}
             /\ \A k \in Jobs \ {j} : status'[k] = "ACTIVE" => status[k] = "ACTIVE"
    BY <1>4
  <2>2. long = 0 => \A t \in threads : t.job # j
    BY <2>1 DEF ThreadsAreOwned, Quiet
  <2>3. \A t \in threads' : t \in threads \/ t.job = j
    BY <2>1
  <2>4. ASSUME long = 0
        PROVE  \A t \in threads' : t.attempt = attempt'[t.job] /\ t.worker = owner'[t.job]
    BY <1>0, <2>1, <2>2, <2>4 DEF ThreadsAreOwned
  <2>5. ASSUME long = 0, NEW k \in Jobs,
               \/ status'[k] \in {"ABSENT", "QUEUED"}
               \/ status'[k] = "ACTIVE" /\ k \in lost' \cup old'
        PROVE  Quiet(k)'
    <3>1. k # j
      BY <2>1, <2>5
    <3>2. \/ status[k] \in {"ABSENT", "QUEUED"}
          \/ status[k] = "ACTIVE" /\ k \in lost \cup old
      BY <2>1, <2>5, <3>1, ClaimLemma
    <3>3. \A t \in threads : t.job # k
      BY <2>5, <3>2 DEF ThreadsAreOwned, Quiet
    <3> QED
      BY <2>3, <3>1, <3>3 DEF Quiet
  <2>6. ThreadsAreOwned'
    BY <1>0, <2>4, <2>5 DEF ThreadsAreOwned
  <2>7. ThreadsAreActive'
    <3> SUFFICES ASSUME long = 0, asked = {}, NEW t \in threads' PROVE status'[t.job] = "ACTIVE"
      BY <1>0 DEF ThreadsAreActive
    <3>1. CASE t.job = j
      BY <2>1, <3>1
    <3>2. CASE t \in threads
      <4>1. status[t.job] = "ACTIVE" /\ t.job \notin lost \cup old /\ t.job \in Jobs
        BY <1>0, <3>2 DEF ThreadsAreActive, ThreadsAreOwned, Quiet
      <4> QED
        BY <4>1, ClaimLemma
    <3> QED
      BY <2>3, <3>1, <3>2
  <2> QED
    BY <1>1, <1>2, <2>6, <2>7
<1> QED
  BY <1>3, <1>4, ClaimLemma

-----------------------------------------------------------------------------
(* The other steps.                                                        *)

\* A step after which there are no other threads, jobs and heartbeats than
\* before keeps what is said of them.
LEMMA FewerKeeps ==
  ASSUME IInv, TypeOK', threads' \subseteq threads, long' = long, asked \subseteq asked',
         UNCHANGED <<owner, attempt>>,
         \A j \in Jobs :
           /\ \/ status'[j] \in {"ABSENT", "QUEUED"}
              \/ status'[j] = "ACTIVE" /\ j \in lost' \cup old'
              => \/ status[j] \in {"ABSENT", "QUEUED"}
                 \/ status[j] = "ACTIVE" /\ j \in lost \cup old
                 \/ long = 0 => Quiet(j)'
  PROVE  ThreadsAreOwned' /\ RunsWithinLimitUndisturbed'
<1> USE DEF IInv
<1>1. ThreadsAreOwned'
  BY DEF ThreadsAreOwned, Quiet
<1>2. RunsWithinLimitUndisturbed'
  BY FewerLemma DEF RunsWithinLimitUndisturbed
<1> QED
  BY <1>1, <1>2

\* Without jobs and threads all of it holds.
LEMMA InvInit == Init => IInv
<1> SUFFICES ASSUME Init PROVE IInv
  OBVIOUS
<1>1. TypeOK
  BY TypeInit
<1>2. RunsWithinLimit
  <2>1. Cardinality(threads) = 0
    BY FS_EmptySet DEF Init
  <2>2. \A n \in Limits : n \in Nat
    BY ConstantsAssumption
  <2> QED
    BY <2>1, <2>2 DEF RunsWithinLimit
<1>3. PendingAlone /\ QueuedIsYoung /\ ThreadsAreOwned /\ ThreadsAreActive
  BY DEF Init, PendingAlone, Pending, QueuedIsYoung, ThreadsAreOwned, Quiet, ThreadsAreActive
<1> QED
  BY <1>1, <1>2, <1>3 DEF IInv, RunsWithinLimitUndisturbed

\* Appending an entry to the file.
LEMMA AppendKeeps ==
  ASSUME IInv, TypeOK', NEW isScheduled \in BOOLEAN, AddEntry(isScheduled),
         isScheduled => NoScheduledPending,
         UNCHANGED <<lost, old, active, threads, bounds, asked>>
  PROVE  IInv'
<1> DEFINE j == First(With({"ABSENT"}))
<1> USE DEF IInv
<1>1. j \in Jobs /\ status[j] = "ABSENT"
  BY FirstLemma DEF AddEntry, With
<1>2. /\ status' = [status EXCEPT ![j] = "QUEUED"]
      /\ scheduled' = (IF isScheduled THEN scheduled \cup {j} ELSE scheduled)
      /\ UNCHANGED <<owner, attempt>>
  BY DEF AddEntry
<1> HIDE DEF j
<1>3. status \in [Jobs -> Statuses]
  BY DEF TypeOK
<1>4. PendingAlone'
  <2>1. ~isScheduled => Pending' \subseteq Pending
    BY <1>1, <1>2, <1>3 DEF PendingAlone, Pending, With
  <2>2. isScheduled => Pending' \subseteq {j}
    BY <1>1, <1>2, <1>3 DEF NoScheduledPending, Pending, With
  <2>3. \A k \in Jobs : status'[k] = "ABSENT" => k \notin scheduled'
    BY <1>1, <1>2, <1>3 DEF PendingAlone
  <2> QED
    BY <2>1, <2>2, <2>3 DEF PendingAlone
<1>5. QueuedIsYoung'
  BY <1>1, <1>2, <1>3 DEF QueuedIsYoung
<1>6. long' = long /\ asked' = asked /\ threads' = threads
  BY DEF bounds
<1>7. ThreadsAreOwned' /\ RunsWithinLimitUndisturbed'
  BY <1>1, <1>2, <1>3, <1>6, FewerKeeps
<1>8. ThreadsAreActive'
  BY <1>1, <1>2, <1>3, <1>6 DEF ThreadsAreActive
<1> QED
  BY <1>4, <1>5, <1>7, <1>8

\* The invariant is inductive.
LEMMA InvNext == IInv /\ [Next]_vars => IInv'
<1> SUFFICES ASSUME IInv, [Next]_vars PROVE IInv'
  OBVIOUS
<1> USE DEF IInv
<1>0. /\ TypeOK'
      /\ status \in [Jobs -> Statuses] /\ \A t \in threads : t.job \in Jobs /\ t.worker \in Workers
      /\ \A t, u \in threads : long = 0 /\ t.job = u.job => t = u
      /\ old \subseteq Jobs /\ lost \subseteq Jobs /\ long \in Nat
  BY TypeNext, OneThreadLemma DEF TypeOK, Threads, JobRunsOnce
<1>1. CASE Enqueue
  BY <1>0, <1>1, AppendKeeps DEF Enqueue, procs
<1>2. ASSUME NEW w \in Workers, ScanCheck(w)
      PROVE  IInv'
  BY <1>0, <1>2 DEF ScanCheck, file, bounds, PendingAlone, Pending, With, QueuedIsYoung,
    ThreadsAreOwned, Quiet, ThreadsAreActive, RunsWithinLimitUndisturbed, RunsWithinLimit
<1>3. ASSUME NEW w \in Workers, ScanEnqueue(w)
      PROVE  IInv'
  <2>1. CASE NoScheduledPending /\ AddEntry(TRUE)
    BY <1>0, <1>3, <2>1, AppendKeeps DEF ScanEnqueue
  <2>2. CASE UNCHANGED file
    BY <1>0, <1>3, <2>2 DEF ScanEnqueue, file, bounds, PendingAlone, Pending, With,
      QueuedIsYoung, ThreadsAreOwned, Quiet, ThreadsAreActive, RunsWithinLimitUndisturbed,
      RunsWithinLimit
  <2> QED
    BY <1>3, <2>1, <2>2 DEF ScanEnqueue
<1>4. ASSUME NEW w \in Workers, Poll(w)
      PROVE  IInv'
  BY <1>0, <1>4, ClaimKeeps, ClaimWithinLimit DEF Poll
<1>5. ASSUME NEW t \in threads, Finish(t)
      PROVE  IInv'
  <2>1. /\ threads' = threads \ {t}
        /\ UNCHANGED <<scheduled, owner, attempt, lost, old, bounds, asked>>
    BY <1>5 DEF Finish, Leave
  <2>2. PICK told \in {"COMPLETED", "FAILED"} :
               status' = [status EXCEPT ![t.job] = Outcome(t.job, told)]
    BY <1>5 DEF Finish
  <2>3. \A k \in Jobs :
          /\ k # t.job => status'[k] = status[k]
          /\ status'[k] = "ACTIVE" => status[k] = "ACTIVE"
          /\ status'[k] \in {"ABSENT", "QUEUED"} => status'[k] = status[k]
          /\ status'[k] = "ABSENT" <=> status[k] = "ABSENT"
    BY <1>0, <2>2 DEF Outcome
  <2>4. PendingAlone'
    BY <2>1, <2>3 DEF PendingAlone, Pending, With
  <2>5. QueuedIsYoung'
    BY <2>1, <2>3 DEF QueuedIsYoung
  <2>6. ThreadsAreActive'
    <3> SUFFICES ASSUME long = 0, asked = {}, NEW u \in threads' PROVE status'[u.job] = "ACTIVE"
      BY <2>1 DEF ThreadsAreActive, bounds
    <3>1. u \in threads /\ u.job # t.job
      BY <1>0, <2>1
    <3> QED
      BY <1>0, <2>3, <3>1 DEF ThreadsAreActive
  <2>7. ThreadsAreOwned' /\ RunsWithinLimitUndisturbed'
    BY <1>0, <2>1, <2>3, FewerKeeps DEF bounds
  <2> QED
    BY <1>0, <2>4, <2>5, <2>6, <2>7
<1>6. ASSUME NEW t \in threads, LoseFinish(t)
      PROVE  IInv'
  <2>1. /\ threads' \subseteq threads
        /\ UNCHANGED <<status, scheduled, owner, attempt, lost, old, long, asked>>
    BY <1>6 DEF LoseFinish, Leave, file
  <2>2. PendingAlone' /\ QueuedIsYoung' /\ ThreadsAreActive'
    BY <2>1 DEF PendingAlone, Pending, With, QueuedIsYoung, ThreadsAreActive
  <2>3. ThreadsAreOwned' /\ RunsWithinLimitUndisturbed'
    BY <1>0, <2>1, FewerKeeps
  <2> QED
    BY <1>0, <2>2, <2>3
<1>7. ASSUME NEW j \in Jobs, Cancel(j)
      PROVE  IInv'
  <2>1. /\ status[j] \in {"QUEUED", "ACTIVE"} /\ asked' = asked \cup {j}
        /\ UNCHANGED <<scheduled, owner, attempt, lost, old, threads, long>>
        /\ \A k \in Jobs : k # j => status'[k] = status[k]
        /\ status'[j] \in {"CANCELLED", "CANCEL_REQUESTED"}
    BY <1>0, <1>7 DEF Cancel, procs, bounds
  <2>2. PendingAlone'
    BY <2>1 DEF PendingAlone, Pending, With
  <2>3. QueuedIsYoung' /\ ThreadsAreActive'
    BY <2>1 DEF QueuedIsYoung, ThreadsAreActive
  <2>4. ThreadsAreOwned' /\ RunsWithinLimitUndisturbed'
    BY <1>0, <2>1, FewerKeeps
  <2> QED
    BY <1>0, <2>2, <2>3, <2>4
<1>8. ASSUME NEW j \in Jobs, GrowOld(j)
      PROVE  IInv'
  <2>1. /\ status[j] = "ACTIVE" /\ old' = old \cup {j}
        /\ UNCHANGED <<status, scheduled, owner, attempt, lost, threads, asked>>
        /\ IF Executing(j) THEN long' = long + 1 ELSE long' = long
    BY <1>8 DEF GrowOld, file, procs
  <2>2. PendingAlone' /\ QueuedIsYoung'
    BY <2>1 DEF PendingAlone, Pending, With, QueuedIsYoung
  <2>3. CASE Executing(j)
    BY <1>0, <2>1, <2>2, <2>3
      DEF ThreadsAreOwned, ThreadsAreActive, RunsWithinLimitUndisturbed
  <2>4. CASE ~Executing(j)
    <3>1. long = 0 => Quiet(j)'
      BY <2>1, <2>4 DEF Executing, ThreadsAreOwned, Quiet
    <3>2. ThreadsAreOwned' /\ RunsWithinLimitUndisturbed'
      BY <1>0, <2>1, <2>4, <3>1, FewerKeeps
    <3>3. ThreadsAreActive'
      BY <2>1, <2>4 DEF ThreadsAreActive
    <3> QED
      BY <1>0, <2>2, <3>2, <3>3
  <2> QED
    BY <2>3, <2>4
<1>9. ASSUME NEW w \in Workers, Crash(w)
      PROVE  IInv'
  <2>1. /\ threads' = {t \in threads : t.worker # w}
        /\ lost' = lost \cup {j \in With({"ACTIVE", "CANCEL_REQUESTED"}) : owner[j] = w}
        /\ UNCHANGED <<status, scheduled, owner, attempt, old, long, asked>>
    BY <1>9 DEF Crash, file
  <2>2. PendingAlone' /\ QueuedIsYoung' /\ ThreadsAreActive'
    BY <2>1 DEF PendingAlone, Pending, With, QueuedIsYoung, ThreadsAreActive
  <2>3. \A j \in lost' : j \in lost \/ (long = 0 => Quiet(j)')
    BY <2>1 DEF ThreadsAreOwned, Quiet
  <2>4. ThreadsAreOwned' /\ RunsWithinLimitUndisturbed'
    BY <1>0, <2>1, <2>3, FewerKeeps
  <2> QED
    BY <1>0, <2>2, <2>4
<1>10. ASSUME NEW w \in Workers, Restart(w)
       PROVE  IInv'
  BY <1>0, <1>10 DEF Restart, file, bounds, PendingAlone, Pending, With, QueuedIsYoung,
    ThreadsAreOwned, Quiet, ThreadsAreActive, RunsWithinLimitUndisturbed, RunsWithinLimit
<1>11. CASE UNCHANGED vars
  BY <1>0, <1>11 DEF vars, file, procs, bounds, PendingAlone, Pending, With, QueuedIsYoung,
    ThreadsAreOwned, Quiet, ThreadsAreActive, RunsWithinLimitUndisturbed, RunsWithinLimit
<1> QED
  BY <1>1, <1>2, <1>3, <1>4, <1>5, <1>6, <1>7, <1>8, <1>9, <1>10, <1>11 DEF Next

-----------------------------------------------------------------------------
(* What the invariant says.                                                *)

\* What it says of threads bounds the executions.
LEMMA InvBounds == IInv => ExecutionsBounded
<1> SUFFICES ASSUME IInv PROVE ExecutionsBounded
  OBVIOUS
<1>1. ScheduledOnce
  <2>1. ASSUME Pending # {}
        PROVE  \E j : Pending = {j}
    <3>1. PICK j : j \in Pending
      BY <2>1
    <3>2. Pending = {j}
      BY <3>1 DEF IInv, PendingAlone
    <3> QED
      BY <3>2
  <2>2. Cardinality(Pending) \in {0, 1}
    BY <2>1, FS_EmptySet, FS_Singleton
  <2> QED
    BY <2>2 DEF ScheduledOnce, Pending
<1>2. JobRunsOnce
  BY OneThreadLemma DEF IInv
<1> QED
  BY <1>1, <1>2 DEF IInv, ExecutionsBounded

\* No step takes a decision back.
Decided ==
  \A j \in Jobs :
    /\ status[j] \in Terminal => status'[j] = status[j] /\ attempt'[j] = attempt[j]
    /\ status[j] = "CANCEL_REQUESTED" => status'[j] \in {"CANCEL_REQUESTED", "CANCELLED"}

\* No step changes an outcome, nor a request to stop but to CANCELLED.
LEMMA DecidedStep == TypeOK /\ [Next]_vars => [Decided]_vars
<1> SUFFICES ASSUME TypeOK, Next PROVE Decided
  BY DEF Decided
<1> USE DEF Decided, Terminal
<1>0. status \in [Jobs -> Statuses] /\ attempt \in [Jobs -> Nat]
  BY DEF TypeOK
<1>1. ASSUME NEW isScheduled \in BOOLEAN, AddEntry(isScheduled)
      PROVE  Decided
  <2>1. First(With({"ABSENT"})) \in With({"ABSENT"})
    BY <1>1, FirstLemma DEF AddEntry, With
  <2> QED
    BY <1>0, <1>1, <2>1 DEF AddEntry, With
<1>2. CASE Enqueue
  BY <1>1, <1>2 DEF Enqueue
<1>3. ASSUME NEW w \in Workers, ScanEnqueue(w)
      PROVE  Decided
  BY <1>1, <1>3 DEF ScanEnqueue, file
<1>4. ASSUME NEW w \in Workers, NEW limit \in Limits, Claim(w, limit)
      PROVE  Decided
  <2>1. CASE Candidates(w, limit) = {}
    BY <1>0, <1>4, <2>1, SweptLemma DEF Claim
  <2>2. CASE Candidates(w, limit) # {}
    <3> DEFINE j == First(Candidates(w, limit))
    <3>1. j \in Jobs /\ Swept(w)[j] = "QUEUED"
      BY <2>2, FirstLemma DEF Candidates
    <3>2. /\ status' = [Swept(w) EXCEPT ![j] = "ACTIVE"]
          /\ attempt' = [attempt EXCEPT ![j] = NextAttempt(j)]
      BY <1>4, <2>2 DEF Claim
    <3> HIDE DEF j
    <3> QED
      BY <1>0, <3>1, <3>2, SweptLemma
  <2> QED
    BY <2>1, <2>2
<1>5. ASSUME NEW t \in threads, Finish(t)
      PROVE  Decided
  BY <1>0, <1>5 DEF Finish, Outcome
<1>6. ASSUME NEW j \in Jobs, Cancel(j)
      PROVE  Decided
  BY <1>0, <1>6 DEF Cancel
<1>7. CASE UNCHANGED <<status, attempt>>
  BY <1>7
<1> QED
  BY <1>2, <1>3, <1>4, <1>5, <1>6, <1>7
    DEF Next, Poll, ScanCheck, Restart, Crash, LoseFinish, GrowOld, file

-----------------------------------------------------------------------------

\* At most one scheduled job is pending, no job is executed twice at the same
\* time and the limit holds for all processes together, as long as no execution
\* outlasts stale_after; what is decided stays decided.
THEOREM JobsAreSafe == Spec => JobsSafe
<1>1. Spec => []IInv
  BY InvInit, InvNext, PTL DEF Spec
<1>2. IInv => TypeOK /\ ExecutionsBounded
  BY InvBounds DEF IInv
<1>3. Spec => [][Decided]_vars
  BY <1>1, <1>2, DecidedStep, PTL DEF Spec
<1>4. Spec => DecidedIsFinal
  BY <1>3 DEF Decided, DecidedIsFinal
<1> QED
  BY <1>1, <1>2, <1>4, PTL DEF JobsSafe

-----------------------------------------------------------------------------
(* The records of MCRecords.                                               *)

\* Modules count alike.
LEMMA SameCardinality == \A S : E!Cardinality(S) = Cardinality(S)
BY DEF E!Cardinality, Cardinality

-----------------------------------------------------------------------------
(* Edited copies of videos.                                                *)

\* The records of the jobs.
Fields == {"video", "spec", "version", "status", "at", "from", "met", "touched"}
JobRecord(x) == x = [f \in Fields |-> x[f]]

Table(f) == f = [j \in E!Jobs |-> f[j]]

Begun == {j \in E!Jobs : jobs[j].video # Nobody}

\* The records are whole; a job that has not been made is at rest, and jobs are
\* numbered without a gap.
JobsFit ==
  /\ Table(jobs)
  /\ \A j \in E!Jobs :
       /\ JobRecord(jobs[j])
       /\ jobs[j].video \in Sources \cup {Nobody}
       /\ jobs[j].status \in {"none", "PROCESSING", "COMPLETED", "FAILED"}
       /\ jobs[j].at \in {"none", "queued", "render", "provenance"}
       /\ jobs[j].status = "PROCESSING" <=> jobs[j].at # "none"
       /\ jobs[j].video = Nobody => jobs[j].status = "none"
  /\ \A j \in Begun : \A i \in E!Jobs : i < j => i \in Begun

EditTypes ==
  /\ changes \in 0 .. MaxChanges
  /\ version \in [Sources -> 1 .. changes + 1]
  /\ \A j \in E!Jobs :
       /\ jobs[j].spec \in Specs \cup {Nobody}
       /\ jobs[j].version \in E!Versions /\ jobs[j].from \in E!Versions
  /\ keys \subseteq E!Jobs
  /\ latest \in [Sources -> E!Jobs \cup {Nobody}]
  /\ edited \in E!Rendered \cup {Nobody}
  /\ provenance \in E!Proofs \cup {Nobody}

FlagsFit == \A j \in E!Jobs : jobs[j].met \in BOOLEAN /\ jobs[j].touched \in BOOLEAN

\* What is alive has its key; what is in progress is its source's job.
KeysFit ==
  \A j \in E!Jobs :
    /\ jobs[j].status \in {"PROCESSING", "COMPLETED"} => j \in keys
    /\ jobs[j].status = "PROCESSING" => latest[jobs[j].video] = j

\* A job that met nobody and that no user disturbed.
Calm(j) == ~jobs[j].met /\ ~jobs[j].touched

AloneAtWork ==
  \A j \in E!Jobs :
    /\ E!AtWork(j) /\ ~jobs[j].met => \A k \in E!Jobs \ {j} : ~E!AtWork(k)
    /\ E!AtWork(j) /\ ~jobs[j].touched => jobs[j].from = version[jobs[j].video]
    /\ jobs[j].at = "provenance" /\ Calm(j) => edited = [job |-> j, from |-> jobs[j].from]
    /\ jobs[j].status = "COMPLETED" /\ Calm(j) => \A k \in E!Jobs : ~E!AtWork(k)

EditedFits ==
  edited # Nobody =>
    /\ edited.job \in E!Jobs
    /\ jobs[edited.job].at \notin {"queued", "render"}
    /\ jobs[edited.job].status # "FAILED"

EInv ==
  /\ JobsFit /\ EditTypes /\ FlagsFit /\ KeysFit /\ AloneAtWork /\ EditedFits
  /\ E!CompletedIsThere /\ E!Proven

\* The next number is that of no job, and all before it are given.
LEMMA NextNumber ==
  ASSUME JobsFit, E!NextJob \in E!Jobs
  PROVE  E!NextJob \notin Begun /\ \A i \in E!Jobs : i < E!NextJob => i \in Begun
<1> DEFINE c == Cardinality(Begun)
<1>1. E!NextJob = c + 1
  <2>1. E!NextJob = E!Cardinality(Begun) + 1
    BY Zenon DEF E!NextJob, Begun
  <2>2. E!Cardinality(Begun) = Cardinality(Begun)
    BY SameCardinality
  <2> QED
    BY <2>1, <2>2
<1>2. MaxEdits \in Nat /\ E!Jobs = 1 .. MaxEdits
  BY RecordsAssumption DEF E!Jobs
<1>3. Begun \subseteq 1 .. MaxEdits
  BY <1>2 DEF Begun
<1>4. IsFiniteSet(Begun) /\ c \in Nat
  <2>1. IsFiniteSet(1 .. MaxEdits)
    BY <1>2, FS_Interval
  <2>2. IsFiniteSet(Begun)
    BY <1>3, <2>1, FS_Subset
  <2> QED
    BY <2>2, FS_CardinalityType
<1> HIDE DEF c
<1>5. c + 1 \notin Begun
  <2> SUFFICES ASSUME c + 1 \in Begun
               PROVE  FALSE
    OBVIOUS
  <2>1. 1 .. c + 1 \subseteq Begun
    BY <1>2, <1>3, <1>4 DEF JobsFit, Table, Begun
  <2>2. Cardinality(1 .. c + 1) = c + 1
    BY <1>4, FS_Interval
  <2>3. Cardinality(1 .. c + 1) <= c
    BY <1>4, <2>1, FS_Subset DEF c
  <2> QED
    BY <1>4, <2>2, <2>3
<1>6. ASSUME NEW i \in E!Jobs, i < c + 1
      PROVE  i \in Begun
  <2> SUFFICES ASSUME i \notin Begun
               PROVE  FALSE
    OBVIOUS
  <2>1. Begun \subseteq 1 .. i - 1
    BY <1>2, <1>3 DEF JobsFit, Table
  <2>2. IsFiniteSet(1 .. i - 1) /\ Cardinality(1 .. i - 1) = i - 1
    BY <1>2, FS_Interval
  <2>3. c <= i - 1
    BY <2>1, <2>2, FS_Subset DEF c
  <2> QED
    BY <1>2, <1>4, <1>6, <2>3
<1> QED
  BY <1>1, <1>5, <1>6

\* Only some fields of a job's record change.
Keeps(j, fields) ==
  /\ Table(jobs')
  /\ JobRecord(jobs'[j])
  /\ \A f \in Fields \ fields : jobs'[j][f] = jobs[j][f]
  /\ \A k \in E!Jobs \ {j} : jobs'[k] = jobs[k]

\* A request makes the next job.
LEMMA EditMakes ==
  ASSUME NEW v, NEW spec, JobsFit, E!Edit(v, spec)
  PROVE  /\ E!NextJob \in E!Jobs
         /\ Keeps(E!NextJob, Fields)
         /\ jobs'[E!NextJob].video = v /\ jobs'[E!NextJob].spec = spec
         /\ jobs'[E!NextJob].version = version[v] /\ jobs'[E!NextJob].status = "PROCESSING"
         /\ jobs'[E!NextJob].at = "queued" /\ jobs'[E!NextJob].from = 1
         /\ jobs'[E!NextJob].met = FALSE /\ jobs'[E!NextJob].touched = FALSE
<1>1. PICK n : n = E!NextJob
  OBVIOUS
<1>2. PICK x : x = [E!NoJob EXCEPT !.video = v, !.spec = spec, !.version = version[v],
                                   !.status = "PROCESSING", !.at = "queued"]
  OBVIOUS
<1>3. n \in E!Jobs /\ jobs' = [jobs EXCEPT ![n] = x]
  BY <1>1, <1>2 DEF E!Edit
<1>4. /\ JobRecord(x) /\ x.video = v /\ x.spec = spec /\ x.version = version[v]
      /\ x.status = "PROCESSING" /\ x.at = "queued" /\ x.from = 1
      /\ x.met = FALSE /\ x.touched = FALSE
  BY <1>2 DEF E!NoJob, JobRecord, Fields
<1>5. jobs'[n] = x /\ Table(jobs') /\ \A k \in E!Jobs \ {n} : jobs'[k] = jobs[k]
  BY <1>3 DEF JobsFit, Table
<1> QED
  BY <1>1, <1>3, <1>4, <1>5 DEF Keeps

\* A job ends.
LEMMA EndedMakes ==
  ASSUME NEW j \in E!Jobs, NEW e, JobsFit, E!Ended(j, e)
  PROVE  /\ Keeps(j, {"status", "at"})
         /\ jobs'[j].status = e /\ jobs'[j].at = "none"
<1>1. JobRecord(jobs[j]) /\ Table(jobs)
  BY DEF JobsFit
<1>2. PICK x : x = [jobs[j] EXCEPT !.status = e, !.at = "none"]
  OBVIOUS
<1>3. jobs' = [jobs EXCEPT ![j] = x]
  BY <1>1, <1>2 DEF E!Ended, Table
<1>4. /\ JobRecord(x) /\ x.status = e /\ x.at = "none"
      /\ \A f \in Fields \ {"status", "at"} : x[f] = jobs[j][f]
  BY <1>1, <1>2 DEF JobRecord, Fields
<1> QED
  BY <1>1, <1>3, <1>4 DEF Keeps, Table

\* A job gets on.
LEMMA MoveMakes ==
  ASSUME NEW j \in E!Jobs, JobsFit, E!Move(j)
  PROVE  Keeps(j, {"at"}) /\ jobs'[j].at = "provenance"
BY DEF E!Move, JobsFit, Table, Keeps, JobRecord, Fields

\* A job is taken, and meets those at work.
Taken(j) ==
  /\ Table(jobs')
  /\ \A k \in E!Jobs :
       /\ JobRecord(jobs'[k]) /\ jobs'[k].met \in BOOLEAN
       /\ jobs'[k].video = jobs[k].video /\ jobs'[k].spec = jobs[k].spec
       /\ jobs'[k].version = jobs[k].version /\ jobs'[k].status = jobs[k].status
       /\ jobs'[k].touched = jobs[k].touched
  /\ \A k \in E!Jobs \ {j} :
       /\ jobs'[k].at = jobs[k].at /\ jobs'[k].from = jobs[k].from
       /\ ~jobs'[k].met => ~jobs[k].met /\ ~E!AtWork(k)
  /\ jobs'[j].at = "render" /\ jobs'[j].from = version[jobs[j].video]
  /\ ~jobs'[j].met => \A k \in E!Jobs : ~E!AtWork(k)

\* A worker that takes a job renders the copy the source has now.
LEMMA TakeMakes ==
  ASSUME NEW j \in E!Jobs, JobsFit, FlagsFit, E!Take(j)
  PROVE  Taken(j)
<1>1. jobs' = [k \in E!Jobs |->
       IF k = j THEN [jobs[j] EXCEPT !.at = "render", !.from = version[jobs[j].video],
                                     !.met = \E i \in E!Jobs : E!AtWork(i)]
       ELSE IF E!AtWork(k) THEN [jobs[k] EXCEPT !.met = TRUE] ELSE jobs[k]]
  BY DEF E!Take
<1>2. \A k \in E!Jobs : JobRecord(jobs[k])
  BY DEF JobsFit, Table
<1>3. PICK b : b = \E i \in E!Jobs : E!AtWork(i)
  OBVIOUS
<1>4. PICK x : x = [jobs[j] EXCEPT !.at = "render", !.from = version[jobs[j].video], !.met = b]
  OBVIOUS
<1>5. /\ JobRecord(x) /\ x.at = "render" /\ x.from = version[jobs[j].video] /\ x.met = b
      /\ x.video = jobs[j].video /\ x.spec = jobs[j].spec /\ x.version = jobs[j].version
      /\ x.status = jobs[j].status /\ x.touched = jobs[j].touched
  BY <1>2, <1>4 DEF JobRecord, Fields
<1>6. jobs'[j] = x
  BY <1>1, <1>3, <1>4
<1>7. b \in BOOLEAN /\ (~b => \A k \in E!Jobs : ~E!AtWork(k))
  BY <1>3
<1>8. ASSUME NEW k \in E!Jobs, k # j
      PROVE  /\ JobRecord(jobs'[k]) /\ jobs'[k].met \in BOOLEAN
             /\ jobs'[k].video = jobs[k].video /\ jobs'[k].spec = jobs[k].spec
             /\ jobs'[k].version = jobs[k].version /\ jobs'[k].status = jobs[k].status
             /\ jobs'[k].touched = jobs[k].touched
             /\ jobs'[k].at = jobs[k].at /\ jobs'[k].from = jobs[k].from
             /\ ~jobs'[k].met => ~jobs[k].met /\ ~E!AtWork(k)
  <2>1. CASE E!AtWork(k)
    <3>1. jobs'[k] = [jobs[k] EXCEPT !.met = TRUE]
      BY <1>1, <1>8, <2>1
    <3> QED
      BY <1>2, <3>1 DEF JobRecord, Fields
  <2>2. CASE ~E!AtWork(k)
    <3>1. jobs'[k] = jobs[k]
      BY <1>1, <1>8, <2>2
    <3> QED
      BY <1>2, <2>2, <3>1 DEF FlagsFit
  <2> QED
    BY <2>1, <2>2
<1>9. Table(jobs')
  BY <1>1 DEF Table
<1> QED
  BY <1>5, <1>6, <1>7, <1>8, <1>9 DEF Taken

\* What a user disturbs.
Disturbed(js) ==
  /\ Table(jobs')
  /\ \A k \in E!Jobs :
       /\ JobRecord(jobs'[k]) /\ jobs'[k].touched \in BOOLEAN
       /\ jobs'[k].video = jobs[k].video /\ jobs'[k].spec = jobs[k].spec
       /\ jobs'[k].version = jobs[k].version /\ jobs'[k].status = jobs[k].status
       /\ jobs'[k].at = jobs[k].at /\ jobs'[k].from = jobs[k].from /\ jobs'[k].met = jobs[k].met
       /\ ~jobs'[k].touched => ~jobs[k].touched /\ k \notin js

\* A change of a source, or of what is asked of it, disturbs jobs and moves none.
LEMMA ChangeMakes ==
  ASSUME NEW js, JobsFit, FlagsFit, E!Change(js)
  PROVE  Disturbed(js)
<1>1. jobs' = [j \in E!Jobs |-> IF j \in js THEN [jobs[j] EXCEPT !.touched = TRUE] ELSE jobs[j]]
  BY DEF E!Change, E!Touched
<1>2. ASSUME NEW k \in E!Jobs
      PROVE  /\ JobRecord(jobs'[k]) /\ jobs'[k].touched \in BOOLEAN
             /\ jobs'[k].video = jobs[k].video /\ jobs'[k].spec = jobs[k].spec
             /\ jobs'[k].version = jobs[k].version /\ jobs'[k].status = jobs[k].status
             /\ jobs'[k].at = jobs[k].at /\ jobs'[k].from = jobs[k].from
             /\ jobs'[k].met = jobs[k].met
             /\ ~jobs'[k].touched => ~jobs[k].touched /\ k \notin js
  <2>1. JobRecord(jobs[k]) /\ jobs[k].touched \in BOOLEAN
    BY DEF JobsFit, FlagsFit
  <2>2. CASE k \in js
    <3>1. jobs'[k] = [jobs[k] EXCEPT !.touched = TRUE]
      BY <1>1, <2>2
    <3> QED
      BY <2>1, <3>1 DEF JobRecord, Fields
  <2>3. CASE k \notin js
    <3>1. jobs'[k] = jobs[k]
      BY <1>1, <2>3
    <3> QED
      BY <2>1, <2>3, <3>1
  <2> QED
    BY <2>2, <2>3
<1>3. Table(jobs')
  BY <1>1 DEF Table
<1> QED
  BY <1>2, <1>3 DEF Disturbed

\* The records are lost.
LEMMA RestartMakes ==
  ASSUME JobsFit, E!Restart
  PROVE  /\ Table(jobs')
         /\ \A k \in E!Jobs :
              /\ JobRecord(jobs'[k])
              /\ \A f \in Fields \ {"status", "at"} : jobs'[k][f] = jobs[k][f]
              /\ jobs'[k].status = "none" /\ jobs'[k].at = "none"
<1>1. jobs' = [j \in E!Jobs |-> [jobs[j] EXCEPT !.status = "none", !.at = "none"]]
  BY DEF E!Restart
<1>2. \A k \in E!Jobs : JobRecord(jobs[k])
  BY DEF JobsFit, Table
<1> QED
  BY <1>1, <1>2 DEF JobRecord, Fields, Table

\* The constants of edited copies.
LEMMA EditConstants ==
  /\ MaxEdits \in Nat /\ MaxChanges \in Nat
  /\ E!Jobs = 1 .. MaxEdits /\ E!Versions = 1 .. (MaxChanges + 1)
  /\ Nobody \notin Sources /\ Nobody \notin Specs /\ Nobody \notin E!Jobs
  /\ Nobody \notin E!Rendered /\ Nobody \notin E!Proofs
BY RecordsAssumption DEF E!EditsAssumption, E!Jobs, E!Versions

\* Initially.
LEMMA EInvInit == E!Init => EInv
<1> SUFFICES ASSUME E!Init
             PROVE  EInv
  OBVIOUS
<1>1. /\ jobs = [j \in E!Jobs |-> E!NoJob] /\ version = [v \in Sources |-> 1]
      /\ latest = [v \in Sources |-> Nobody] /\ keys = {} /\ edited = Nobody
      /\ provenance = Nobody /\ changes = 0
  BY DEF E!Init
<1>2. /\ JobRecord(E!NoJob) /\ E!NoJob.video = Nobody /\ E!NoJob.spec = Nobody
      /\ E!NoJob.version = 1 /\ E!NoJob.status = "none" /\ E!NoJob.at = "none"
      /\ E!NoJob.from = 1 /\ E!NoJob.met = FALSE /\ E!NoJob.touched = FALSE
  BY DEF E!NoJob, JobRecord, Fields
<1>3. JobsFit
  BY <1>1, <1>2 DEF JobsFit, Table, Begun
<1>4. EditTypes
  BY <1>1, <1>2, EditConstants DEF EditTypes
<1>7. FlagsFit
  BY <1>1, <1>2 DEF FlagsFit
<1>5. KeysFit /\ AloneAtWork /\ EditedFits
  BY <1>1, <1>2, <1>3 DEF KeysFit, AloneAtWork, EditedFits, JobsFit, E!AtWork, Calm
<1>6. E!CompletedIsThere /\ E!Proven
  BY <1>1, <1>2 DEF E!CompletedIsThere, E!Proven
<1> QED
  BY <1>3, <1>4, <1>5, <1>6, <1>7 DEF EInv

\* A request makes a job.
LEMMA EditKeeps ==
  ASSUME NEW v \in Sources, NEW spec \in Specs, EInv, E!Edit(v, spec)
  PROVE  EInv'
<1> DEFINE n == E!NextJob
<1>0. JobsFit /\ EditTypes /\ FlagsFit /\ KeysFit /\ AloneAtWork
  BY DEF EInv
<1>1. /\ n \in E!Jobs /\ Keeps(n, Fields)
      /\ jobs'[n].video = v /\ jobs'[n].spec = spec
      /\ jobs'[n].version = version[v] /\ jobs'[n].status = "PROCESSING"
      /\ jobs'[n].at = "queued" /\ jobs'[n].from = 1
      /\ jobs'[n].met = FALSE /\ jobs'[n].touched = FALSE
  BY <1>0, EditMakes
<1>2. n \notin Begun /\ \A i \in E!Jobs : i < n => i \in Begun
  BY <1>0, <1>1, NextNumber
<1>3. /\ E!Shared(v, spec) = {} /\ ~E!Busy(v) /\ edited = Nobody /\ latest' = [latest EXCEPT ![v] = n]
      /\ keys' = {j \in keys : jobs[j].video # v \/ jobs[j].spec # spec
                             \/ jobs[j].version # version[v]} \cup {n}
      /\ version' = version /\ edited' = edited /\ provenance' = provenance /\ changes' = changes
  BY DEF E!Edit
<1> HIDE DEF n
<1>4. JobsFit'
  BY <1>0, <1>1, <1>2, EditConstants DEF JobsFit, Keeps, Begun
<1>5. EditTypes'
  <2>1. version[v] \in E!Versions
    BY <1>0, EditConstants DEF EditTypes
  <2>2. latest' \in [Sources -> E!Jobs \cup {Nobody}] /\ keys' \subseteq E!Jobs
    BY <1>0, <1>1, <1>3 DEF EditTypes
  <2>3. \A j \in E!Jobs :
          /\ jobs'[j].spec \in Specs \cup {Nobody}
          /\ jobs'[j].version \in E!Versions /\ jobs'[j].from \in E!Versions
    BY <1>0, <1>1, <2>1, EditConstants DEF EditTypes, Keeps
  <2> QED
    BY <1>0, <1>3, <2>2, <2>3 DEF EditTypes
<1>6. KeysFit'
  <2>1. ASSUME NEW j \in E!Jobs, jobs'[j].status \in {"PROCESSING", "COMPLETED"}
        PROVE  j \in keys'
    BY <1>0, <1>1, <1>3, <2>1 DEF KeysFit, E!Shared, Keeps
  <2>2. ASSUME NEW j \in E!Jobs, jobs'[j].status = "PROCESSING"
        PROVE  latest'[jobs'[j].video] = j
    <3>1. CASE j = n
      BY <1>0, <1>1, <1>3, <3>1 DEF EditTypes
    <3>2. CASE j # n
      <4>1. jobs'[j] = jobs[j] /\ latest[jobs[j].video] = j /\ jobs[j].status = "PROCESSING"
        BY <1>0, <1>1, <2>2, <3>2 DEF KeysFit, Keeps
      <4>2. jobs[j].video \in Sources
        BY <1>0, <4>1 DEF JobsFit
      <4>3. jobs[j].video # v
        BY <1>3, <4>1, EditConstants DEF E!Busy
      <4> QED
        BY <1>0, <1>3, <4>1, <4>2, <4>3 DEF EditTypes
    <3> QED
      BY <3>1, <3>2
  <2> QED
    BY <2>1, <2>2 DEF KeysFit
<1>7. AloneAtWork'
  BY <1>0, <1>1, <1>3 DEF AloneAtWork, E!AtWork, Calm, Keeps
<1>8. EditedFits' /\ E!Proven' 
  BY <1>3 DEF EditedFits, E!Proven
<1>9. E!CompletedIsThere'
  BY <1>1, <1>3 DEF EInv, E!CompletedIsThere, Keeps
<1>10. FlagsFit'
  BY <1>0, <1>1 DEF FlagsFit, Keeps
<1> QED
  BY <1>4, <1>5, <1>6, <1>7, <1>8, <1>9, <1>10 DEF EInv

\* A job is taken.
LEMMA TakeKeeps ==
  ASSUME NEW j \in E!Jobs, EInv, E!Take(j)
  PROVE  EInv'
<1>0. JobsFit /\ EditTypes /\ FlagsFit /\ KeysFit /\ AloneAtWork /\ E!CompletedIsThere
  BY DEF EInv
<1>1. Taken(j)
  BY <1>0, TakeMakes
<1>2. jobs[j].at = "queued" /\ jobs[j].status = "PROCESSING" /\ jobs[j].video \in Sources
  BY <1>0 DEF E!Take, JobsFit
<1>3. /\ version' = version /\ edited' = edited /\ provenance' = provenance /\ changes' = changes
      /\ keys' = keys /\ latest' = latest /\ edited = Nobody
  BY DEF E!Take
<1>4. JobsFit'
  <2>1. Begun' = Begun
    BY <1>1 DEF Begun, Taken
  <2> QED
    BY <1>0, <1>1, <1>2, <2>1 DEF JobsFit, Taken
<1>5. EditTypes'
  <2>1. version[jobs[j].video] \in E!Versions
    BY <1>0, <1>2, EditConstants DEF EditTypes
  <2>2. \A k \in E!Jobs : jobs'[k].from \in E!Versions
    BY <1>0, <1>1, <2>1 DEF EditTypes, Taken
  <2> QED
    BY <1>0, <1>1, <1>3, <2>2 DEF EditTypes, Taken
<1>6. KeysFit'
  BY <1>0, <1>1, <1>3 DEF KeysFit, Taken
<1>7. AloneAtWork'
  <2>1. \A k \in E!Jobs : jobs[k].met \in BOOLEAN
    BY <1>0 DEF FlagsFit
  <2>2. \A k \in E!Jobs : ~(jobs[k].status = "COMPLETED" /\ Calm(k))
    BY <1>0, <1>3, EditConstants DEF E!CompletedIsThere, Calm
  <2> QED
    BY <1>0, <1>1, <1>2, <1>3, <2>1, <2>2 DEF AloneAtWork, E!AtWork, Calm, Taken
<1>8. EditedFits' /\ E!Proven'
  BY <1>3 DEF EditedFits, E!Proven
<1>9. E!CompletedIsThere'
  <2>1. \A k \in E!Jobs : k # j /\ ~jobs'[k].met => ~jobs[k].met
    BY <1>1 DEF Taken
  <2> QED
    BY <1>0, <1>1, <1>2, <1>3, <2>1 DEF E!CompletedIsThere, Taken
<1>10. FlagsFit'
  BY <1>0, <1>1 DEF FlagsFit, Taken
<1> QED
  BY <1>4, <1>5, <1>6, <1>7, <1>8, <1>9, <1>10 DEF EInv

\* Only the place and the outcome of a job change.
LEMMA OnlyOne ==
  ASSUME NEW j \in E!Jobs, NEW fields \in SUBSET {"status", "at"}, JobsFit, EditTypes, FlagsFit,
         Keeps(j, fields), jobs[j].video # Nobody,
         jobs'[j].status \in {"none", "PROCESSING", "COMPLETED", "FAILED"},
         jobs'[j].at \in {"none", "queued", "render", "provenance"},
         jobs'[j].status = "PROCESSING" <=> jobs'[j].at # "none",
         version' = version, changes' = changes \/ changes' \in 0 .. MaxChanges,
         changes <= changes', keys' = keys,
         latest' \in [Sources -> E!Jobs \cup {Nobody}],
         edited' \in E!Rendered \cup {Nobody}, provenance' \in E!Proofs \cup {Nobody}
  PROVE  JobsFit' /\ EditTypes' /\ FlagsFit'
<1>1. /\ \A k \in E!Jobs :
           /\ jobs'[k].video = jobs[k].video /\ jobs'[k].spec = jobs[k].spec
           /\ jobs'[k].version = jobs[k].version /\ jobs'[k].from = jobs[k].from
           /\ jobs'[k].met = jobs[k].met /\ jobs'[k].touched = jobs[k].touched
           /\ JobRecord(jobs'[k])
      /\ Table(jobs') /\ \A k \in E!Jobs \ {j} : jobs'[k] = jobs[k]
  BY DEF Keeps, Fields, JobsFit
<1>2. Begun' = Begun
  BY <1>1 DEF Begun
<1>3. JobsFit'
  BY <1>1, <1>2 DEF JobsFit
<1>4. changes' \in 0 .. MaxChanges /\ version' \in [Sources -> 1 .. changes' + 1]
  BY EditConstants DEF EditTypes
<1>5. EditTypes'
  BY <1>1, <1>4 DEF EditTypes
<1>6. FlagsFit'
  BY <1>1 DEF FlagsFit
<1> QED
  BY <1>3, <1>5, <1>6

\* The fields of a job of which only the place and the outcome change.
LEMMA KeepsFields ==
  ASSUME NEW j \in E!Jobs, NEW fields \in SUBSET {"status", "at"}, Keeps(j, fields)
  PROVE  /\ \A k \in E!Jobs :
              /\ jobs'[k].video = jobs[k].video /\ jobs'[k].spec = jobs[k].spec
              /\ jobs'[k].version = jobs[k].version /\ jobs'[k].from = jobs[k].from
              /\ jobs'[k].met = jobs[k].met /\ jobs'[k].touched = jobs[k].touched
         /\ \A k \in E!Jobs \ {j} : jobs'[k].status = jobs[k].status /\ jobs'[k].at = jobs[k].at
BY DEF Keeps, Fields

\* The source of a failed job gives it up.
LEMMA LatestKept ==
  ASSUME NEW j \in E!Jobs, NEW e, EditTypes, JobsFit, E!Ended(j, e),
         jobs[j].status = "PROCESSING"
  PROVE  /\ latest' \in [Sources -> E!Jobs \cup {Nobody}]
         /\ \A k \in E!Jobs \ {j} : \A v \in Sources : latest[v] = k => latest'[v] = k
BY DEF EditTypes, JobsFit, E!Ended

\* The edited copy of another made a job fail.
LEMMA TakeFailsKeeps ==
  ASSUME NEW j \in E!Jobs, EInv, E!TakeFails(j)
  PROVE  EInv'
<1>0. JobsFit /\ EditTypes /\ FlagsFit /\ KeysFit /\ AloneAtWork /\ E!CompletedIsThere
  BY DEF EInv
<1>1. /\ version' = version /\ edited' = edited /\ provenance' = provenance /\ changes' = changes
      /\ keys' = keys /\ jobs[j].at = "queued"
  BY DEF E!TakeFails
<1>2. Keeps(j, {"status", "at"}) /\ jobs'[j].status = "FAILED" /\ jobs'[j].at = "none"
  BY <1>0, EndedMakes DEF E!TakeFails
<1>3. jobs[j].status = "PROCESSING" /\ jobs[j].video # Nobody
  BY <1>0, <1>1 DEF JobsFit
<1>4. /\ latest' \in [Sources -> E!Jobs \cup {Nobody}]
      /\ \A k \in E!Jobs \ {j} : \A v \in Sources : latest[v] = k => latest'[v] = k
  BY <1>0, <1>3, LatestKept DEF E!TakeFails
<1>5. JobsFit' /\ EditTypes' /\ FlagsFit'
  BY <1>0, <1>1, <1>2, <1>3, <1>4, OnlyOne DEF EditTypes
<1>6. /\ \A k \in E!Jobs :
              /\ jobs'[k].video = jobs[k].video /\ jobs'[k].spec = jobs[k].spec
              /\ jobs'[k].version = jobs[k].version /\ jobs'[k].from = jobs[k].from
              /\ jobs'[k].met = jobs[k].met /\ jobs'[k].touched = jobs[k].touched
      /\ \A k \in E!Jobs \ {j} : jobs'[k].status = jobs[k].status /\ jobs'[k].at = jobs[k].at
  BY <1>2, KeepsFields
<1>7. KeysFit'
  BY <1>0, <1>1, <1>2, <1>4, <1>6, EditConstants DEF KeysFit, JobsFit
<1>8. AloneAtWork'
  BY <1>0, <1>1, <1>2, <1>3, <1>6 DEF AloneAtWork, E!AtWork, Calm
<1>9. EditedFits'
  BY <1>0, <1>1, <1>2, <1>3, <1>6 DEF EInv, EditedFits
<1>10. E!CompletedIsThere'
  BY <1>0, <1>1, <1>2, <1>3, <1>6 DEF E!CompletedIsThere
<1>11. E!Proven'
  BY <1>0, <1>1, <1>2, <1>3, <1>6 DEF EInv, EditedFits, E!Proven, E!Known, E!AtWork
<1> QED
  BY <1>5, <1>7, <1>8, <1>9, <1>10, <1>11 DEF EInv

\* A result is moved to its name.
LEMMA MoveKeeps ==
  ASSUME NEW j \in E!Jobs, EInv, E!Move(j)
  PROVE  EInv'
<1>0. JobsFit /\ EditTypes /\ FlagsFit /\ KeysFit /\ AloneAtWork /\ E!CompletedIsThere
  BY DEF EInv
<1>1. /\ version' = version /\ provenance' = provenance /\ changes' = changes
      /\ keys' = keys /\ latest' = latest /\ jobs[j].at = "render"
      /\ edited' = [job |-> j, from |-> jobs[j].from]
  BY DEF E!Move
<1>2. Keeps(j, {"at"}) /\ jobs'[j].at = "provenance"
  BY <1>0, MoveMakes
<1>3. jobs[j].status = "PROCESSING" /\ jobs[j].video # Nobody /\ jobs'[j].status = "PROCESSING"
  BY <1>0, <1>1, <1>2 DEF JobsFit, Keeps, Fields
<1>4. edited' \in E!Rendered
  BY <1>0, <1>1 DEF EditTypes, E!Rendered
<1>5. JobsFit' /\ EditTypes' /\ FlagsFit'
  BY <1>0, <1>1, <1>2, <1>3, <1>4, OnlyOne DEF EditTypes
<1>6. /\ \A k \in E!Jobs :
              /\ jobs'[k].video = jobs[k].video /\ jobs'[k].spec = jobs[k].spec
              /\ jobs'[k].version = jobs[k].version /\ jobs'[k].from = jobs[k].from
              /\ jobs'[k].met = jobs[k].met /\ jobs'[k].touched = jobs[k].touched
      /\ \A k \in E!Jobs \ {j} : jobs'[k].status = jobs[k].status /\ jobs'[k].at = jobs[k].at
  BY <1>2, KeepsFields
<1>7. KeysFit'
  BY <1>0, <1>1, <1>3, <1>6 DEF KeysFit
<1>8. AloneAtWork'
  BY <1>0, <1>1, <1>2, <1>3, <1>6 DEF AloneAtWork, E!AtWork, Calm
<1>9. EditedFits'
  BY <1>1, <1>2, <1>3, <1>4 DEF EditedFits
<1>10. E!CompletedIsThere'
  BY <1>0, <1>1, <1>2, <1>3, <1>6 DEF E!CompletedIsThere, AloneAtWork, Calm, E!AtWork
<1>11. E!Proven'
  BY <1>1, <1>2, <1>3 DEF E!Proven, E!Known, E!AtWork
<1> QED
  BY <1>5, <1>7, <1>8, <1>9, <1>10, <1>11 DEF EInv

\* Both files are hashed, and the edit is complete.
LEMMA ProveKeeps ==
  ASSUME NEW j \in E!Jobs, EInv, E!Prove(j)
  PROVE  EInv'
<1>0. JobsFit /\ EditTypes /\ FlagsFit /\ KeysFit /\ AloneAtWork /\ E!CompletedIsThere
  BY DEF EInv
<1>1. /\ version' = version /\ edited' = edited /\ changes' = changes /\ keys' = keys
      /\ jobs[j].at = "provenance" /\ edited # Nobody
      /\ provenance' = [job |-> j, output |-> edited, source |-> version[jobs[j].video]]
  BY DEF E!Prove
<1>2. Keeps(j, {"status", "at"}) /\ jobs'[j].status = "COMPLETED" /\ jobs'[j].at = "none"
  BY <1>0, EndedMakes DEF E!Prove
<1>3. jobs[j].status = "PROCESSING" /\ jobs[j].video \in Sources
  BY <1>0, <1>1 DEF JobsFit
<1>4. /\ latest' \in [Sources -> E!Jobs \cup {Nobody}]
      /\ \A k \in E!Jobs \ {j} : \A v \in Sources : latest[v] = k => latest'[v] = k
  BY <1>0, <1>3, LatestKept DEF E!Prove
<1>12. provenance' \in E!Proofs
  <2>1. version[jobs[j].video] \in E!Versions /\ edited \in E!Rendered
    BY <1>0, <1>1, <1>3, EditConstants DEF EditTypes
  <2> QED
    BY <1>1, <2>1 DEF E!Proofs
<1>13. edited' \in E!Rendered \cup {Nobody} /\ changes \in Int /\ jobs[j].video # Nobody
  BY <1>0, <1>1, <1>3, EditConstants DEF EditTypes
<1>5. JobsFit' /\ EditTypes' /\ FlagsFit'
  BY <1>0, <1>1, <1>2, <1>3, <1>4, <1>12, <1>13, OnlyOne
<1>6. /\ \A k \in E!Jobs :
              /\ jobs'[k].video = jobs[k].video /\ jobs'[k].spec = jobs[k].spec
              /\ jobs'[k].version = jobs[k].version /\ jobs'[k].from = jobs[k].from
              /\ jobs'[k].met = jobs[k].met /\ jobs'[k].touched = jobs[k].touched
      /\ \A k \in E!Jobs \ {j} : jobs'[k].status = jobs[k].status /\ jobs'[k].at = jobs[k].at
  BY <1>2, KeepsFields
<1>7. KeysFit'
  BY <1>0, <1>1, <1>2, <1>3, <1>4, <1>6, EditConstants DEF KeysFit, JobsFit
<1>8. AloneAtWork'
  BY <1>0, <1>1, <1>2, <1>3, <1>6 DEF AloneAtWork, E!AtWork, Calm
<1>9. EditedFits'
  BY <1>0, <1>1, <1>2, <1>3, <1>6 DEF EInv, EditedFits
<1>10. E!CompletedIsThere'
  <2>1. ASSUME NEW k \in E!Jobs, k # j, jobs'[k].status = "COMPLETED", ~jobs'[k].met,
               ~jobs'[k].touched
        PROVE  FALSE
    BY <1>0, <1>1, <1>6, <2>1 DEF AloneAtWork, Calm, E!AtWork
  <2>2. ASSUME ~jobs'[j].met, ~jobs'[j].touched
        PROVE  /\ edited'.job = j
               /\ provenance' = [job |-> j, output |-> edited', source |-> edited'.from]
    <3>1. edited = [job |-> j, from |-> jobs[j].from] /\ jobs[j].from = version[jobs[j].video]
      BY <1>0, <1>1, <1>6, <2>2 DEF AloneAtWork, Calm, E!AtWork
    <3>2. edited.job = j /\ edited.from = version[jobs[j].video]
      BY <3>1
    <3> QED
      BY <1>1, <3>2
  <2> QED
    BY <1>1, <2>1, <2>2 DEF E!CompletedIsThere
<1>11. E!Proven'
  <2>1. provenance'.output = edited'
    BY <1>1
  <2> QED
    BY <1>12, <2>1, EditConstants DEF E!Proven
<1> QED
  BY <1>5, <1>7, <1>8, <1>9, <1>10, <1>11 DEF EInv

\* A job at work fails.
LEMMA FailKeeps ==
  ASSUME NEW j \in E!Jobs, EInv, E!Fail(j)
  PROVE  EInv'
<1>0. JobsFit /\ EditTypes /\ FlagsFit /\ KeysFit /\ AloneAtWork /\ E!CompletedIsThere
  BY DEF EInv
<1>1. /\ version' = version /\ provenance' = provenance /\ keys' = keys
      /\ changes' = changes \/ changes' \in 0 .. MaxChanges
      /\ changes <= changes' /\ jobs[j].at \in {"render", "provenance"}
      /\ edited' = IF jobs[j].at = "provenance" THEN Nobody ELSE edited
  BY <1>0, EditConstants DEF E!Fail, E!AtWork, E!Withdrawn, EditTypes
<1>2. Keeps(j, {"status", "at"}) /\ jobs'[j].status = "FAILED" /\ jobs'[j].at = "none"
  BY <1>0, EndedMakes DEF E!Fail
<1>3. jobs[j].status = "PROCESSING" /\ jobs[j].video # Nobody
  BY <1>0, <1>1 DEF JobsFit
<1>4. /\ latest' \in [Sources -> E!Jobs \cup {Nobody}]
      /\ \A k \in E!Jobs \ {j} : \A v \in Sources : latest[v] = k => latest'[v] = k
  BY <1>0, <1>3, LatestKept DEF E!Fail
<1>12. edited' \in E!Rendered \cup {Nobody} /\ provenance' \in E!Proofs \cup {Nobody}
  BY <1>0, <1>1 DEF EditTypes
<1>5. JobsFit' /\ EditTypes' /\ FlagsFit'
  BY <1>0, <1>1, <1>2, <1>3, <1>4, <1>12, OnlyOne
<1>6. /\ \A k \in E!Jobs :
              /\ jobs'[k].video = jobs[k].video /\ jobs'[k].spec = jobs[k].spec
              /\ jobs'[k].version = jobs[k].version /\ jobs'[k].from = jobs[k].from
              /\ jobs'[k].met = jobs[k].met /\ jobs'[k].touched = jobs[k].touched
      /\ \A k \in E!Jobs \ {j} : jobs'[k].status = jobs[k].status /\ jobs'[k].at = jobs[k].at
  BY <1>2, KeepsFields
<1>7. KeysFit'
  BY <1>0, <1>1, <1>2, <1>4, <1>6, EditConstants DEF KeysFit, JobsFit
<1>13. \A k \in E!Jobs : ~(jobs[k].status = "COMPLETED" /\ Calm(k))
  BY <1>0, <1>1 DEF AloneAtWork, E!AtWork
<1>8. AloneAtWork'
  BY <1>0, <1>1, <1>2, <1>3, <1>6, <1>13 DEF AloneAtWork, E!AtWork, Calm
<1>9. EditedFits'
  BY <1>0, <1>1, <1>2, <1>3, <1>6 DEF EInv, EditedFits
<1>10. E!CompletedIsThere'
  BY <1>2, <1>6, <1>13 DEF E!CompletedIsThere, Calm
<1>11. E!Proven'
  BY <1>0, <1>1, <1>2, <1>3, <1>6 DEF EInv, EditedFits, E!Proven, E!Known, E!AtWork
<1> QED
  BY <1>5, <1>7, <1>8, <1>9, <1>10, <1>11 DEF EInv

\* The invariant but for what users may disturb.
LEMMA ChangeKeeps ==
  ASSUME NEW js, EInv, E!Change(js), version' \in [Sources -> 1 .. changes' + 1],
         edited' \in {edited, Nobody}, provenance' = provenance
  PROVE  /\ Disturbed(js) /\ JobsFit' /\ EditTypes' /\ FlagsFit' /\ KeysFit'
         /\ EditedFits' /\ E!Proven'
<1>0. JobsFit /\ EditTypes /\ FlagsFit /\ KeysFit /\ AloneAtWork /\ E!CompletedIsThere
  BY DEF EInv
<1>2. Disturbed(js)
  BY <1>0, ChangeMakes
<1>3. keys' = keys /\ latest' = latest /\ changes < MaxChanges /\ changes' = changes + 1
  BY DEF E!Change
<1>4. JobsFit'
  <2>1. Begun' = Begun
    BY <1>2 DEF Begun, Disturbed
  <2> QED
    BY <1>0, <1>2, <2>1 DEF JobsFit, Disturbed
<1>5. EditTypes'
  <2>1. changes' \in 0 .. MaxChanges
    BY <1>0, <1>3, EditConstants DEF EditTypes
  <2>2. edited' \in E!Rendered \cup {Nobody}
    BY <1>0 DEF EditTypes
  <2> QED
    BY <1>0, <1>2, <1>3, <2>1, <2>2 DEF EditTypes, Disturbed
<1>6. FlagsFit'
  BY <1>0, <1>2 DEF FlagsFit, Disturbed
<1>7. KeysFit'
  BY <1>0, <1>2, <1>3 DEF KeysFit, Disturbed
<1>8. EditedFits' /\ E!Proven'
  BY <1>2 DEF EInv, EditedFits, E!Proven, E!Known, E!AtWork, Disturbed
<1> QED
  BY <1>2, <1>4, <1>5, <1>6, <1>7, <1>8

\* A source is replaced.
LEMMA ReplaceKeeps ==
  ASSUME NEW v \in Sources, EInv, E!ReplaceSource(v)
  PROVE  EInv'
<1>0. JobsFit /\ EditTypes /\ FlagsFit /\ KeysFit /\ AloneAtWork /\ E!CompletedIsThere
  BY DEF EInv
<1> DEFINE js == {j \in E!Jobs : jobs[j].video = v}
<1>1. /\ E!Change(js) /\ version' = [version EXCEPT ![v] = version[v] + 1]
      /\ edited' = edited /\ provenance' = provenance /\ changes' = changes + 1
  BY DEF E!ReplaceSource, E!Change
<1>2. version' \in [Sources -> 1 .. changes' + 1]
  BY <1>0, <1>1, EditConstants DEF EditTypes
<1>3. /\ Disturbed(js) /\ JobsFit' /\ EditTypes' /\ FlagsFit' /\ KeysFit'
      /\ EditedFits' /\ E!Proven'
  BY <1>1, <1>2, ChangeKeeps
<1>4. AloneAtWork'
  BY <1>0, <1>1, <1>3 DEF AloneAtWork, E!AtWork, Calm, Disturbed, EditTypes
<1>5. E!CompletedIsThere'
  BY <1>0, <1>1, <1>3 DEF E!CompletedIsThere, Disturbed
<1> QED
  BY <1>3, <1>4, <1>5 DEF EInv

\* The edited copy is deleted.
LEMMA DeleteEditedKeeps ==
  ASSUME EInv, E!DeleteEdited
  PROVE  EInv'
<1>0. JobsFit /\ EditTypes /\ FlagsFit /\ KeysFit /\ AloneAtWork /\ E!CompletedIsThere
  BY DEF EInv
<1>1. /\ E!Change(E!Jobs) /\ version' = version
      /\ edited' = Nobody /\ provenance' = provenance /\ changes' = changes + 1
  BY DEF E!DeleteEdited, E!Change
<1>2. version' \in [Sources -> 1 .. changes' + 1]
  BY <1>0, <1>1, EditConstants DEF EditTypes
<1>3. /\ Disturbed(E!Jobs) /\ JobsFit' /\ EditTypes' /\ FlagsFit' /\ KeysFit'
      /\ EditedFits' /\ E!Proven'
  BY <1>1, <1>2, ChangeKeeps
<1>4. \A k \in E!Jobs : jobs'[k].touched = TRUE
  BY <1>3 DEF Disturbed
<1>5. AloneAtWork'
  BY <1>0, <1>1, <1>3, <1>4 DEF AloneAtWork, E!AtWork, Calm, Disturbed
<1>6. E!CompletedIsThere'
  BY <1>4 DEF E!CompletedIsThere
<1> QED
  BY <1>3, <1>5, <1>6 DEF EInv

\* The dashboard restarts.
LEMMA RestartKeeps ==
  ASSUME EInv, E!Restart
  PROVE  EInv'
<1>0. JobsFit /\ EditTypes /\ FlagsFit /\ KeysFit /\ AloneAtWork /\ E!CompletedIsThere
  BY DEF EInv
<1>1. /\ changes < MaxChanges /\ changes' = changes + 1 /\ keys' = {}
      /\ latest' = [v \in Sources |-> Nobody] /\ version' = version /\ edited' = edited
      /\ provenance' = provenance
  BY DEF E!Restart
<1>2. /\ Table(jobs')
      /\ \A k \in E!Jobs :
           /\ JobRecord(jobs'[k])
           /\ jobs'[k].video = jobs[k].video /\ jobs'[k].spec = jobs[k].spec
           /\ jobs'[k].version = jobs[k].version /\ jobs'[k].from = jobs[k].from
           /\ jobs'[k].met = jobs[k].met /\ jobs'[k].touched = jobs[k].touched
           /\ jobs'[k].status = "none" /\ jobs'[k].at = "none"
  BY <1>0, RestartMakes DEF Fields
<1>3. JobsFit'
  <2>1. Begun' = Begun
    BY <1>2 DEF Begun
  <2> QED
    BY <1>0, <1>2, <2>1 DEF JobsFit
<1>4. EditTypes'
  BY <1>0, <1>1, <1>2, EditConstants DEF EditTypes
<1>5. FlagsFit'
  BY <1>0, <1>2 DEF FlagsFit
<1>6. KeysFit' /\ AloneAtWork' /\ E!CompletedIsThere'
  BY <1>2 DEF KeysFit, AloneAtWork, E!AtWork, E!CompletedIsThere
<1>7. EditedFits'
  BY <1>1, <1>2 DEF EInv, EditedFits
<1>8. E!Proven'
  BY <1>1, <1>2, <1>7 DEF EditedFits, E!Proven, E!Known
<1> QED
  BY <1>3, <1>4, <1>5, <1>6, <1>7, <1>8 DEF EInv

\* No step of the requests, the workers and the users breaks the invariant.
LEMMA EInvNext ==
  ASSUME EInv, E!Next \/ UNCHANGED edits
  PROVE  EInv'
<1>1. CASE UNCHANGED edits
  BY <1>1 DEF edits, EInv, JobsFit, Table, Begun, JobRecord, EditTypes, FlagsFit, KeysFit, AloneAtWork,
     E!AtWork, Calm, EditedFits, E!CompletedIsThere, E!Proven, E!Known
<1>2. CASE E!Next
  BY <1>2, EditKeeps, TakeKeeps, TakeFailsKeeps, MoveKeeps, ProveKeeps, FailKeeps, ReplaceKeeps,
     DeleteEditedKeeps, RestartKeeps DEF E!Next
<1> QED
  BY <1>1, <1>2

\* Only a request makes a job that lives.
LEMMA NoneRevives ==
  ASSUME EInv, NEW j \in E!Jobs,
         E!Take(j) \/ E!TakeFails(j) \/ E!Move(j) \/ E!Prove(j) \/ E!Fail(j)
  PROVE  \A k \in E!Jobs :
           /\ jobs'[k].video = jobs[k].video /\ jobs'[k].spec = jobs[k].spec
           /\ jobs'[k].version = jobs[k].version
           /\ jobs'[k].status \in {"PROCESSING", "COMPLETED"} =>
                jobs[k].status \in {"PROCESSING", "COMPLETED"}
<1>0. JobsFit /\ FlagsFit
  BY DEF EInv
<1>1. CASE E!Take(j)
  BY <1>0, <1>1, TakeMakes DEF Taken
<1>2. CASE E!Move(j)
  <2>1. Keeps(j, {"at"})
    BY <1>0, <1>2, MoveMakes
  <2> QED
    BY <2>1 DEF Keeps, Fields
<1>3. CASE E!TakeFails(j) \/ E!Fail(j) \/ E!Prove(j)
  <2>1. jobs[j].status = "PROCESSING"
    BY <1>0, <1>3 DEF JobsFit, E!TakeFails, E!Fail, E!Prove, E!AtWork
  <2>2. Keeps(j, {"status", "at"})
    BY <1>0, <1>3, EndedMakes DEF E!TakeFails, E!Fail, E!Prove
  <2> QED
    BY <2>1, <2>2, KeepsFields
<1> QED
  BY <1>1, <1>2, <1>3

\* Identical requests share one job.
LEMMA RetriesShareNext ==
  ASSUME EInv, E!RetriesShare, E!Next \/ UNCHANGED edits
  PROVE  E!RetriesShare'
<1> DEFINE Lives(k) == jobs[k].status \in {"PROCESSING", "COMPLETED"}
           Same(k)  == /\ jobs'[k].video = jobs[k].video /\ jobs'[k].spec = jobs[k].spec
                       /\ jobs'[k].version = jobs[k].version
                       /\ jobs'[k].status \in {"PROCESSING", "COMPLETED"} => Lives(k)
<1>0. JobsFit /\ FlagsFit /\ KeysFit
  BY DEF EInv
<1>1. CASE \A k \in E!Jobs : Same(k)
  BY <1>1 DEF E!RetriesShare
<1>2. CASE UNCHANGED edits
  BY <1>2 DEF edits, E!RetriesShare
<1>3. CASE \E j \in E!Jobs : E!Take(j) \/ E!TakeFails(j) \/ E!Move(j) \/ E!Prove(j) \/ E!Fail(j)
  BY <1>1, <1>3, NoneRevives
<1>4. CASE E!DeleteEdited \/ \E v \in Sources : E!ReplaceSource(v)
  <2>1. PICK js : E!Change(js)
    BY <1>4 DEF E!DeleteEdited, E!ReplaceSource
  <2>2. Disturbed(js)
    BY <1>0, <2>1, ChangeMakes
  <2> QED
    BY <1>1, <2>2 DEF Disturbed
<1>5. CASE E!Restart
  BY <1>0, <1>1, <1>5, RestartMakes DEF Fields
<1>6. ASSUME NEW v \in Sources, NEW spec \in Specs, E!Edit(v, spec)
      PROVE  E!RetriesShare'
  <2> DEFINE n == E!NextJob
  <2>1. /\ n \in E!Jobs /\ Keeps(n, Fields)
        /\ jobs'[n].video = v /\ jobs'[n].spec = spec /\ jobs'[n].version = version[v]
    BY <1>0, <1>6, EditMakes
  <2> HIDE DEF n
  <2>2. \A k \in E!Jobs \ {n} : jobs'[k] = jobs[k]
    BY <2>1 DEF Keeps
  <2>3. ASSUME NEW k \in E!Jobs \ {n}, Lives(k), jobs[k].video = v, jobs[k].spec = spec,
               jobs[k].version = version[v]
        PROVE  FALSE
    BY <1>0, <1>6, <2>3 DEF KeysFit, E!Edit, E!Shared
  <2> QED
    BY <2>1, <2>2, <2>3 DEF E!RetriesShare
<1> QED
  BY <1>2, <1>3, <1>4, <1>5, <1>6 DEF E!Next

\* What is promised follows.
LEMMA EInvSafe == EInv /\ E!RetriesShare => E!EditsSafe
<1> SUFFICES ASSUME EInv, E!RetriesShare
             PROVE  E!EditsSafe
  OBVIOUS
<1>0. JobsFit /\ KeysFit
  BY DEF EInv
<1>1. E!OneEditAtATime
  BY <1>0 DEF KeysFit, E!OneEditAtATime
<1> QED
  BY <1>1 DEF EInv, E!EditsSafe

\* The steps of one part, or of none.
LEMMA EditsPart ==
  /\ RecordsInit => E!Init
  /\ [RecordsNext]_<<part, dashboard, legacy, gates>> => E!Next \/ UNCHANGED edits
BY DEF RecordsInit, RecordsNext, dashboard, legacy, gates

\* Retries share a job, a source has one edit at a time, a completed edit is
\* there and an edited copy has its provenance, for any number of sources, edits,
\* jobs, and changes of users.
THEOREM EditsAreSafe == RecordsSpec => []EditsSafe
<1>1. RecordsInit => EInv /\ E!RetriesShare
  <2> SUFFICES ASSUME RecordsInit
               PROVE  EInv /\ E!RetriesShare
    OBVIOUS
  <2>1. E!Init
    BY EditsPart
  <2>2. E!RetriesShare
    BY <2>1 DEF E!Init, E!NoJob, E!RetriesShare
  <2> QED
    BY <2>1, <2>2, EInvInit
<1>2. EInv /\ E!RetriesShare /\ [RecordsNext]_<<part, dashboard, legacy, gates>>
        => (EInv /\ E!RetriesShare)'
  BY EditsPart, EInvNext, RetriesShareNext
<1>3. EInv /\ E!RetriesShare => EditsSafe
  BY EInvSafe DEF EditsSafe
<1> QED
  BY <1>1, <1>2, <1>3, PTL DEF RecordsSpec

-----------------------------------------------------------------------------
(* The release validation.                                                 *)

Outcomes == {"PASS", "FAIL", "NOT_CONFIGURED"}
Ensuring == {"ensure", "clear", "install", "stamp"}

\* One outcome for each gate that ran.
GatesCount ==
  /\ next \in 1 .. 4
  /\ outcomes \in Seq(Outcomes) /\ Len(outcomes) = next - 1
  /\ phaseOf \in {"off", "measure", "gate"} \cup Ensuring
  /\ phaseOf \in Ensuring => next = 1
  /\ phaseOf = "gate" => next <= 3
  /\ report \in [H!Reporting -> [run : 1 .. MaxRuns, status : {"PASS", "FAIL"}] \cup {Nobody}]
  /\ validations \in 0 .. MaxRuns /\ (phaseOf # "off" => validations > 0)

\* The stamp of the environment is never ahead of what is installed, unless the
\* lock file changed meanwhile.
StampFits ==
  /\ lock \in 1 .. MaxLocks
  /\ stamp \in 1 .. MaxLocks \cup {Nobody} /\ installed \in 1 .. MaxLocks \cup {Nobody}
  /\ stamp # Nobody => stamp <= lock
  /\ phaseOf = "clear" => stamp # lock
  /\ phaseOf \in {"install", "stamp"} => stamp = Nobody
  /\ phaseOf = "stamp" => raced \/ installed = lock
  /\ stamp = lock => raced \/ installed = lock

VerdictType == verdict = Nobody \/ verdict.state \in {"PASS", "FAIL", "BLOCKED", "ENV_BLOCKED"}

MarksType == raced \in BOOLEAN /\ wrote \in BOOLEAN

ValidInv == MarksType /\ GatesCount /\ StampFits /\ VerdictType /\ H!PassIsEarned /\ H!LatestTells

\* The gates of the validation, in their order.
LEMMA HeavyOrderLemma ==
  /\ Len(H!HeavyOrder) = 3 /\ DOMAIN H!HeavyOrder = 1 .. 3
  /\ H!HeavyOrder[1] = "security" /\ H!HeavyOrder[2] = "e2e" /\ H!HeavyOrder[3] = "sonar"
BY DEF H!HeavyOrder

\* The constants of a release validation.
LEMMA ValidConstants ==
  MaxRuns \in Nat \ {0} /\ MaxLocks \in Nat \ {0} /\ Nobody \notin 1 .. MaxLocks
BY RecordsAssumption DEF H!HeavyAssumption

\* Initially.
LEMMA ValidInit == H!Init => ValidInv
<1> SUFFICES ASSUME H!Init
             PROVE  ValidInv
  OBVIOUS
<1>1. /\ phaseOf = "off" /\ next = 1 /\ outcomes = <<>> /\ verdict = Nobody
      /\ lock = 1 /\ stamp = Nobody /\ installed = Nobody
      /\ report = [g \in H!Reporting |-> Nobody]
      /\ validations = 0 /\ wrote = FALSE /\ raced = FALSE
  BY DEF H!Init
<1>2. GatesCount
  BY <1>1, ValidConstants DEF GatesCount, Ensuring
<1>3. StampFits /\ VerdictType
  BY <1>1, ValidConstants DEF StampFits, VerdictType
<1>4. MarksType
  BY Zenon, <1>1 DEF MarksType
<1> QED
  BY <1>1, <1>2, <1>3, <1>4 DEF ValidInv, H!PassIsEarned, H!LatestTells

\* The environment is provided.
LEMMA EnsureKeepsValid ==
  ASSUME ValidInv, H!Ensure \/ H!Clear \/ H!Cleared \/ H!Install \/ H!WriteStamp
  PROVE  ValidInv'
<1>1. /\ next' = next /\ outcomes' = outcomes /\ verdict' = verdict /\ validations' = validations
      /\ newest' = newest /\ report' = report /\ wrote' = wrote
      /\ phaseOf \in Ensuring /\ phaseOf' \in Ensuring \cup {"measure"}
  BY DEF H!Ensure, H!Clear, H!Cleared, H!Install, H!WriteStamp, H!Goes, H!gate, Ensuring
<1>2. GatesCount'
  BY <1>1 DEF ValidInv, GatesCount, Ensuring
<1>3. VerdictType' /\ H!PassIsEarned'
  BY <1>1 DEF ValidInv, VerdictType, H!PassIsEarned
<1>4. H!LatestTells'
  BY <1>1 DEF ValidInv, GatesCount, H!LatestTells
<1>5. StampFits'
  <2>0. StampFits /\ GatesCount
    BY DEF ValidInv
  <2>1. CASE H!Ensure
    BY <2>0, <2>1, ValidConstants DEF StampFits, H!Ensure, H!Goes, H!Ready, H!environment
  <2>2. CASE H!Clear
    BY <2>0, <2>2, ValidConstants DEF StampFits, H!Clear, H!Goes
  <2>3. CASE H!Cleared
    BY <2>0, <2>3, ValidConstants DEF StampFits, H!Cleared, H!Goes, H!environment
  <2>4. CASE H!Install
    BY <2>0, <2>4, ValidConstants DEF StampFits, H!Install, H!Goes
  <2>5. CASE H!WriteStamp
    BY <2>0, <2>5, ValidConstants DEF StampFits, H!WriteStamp, H!Goes
  <2> QED
    BY <2>1, <2>2, <2>3, <2>4, <2>5
<1>6. raced' = raced
  BY DEF H!Ensure, H!Clear, H!Cleared, H!Install, H!WriteStamp, H!environment
<1>7. MarksType'
  BY <1>1, <1>6 DEF ValidInv, MarksType
<1> QED
  BY <1>2, <1>3, <1>4, <1>5, <1>7 DEF ValidInv

\* The runner begins, measures, concludes, or is killed; the lock file changes.
LEMMA RunnerKeepsValid ==
  ASSUME ValidInv,
         \/ H!Start \/ H!EnsureFails \/ H!Measure \/ H!OutOfMemory \/ H!Finish
         \/ H!LockChanges \/ H!Killed
  PROVE  ValidInv'
<1>0. MarksType /\ GatesCount /\ StampFits /\ VerdictType /\ H!PassIsEarned /\ H!LatestTells
  BY DEF ValidInv
<1>1. CASE H!Start
  <2>1. /\ next' = 1 /\ outcomes' = <<>> /\ validations' = validations + 1 /\ validations < MaxRuns
        /\ lock' = lock /\ stamp' = stamp /\ installed' = installed /\ raced' = raced
        /\ newest' = newest /\ report' = report /\ wrote' = wrote
        /\ \/ phaseOf' = "ensure" /\ verdict' = verdict
           \/ phaseOf' = "off" /\ verdict'.state \in {"BLOCKED", "ENV_BLOCKED"}
    BY <1>1 DEF H!Start, H!Fresh, H!Forbidden, H!environment, H!gate
  <2>2. GatesCount'
    BY <1>0, <2>1, ValidConstants DEF GatesCount, Ensuring
  <2>3. StampFits' /\ VerdictType' /\ H!PassIsEarned' /\ H!LatestTells'
    BY <1>0, <2>1 DEF StampFits, VerdictType, H!PassIsEarned, H!LatestTells
  <2>9. MarksType'
    BY <1>0, <2>1 DEF MarksType
  <2> QED
    BY <2>2, <2>3, <2>9 DEF ValidInv
<1>2. CASE H!EnsureFails \/ H!OutOfMemory
  <2>1. /\ next' = next /\ outcomes' = outcomes /\ validations' = validations
        /\ lock' = lock /\ stamp' = stamp /\ installed' = installed /\ raced' = raced
        /\ newest' = newest /\ report' = report /\ wrote' = wrote
        /\ phaseOf' = "off" /\ verdict'.state \in {"BLOCKED", "ENV_BLOCKED"}
    BY <1>2 DEF H!EnsureFails, H!OutOfMemory, H!Conclude, H!Forbidden, H!environment, H!gate
  <2>2. GatesCount'
    BY <1>0, <2>1 DEF GatesCount, Ensuring
  <2>3. StampFits' /\ VerdictType' /\ H!PassIsEarned' /\ H!LatestTells'
    BY <1>0, <2>1 DEF StampFits, VerdictType, H!PassIsEarned, H!LatestTells
  <2>9. MarksType'
    BY <1>0, <2>1 DEF MarksType
  <2> QED
    BY <2>2, <2>3, <2>9 DEF ValidInv
<1>3. CASE H!Finish
  <2>1. /\ next' = next /\ outcomes' = outcomes /\ validations' = validations
        /\ lock' = lock /\ stamp' = stamp /\ installed' = installed /\ raced' = raced
        /\ newest' = newest /\ report' = report /\ wrote' = wrote
        /\ phaseOf' = "off" /\ next > 3
        /\ verdict' = [state |-> H!Terminal, gates |-> outcomes]
    BY <1>3, HeavyOrderLemma DEF H!Finish, H!Conclude, H!environment, H!gate
  <2>2. GatesCount'
    BY <1>0, <2>1 DEF GatesCount, Ensuring
  <2>3. StampFits' /\ H!LatestTells'
    BY <1>0, <2>1 DEF StampFits, H!LatestTells
  <2>4. VerdictType' /\ H!PassIsEarned'
    <3>1. verdict'.state = H!Terminal /\ verdict'.gates = outcomes
      BY <2>1
    <3>2. H!Terminal \in {"PASS", "FAIL", "BLOCKED"}
      BY DEF H!Terminal
    <3>3. H!Terminal = "PASS" => /\ \A i \in DOMAIN outcomes : outcomes[i] # "FAIL"
                                 /\ \E i \in DOMAIN outcomes : outcomes[i] = "PASS"
      BY DEF H!Terminal, H!Was
    <3>4. Len(outcomes) = 3
      BY <1>0, <2>1 DEF GatesCount
    <3> QED
      BY <3>1, <3>2, <3>3, <3>4, HeavyOrderLemma DEF VerdictType, H!PassIsEarned
  <2>9. MarksType'
    BY <1>0, <2>1 DEF MarksType
  <2> QED
    BY <2>2, <2>3, <2>4, <2>9 DEF ValidInv
<1>4. CASE H!Measure \/ H!Killed
  <2>1. /\ next' = next /\ outcomes' = outcomes /\ validations' = validations /\ verdict' = verdict
        /\ lock' = lock /\ stamp' = stamp /\ installed' = installed /\ raced' = raced
        /\ newest' = newest /\ report' = report /\ wrote' = wrote
        /\ \/ phaseOf' = "off"
           \/ phaseOf = "measure" /\ phaseOf' = "gate" /\ next \in 1 .. 3
    BY <1>4, HeavyOrderLemma DEF H!Measure, H!Killed, H!Goes, H!environment, H!gate
  <2>2. GatesCount'
    BY <1>0, <2>1 DEF GatesCount, Ensuring
  <2>3. StampFits' /\ VerdictType' /\ H!PassIsEarned' /\ H!LatestTells'
    BY <1>0, <2>1 DEF StampFits, VerdictType, H!PassIsEarned, H!LatestTells
  <2>9. MarksType'
    BY <1>0, <2>1 DEF MarksType
  <2> QED
    BY <2>2, <2>3, <2>9 DEF ValidInv
<1>5. CASE H!LockChanges
  <2>1. /\ next' = next /\ outcomes' = outcomes /\ validations' = validations /\ verdict' = verdict
        /\ lock < MaxLocks /\ lock' = lock + 1 /\ stamp' = stamp /\ installed' = installed
        /\ (raced => raced') /\ (phaseOf \in {"install", "stamp"} => raced') /\ raced' \in BOOLEAN
        /\ newest' = newest /\ report' = report /\ wrote' = wrote /\ phaseOf' = phaseOf
    BY <1>5 DEF H!LockChanges, H!gate
  <2>2. GatesCount'
    BY <1>0, <2>1 DEF GatesCount, Ensuring
  <2>3. VerdictType' /\ H!PassIsEarned' /\ H!LatestTells'
    BY <1>0, <2>1 DEF VerdictType, H!PassIsEarned, H!LatestTells
  <2>4. StampFits'
    BY <1>0, <2>1, ValidConstants DEF StampFits
  <2>9. MarksType'
    BY <1>0, <2>1 DEF MarksType
  <2> QED
    BY <2>2, <2>3, <2>4, <2>9 DEF ValidInv
<1> QED
  BY <1>1, <1>2, <1>3, <1>4, <1>5

\* A gate ends.
LEMMA EndsMakes ==
  ASSUME ValidInv, NEW result \in Outcomes, NEW detail, H!Ends(result, detail),
         wrote' \in BOOLEAN, detail = validations \/ wrote' = FALSE,
         report' \in [H!Reporting -> [run : 1 .. MaxRuns, status : {"PASS", "FAIL"}] \cup {Nobody}]
  PROVE  ValidInv'
<1>0. MarksType /\ GatesCount /\ StampFits /\ VerdictType /\ H!PassIsEarned /\ H!LatestTells
  BY DEF ValidInv
<1>1. /\ phaseOf = "gate" /\ phaseOf' = "measure" /\ outcomes' = Append(outcomes, result)
      /\ next' = next + 1 /\ verdict' = verdict /\ validations' = validations
      /\ newest' = [gate |-> H!HeavyOrder[next], status |-> result, detail |-> detail]
      /\ lock' = lock /\ stamp' = stamp /\ installed' = installed /\ raced' = raced
  BY DEF H!Ends, H!G, H!environment
<1>2. next \in 1 .. 3 /\ Len(outcomes) = next - 1 /\ outcomes \in Seq(Outcomes)
  BY <1>0, <1>1 DEF GatesCount
<1>3. outcomes' \in Seq(Outcomes) /\ Len(outcomes') = next /\ outcomes'[next] = result
  BY <1>1, <1>2
<1>4. GatesCount'
  BY <1>0, <1>1, <1>2, <1>3 DEF GatesCount, Ensuring
<1>5. StampFits' /\ VerdictType' /\ H!PassIsEarned'
  BY <1>0, <1>1 DEF StampFits, VerdictType, H!PassIsEarned
<1>6. H!LatestTells'
  <2>1. newest'.gate = H!HeavyOrder[next] /\ newest'.status = result /\ newest'.detail = detail
    BY <1>1
  <2>2. next' - 1 = next
    BY <1>1, <1>2
  <2> QED
    BY <1>1, <1>3, <2>1, <2>2 DEF H!LatestTells
<1>7. MarksType'
  BY <1>0, <1>1 DEF MarksType
<1> QED
  BY <1>4, <1>5, <1>6, <1>7 DEF ValidInv

\* A gate that ends keeps what the gates came to and the stamp of the environment.
LEMMA GateKeepsValid ==
  ASSUME ValidInv, H!NotConfigured \/ H!NoChromium \/ H!ScriptEnds \/ H!ScriptStops \/ H!Scans
  PROVE  ValidInv'
<1>0. /\ report \in [H!Reporting -> [run : 1 .. MaxRuns, status : {"PASS", "FAIL"}] \cup {Nobody}]
      /\ validations \in 0 .. MaxRuns /\ (phaseOf # "off" => validations > 0)
  BY DEF ValidInv, GatesCount
<1>1. CASE H!NotConfigured
  BY <1>0, <1>1, EndsMakes DEF H!NotConfigured, Outcomes
<1>2. CASE H!NoChromium
  BY <1>0, <1>2, EndsMakes DEF H!NoChromium, Outcomes
<1>3. CASE H!Scans
  BY <1>0, <1>3, EndsMakes DEF H!Scans, Outcomes
<1>4. CASE H!ScriptStops
  BY <1>0, <1>4, EndsMakes DEF H!ScriptStops, Outcomes
<1>5. CASE H!ScriptEnds
  <2>1. PICK result \in {"PASS", "FAIL"} :
          /\ report' = [report EXCEPT ![H!G] = [run |-> validations, status |-> result]]
          /\ H!Ends(result, validations)
    BY <1>5 DEF H!ScriptEnds
  <2>2. wrote' = TRUE /\ phaseOf = "gate"
    BY <1>5 DEF H!ScriptEnds
  <2>3. [run |-> validations, status |-> result] \in [run : 1 .. MaxRuns, status : {"PASS", "FAIL"}]
    BY <1>0, <2>2, ValidConstants
  <2>4. report' \in [H!Reporting -> [run : 1 .. MaxRuns, status : {"PASS", "FAIL"}] \cup {Nobody}]
    BY <1>0, <2>1, <2>3
  <2> QED
    BY <2>1, <2>2, <2>4, EndsMakes DEF Outcomes
<1> QED
  BY <1>1, <1>2, <1>3, <1>4, <1>5

\* No step of the validation breaks its invariant.
LEMMA ValidNext ==
  ASSUME ValidInv, H!Next \/ UNCHANGED validation
  PROVE  ValidInv'
<1>1. CASE UNCHANGED validation
  BY <1>1 DEF validation, ValidInv, MarksType, GatesCount, StampFits, VerdictType, H!PassIsEarned, H!LatestTells
<1>2. CASE H!Next
  BY <1>2, EnsureKeepsValid, RunnerKeepsValid, GateKeepsValid DEF H!Next
<1> QED
  BY <1>1, <1>2

\* What that invariant is for.
LEMMA ValidSafe == ValidInv => H!ValidationSafe
BY DEF ValidInv, StampFits, H!ValidationSafe, H!ReadyIsComplete, H!Ready

-----------------------------------------------------------------------------
(* The delivery gates.                                                     *)

OnTheWay == {"work", "preserve", "down", "remove", "report"}

\* Where a delivery is.
DeliveryAt ==
  /\ at \in 0 .. 9 /\ gate \in {"PASS", "FAIL"} /\ pc \in {"begin"} \cup OnTheWay
  /\ pc # "begin" => at \in 1 .. 8 /\ D!Gate \notin D!Host
  /\ pc \in {"preserve", "down", "remove"} => D!Gate # "config"
  /\ pc = "preserve" => D!Gate = "docker-e2e"
  /\ step \in 1 .. 8 /\ (pc = "begin" => step = 1)
  /\ pc = "work" => step <= Len(D!Script(D!Gate))
  /\ world \subseteq D!Effects
  /\ deliveries \in 0 .. MaxDeliveries

\* What the gates came to: those from here on to nothing yet.
OutcomesFit ==
  /\ outcome \in [D!Gates -> D!Statuses \cup {Nobody}]
  /\ \A i \in 1 .. 8 : 0 < at /\ at <= i => outcome[D!Order[i]] = Nobody
  /\ pc # "begin" /\ D!Dependent(D!Gate) => outcome[D!Needs(D!Gate)] = "PASS"

\* What the cleanup of a gate that has not failed has left.
CleanSoFar ==
  /\ pc = "remove" /\ gate = "PASS" => world \subseteq {"files", "report"}
  /\ pc = "report" /\ gate = "PASS" /\ D!Gate # "config" => world = {}

\* Where the evidence of the browser tests is.
EvidenceFits ==
  /\ evidence \in BOOLEAN
  /\ pc = "preserve" /\ gate = "PASS" => "report" \in world
  /\ pc \in {"down", "remove", "report"} /\ gate = "PASS" /\ D!Gate = "docker-e2e" => evidence

\* The reports of this delivery are in the folder; in the first, no others are.
FolderFits ==
  /\ folder \in [D!Files -> D!Statuses \cup {Nobody}] /\ reported \subseteq D!Gates
  /\ \A g \in reported :
       outcome[g] # Nobody /\ \E w \in {"gate", "wrapper"} : folder[<<w, g>>] = outcome[g]
  /\ deliveries = 0 => at = 0 /\ \A f \in D!Files : folder[f] = Nobody
  /\ deliveries = 1 /\ at # 0 => \A w \in {"gate", "wrapper"}, g \in D!Gates :
       folder[<<w, g>>] # Nobody => g \in reported /\ folder[<<w, g>>] = outcome[g]
  /\ at # 0 => summary = Nobody

DInv == DeliveryAt /\ OutcomesFit /\ CleanSoFar /\ EvidenceFits /\ FolderFits /\ D!DeliverySafe

\* The gates, in their order.
LEMMA OrderLemma ==
  /\ DOMAIN D!Order = 1 .. 8 /\ Len(D!Order) = 8
  /\ D!Order[1] = "quality" /\ D!Order[2] = "config" /\ D!Order[3] = "build"
  /\ D!Order[4] = "smoke" /\ D!Order[5] = "persistence" /\ D!Order[6] = "asr"
  /\ D!Order[7] = "e2e" /\ D!Order[8] = "docker-e2e"
  /\ D!Gates = {D!Order[i] : i \in 1 .. 8}
  /\ \A i, k \in 1 .. 8 : D!Order[i] = D!Order[k] => i = k
  /\ \A i \in 1 .. 8 : D!Order[i] \in D!Gates
<1>1. /\ DOMAIN D!Order = 1 .. 8 /\ Len(D!Order) = 8
      /\ D!Order[1] = "quality" /\ D!Order[2] = "config" /\ D!Order[3] = "build"
      /\ D!Order[4] = "smoke" /\ D!Order[5] = "persistence" /\ D!Order[6] = "asr"
      /\ D!Order[7] = "e2e" /\ D!Order[8] = "docker-e2e"
  BY DEF D!Order
<1>2. D!Gates = {D!Order[i] : i \in 1 .. 8}
  BY <1>1 DEF D!Gates
<1>3. \A i \in 1 .. 8 : i = 1 \/ i = 2 \/ i = 3 \/ i = 4 \/ i = 5 \/ i = 6 \/ i = 7 \/ i = 8
  OBVIOUS
<1>4. \A i, k \in 1 .. 8 : D!Order[i] = D!Order[k] => i = k
  BY <1>1, <1>3
<1> QED
  BY <1>1, <1>2, <1>4

\* The constants of the delivery gates.
LEMMA DeliveryConstants ==
  /\ MaxDeliveries \in Nat \ {0} /\ Nobody \notin D!Statuses
BY RecordsAssumption DEF D!DeliveryAssumption, D!Statuses

\* What a gate needs comes before it.
LEMMA NeedsLemma ==
  ASSUME NEW i \in 1 .. 8, D!Dependent(D!Order[i])
  PROVE  D!Needs(D!Order[i]) # D!Order[i] /\ D!Needs(D!Order[i]) \in D!Gates
BY OrderLemma DEF D!Needs, D!Dependent, D!Host

\* The scripts of the Docker gates.
LEMMA ScriptLemma ==
  /\ \A g \in D!Gates \ D!Host : Len(D!Script(g)) \in 1 .. 8
  /\ Len(D!Script("docker-e2e")) = 4 /\ D!Script("docker-e2e")[4] = "suite"
<1>1. /\ D!Script("config") = <<"config">> /\ D!Script("build") = <<"build">>
      /\ D!Script("smoke") = D!SmokeScript /\ D!Script("persistence") = D!PersistenceScript
      /\ D!Script("asr") = D!AsrScript /\ D!Script("docker-e2e") = D!E2eScript
  BY Zenon DEF D!Script
<1>2. /\ Len(<<"config">>) = 1 /\ Len(<<"build">>) = 1 /\ Len(D!SmokeScript) = 3
      /\ Len(D!PersistenceScript) = 7 /\ Len(D!AsrScript) = 8
      /\ Len(D!E2eScript) = 4 /\ D!E2eScript[4] = "suite"
  BY DEF D!SmokeScript, D!PersistenceScript, D!AsrScript, D!E2eScript
<1>3. \A g \in D!Gates \ D!Host :
        g \in {"config", "build", "smoke", "persistence", "asr", "docker-e2e"}
  BY OrderLemma DEF D!Host
<1> QED
  BY <1>1, <1>2, <1>3

\* What a step makes of the project.
LEMMA AfterLemma ==
  ASSUME NEW todo, world \subseteq D!Effects
  PROVE  /\ D!After(todo) \subseteq D!Effects
         /\ todo = "suite" => D!After(todo) = world \cup {"report"}
<1>1. CASE todo = "build"
  <2>1. D!After(todo) = world \cup {"images"}
    BY Zenon, <1>1 DEF D!After
  <2> QED
    BY <1>1, <2>1 DEF D!Effects
<1>2. CASE todo = "data"
  <2>1. D!After(todo) = world \cup {"files"}
    BY Zenon, <1>2 DEF D!After
  <2> QED
    BY <1>2, <2>1 DEF D!Effects
<1>3. CASE todo = "up"
  <2>1. D!After(todo) = world \cup {"images", "containers", "volume"}
    BY Zenon, <1>3 DEF D!After
  <2> QED
    BY <1>3, <2>1 DEF D!Effects
<1>4. CASE todo = "transcribe"
  <2>1. D!After(todo) = world \cup {"model"}
    BY Zenon, <1>4 DEF D!After
  <2> QED
    BY <1>4, <2>1 DEF D!Effects
<1>5. CASE todo = "down"
  <2>1. D!After(todo) = world \ {"containers"}
    BY Zenon, <1>5 DEF D!After
  <2> QED
    BY <1>5, <2>1
<1>6. CASE todo = "suite"
  <2>1. D!After(todo) = world \cup {"report"}
    BY Zenon, <1>6 DEF D!After
  <2> QED
    BY <1>6, <2>1 DEF D!Effects
<1>7. CASE todo \notin {"build", "data", "up", "transcribe", "down", "suite"}
  <2>1. /\ todo # "build" /\ todo # "data" /\ todo # "up" /\ todo # "transcribe"
        /\ todo # "down" /\ todo # "suite"
    BY <1>7
  <2>2. D!After(todo) = world
    BY Zenon, <2>1 DEF D!After
  <2> QED
    BY <2>1, <2>2
<1> QED
  BY <1>1, <1>2, <1>3, <1>4, <1>5, <1>6, <1>7

\* Where a gate goes when its work is over.
LEMMA WhenOverLemma ==
  /\ D!WhenOver \in {"preserve", "down", "report"}
  /\ D!WhenOver = "preserve" => D!Gate = "docker-e2e"
  /\ D!Gate = "config" <=> D!WhenOver = "report"
  /\ D!Gate = "docker-e2e" /\ D!Todo = "suite" => D!WhenOver = "preserve"
<1>1. CASE D!Gate = "docker-e2e" /\ D!Todo \in {"seed", "suite"}
  <2>1. D!Gate # "config"
    BY <1>1
  <2>2. D!WhenOver = "preserve"
    BY Zenon, <1>1, <2>1 DEF D!WhenOver
  <2> QED
    BY <1>1, <2>1, <2>2
<1>2. CASE D!Gate = "config"
  <2>1. D!Gate # "docker-e2e"
    BY <1>2
  <2>2. D!WhenOver = "report"
    BY Zenon, <1>2, <2>1 DEF D!WhenOver
  <2> QED
    BY <1>2, <2>1, <2>2
<1>3. CASE D!Gate # "config" /\ ~(D!Gate = "docker-e2e" /\ D!Todo \in {"seed", "suite"})
  <2>1. D!WhenOver = "down"
    BY Zenon, <1>3 DEF D!WhenOver
  <2> QED
    BY <1>3, <2>1
<1> QED
  BY <1>1, <1>2, <1>3

\* Initially.
LEMMA DeliveryInit == D!Init => DInv
<1> SUFFICES ASSUME D!Init
             PROVE  DInv
  OBVIOUS
<1>1. /\ at = 0 /\ pc = "begin" /\ step = 1 /\ gate = "PASS"
      /\ world = {} /\ outcome = [g \in D!Gates |-> Nobody]
      /\ folder = [f \in D!Files |-> Nobody] /\ evidence = FALSE
      /\ summary = Nobody /\ deliveries = 0 /\ reported = {}
  BY DEF D!Init
<1>2. DeliveryAt
  BY <1>1, DeliveryConstants DEF DeliveryAt, OnTheWay
<1>3. OutcomesFit /\ CleanSoFar
  BY <1>1 DEF OutcomesFit, CleanSoFar
<1>4. EvidenceFits
  BY <1>1 DEF EvidenceFits
<1>5. FolderFits
  BY <1>1 DEF FolderFits
<1>6. D!PassIsFounded
  <2> SUFFICES ASSUME NEW g \in D!Gates, outcome[g] = "PASS"
               PROVE  FALSE
    BY DEF D!PassIsFounded
  <2> QED
    BY <1>1, DeliveryConstants DEF D!Statuses
<1>7. D!EvidenceKept
  BY <1>1, OrderLemma, DeliveryConstants DEF D!EvidenceKept, D!Statuses
<1>8. D!PassIsClean /\ D!SummaryTells
  BY <1>1 DEF D!PassIsClean, D!SummaryTells
<1> QED
  BY <1>2, <1>3, <1>4, <1>5, <1>6, <1>7, <1>8 DEF DInv, D!DeliverySafe

\* A gate is over, and the next one begins.
LEMMA PassKeeps ==
  ASSUME DInv, D!Running, NEW result \in D!Statuses, D!Pass(result),
         result = "PASS" /\ D!Dependent(D!Gate) => outcome[D!Needs(D!Gate)] = "PASS",
         result = "PASS" /\ D!Gate \notin D!Host \cup {"config"} => world = {},
         result = "PASS" /\ D!Gate = "docker-e2e" => evidence,
         world' = world, evidence' = evidence, summary' = summary, deliveries' = deliveries,
         \/ folder' = folder /\ reported' = reported
         \/ \E w \in {"gate", "wrapper"} : D!Write(w, result)
  PROVE  DInv'
<1>0. /\ DeliveryAt /\ OutcomesFit /\ CleanSoFar /\ EvidenceFits /\ FolderFits
      /\ D!PassIsClean /\ D!PassIsFounded /\ D!SummaryTells /\ D!EvidenceKept
  BY DEF DInv, D!DeliverySafe
<1> DEFINE g0 == D!Gate
<1>1. /\ at \in 1 .. 8 /\ at' = at + 1 /\ pc' = "begin" /\ step' = 1 /\ gate' = "PASS"
      /\ outcome' = [outcome EXCEPT ![g0] = result] /\ g0 = D!Order[at] /\ g0 \in D!Gates
  BY OrderLemma DEF D!Pass, D!Running, D!Gate
<1> HIDE DEF g0
<1>2. /\ outcome'[g0] = result /\ \A g \in D!Gates \ {g0} : outcome'[g] = outcome[g]
      /\ outcome[g0] = Nobody /\ result # Nobody /\ outcome' \in [D!Gates -> D!Statuses \cup {Nobody}]
  BY <1>0, <1>1, DeliveryConstants DEF OutcomesFit
<1>3. DeliveryAt'
  BY <1>0, <1>1 DEF DeliveryAt, OnTheWay
<1>4. OutcomesFit'
  <2>1. ASSUME NEW i \in 1 .. 8, at' <= i
        PROVE  outcome'[D!Order[i]] = Nobody
    <3>1. D!Order[i] # g0 /\ D!Order[i] \in D!Gates /\ at <= i /\ 0 < at
      BY <1>1, <2>1, OrderLemma
    <3> QED
      BY <1>0, <1>2, <3>1 DEF OutcomesFit
  <2> QED
    BY <1>1, <1>2, <2>1 DEF OutcomesFit
<1>5. CleanSoFar' /\ EvidenceFits'
  BY <1>0, <1>1 DEF CleanSoFar, EvidenceFits
<1>6. g0 \notin reported
  BY <1>0, <1>2 DEF FolderFits
<1>7. /\ reported' \subseteq D!Gates /\ reported \subseteq reported' /\ reported' \subseteq reported \cup {g0}
      /\ folder' \in [D!Files -> D!Statuses \cup {Nobody}]
      /\ \A w \in {"gate", "wrapper"} : \A g \in D!Gates \ {g0} : folder'[<<w, g>>] = folder[<<w, g>>]
      /\ \A w \in {"gate", "wrapper"} :
           folder'[<<w, g0>>] # folder[<<w, g0>>] => folder'[<<w, g0>>] = result /\ g0 \in reported'
      /\ g0 \in reported' => \E w \in {"gate", "wrapper"} : folder'[<<w, g0>>] = result
  <2>1. CASE folder' = folder /\ reported' = reported
    BY <1>0, <1>1, <1>6, <2>1 DEF FolderFits
  <2>2. CASE \E w \in {"gate", "wrapper"} : D!Write(w, result)
    <3>1. PICK w \in {"gate", "wrapper"} : D!Write(w, result)
      BY <2>2
    <3>2. folder' = [folder EXCEPT ![<<w, g0>>] = result] /\ reported' = reported \cup {g0}
      BY <3>1 DEF D!Write, g0
    <3>3. \A v \in {"gate", "wrapper"} : \A g \in D!Gates : <<v, g>> \in D!Files
      BY DEF D!Files
    <3> QED
      BY <1>0, <1>1, <3>2, <3>3 DEF FolderFits
  <2> QED
    BY <2>1, <2>2
<1>8. FolderFits'
  <2>1. ASSUME NEW g \in reported'
        PROVE  outcome'[g] # Nobody /\ \E w \in {"gate", "wrapper"} : folder'[<<w, g>>] = outcome'[g]
    <3>1. CASE g = g0
      BY <1>2, <1>7, <2>1, <3>1
    <3>2. CASE g # g0
      BY <1>0, <1>2, <1>7, <2>1, <3>2 DEF FolderFits
    <3> QED
      BY <3>1, <3>2
  <2>2. deliveries' # 0 /\ at # 0 /\ summary' = Nobody
    BY <1>0, <1>1 DEF FolderFits
  <2>3. ASSUME deliveries' = 1, NEW w \in {"gate", "wrapper"}, NEW g \in D!Gates,
               folder'[<<w, g>>] # Nobody
        PROVE  g \in reported' /\ folder'[<<w, g>>] = outcome'[g]
    <3>1. CASE g = g0
      BY <1>0, <1>2, <1>6, <1>7, <2>2, <2>3, <3>1 DEF FolderFits
    <3>2. CASE g # g0
      BY <1>0, <1>2, <1>7, <2>2, <2>3, <3>2 DEF FolderFits
    <3> QED
      BY <3>1, <3>2
  <2> QED
    BY <1>7, <2>1, <2>2, <2>3 DEF FolderFits
<1>9. D!PassIsClean'
  <2>1. at' - 1 = at
    BY <1>1
  <2> QED
    BY <1>1, <1>2, <2>1 DEF D!PassIsClean, D!Running, g0
<1>10. D!PassIsFounded'
  <2> SUFFICES ASSUME NEW g \in D!Gates, D!Dependent(g), outcome'[g] = "PASS"
               PROVE  outcome'[D!Needs(g)] = "PASS"
    BY DEF D!PassIsFounded
  <2>1. D!Needs(g) # g /\ D!Needs(g) \in D!Gates
    BY NeedsLemma, OrderLemma
  <2>2. CASE g = g0
    BY <1>2, <2>1, <2>2 DEF g0
  <2>3. CASE g # g0
    <3>1. outcome[D!Needs(g)] = "PASS"
      BY <1>0, <1>2, <2>3 DEF D!PassIsFounded
    <3>2. D!Needs(g) # g0
      BY <1>2, <3>1, DeliveryConstants DEF D!Statuses
    <3> QED
      BY <1>2, <2>1, <3>1, <3>2
  <2> QED
    BY <2>2, <2>3
<1>11. D!SummaryTells'
  BY <1>0, <1>1 DEF FolderFits, D!SummaryTells
<1>12. D!EvidenceKept'
  <2>1. "docker-e2e" \in D!Gates
    BY OrderLemma
  <2> QED
    BY <1>0, <1>2, <2>1 DEF D!EvidenceKept, g0
<1> QED
  BY <1>3, <1>4, <1>5, <1>8, <1>9, <1>10, <1>11, <1>12 DEF DInv, D!DeliverySafe

\* A Docker gate gets on.
LEMMA OnwardKeeps ==
  ASSUME DInv, UNCHANGED D!kept, pc' # "begin", evidence => evidence',
         DeliveryAt', CleanSoFar', EvidenceFits',
         D!Dependent(D!Gate) => outcome[D!Needs(D!Gate)] = "PASS"
  PROVE  DInv'
<1>0. /\ OutcomesFit /\ FolderFits
      /\ D!PassIsFounded /\ D!SummaryTells /\ D!EvidenceKept
  BY DEF DInv, D!DeliverySafe
<1>1. /\ at' = at /\ outcome' = outcome /\ folder' = folder /\ summary' = summary
      /\ deliveries' = deliveries /\ reported' = reported /\ D!Gate' = D!Gate
  BY DEF D!kept, D!Gate
<1>2. OutcomesFit'
  BY <1>0, <1>1 DEF OutcomesFit
<1>3. FolderFits'
  BY <1>0, <1>1 DEF FolderFits
<1>4. D!PassIsFounded' /\ D!SummaryTells'
  BY <1>0, <1>1 DEF D!PassIsFounded, D!SummaryTells
<1>5. D!PassIsClean' /\ D!EvidenceKept'
  BY <1>0, <1>1 DEF D!PassIsClean, D!EvidenceKept
<1> QED
  BY <1>2, <1>3, <1>4, <1>5 DEF DInv, D!DeliverySafe

\* The gates that end at once, and the report of one that ran.
LEMMA GatesEndKeep ==
  ASSUME DInv, D!HostGate \/ D!PrepareFails \/ D!Skip \/ D!Refuse \/ D!Report
  PROVE  DInv'
<1>0. DeliveryAt /\ OutcomesFit /\ CleanSoFar /\ EvidenceFits
  BY DEF DInv
<1>1. CASE D!HostGate
  <2>1. PICK result \in {"PASS", "FAIL"} : D!Pass(result)
    BY <1>1 DEF D!HostGate
  <2>2. ~D!Dependent(D!Gate) /\ D!Gate # "docker-e2e" /\ D!Gate \in D!Host /\ D!Running
    BY <1>1 DEF D!HostGate, D!Dependent, D!Host
  <2>3. /\ world' = world /\ evidence' = evidence /\ summary' = summary /\ deliveries' = deliveries
        /\ folder' = folder /\ reported' = reported
    BY <1>1 DEF D!HostGate
  <2> QED
    BY <2>1, <2>2, <2>3, PassKeeps DEF D!Statuses
<1>2. CASE D!PrepareFails
  BY <1>2, PassKeeps DEF D!PrepareFails, D!Statuses
<1>3. CASE D!Skip
  BY <1>3, PassKeeps DEF D!Skip, D!Statuses
<1>4. CASE D!Refuse
  BY <1>4, PassKeeps DEF D!Refuse, D!Statuses
<1>5. CASE D!Report
  <2>1. /\ pc = "report" /\ D!Write("gate", gate) /\ D!Pass(gate)
        /\ world' = world /\ evidence' = evidence /\ summary' = summary /\ deliveries' = deliveries
    BY <1>5 DEF D!Report
  <2>2. gate \in D!Statuses /\ D!Running
    BY <1>0, <2>1, OrderLemma DEF DeliveryAt, D!Statuses, D!Running
  <2>3. gate = "PASS" /\ D!Dependent(D!Gate) => outcome[D!Needs(D!Gate)] = "PASS"
    BY <1>0, <2>1 DEF OutcomesFit
  <2>4. gate = "PASS" /\ D!Gate \notin D!Host \cup {"config"} => world = {}
    BY <1>0, <2>1 DEF CleanSoFar
  <2>5. gate = "PASS" /\ D!Gate = "docker-e2e" => evidence
    BY <1>0, <2>1 DEF EvidenceFits
  <2> QED
    BY <2>1, <2>2, <2>3, <2>4, <2>5, PassKeeps
<1> QED
  BY <1>1, <1>2, <1>3, <1>4, <1>5

\* The steps of a Docker gate.
LEMMA GateKeeps ==
  ASSUME DInv,
         D!BeginGate \/ D!Work \/ D!Break \/ D!Preserve \/ D!ComposeDown \/ D!RemoveData
  PROVE  DInv'
<1>0. DeliveryAt /\ OutcomesFit /\ CleanSoFar /\ EvidenceFits
  BY DEF DInv
<1>1. UNCHANGED D!kept
  BY DEF D!BeginGate, D!Work, D!Break, D!Preserve, D!ComposeDown, D!RemoveData
<1>2. /\ at' = at /\ outcome' = outcome /\ D!Gate' = D!Gate /\ deliveries' = deliveries
      /\ D!Script(D!Gate)' = D!Script(D!Gate)
  BY <1>1 DEF D!kept, D!Gate
<1>3. CASE D!BeginGate
  <2>1. /\ at \in 1 .. 8 /\ pc = "begin" /\ D!Gate \notin D!Host /\ ~D!Blocked /\ pc' = "work"
        /\ step' = step /\ gate' = gate /\ world' = world /\ evidence' = evidence
    BY <1>3, OrderLemma DEF D!BeginGate, D!Running
  <2>2. D!Dependent(D!Gate) => outcome[D!Needs(D!Gate)] = "PASS"
    BY <2>1 DEF D!Blocked
  <2>3. Len(D!Script(D!Gate)) \in 1 .. 8
    BY <2>1, ScriptLemma, OrderLemma DEF D!Gate
  <2>4. DeliveryAt'
    BY <1>0, <1>2, <2>1, <2>3 DEF DeliveryAt, OnTheWay
  <2>5. CleanSoFar' /\ EvidenceFits'
    BY <1>0, <2>1 DEF CleanSoFar, EvidenceFits
  <2> QED
    BY <1>1, <2>1, <2>2, <2>4, <2>5, OnwardKeeps
<1>4. ASSUME pc # "begin", pc' \in OnTheWay, evidence => evidence', DeliveryAt', CleanSoFar', EvidenceFits'
      PROVE  DInv'
  <2>1. pc' # "begin"
    BY <1>4 DEF OnTheWay
  <2> QED
    BY <1>0, <1>1, <1>4, <2>1, OnwardKeeps DEF OutcomesFit
<1>5. CASE D!Work
  <2>1. /\ pc = "work" /\ world' = D!After(D!Todo) /\ gate' = gate /\ evidence' = evidence
        /\ \/ step = Len(D!Script(D!Gate)) /\ pc' = D!WhenOver /\ step' = step
           \/ step # Len(D!Script(D!Gate)) /\ step' = step + 1 /\ pc' = "work"
    BY <1>5 DEF D!Work
  <2>2. /\ at \in 1 .. 8 /\ D!Gate \notin D!Host /\ step \in 1 .. Len(D!Script(D!Gate))
        /\ Len(D!Script(D!Gate)) \in 1 .. 8 /\ world \subseteq D!Effects /\ D!Gate \in D!Gates
    BY <1>0, <2>1, ScriptLemma, OrderLemma DEF DeliveryAt, D!Gate
  <2>3. world' \subseteq D!Effects /\ (D!Todo = "suite" => "report" \in world')
    BY <2>1, <2>2, AfterLemma
  <2>4. /\ D!WhenOver \in {"preserve", "down", "report"}
        /\ D!WhenOver = "preserve" => D!Gate = "docker-e2e"
        /\ D!Gate = "config" <=> D!WhenOver = "report"
    BY WhenOverLemma
  <2>5. pc' \in OnTheWay
    BY <2>1, <2>4 DEF OnTheWay
  <2>6. DeliveryAt'
    <3>1. step' \in 1 .. 8 /\ (pc' = "work" => step' <= Len(D!Script(D!Gate)))
      <4>1. PICK n : n = Len(D!Script(D!Gate))
        OBVIOUS
      <4>2. /\ step \in 1 .. n /\ n \in 1 .. 8
            /\ \/ step = n /\ pc' = D!WhenOver /\ step' = step
               \/ step # n /\ step' = step + 1 /\ pc' = "work"
        BY <2>1, <2>2, <4>1
      <4>3. CASE step = n
        BY <4>2, <4>3, <2>4
      <4>4. CASE step # n
        BY <4>1, <4>2, <4>4
      <4> QED
        BY <4>3, <4>4
    <3> QED
      BY <1>0, <1>2, <2>1, <2>2, <2>3, <2>4, <2>5, <3>1 DEF DeliveryAt, OnTheWay
  <2>7. CleanSoFar'
    BY <1>2, <2>1, <2>4 DEF CleanSoFar
  <2>8. ASSUME D!Gate = "docker-e2e", pc' # "work"
        PROVE  pc' = "preserve" /\ "report" \in world'
    <3>1. D!Todo = "suite"
      BY <2>1, <2>8, ScriptLemma DEF D!Todo
    <3> QED
      BY <2>1, <2>3, <2>8, <3>1, WhenOverLemma
  <2>9. EvidenceFits'
    BY <1>0, <1>2, <2>1, <2>4, <2>8 DEF EvidenceFits
  <2> QED
    BY <1>4, <2>1, <2>5, <2>6, <2>7, <2>9
<1>6. CASE D!Break
  <2>1. /\ pc = "work" /\ world' \in {world, D!After(D!Todo)} /\ gate' = "FAIL" /\ evidence' = evidence
        /\ step' = step /\ pc' = D!WhenOver
    BY <1>6 DEF D!Break
  <2>2. world' \subseteq D!Effects
    BY <1>0, <2>1, AfterLemma DEF DeliveryAt
  <2>3. /\ D!WhenOver \in {"preserve", "down", "report"}
        /\ D!WhenOver = "preserve" => D!Gate = "docker-e2e"
        /\ D!Gate = "config" <=> D!WhenOver = "report"
    BY WhenOverLemma
  <2>4. DeliveryAt'
    BY <1>0, <1>2, <2>1, <2>2, <2>3 DEF DeliveryAt, OnTheWay
  <2>5. CleanSoFar' /\ EvidenceFits'
    BY <1>0, <2>1 DEF CleanSoFar, EvidenceFits
  <2> QED
    BY <1>4, <2>1, <2>3, <2>4, <2>5 DEF OnTheWay
<1>7. CASE D!Preserve
  <2>1. /\ pc = "preserve" /\ pc' = "down" /\ step' = step /\ world' = world
        /\ \/ evidence' = (evidence \/ "report" \in world) /\ gate' = gate
           \/ gate' = "FAIL" /\ evidence' = evidence
    BY <1>7 DEF D!Preserve
  <2>2. DeliveryAt'
    BY <1>0, <1>2, <2>1 DEF DeliveryAt, OnTheWay
  <2>3. CleanSoFar'
    BY <2>1 DEF CleanSoFar
  <2>4. (evidence => evidence') /\ evidence' \in BOOLEAN /\ (gate' = "PASS" => evidence')
    BY <1>0, <2>1 DEF EvidenceFits
  <2>5. EvidenceFits'
    BY <2>1, <2>4 DEF EvidenceFits
  <2> QED
    BY <1>4, <2>1, <2>2, <2>3, <2>4, <2>5 DEF OnTheWay
<1>8. CASE D!ComposeDown
  <2>1. PICK ok \in BOOLEAN :
          /\ world' = IF ok THEN world \ {"containers", "images", "volume", "model"} ELSE world
          /\ gate' = D!Downgraded(ok)
    BY <1>8 DEF D!ComposeDown
  <2>2. /\ pc = "down" /\ pc' = "remove" /\ step' = step /\ evidence' = evidence
        /\ (gate' = "PASS" => ok /\ gate = "PASS") /\ gate' \in {"PASS", "FAIL"}
        /\ world' \subseteq world
    BY <1>0, <1>8, <2>1 DEF D!ComposeDown, D!Downgraded, DeliveryAt
  <2>3. DeliveryAt'
    BY <1>0, <1>2, <2>2 DEF DeliveryAt, OnTheWay
  <2>4. CleanSoFar'
    BY <1>0, <2>1, <2>2 DEF CleanSoFar, DeliveryAt, D!Effects
  <2>5. EvidenceFits'
    BY <1>0, <1>2, <2>2 DEF EvidenceFits
  <2> QED
    BY <1>4, <2>2, <2>3, <2>4, <2>5 DEF OnTheWay
<1>9. CASE D!RemoveData
  <2>1. PICK ok \in BOOLEAN :
          /\ world' = IF ok THEN world \ {"files", "report"} ELSE world
          /\ gate' = D!Downgraded(ok)
    BY <1>9 DEF D!RemoveData
  <2>2. /\ pc = "remove" /\ pc' = "report" /\ step' = step /\ evidence' = evidence
        /\ (gate' = "PASS" => ok /\ gate = "PASS") /\ gate' \in {"PASS", "FAIL"}
        /\ world' \subseteq world
    BY <1>0, <1>9, <2>1 DEF D!RemoveData, D!Downgraded, DeliveryAt
  <2>3. DeliveryAt'
    BY <1>0, <1>2, <2>2 DEF DeliveryAt, OnTheWay
  <2>4. CleanSoFar'
    BY <1>0, <2>1, <2>2 DEF CleanSoFar
  <2>5. EvidenceFits'
    BY <1>0, <1>2, <2>2 DEF EvidenceFits
  <2> QED
    BY <1>4, <2>2, <2>3, <2>4, <2>5 DEF OnTheWay
<1> QED
  BY <1>3, <1>5, <1>6, <1>7, <1>8, <1>9

\* A delivery begins, is summarized, or is killed.
LEMMA DeliveryKeeps ==
  ASSUME DInv, D!Deliver \/ D!Summarize \/ D!Kill
  PROVE  DInv'
<1>0. /\ DeliveryAt /\ OutcomesFit /\ CleanSoFar /\ EvidenceFits /\ FolderFits
      /\ D!PassIsFounded /\ D!SummaryTells /\ D!EvidenceKept
  BY DEF DInv, D!DeliverySafe
<1>1. CASE D!Deliver \/ D!Kill
  <2>1. /\ at' \in {0, 1} /\ pc' = "begin" /\ step' = 1 /\ gate' = "PASS"
        /\ outcome' = [g \in D!Gates |-> Nobody] /\ reported' = {}
        /\ world' = world /\ folder' = folder /\ evidence' = evidence
        /\ summary' = Nobody
        /\ \/ at' = 1 /\ deliveries' = deliveries + 1 /\ deliveries < MaxDeliveries
           \/ at' = 0 /\ deliveries' = deliveries /\ at # 0
    BY <1>0, <1>1 DEF D!Deliver, D!Kill, FolderFits
  <2>2. DeliveryAt'
    BY <1>0, <2>1, DeliveryConstants DEF DeliveryAt, OnTheWay
  <2>3. OutcomesFit' /\ CleanSoFar' /\ EvidenceFits'
    BY <1>0, <2>1, OrderLemma DEF OutcomesFit, CleanSoFar, EvidenceFits
  <2>4. deliveries' # 0 /\ (deliveries' = 1 /\ at' = 1 => deliveries = 0)
    BY <1>0, <2>1 DEF DeliveryAt, FolderFits
  <2>5. \A w \in {"gate", "wrapper"} : \A g \in D!Gates : <<w, g>> \in D!Files
    BY DEF D!Files
  <2>6. FolderFits'
    BY <1>0, <2>1, <2>4, <2>5 DEF FolderFits
  <2>7. \A g \in D!Gates : outcome'[g] # "PASS"
    BY <2>1, DeliveryConstants DEF D!Statuses
  <2>8. D!PassIsFounded' /\ D!EvidenceKept'
    BY <2>7, OrderLemma DEF D!PassIsFounded, D!EvidenceKept
  <2>9. D!PassIsClean' /\ D!SummaryTells'
    BY <2>1 DEF D!PassIsClean, D!SummaryTells
  <2> QED
    BY <2>2, <2>3, <2>6, <2>8, <2>9 DEF DInv, D!DeliverySafe
<1>2. CASE D!Summarize
  <2>1. /\ at = 9 /\ at' = 0 /\ summary' = D!Collected /\ pc' = pc /\ step' = step /\ gate' = gate
        /\ world' = world /\ outcome' = outcome /\ folder' = folder /\ evidence' = evidence
        /\ deliveries' = deliveries /\ reported' = reported
    BY <1>2, OrderLemma DEF D!Summarize
  <2>2. pc = "begin"
    BY <1>0, <2>1 DEF DeliveryAt
  <2>3. DeliveryAt'
    BY <1>0, <2>1, <2>2 DEF DeliveryAt, OnTheWay
  <2>4. OutcomesFit' /\ CleanSoFar' /\ EvidenceFits'
    BY <1>0, <2>1, <2>2 DEF OutcomesFit, CleanSoFar, EvidenceFits
  <2>5. FolderFits'
    BY <1>0, <2>1 DEF FolderFits
  <2>6. D!PassIsFounded' /\ D!EvidenceKept'
    BY <1>0, <2>1 DEF D!PassIsFounded, D!EvidenceKept
  <2>7. D!PassIsClean'
    BY <2>1, OrderLemma DEF D!PassIsClean, D!Running
  <2>8. D!SummaryTells'
    <3> DEFINE found == {<<f[2], folder[f]>> : f \in {f \in D!Files : folder[f] # Nobody}}
               missing == {<<g, "MISSING">> : g \in {g \in D!Gates : \A r \in found : r[1] # g}}
    <3>0. D!Collected = found \cup missing
      BY DEF D!Collected
    <3>1. ASSUME NEW g \in reported
          PROVE  <<g, outcome[g]>> \in found
      <4>1. PICK w \in {"gate", "wrapper"} : folder[<<w, g>>] = outcome[g] /\ outcome[g] # Nobody
        BY <1>0 DEF FolderFits
      <4>2. <<w, g>> \in D!Files
        BY <1>0 DEF FolderFits, D!Files
      <4> QED
        BY <4>1, <4>2
    <3>2. ASSUME deliveries = 1, NEW g \in reported, NEW r \in found \cup missing, r[1] = g
          PROVE  r[2] = outcome[g]
      <4>1. CASE r \in found
        <5>1. PICK f \in D!Files : folder[f] # Nobody /\ r = <<f[2], folder[f]>>
          BY <4>1
        <5>2. PICK w \in {"gate", "wrapper"}, h \in D!Gates : f = <<w, h>>
          BY DEF D!Files
        <5>3. h = g /\ r[2] = folder[<<w, h>>]
          BY <3>2, <5>1, <5>2
        <5> QED
          BY <1>0, <2>1, <3>2, <5>1, <5>2, <5>3 DEF FolderFits
      <4>2. CASE r \in missing
        <5>1. PICK h \in D!Gates : (\A q \in found : q[1] # h) /\ r = <<h, "MISSING">>
          BY <4>2
        <5> QED
          BY <3>1, <3>2, <5>1
      <4> QED
        BY <4>1, <4>2
    <3> HIDE DEF found, missing
    <3> QED
      BY <2>1, <3>0, <3>1, <3>2 DEF D!SummaryTells
  <2> QED
    BY <2>3, <2>4, <2>5, <2>6, <2>7, <2>8 DEF DInv, D!DeliverySafe
<1> QED
  BY <1>1, <1>2

\* No step of a delivery breaks the invariant.
LEMMA DeliveryNext ==
  ASSUME DInv, D!Next \/ UNCHANGED delivery
  PROVE  DInv'
<1>1. CASE UNCHANGED delivery
  BY <1>1 DEF delivery, DInv, DeliveryAt, OutcomesFit, CleanSoFar, EvidenceFits, FolderFits,
     D!DeliverySafe, D!PassIsClean, D!PassIsFounded, D!SummaryTells, D!EvidenceKept, D!Gate,
     D!Running
<1>2. CASE D!Next
  BY <1>2, GatesEndKeep, GateKeeps, DeliveryKeeps DEF D!Next
<1> QED
  BY <1>1, <1>2

\* The steps of one part, or of none.
LEMMA GatesPart ==
  /\ RecordsInit => D!Init /\ H!Init
  /\ [RecordsNext]_<<part, dashboard, legacy, gates>> =>
       (D!Next \/ UNCHANGED delivery) /\ (H!Next \/ UNCHANGED validation)
BY DEF RecordsInit, RecordsNext, dashboard, legacy, gates

\* A gate that passed had what it needs and left nothing behind, a validation
\* passes only with every gate in a complete environment, and what is reported
\* is what it came to, for any number of deliveries, validations, kills and
\* changes of the lock file.
THEOREM GatesAreSafe == RecordsSpec => []GatesSafe
<1>1. RecordsInit => DInv /\ ValidInv
  BY GatesPart, DeliveryInit, ValidInit
<1>2. DInv /\ ValidInv /\ [RecordsNext]_<<part, dashboard, legacy, gates>> => (DInv /\ ValidInv)'
  BY GatesPart, DeliveryNext, ValidNext
<1>3. DInv /\ ValidInv => GatesSafe
  BY ValidSafe DEF DInv, GatesSafe
<1> QED
  BY <1>1, <1>2, <1>3, PTL DEF RecordsSpec

=============================================================================
