-------------------------- MODULE SegmentLifecycle --------------------------
(***************************************************************************)
(* What the K'ab ingest promises for the segments of a session, whatever   *)
(* files and processes are involved: a segment is worked on once it was    *)
(* received completely, a bounded number of times; it is announced as      *)
(* PROCESSED only when its result is published, and that is final unless   *)
(* the worker meets an I/O error; a received segment is settled one day.   *)
(***************************************************************************)
EXTENDS Naturals

CONSTANTS
  Segments,
  MaxTries,     \* transcriptions a segment may ever cost
  MaxFaults     \* bound: I/O errors of the worker

VARIABLES
  received,     \* segments with every required track
  status,       \* what GET /sessions/{id} answers for each segment
  published,    \* segments with a result
  tries,        \* transcriptions started for each segment
  faults        \* I/O errors so far

vars == <<received, status, published, tries, faults>>

Settled(s) == status[s] \in {"PROCESSED", "FAILED"}

Init ==
  /\ received = {} /\ published = {}
  /\ status = [s \in Segments |-> "NONE"]
  /\ tries = [s \in Segments |-> 0]
  /\ faults = 0

Receive(s) ==
  /\ received' = received \cup {s}
  /\ UNCHANGED <<status, published, tries, faults>>

\* Taken from the queue; a failed segment may come back to it.
Begin(s) ==
  /\ s \in received /\ status[s] # "PROCESSED"
  /\ status' = [status EXCEPT ![s] = "PROCESSING"]
  /\ UNCHANGED <<received, published, tries, faults>>

Try(s) ==
  /\ s \in received /\ status[s] # "PROCESSED"
  /\ tries[s] < MaxTries
  /\ tries' = [tries EXCEPT ![s] = @ + 1]
  /\ UNCHANGED <<received, status, published, faults>>

Publish(s) ==
  /\ s \in received /\ status[s] # "PROCESSED" /\ tries[s] > 0
  /\ published' = published \cup {s}
  /\ UNCHANGED <<received, status, tries, faults>>

Succeed(s) ==
  /\ s \in published /\ status[s] # "PROCESSED"
  /\ status' = [status EXCEPT ![s] = "PROCESSED"]
  /\ UNCHANGED <<received, published, tries, faults>>

\* Possibly before any try: crashes use up attempts too.
Fail(s) ==
  /\ s \in received /\ status[s] # "PROCESSED"
  /\ status' = [status EXCEPT ![s] = "FAILED"]
  /\ UNCHANGED <<received, published, tries, faults>>

Fault ==
  /\ faults < MaxFaults /\ faults' = faults + 1
  /\ UNCHANGED <<received, status, published, tries>>

\* An error while the transcripts are regenerated fails a segment that was
\* announced already.
Revoke(s) ==
  /\ faults > 0 /\ status[s] = "PROCESSED"
  /\ status' = [status EXCEPT ![s] = "FAILED"]
  /\ UNCHANGED <<received, published, tries, faults>>

Next ==
  \/ Fault
  \/ \E s \in Segments :
       \/ Receive(s) \/ Begin(s) \/ Try(s) \/ Publish(s)
       \/ Succeed(s) \/ Fail(s) \/ Revoke(s)

Spec == Init /\ [][Next]_vars

Settle(s) == ~Settled(s) /\ (Succeed(s) \/ Fail(s))

FairSpec == Spec /\ \A s \in Segments : WF_vars(Settle(s))
=============================================================================
