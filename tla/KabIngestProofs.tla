-------------------------- MODULE KabIngestProofs --------------------------
(***************************************************************************)
(* Theorems about KabIngest for every set of segments, tracks and offsets, *)
(* every attempt limit and every number of crashes and faults; last, that  *)
(* its steps are steps of SegmentLifecycle.                                *)
(***************************************************************************)
EXTENDS KabIngestRefinement, FiniteSetTheorems, TLAPS

(***************************************************************************)
(* The positions of the two processes are consistent: a request is in      *)
(* progress whenever the receiver is not idle, a segment is at hand        *)
(* whenever the worker is past its scan loops, and the loop it goes back   *)
(* to is the one it came from.                                             *)
(***************************************************************************)
AtSegment == {"claimed"} \cup ProcessSteps \cup FailSteps

HandlerInv ==
  /\ rpc # "idle" => req \in Requests
  /\ wpc \in AtSegment => wseg \in Segments
  /\ wpc = "recover" => wctx = "recover"
  /\ wpc \in {"drain", "claimed"} => wctx = "drain"
  /\ wpc \in ProcessSteps \cup {"regenerateFailed"} => wctx # "exhausted"

\* Type correctness, with the positions it rests on.
TypeInv == TypeOK /\ HandlerInv

\* Nothing has been received, and both processes are at rest.
LEMMA InitType == Init => TypeInv
BY ConstantsAssumption
   DEF Init, TypeInv, TypeOK, HandlerInv, AtSegment, Pairs, SegmentStates, WorkerSteps,
       ProcessSteps, FailSteps

\* The steps of complete_segment and of its marker.
LEMMA ReceiveType == TypeInv /\ Receive => TypeInv'
<1> USE ConstantsAssumption
    DEF TypeInv, TypeOK, HandlerInv, AtSegment, recvFiles, workFiles, recvVars, workVars,
        bounds, history
<1>1. ASSUME TypeInv, NEW r \in Requests, Assemble(r) PROVE TypeInv'
  BY <1>1 DEF Assemble, Pairs, Requests
<1>2. ASSUME TypeInv, RejectAssembled PROVE TypeInv'
  BY <1>2 DEF RejectAssembled, Pairs, Requests
<1>3. ASSUME TypeInv, WriteMeta PROVE TypeInv'
  BY <1>3 DEF WriteMeta, Pairs, Requests
<1>4. ASSUME TypeInv, MaybeWriteReady PROVE TypeInv'
  BY <1>4 DEF MaybeWriteReady, Requests
<1>5. QED BY <1>1, <1>2, <1>3, <1>4 DEF Receive

\* The steps of run_once: reconciliation, recovery and the claim.
LEMMA ScanType == TypeInv /\ Scan => TypeInv'
<1> USE ConstantsAssumption
    DEF TypeInv, TypeOK, HandlerInv, AtSegment, recvFiles, workFiles, recvVars, workVars,
        bounds, history, Files, WorkerSteps, ProcessSteps, FailSteps
<1>1. ASSUME TypeInv, StartPass PROVE TypeInv'
  BY <1>1 DEF StartPass
<1>2. ASSUME TypeInv, StartRecover PROVE TypeInv'
  BY <1>2 DEF StartRecover
<1>3. ASSUME TypeInv, StartDrain PROVE TypeInv'
  BY <1>3 DEF StartDrain
<1>4. ASSUME TypeInv, EndPass PROVE TypeInv'
  BY <1>4 DEF EndPass
<1>5. ASSUME TypeInv, SetProcessing PROVE TypeInv'
  BY <1>5 DEF SetProcessing, SegmentStates
<1>6. ASSUME TypeInv, NEW s \in Segments, Reconcile(s) PROVE TypeInv'
  BY <1>6 DEF Reconcile
<1>7. ASSUME TypeInv, NEW s \in Segments, RecoverProcessed(s) PROVE TypeInv'
  BY <1>7 DEF RecoverProcessed
<1>8. ASSUME TypeInv, NEW s \in Segments, RecoverExhausted(s) PROVE TypeInv'
  BY <1>8 DEF RecoverExhausted
<1>9. ASSUME TypeInv, NEW s \in Segments, RecoverRetry(s) PROVE TypeInv'
  BY <1>9 DEF RecoverRetry, AttemptsLeft
<1>10. ASSUME TypeInv, NEW s \in Segments, DrainProcessed(s) PROVE TypeInv'
  BY <1>10 DEF DrainProcessed
<1>11. ASSUME TypeInv, NEW s \in Segments, Claim(s) PROVE TypeInv'
  BY <1>11 DEF Claim
<1>12. QED
  BY <1>1, <1>2, <1>3, <1>4, <1>5, <1>6, <1>7, <1>8, <1>9, <1>10, <1>11 DEF Scan

\* The steps of _process.
LEMMA ProcessType == TypeInv /\ Process => TypeInv'
<1> USE ConstantsAssumption
    DEF TypeInv, TypeOK, HandlerInv, AtSegment, recvFiles, workFiles, recvVars, workVars,
        bounds, history, Files, WorkerSteps, ProcessSteps, FailSteps
<1>1. ASSUME TypeInv, Transcribe PROVE TypeInv'
  BY <1>1 DEF Transcribe
<1>2. ASSUME TypeInv, WriteResult PROVE TypeInv'
  BY <1>2 DEF WriteResult
<1>3. ASSUME TypeInv, SetProcessed PROVE TypeInv'
  BY <1>3 DEF SetProcessed, SegmentStates
<1>4. ASSUME TypeInv, Unmark PROVE TypeInv'
  BY <1>4 DEF Unmark
<1>5. ASSUME TypeInv, Regenerate PROVE TypeInv'
  BY <1>5 DEF Regenerate, Quotable
<1>6. QED BY <1>1, <1>2, <1>3, <1>4, <1>5 DEF Process

\* The steps of _mark_failed.
LEMMA MarkFailedType == TypeInv /\ MarkFailed => TypeInv'
<1> USE ConstantsAssumption
    DEF TypeInv, TypeOK, HandlerInv, AtSegment, recvFiles, workFiles, recvVars, workVars,
        bounds, history, Files, WorkerSteps, ProcessSteps, FailSteps
<1>1. ASSUME TypeInv, SetFailed PROVE TypeInv'
  BY <1>1 DEF SetFailed, SegmentStates
<1>2. ASSUME TypeInv, WriteFailed PROVE TypeInv'
  BY <1>2 DEF WriteFailed
<1>3. ASSUME TypeInv, UnmarkFailed PROVE TypeInv'
  BY <1>3 DEF UnmarkFailed
<1>4. QED BY <1>1, <1>2, <1>3 DEF MarkFailed

\* Exceptions and stops lose positions, and no file.
LEMMA FaultType == TypeInv /\ (WorkerFault \/ ReceiverCrash \/ WorkerCrash) => TypeInv'
BY ConstantsAssumption
   DEF TypeInv, TypeOK, HandlerInv, AtSegment, recvFiles, workFiles, recvVars, workVars, bounds,
       history, Files, WorkerSteps, ProcessSteps, FailSteps, WorkerFault,
       ReceiverCrash, WorkerCrash

\* The types are inductive.
LEMMA StepType == TypeInv /\ [Next]_vars => TypeInv'
<1>1. ASSUME TypeInv, UNCHANGED vars PROVE TypeInv'
  BY <1>1 DEF TypeInv, TypeOK, HandlerInv, AtSegment, vars, recvFiles, workFiles, recvVars,
              workVars, bounds, history
<1>2. QED
  BY <1>1, ReceiveType, ScanType, ProcessType, MarkFailedType, FaultType
     DEF Next, Work

(***************************************************************************)
(* Every file and every position keeps its type in every behaviour.        *)
(***************************************************************************)
THEOREM TypeCorrect == Spec => []TypeOK
<1>1. TypeInv => TypeOK BY DEF TypeInv
<1>2. QED BY <1>1, InitType, StepType, PTL DEF Spec

-----------------------------------------------------------------------------
(* The inductive invariant.                                                *)

\* Segments some file of the worker or a ready marker speaks of.
Queued == ready \cup result \cup {s \in Segments : proc[s] > 0}

\* Metadata is written for verified media only, and only by a request that
\* found none.
MetaInv ==
  /\ \A p \in Pairs : meta[p] # None => asm[p] = "verified"
  /\ rpc = "assembled" => meta[<<req.seg, req.trk>>] = None
  /\ rpc = "metaWritten" => meta[<<req.seg, req.trk>>] # None

\* Whatever is queued, listed or at hand is complete.
CompleteInv ==
  /\ \A s \in Queued : Complete(s)
  /\ wpc \notin {"sleep", "reconcile"} => \A s \in todo : Complete(s)
  /\ wpc \in AtSegment => Complete(wseg)

\* The order in which the worker writes its files.
OrderInv ==
  /\ ProcessedHasResult
  /\ wpc = "setProcessed" => wseg \in result
  /\ wpc = "unmark" => state[wseg] = "PROCESSED"
  /\ wpc = "unmarkFailed" => wseg \in failed

\* The segment at hand still has its processing marker and is not announced.
BeforeDone == {"claimed", "transcribe", "writeResult", "setProcessed", "setFailed"}

ClaimInv ==
  /\ wpc \in BeforeDone \ {"setFailed"} => proc[wseg] > 0
  /\ wpc \in BeforeDone /\ faults = 0 => proc[wseg] > 0 /\ state[wseg] # "PROCESSED"
  /\ faults = 0 => \A s \in done : state[s] = "PROCESSED"
  /\ FailedLeavesATrace

\* The recovery loop lists segments with a processing marker, and the segment
\* at hand has left the list.
ListInv ==
  /\ wpc \in {"sleep", "reconcile"} => wctx = "drain"
  /\ wctx # "drain" => \A s \in todo : proc[s] > 0
  /\ wpc \in AtSegment => wseg \notin todo

\* A transcription that the marker counts and that has not begun.
Pending(s) == IF wseg = s /\ wpc \in {"claimed", "transcribe"} THEN 1 ELSE 0

\* The transcriptions of earlier claims filled their budgets at most; those
\* of the claim in progress are counted by the marker.
WithinBudget(s) ==
  /\ starts[s] <= MaxAttempts * claims[s]
  /\ proc[s] > 0 =>
       starts[s] + MaxAttempts + Pending(s) <= MaxAttempts * claims[s] + proc[s]

BudgetInv == \A s \in Segments : WithinBudget(s)

IInv == TypeInv /\ MetaInv /\ CompleteInv /\ OrderInv /\ ClaimInv /\ ListInv /\ BudgetInv

-----------------------------------------------------------------------------
(* What each process leaves alone.                                         *)

\* No step of the worker touches the receiver's files or its request.
LEMMA WorkerLeavesReceiver ==
  Work \/ WorkerFault \/ WorkerCrash => UNCHANGED <<recvFiles, recvVars>>
BY DEF Work, Scan, Process, MarkFailed, WorkerFault, WorkerCrash, StartPass, StartRecover,
       StartDrain, EndPass, SetProcessing, Reconcile, RecoverProcessed, RecoverExhausted,
       RecoverRetry, DrainProcessed, Claim, Transcribe, WriteResult, SetProcessed, Unmark,
       Regenerate, SetFailed, WriteFailed, UnmarkFailed, Files, recvFiles, recvVars

\* No step of the receiver touches the worker's files or its position.
LEMMA ReceiverLeavesWorker ==
  Receive \/ ReceiverCrash =>
    /\ UNCHANGED <<workFiles, workVars, history>> /\ faults' = faults
BY DEF Receive, ReceiverCrash, Assemble, RejectAssembled, WriteMeta, MaybeWriteReady,
       bounds, workFiles, workVars, history

\* Metadata, once written, stays as it is.
LEMMA MetaStays ==
  ASSUME TypeInv, MetaInv, [Next]_vars, NEW p \in Pairs, meta[p] # None
  PROVE  meta'[p] = meta[p]
<1>1. CASE Work \/ WorkerFault \/ WorkerCrash \/ UNCHANGED vars
  BY <1>1, WorkerLeavesReceiver DEF vars, recvFiles
<1>2. CASE Receive \/ ReceiverCrash
  BY <1>2 DEF TypeInv, TypeOK, MetaInv, Receive, ReceiverCrash, Assemble, RejectAssembled,
              WriteMeta, MaybeWriteReady, recvFiles
<1>3. QED BY <1>1, <1>2 DEF Next

\* create_session fixes the required tracks.
LEMMA RequiredStay == [Next]_vars => requiredTracks' = requiredTracks
<1>1. CASE Work \/ WorkerFault \/ WorkerCrash \/ UNCHANGED vars
  BY <1>1, WorkerLeavesReceiver DEF vars, recvFiles
<1>2. CASE Receive \/ ReceiverCrash
  BY <1>2 DEF Receive, ReceiverCrash, Assemble, RejectAssembled, WriteMeta, MaybeWriteReady,
              recvFiles
<1>3. QED BY <1>1, <1>2 DEF Next

\* Hence a complete segment stays complete.
LEMMA CompleteStays ==
  ASSUME TypeInv, MetaInv, [Next]_vars, NEW s \in Segments, Complete(s)
  PROVE  Complete(s)'
<1>1. PICK o \in Offsets : \A t \in requiredTracks : meta[<<s, t>>] = o
  BY DEF Complete
<1>2. ASSUME NEW t \in requiredTracks PROVE meta'[<<s, t>>] = o
  <2>1. <<s, t>> \in Pairs BY DEF Pairs, TypeInv, TypeOK
  <2>2. meta[<<s, t>>] # None BY <1>1, ConstantsAssumption
  <2>3. QED BY <1>1, <2>1, <2>2, MetaStays
<1>3. QED BY <1>2, RequiredStay DEF Complete

-----------------------------------------------------------------------------
(* The conjuncts of IInv are preserved.                                    *)

\* An empty session satisfies every part.
LEMMA InitInv == Init => IInv
<1> SUFFICES ASSUME Init PROVE IInv OBVIOUS
<1>1. TypeInv BY InitType
<1>2. MetaInv /\ CompleteInv
  BY DEF Init, MetaInv, CompleteInv, Queued, AtSegment, ProcessSteps, FailSteps
<1>3. OrderInv /\ ClaimInv
  BY DEF Init, OrderInv, ClaimInv, ProcessedHasResult, BeforeDone, FailedLeavesATrace
<1>4. ListInv /\ BudgetInv
  BY ConstantsAssumption
     DEF Init, ListInv, BudgetInv, WithinBudget, AtSegment, ProcessSteps, FailSteps
<1>5. QED BY <1>1, <1>2, <1>3, <1>4 DEF IInv

\* Metadata is written after the verification only, and with the offset
\* that the other required tracks agree on.
LEMMA MetaStep == TypeInv /\ MetaInv /\ [Next]_vars => MetaInv'
<1> SUFFICES ASSUME TypeInv, MetaInv, [Next]_vars PROVE MetaInv' OBVIOUS
<1> USE DEF MetaInv, recvFiles, recvVars
<1>1. CASE Work \/ WorkerFault \/ WorkerCrash \/ UNCHANGED vars
  BY <1>1, WorkerLeavesReceiver DEF vars
<1>2. ASSUME NEW r \in Requests, Assemble(r) PROVE MetaInv'
  BY <1>2, ConstantsAssumption DEF Assemble, Requests, TypeInv, TypeOK
<1>3. CASE RejectAssembled
  BY <1>3 DEF RejectAssembled, TypeInv, TypeOK
<1>4. CASE WriteMeta
  BY <1>4, ConstantsAssumption DEF WriteMeta, TypeInv, TypeOK, HandlerInv, Requests, Pairs
<1>5. CASE MaybeWriteReady
  BY <1>5 DEF MaybeWriteReady
<1>6. CASE ReceiverCrash
  BY <1>6 DEF ReceiverCrash
<1>7. QED BY <1>1, <1>2, <1>3, <1>4, <1>5, <1>6 DEF Next, Receive

\* Both writers of ready markers check Complete; everything the worker does to
\* a segment starts from a marker.
LEMMA CompleteStep == TypeInv /\ MetaInv /\ CompleteInv /\ [Next]_vars => CompleteInv'
<1> SUFFICES ASSUME TypeInv, MetaInv, CompleteInv, [Next]_vars PROVE CompleteInv' OBVIOUS
<1> DEFINE Stays == \A s \in Segments : Complete(s) => Complete(s)'
<1>1. Stays BY CompleteStays
<1> HIDE DEF Stays
<1> USE DEF CompleteInv, Queued, TypeInv, TypeOK, HandlerInv, AtSegment, ProcessSteps,
            FailSteps, recvFiles, workFiles, workVars, Files
<1>2. CASE UNCHANGED vars
  BY <1>1, <1>2 DEF vars, Stays
<1>3. CASE Receive \/ ReceiverCrash
  <2>1. CASE MaybeWriteReady
    BY <1>1, <2>1 DEF MaybeWriteReady, Requests, Stays
  <2>2. ready' = ready \/ MaybeWriteReady
    BY <1>3 DEF Receive, ReceiverCrash, Assemble, RejectAssembled, WriteMeta
  <2>3. QED BY <1>1, <1>3, <2>1, <2>2, ReceiverLeavesWorker DEF Stays
<1>4. CASE StartPass \/ StartRecover \/ StartDrain \/ EndPass
  BY <1>1, <1>4 DEF StartPass, StartRecover, StartDrain, EndPass, Stays
<1>5. CASE SetProcessing
  BY <1>1, <1>5 DEF SetProcessing, Stays
<1>6. ASSUME NEW s \in Segments, Reconcile(s) PROVE CompleteInv'
  BY <1>1, <1>6 DEF Reconcile, LostItsMarker, Stays
<1>7. ASSUME NEW s \in Segments, RecoverProcessed(s) PROVE CompleteInv'
  BY <1>1, <1>7 DEF RecoverProcessed, Stays
<1>8. ASSUME NEW s \in Segments, RecoverExhausted(s) PROVE CompleteInv'
  BY <1>1, <1>8 DEF RecoverExhausted, Stays
<1>9. ASSUME NEW s \in Segments, RecoverRetry(s) PROVE CompleteInv'
  BY <1>1, <1>9 DEF RecoverRetry, Stays
<1>10. ASSUME NEW s \in Segments, DrainProcessed(s) PROVE CompleteInv'
  BY <1>1, <1>10 DEF DrainProcessed, Stays
<1>11. ASSUME NEW s \in Segments, Claim(s) PROVE CompleteInv'
  BY <1>1, <1>11 DEF Claim, Stays
<1>12. CASE Process
  <2>1. CASE Transcribe BY <1>1, <2>1 DEF Transcribe, Stays
  <2>2. CASE WriteResult BY <1>1, <2>2 DEF WriteResult, Stays
  <2>3. CASE SetProcessed BY <1>1, <2>3 DEF SetProcessed, Stays
  <2>4. CASE Unmark BY <1>1, <2>4 DEF Unmark, Stays
  <2>5. CASE Regenerate BY <1>1, <2>5 DEF Regenerate, Stays
  <2>6. QED BY <1>12, <2>1, <2>2, <2>3, <2>4, <2>5 DEF Process
<1>13. CASE MarkFailed
  <2>1. CASE SetFailed BY <1>1, <2>1 DEF SetFailed, Stays
  <2>2. CASE WriteFailed BY <1>1, <2>2 DEF WriteFailed, Stays
  <2>3. CASE UnmarkFailed BY <1>1, <2>3 DEF UnmarkFailed, Stays
  <2>4. QED BY <1>13, <2>1, <2>2, <2>3 DEF MarkFailed
<1>14. CASE WorkerFault \/ WorkerCrash
  BY <1>1, <1>14 DEF WorkerFault, WorkerCrash, Stays
<1>15. QED
  BY <1>2, <1>3, <1>4, <1>5, <1>6, <1>7, <1>8, <1>9, <1>10, <1>11, <1>12, <1>13, <1>14
     DEF Next, Work, Scan

\* Scanning announces nothing; the files of _process and _mark_failed come in
\* the order result, state, marker and state, failed, marker.
LEMMA OrderStep == TypeInv /\ OrderInv /\ [Next]_vars => OrderInv'
<1> SUFFICES ASSUME TypeInv, OrderInv, [Next]_vars PROVE OrderInv' OBVIOUS
<1> USE DEF OrderInv, ProcessedHasResult, TypeInv, TypeOK, HandlerInv, AtSegment, ProcessSteps,
            FailSteps, workFiles, workVars, Files
<1>1. CASE Receive \/ ReceiverCrash \/ UNCHANGED vars
  BY <1>1, ReceiverLeavesWorker DEF vars
<1>2. CASE Scan
  BY <1>2 DEF Scan, StartPass, StartRecover, StartDrain, EndPass, SetProcessing, Reconcile,
     RecoverProcessed, RecoverExhausted, RecoverRetry, DrainProcessed, Claim
<1>3. CASE Process
  BY <1>3 DEF Process, Transcribe, WriteResult, SetProcessed, Unmark, Regenerate, Quotable
<1>4. CASE MarkFailed
  BY <1>4 DEF MarkFailed, SetFailed, WriteFailed, UnmarkFailed
<1>5. CASE WorkerFault \/ WorkerCrash
  BY <1>5 DEF WorkerFault, WorkerCrash
<1>6. QED BY <1>1, <1>2, <1>3, <1>4, <1>5 DEF Next, Work

\* The processing marker covers the segment from its claim to the state that
\* announces it, unless a write raised after the marker was gone.
LEMMA ClaimStep == TypeInv /\ OrderInv /\ ClaimInv /\ [Next]_vars => ClaimInv'
<1> SUFFICES ASSUME TypeInv, OrderInv, ClaimInv, [Next]_vars PROVE ClaimInv' OBVIOUS
<1> USE ConstantsAssumption
    DEF ClaimInv, BeforeDone, FailedLeavesATrace, OrderInv, TypeInv, TypeOK, HandlerInv,
        AtSegment, ProcessSteps, FailSteps, workFiles, workVars, Files, bounds, history
<1>1. CASE Receive \/ ReceiverCrash \/ UNCHANGED vars
  BY <1>1, ReceiverLeavesWorker DEF vars
<1>2. CASE StartPass \/ StartRecover \/ StartDrain \/ EndPass
  BY <1>2 DEF StartPass, StartRecover, StartDrain, EndPass
<1>3. CASE SetProcessing
  BY <1>3 DEF SetProcessing
<1>4. ASSUME NEW s \in Segments, Reconcile(s) \/ DrainProcessed(s) PROVE ClaimInv'
  BY <1>4 DEF Reconcile, DrainProcessed
<1>5. ASSUME NEW s \in Segments, RecoverProcessed(s) PROVE ClaimInv'
  BY <1>5 DEF RecoverProcessed
<1>6. ASSUME NEW s \in Segments, RecoverExhausted(s) PROVE ClaimInv'
  BY <1>6 DEF RecoverExhausted, AttemptsLeft
<1>7. ASSUME NEW s \in Segments, RecoverRetry(s) PROVE ClaimInv'
  BY <1>7 DEF RecoverRetry, AttemptsLeft
<1>8. ASSUME NEW s \in Segments, Claim(s) PROVE ClaimInv'
  BY <1>8 DEF Claim, Unfinished
<1>9. CASE Process
  <2>1. CASE Transcribe BY <2>1 DEF Transcribe
  <2>2. CASE WriteResult BY <2>2 DEF WriteResult
  <2>3. CASE SetProcessed BY <2>3 DEF SetProcessed
  <2>4. CASE Unmark BY <2>4 DEF Unmark
  <2>5. CASE Regenerate BY <2>5 DEF Regenerate
  <2>6. QED BY <1>9, <2>1, <2>2, <2>3, <2>4, <2>5 DEF Process
<1>10. CASE MarkFailed
  <2>1. CASE SetFailed BY <2>1 DEF SetFailed
  <2>2. CASE WriteFailed BY <2>2 DEF WriteFailed
  <2>3. CASE UnmarkFailed BY <2>3 DEF UnmarkFailed
  <2>4. QED BY <1>10, <2>1, <2>2, <2>3 DEF MarkFailed
<1>11. CASE WorkerFault \/ WorkerCrash
  BY <1>11 DEF WorkerFault, WorkerCrash
<1>12. QED
  BY <1>1, <1>2, <1>3, <1>4, <1>5, <1>6, <1>7, <1>8, <1>9, <1>10, <1>11 DEF Next, Work, Scan

\* The lists of the scan loops only shrink while a segment is at hand.
LEMMA ListStep == TypeInv /\ ListInv /\ [Next]_vars => ListInv'
<1> SUFFICES ASSUME TypeInv, ListInv, [Next]_vars PROVE ListInv' OBVIOUS
<1> USE ConstantsAssumption
    DEF ListInv, TypeInv, TypeOK, HandlerInv, AtSegment, ProcessSteps, FailSteps,
        workFiles, workVars, Files
<1>1. CASE Receive \/ ReceiverCrash \/ UNCHANGED vars
  BY <1>1, ReceiverLeavesWorker DEF vars
<1>2. CASE StartPass \/ StartRecover \/ StartDrain \/ EndPass \/ SetProcessing
  BY <1>2 DEF StartPass, StartRecover, StartDrain, EndPass, SetProcessing
<1>3. ASSUME NEW s \in Segments, Reconcile(s) \/ DrainProcessed(s) PROVE ListInv'
  BY <1>3 DEF Reconcile, DrainProcessed
<1>4. ASSUME NEW s \in Segments, RecoverProcessed(s) PROVE ListInv'
  BY <1>4 DEF RecoverProcessed
<1>5. ASSUME NEW s \in Segments, RecoverExhausted(s) \/ RecoverRetry(s) PROVE ListInv'
  BY <1>5 DEF RecoverExhausted, RecoverRetry
<1>6. ASSUME NEW s \in Segments, Claim(s) PROVE ListInv'
  BY <1>6 DEF Claim
<1>7. CASE Process
  BY <1>7 DEF Process, Transcribe, WriteResult, SetProcessed, Unmark, Regenerate
<1>8. CASE MarkFailed
  BY <1>8 DEF MarkFailed, SetFailed, WriteFailed, UnmarkFailed
<1>9. CASE WorkerFault \/ WorkerCrash
  BY <1>9 DEF WorkerFault, WorkerCrash
<1>10. QED
  BY <1>1, <1>2, <1>3, <1>4, <1>5, <1>6, <1>7, <1>8, <1>9 DEF Next, Work, Scan

\* A claim starts a budget of MaxAttempts, of which the marker counts what is
\* used; an attempt is recorded before it is made.
LEMMA BudgetStep == TypeInv /\ ClaimInv /\ ListInv /\ BudgetInv /\ [Next]_vars => BudgetInv'
<1> SUFFICES ASSUME TypeInv, ClaimInv, ListInv, BudgetInv, [Next]_vars, NEW s \in Segments
             PROVE  WithinBudget(s)'
  BY DEF BudgetInv
<1> DEFINE Budget  == MaxAttempts * claims[s]
           Quiet   == /\ starts'[s] = starts[s] /\ claims'[s] = claims[s]
                      /\ proc'[s] \in {0, proc[s]} /\ Pending(s)' \in {0, Pending(s)}
           Retried == /\ starts'[s] = starts[s] /\ claims'[s] = claims[s]
                      /\ proc[s] > 0 /\ proc'[s] = proc[s] + 1
                      /\ Pending(s) = 0 /\ Pending(s)' = 1
           Claimed == /\ starts'[s] = starts[s] /\ claims'[s] = claims[s] + 1
                      /\ proc[s] = 0 /\ proc'[s] = 1 /\ Pending(s)' = 1
           Began   == /\ starts'[s] = starts[s] + 1 /\ claims'[s] = claims[s]
                      /\ proc[s] > 0 /\ proc'[s] = proc[s]
                      /\ Pending(s) = 1 /\ Pending(s)' = 0
<1>1. /\ starts[s] \in Nat /\ claims[s] \in Nat /\ proc[s] \in 0 .. MaxAttempts
      /\ starts[s] <= Budget
      /\ proc[s] > 0 => starts[s] + MaxAttempts + Pending(s) <= Budget + proc[s]
      /\ Pending(s) \in {0, 1} /\ MaxAttempts \in Nat \ {0}
  BY ConstantsAssumption DEF TypeInv, TypeOK, BudgetInv, WithinBudget, Pending
<1>2. Budget \in Nat /\ MaxAttempts * (claims[s] + 1) = Budget + MaxAttempts
  BY <1>1
<1>3. ASSUME Quiet \/ Retried \/ Claimed \/ Began PROVE WithinBudget(s)'
  <2>1. claims'[s] = claims[s] => MaxAttempts * claims'[s] = Budget OBVIOUS
  <2>2. Claimed => MaxAttempts * claims'[s] = Budget + MaxAttempts BY <1>2
  <2> HIDE DEF Budget
  <2>3. QED BY <1>1, <1>2, <1>3, <2>1, <2>2 DEF WithinBudget
<1> HIDE DEF Budget
<1> USE DEF TypeInv, TypeOK, HandlerInv, AtSegment, ProcessSteps, FailSteps, Pending,
            workFiles, workVars, Files, bounds, history
<1>4. CASE Receive \/ ReceiverCrash \/ UNCHANGED vars
  <2>1. Quiet BY <1>1, <1>4, ReceiverLeavesWorker DEF vars
  <2>2. QED BY <1>3, <2>1
<1>5. CASE StartPass \/ StartRecover \/ StartDrain \/ EndPass \/ SetProcessing
  <2>1. Quiet
    BY <1>1, <1>5 DEF StartPass, StartRecover, StartDrain, EndPass, SetProcessing
  <2>2. QED BY <1>3, <2>1
<1>6. ASSUME NEW x \in Segments,
             Reconcile(x) \/ DrainProcessed(x) \/ RecoverProcessed(x) \/ RecoverExhausted(x)
      PROVE  WithinBudget(s)'
  <2>1. Quiet
    BY <1>1, <1>6 DEF Reconcile, DrainProcessed, RecoverProcessed, RecoverExhausted
  <2>2. QED BY <1>3, <2>1
<1>7. ASSUME NEW x \in Segments, RecoverRetry(x) PROVE WithinBudget(s)'
  <2>1. x = s => Retried BY <1>1, <1>7 DEF RecoverRetry, ListInv
  <2>2. x # s => Quiet BY <1>1, <1>7 DEF RecoverRetry
  <2>3. QED BY <1>3, <2>1, <2>2
<1>8. ASSUME NEW x \in Segments, Claim(x) PROVE WithinBudget(s)'
  <2>1. CASE x = s /\ proc[x] = 0
    <3>1. Claimed BY <1>1, <1>8, <2>1 DEF Claim
    <3>2. QED BY <1>3, <3>1
  <2>2. CASE ~(x = s /\ proc[x] = 0)
    <3>1. Quiet BY <1>1, <1>8, <2>2 DEF Claim
    <3>2. QED BY <1>3, <3>1
  <2>3. QED BY <2>1, <2>2
<1>9. CASE Process
  <2>1. CASE Transcribe /\ wseg = s
    <3>1. Began BY <1>1, <2>1 DEF Transcribe, ClaimInv, BeforeDone
    <3>2. QED BY <1>3, <3>1
  <2>2. CASE Transcribe /\ wseg # s
    <3>1. Quiet BY <1>1, <2>2 DEF Transcribe
    <3>2. QED BY <1>3, <3>1
  <2>3. CASE WriteResult \/ SetProcessed \/ Unmark \/ Regenerate
    <3>1. Quiet
      BY <1>1, <2>3 DEF WriteResult, SetProcessed, Unmark, Regenerate
    <3>2. QED BY <1>3, <3>1
  <2>4. QED BY <1>9, <2>1, <2>2, <2>3 DEF Process
<1>10. CASE MarkFailed \/ WorkerFault \/ WorkerCrash
  <2>1. Quiet
    BY <1>1, <1>10 DEF MarkFailed, SetFailed, WriteFailed, UnmarkFailed, WorkerFault,
                       WorkerCrash
  <2>2. QED BY <1>3, <2>1
<1>11. QED
  BY <1>4, <1>5, <1>6, <1>7, <1>8, <1>9, <1>10 DEF Next, Work, Scan

\* Every conjunct together.
LEMMA StepInv == IInv /\ [Next]_vars => IInv'
BY StepType, MetaStep, CompleteStep, OrderStep, ClaimStep, ListStep, BudgetStep DEF IInv

\* The inductive invariant holds in every behaviour.
LEMMA Invariance == Spec => []IInv
BY InitInv, StepInv, PTL DEF Spec

-----------------------------------------------------------------------------
(* Theorems.                                                               *)

(***************************************************************************)
(* Only complete, verified segments are queued, worked on or have a        *)
(* result, whatever the interleaving of receiver and worker and wherever   *)
(* either of them crashes.                                                 *)
(***************************************************************************)
THEOREM QueuedAreComplete == Spec => []OnlyCompleteSegmentsAreQueued
<1>1. IInv => OnlyCompleteSegmentsAreQueued
  <2> SUFFICES ASSUME IInv, NEW s \in Queued
               PROVE  Complete(s) /\ \A t \in requiredTracks : asm[<<s, t>>] = "verified"
    BY DEF OnlyCompleteSegmentsAreQueued, Queued
  <2>1. s \in Segments /\ Complete(s)
    BY DEF IInv, TypeInv, TypeOK, CompleteInv, Queued
  <2>2. ASSUME NEW t \in requiredTracks PROVE asm[<<s, t>>] = "verified"
    <3>1. meta[<<s, t>>] # None /\ <<s, t>> \in Pairs
      BY <2>1, ConstantsAssumption DEF Complete, Pairs, IInv, TypeInv, TypeOK
    <3>2. QED BY <3>1 DEF IInv, MetaInv
  <2>3. QED BY <2>1, <2>2
<1>2. QED BY <1>1, Invariance, PTL

(***************************************************************************)
(* PROCESSED comes after the result file, and the transcripts quote result *)
(* files only.                                                             *)
(***************************************************************************)
THEOREM ResultBeforeProcessed == Spec => []ProcessedHasResult
<1>1. IInv => ProcessedHasResult BY DEF IInv, OrderInv
<1>2. QED BY <1>1, Invariance, PTL

(***************************************************************************)
(* No crash leaves a failed segment without a marker that says so or that  *)
(* makes recovery say so.                                                  *)
(***************************************************************************)
THEOREM FailedIsTraceable == Spec => []FailedLeavesATrace
<1>1. IInv => FailedLeavesATrace BY DEF IInv, ClaimInv
<1>2. QED BY <1>1, Invariance, PTL

(***************************************************************************)
(* One claim never costs more than MaxAttempts transcriptions, for any     *)
(* number of crashes.                                                      *)
(***************************************************************************)
THEOREM AttemptsBounded == Spec => []AttemptsPerClaimBounded
<1>1. IInv => AttemptsPerClaimBounded BY DEF IInv, BudgetInv, WithinBudget, AttemptsPerClaimBounded
<1>2. QED BY <1>1, Invariance, PTL

(***************************************************************************)
(* As long as no write of _process raised, a segment that reached          *)
(* PROCESSED is never transcribed again, however often the worker crashes  *)
(* and however late another ready marker arrives.                          *)
(***************************************************************************)
THEOREM ProcessedOnce == Spec => NeverProcessedTwice
<1>1. ASSUME IInv, [Next]_vars
      PROVE  [faults = 0 => \A s \in done : starts'[s] = starts[s]]_vars
  <2> SUFFICES ASSUME faults = 0, NEW s \in done PROVE starts'[s] = starts[s] OBVIOUS
  <2>1. s \in Segments /\ state[s] = "PROCESSED"
    BY <1>1 DEF IInv, TypeInv, TypeOK, ClaimInv
  <2>2. CASE Transcribe
    <3>1. wseg # s BY <1>1, <2>1, <2>2 DEF IInv, ClaimInv, BeforeDone, Transcribe
    <3>2. QED BY <1>1, <2>1, <2>2, <3>1 DEF IInv, TypeInv, TypeOK, Transcribe
  <2>3. CASE ~Transcribe
    BY <1>1, <2>3, ReceiverLeavesWorker
       DEF Next, Work, Scan, Process, MarkFailed, WorkerFault, WorkerCrash, StartPass,
           StartRecover, StartDrain, EndPass, SetProcessing, Reconcile, RecoverProcessed,
           RecoverExhausted, RecoverRetry, DrainProcessed, Claim, WriteResult, SetProcessed,
           Unmark, Regenerate, SetFailed, WriteFailed, UnmarkFailed, history, vars
  <2>4. QED BY <2>2, <2>3
<1>2. QED BY <1>1, Invariance, PTL DEF Spec, NeverProcessedTwice

-----------------------------------------------------------------------------
(* The transcriptions a segment may ever cost, and with them the safety    *)
(* part of the refinement of SegmentLifecycle.                             *)

(***************************************************************************)
(* A ready marker is written by the receiver, once the metadata of a track *)
(* is there, or by the reconciliation, which only finds a segment nobody   *)
(* claimed.  What the receiver wrote, or lost the chance to write, is      *)
(* counted by the metadata files.                                          *)
(***************************************************************************)

\* The metadata is there and the handler that wrote it is past the marker.
Answered(s, t) ==
  meta[<<s, t>>] # None /\ ~(rpc = "metaWritten" /\ req.seg = s /\ req.trk = t)

OptionalAnswered(s) == {t \in Tracks \ requiredTracks : Answered(s, t)}

RequiredAnswered(s) == \A t \in requiredTracks : Answered(s, t)

\* Markers the receiver may have written for the segment.
Marks(s) == Cardinality(OptionalAnswered(s)) + (IF RequiredAnswered(s) THEN 1 ELSE 0)

\* Markers that were written and claimed, or wait to be.
Written(s) == claims[s] + (IF s \in ready THEN 1 ELSE 0)

MarkInv ==
  /\ \A s \in Segments : Written(s) <= 1 + Marks(s)
  /\ \A s \in Segments : claims[s] > 0 /\ state[s] = "NONE" => proc[s] > 0
  /\ wctx = "drain" /\ wpc \notin {"sleep", "reconcile"} => todo \subseteq ready
  /\ wpc \in {"unmark", "unmarkFailed"} => state[wseg] # "NONE"
  /\ wpc = "writeFailed" => state[wseg] # "NONE"

-----------------------------------------------------------------------------

\* The optional tracks that were answered can be counted.
LEMMA MarksType ==
  ASSUME TypeInv, NEW s \in Segments
  PROVE  /\ Cardinality(OptionalAnswered(s)) \in Nat
         /\ Cardinality(OptionalAnswered(s)) <= Cardinality(Tracks \ requiredTracks)
         /\ Cardinality(Tracks \ requiredTracks) \in Nat
         /\ IsFiniteSet(OptionalAnswered(s))
<1>1. IsFiniteSet(Tracks \ requiredTracks)
  BY ConstantsAssumption, FS_Difference
<1>2. OptionalAnswered(s) \subseteq Tracks \ requiredTracks
  BY DEF OptionalAnswered
<1>3. QED
  BY <1>1, <1>2, FS_Subset, FS_CardinalityType

\* Metadata stays, and the handler is at a track's marker only once.
LEMMA AnsweredStays ==
  ASSUME TypeInv, MetaInv, [Next]_vars, NEW s \in Segments, NEW t \in Tracks, Answered(s, t)
  PROVE  Answered(s, t)'
<1>1. <<s, t>> \in Pairs /\ meta[<<s, t>>] # None
  BY DEF Pairs, Answered
<1>2. meta'[<<s, t>>] = meta[<<s, t>>]
  BY <1>1, MetaStays
<1>3. CASE Work \/ WorkerFault \/ WorkerCrash \/ UNCHANGED vars
  BY <1>1, <1>2, <1>3, WorkerLeavesReceiver DEF Answered, vars, recvVars
<1>4. CASE Receive \/ ReceiverCrash
  BY <1>1, <1>2, <1>4
     DEF Answered, Receive, ReceiverCrash, Assemble, RejectAssembled, WriteMeta,
         MaybeWriteReady, MetaInv
<1>5. QED BY <1>3, <1>4 DEF Next

\* Hence the receiver's share does not shrink.
LEMMA MarksGrow ==
  ASSUME TypeInv, TypeInv', MetaInv, [Next]_vars, NEW s \in Segments
  PROVE  /\ Marks(s) \in Nat /\ Marks(s)' \in Nat
         /\ Marks(s) <= Marks(s)'
<1>1. requiredTracks' = requiredTracks /\ requiredTracks \subseteq Tracks
  BY RequiredStay DEF TypeInv, TypeOK
<1>2. OptionalAnswered(s) \subseteq OptionalAnswered(s)'
  BY <1>1, AnsweredStays DEF OptionalAnswered
<1>3. RequiredAnswered(s) => RequiredAnswered(s)'
  BY <1>1, AnsweredStays DEF RequiredAnswered
<1>4. /\ Cardinality(OptionalAnswered(s)) \in Nat
      /\ Cardinality(OptionalAnswered(s)') \in Nat
      /\ IsFiniteSet(OptionalAnswered(s)')
  <2>1. Cardinality(OptionalAnswered(s)) \in Nat BY MarksType
  <2>2. IsFiniteSet(OptionalAnswered(s)')
    <3>1. IsFiniteSet(Tracks \ requiredTracks)
      BY ConstantsAssumption, FS_Difference
    <3>2. OptionalAnswered(s)' \subseteq Tracks \ requiredTracks
      BY <1>1 DEF OptionalAnswered
    <3>3. QED BY <3>1, <3>2, FS_Subset
  <2>3. QED BY <2>1, <2>2, FS_CardinalityType
<1>5. Cardinality(OptionalAnswered(s)) <= Cardinality(OptionalAnswered(s)')
  BY <1>2, <1>4, FS_Subset
<1>6. QED
  BY <1>3, <1>4, <1>5 DEF Marks

\* When the handler of a complete segment reaches the marker, its share grows:
\* the track was not counted before.
LEMMA MarkerCounts ==
  ASSUME TypeInv, TypeInv', MetaInv, MaybeWriteReady,
         NEW CONSTANT s, req.seg = s, Complete(s)
  PROVE  Marks(s)' >= Marks(s) + 1
<1>0. PICK t : t = req.trk OBVIOUS
<1>1. /\ s \in Segments /\ t \in Tracks /\ rpc = "metaWritten"
      /\ meta' = meta /\ rpc' = "idle" /\ requiredTracks' = requiredTracks
      /\ requiredTracks \subseteq Tracks
  BY <1>0 DEF MaybeWriteReady, TypeInv, TypeOK, HandlerInv, Requests, recvFiles
<1>2. ~Answered(s, t)
  BY <1>0, <1>1 DEF Answered
<1>3. \A u \in Tracks : Answered(s, u)' <=> meta[<<s, u>>] # None
  BY <1>1 DEF Answered
<1>4. RequiredAnswered(s)'
  BY <1>1, <1>3, ConstantsAssumption DEF RequiredAnswered, Complete
<1>5. OptionalAnswered(s) \subseteq OptionalAnswered(s)'
  BY <1>1, <1>3 DEF OptionalAnswered, Answered
<1>6. /\ Cardinality(OptionalAnswered(s)) \in Nat
      /\ Cardinality(OptionalAnswered(s)') \in Nat
      /\ IsFiniteSet(OptionalAnswered(s)')
  <2>1. Cardinality(OptionalAnswered(s)) \in Nat BY <1>1, MarksType
  <2>2. IsFiniteSet(Tracks \ requiredTracks) BY ConstantsAssumption, FS_Difference
  <2>3. OptionalAnswered(s)' \subseteq Tracks \ requiredTracks BY <1>1 DEF OptionalAnswered
  <2>4. IsFiniteSet(OptionalAnswered(s)') BY <2>2, <2>3, FS_Subset
  <2>5. QED BY <2>1, <2>4, FS_CardinalityType
<1>7. /\ Cardinality(OptionalAnswered(s)) <= Cardinality(OptionalAnswered(s)')
      /\ Cardinality(OptionalAnswered(s)) = Cardinality(OptionalAnswered(s)')
           => OptionalAnswered(s) = OptionalAnswered(s)'
  BY <1>5, <1>6, FS_Subset
<1>8. Marks(s)' = Cardinality(OptionalAnswered(s)') + 1
  BY <1>4 DEF Marks
<1>9. CASE t \in requiredTracks
  <2>1. ~RequiredAnswered(s) BY <1>2, <1>9 DEF RequiredAnswered
  <2>2. QED BY <1>6, <1>7, <1>8, <2>1 DEF Marks
<1>10. CASE t \notin requiredTracks
  <2>1. t \in OptionalAnswered(s)' /\ t \notin OptionalAnswered(s)
    BY <1>0, <1>1, <1>2, <1>3, <1>10 DEF OptionalAnswered, MetaInv
  <2>2. QED BY <1>6, <1>7, <1>8, <2>1 DEF Marks
<1>11. QED BY <1>9, <1>10

-----------------------------------------------------------------------------
(* MarkInv is inductive.                                                   *)

\* Nothing is marked, and the receiver has all of its marks left.
LEMMA InitMark == Init => MarkInv
<1> SUFFICES ASSUME Init PROVE MarkInv OBVIOUS
<1>1. TypeInv BY InitType
<1>2. ASSUME NEW s \in Segments PROVE Written(s) <= 1 + Marks(s)
  <2>1. Cardinality(OptionalAnswered(s)) \in Nat BY <1>1, MarksType
  <2>2. Written(s) = 0 BY DEF Init, Written
  <2>3. QED BY <2>1, <2>2 DEF Marks
<1>3. QED BY <1>2 DEF Init, MarkInv

\* The files and positions MarkInv speaks of, besides the markers written.
PositionInv ==
  /\ \A s \in Segments : claims[s] > 0 /\ state[s] = "NONE" => proc[s] > 0
  /\ wctx = "drain" /\ wpc \notin {"sleep", "reconcile"} => todo \subseteq ready
  /\ wpc \in {"unmark", "unmarkFailed"} => state[wseg] # "NONE"
  /\ wpc = "writeFailed" => state[wseg] # "NONE"

\* A claimed segment keeps a marker or a state, wherever the worker is.
LEMMA PositionStep == TypeInv /\ PositionInv /\ [Next]_vars => PositionInv'
<1> SUFFICES ASSUME TypeInv, PositionInv, [Next]_vars PROVE PositionInv' OBVIOUS
<1> USE ConstantsAssumption
    DEF PositionInv, TypeInv, TypeOK, HandlerInv, AtSegment, ProcessSteps, FailSteps,
        workFiles, workVars, Files, bounds, history
<1>1. CASE Receive \/ ReceiverCrash \/ UNCHANGED vars
  <2>1. ready \subseteq ready' BY <1>1 DEF Receive, ReceiverCrash, Assemble, RejectAssembled,
                                        WriteMeta, MaybeWriteReady, vars
  <2>2. QED BY <1>1, <2>1, ReceiverLeavesWorker DEF vars
<1>2. CASE StartPass \/ StartRecover \/ StartDrain \/ EndPass
  BY <1>2 DEF StartPass, StartRecover, StartDrain, EndPass
<1>3. CASE SetProcessing
  BY <1>3 DEF SetProcessing
<1>4. ASSUME NEW s \in Segments, Reconcile(s) \/ DrainProcessed(s) PROVE PositionInv'
  BY <1>4 DEF Reconcile, DrainProcessed
<1>5. ASSUME NEW s \in Segments, RecoverProcessed(s) PROVE PositionInv'
  BY <1>5 DEF RecoverProcessed
<1>6. ASSUME NEW s \in Segments, RecoverExhausted(s) PROVE PositionInv'
  BY <1>6 DEF RecoverExhausted
<1>7. ASSUME NEW s \in Segments, RecoverRetry(s) PROVE PositionInv'
  BY <1>7 DEF RecoverRetry, AttemptsLeft
<1>8. ASSUME NEW s \in Segments, Claim(s) PROVE PositionInv'
  BY <1>8 DEF Claim
<1>9. CASE Process
  <2>1. CASE Transcribe BY <2>1 DEF Transcribe
  <2>2. CASE WriteResult BY <2>2 DEF WriteResult
  <2>3. CASE SetProcessed BY <2>3 DEF SetProcessed
  <2>4. CASE Unmark BY <2>4 DEF Unmark
  <2>5. CASE Regenerate BY <2>5 DEF Regenerate
  <2>6. QED BY <1>9, <2>1, <2>2, <2>3, <2>4, <2>5 DEF Process
<1>10. CASE MarkFailed
  <2>1. CASE SetFailed BY <2>1 DEF SetFailed
  <2>2. CASE WriteFailed BY <2>2 DEF WriteFailed
  <2>3. CASE UnmarkFailed BY <2>3 DEF UnmarkFailed
  <2>4. QED BY <1>10, <2>1, <2>2, <2>3 DEF MarkFailed
<1>11. CASE WorkerFault \/ WorkerCrash
  BY <1>11 DEF WorkerFault, WorkerCrash
<1>12. QED
  BY <1>1, <1>2, <1>3, <1>4, <1>5, <1>6, <1>7, <1>8, <1>9, <1>10, <1>11 DEF Next, Work, Scan

\* Only the receiver's marker and the reconciliation add to what is written, the
\* latter for a segment without a marker so far.
LEMMA WrittenStep ==
  ASSUME IInv, PositionInv, [Next]_vars, NEW s \in Segments, Written(s) <= 1 + Marks(s)
  PROVE  Written(s)' <= 1 + Marks(s)'
<1>1. TypeInv /\ TypeInv' /\ MetaInv
  BY StepType DEF IInv
<1>2. Marks(s) \in Nat /\ Marks(s)' \in Nat /\ Marks(s) <= Marks(s)'
  BY <1>1, MarksGrow
<1>3. claims[s] \in Nat /\ Written(s) \in Nat
  BY <1>1 DEF TypeInv, TypeOK, Written
<1>4. ASSUME Written(s)' \in Nat, Written(s)' <= Written(s) PROVE Written(s)' <= 1 + Marks(s)'
  BY <1>2, <1>3, <1>4
<1> USE DEF Written, TypeInv, TypeOK, HandlerInv, AtSegment, ProcessSteps, FailSteps,
            workFiles, workVars, Files, bounds, history
<1>5. CASE MaybeWriteReady
  <2>1. claims' = claims BY <1>5 DEF MaybeWriteReady
  <2>2. CASE s = req.seg /\ Complete(s)
    <3>1. Marks(s)' >= Marks(s) + 1
      BY <1>1, <1>5, <2>2, MarkerCounts
    <3>2. Written(s)' \in Nat /\ Written(s)' <= Written(s) + 1
      BY <1>3, <2>1
    <3> HIDE DEF Written
    <3>3. QED BY <1>2, <1>3, <3>1, <3>2
  <2>3. CASE ~(s = req.seg /\ Complete(s))
    <3>1. s \in ready' <=> s \in ready BY <1>5, <2>3 DEF MaybeWriteReady
    <3>2. QED BY <1>3, <1>4, <2>1, <3>1
  <2>4. QED BY <2>2, <2>3
<1>6. CASE Assemble(req') \/ RejectAssembled \/ WriteMeta \/ ReceiverCrash \/ UNCHANGED vars
  <2>1. claims' = claims /\ ready' = ready
    BY <1>6 DEF Assemble, RejectAssembled, WriteMeta, ReceiverCrash, vars
  <2>2. QED BY <1>3, <1>4, <2>1
<1>7. ASSUME NEW x \in Segments, Reconcile(x) PROVE Written(s)' <= 1 + Marks(s)'
  <2>1. claims' = claims BY <1>7 DEF Reconcile
  <2>2. CASE s = x /\ LostItsMarker(x)
    <3>1. claims[s] = 0 BY <1>1, <1>3, <2>2 DEF LostItsMarker, PositionInv
    <3>2. ready' = ready \cup {s} BY <1>7, <2>2 DEF Reconcile
    <3>3. Written(s)' = 1 BY <2>1, <3>1, <3>2
    <3> HIDE DEF Written
    <3>4. QED BY <1>2, <3>3
  <2>3. CASE ~(s = x /\ LostItsMarker(x))
    <3>1. s \in ready' <=> s \in ready BY <1>7, <2>3 DEF Reconcile
    <3>2. QED BY <1>3, <1>4, <2>1, <3>1
  <2>4. QED BY <2>2, <2>3
<1>8. ASSUME NEW x \in Segments, Claim(x) PROVE Written(s)' <= 1 + Marks(s)'
  <2>1. x \in ready BY <1>1, <1>8 DEF Claim, PositionInv
  <2>2. CASE x = s /\ proc[x] = 0
    <3>1. claims'[s] = claims[s] + 1 /\ s \notin ready'
      BY <1>1, <1>8, <2>2 DEF Claim
    <3>2. Written(s)' = Written(s) BY <1>3, <2>1, <2>2, <3>1
    <3>3. QED BY <1>3, <1>4, <3>2
  <2>3. CASE ~(x = s /\ proc[x] = 0)
    <3>1. claims'[s] = claims[s] /\ (s \in ready' <=> s \in ready)
      BY <1>1, <1>8, <2>3 DEF Claim
    <3>2. QED BY <1>3, <1>4, <3>1
  <2>4. QED BY <2>2, <2>3
<1>9. ASSUME NEW x \in Segments,
             \/ RecoverProcessed(x) \/ RecoverExhausted(x) \/ RecoverRetry(x) \/ DrainProcessed(x)
      PROVE  Written(s)' <= 1 + Marks(s)'
  <2>1. claims' = claims /\ ready' \subseteq ready
    BY <1>9 DEF RecoverProcessed, RecoverExhausted, RecoverRetry, DrainProcessed
  <2>2. QED BY <1>3, <1>4, <2>1
<1>10. CASE \/ StartPass \/ StartRecover \/ StartDrain \/ EndPass \/ SetProcessing
            \/ Process \/ MarkFailed \/ WorkerFault \/ WorkerCrash
  <2>1. claims' = claims /\ ready' = ready
    BY <1>10
       DEF StartPass, StartRecover, StartDrain, EndPass, SetProcessing, Process, Transcribe,
           WriteResult, SetProcessed, Unmark, Regenerate, MarkFailed, SetFailed, WriteFailed,
           UnmarkFailed, WorkerFault, WorkerCrash
  <2>2. QED BY <1>3, <1>4, <2>1
<1>11. (\E r \in Requests : Assemble(r)) => Assemble(req')
  BY DEF Assemble
<1>12. QED
  BY <1>5, <1>6, <1>7, <1>8, <1>9, <1>10, <1>11 DEF Next, Receive, Work, Scan

\* No step writes a ready marker beyond the marks there are.
LEMMA MarkStep == IInv /\ MarkInv /\ [Next]_vars => MarkInv'
<1>1. IInv => TypeInv BY DEF IInv
<1>2. MarkInv <=> PositionInv /\ \A s \in Segments : Written(s) <= 1 + Marks(s)
  BY DEF MarkInv, PositionInv
<1>3. MarkInv' <=> PositionInv' /\ \A s \in Segments : Written(s)' <= 1 + Marks(s)'
  BY DEF MarkInv, PositionInv
<1>4. QED BY <1>1, <1>2, <1>3, PositionStep, WrittenStep

\* Both invariants hold in every behaviour.
LEMMA MarkInvariance == Spec => [](IInv /\ MarkInv)
BY InitInv, StepInv, InitMark, MarkStep, PTL DEF Spec

-----------------------------------------------------------------------------

\* The receiver's share is at most one marker for the required tracks and one for
\* each other track.
LEMMA ClaimsBounded ==
  ASSUME IInv, MarkInv, NEW s \in Segments
  PROVE  claims[s] <= 2 + Cardinality(Tracks \ requiredTracks)
<1>1. TypeInv /\ claims[s] \in Nat
  BY DEF IInv, TypeInv, TypeOK
<1>2. Marks(s) <= 1 + Cardinality(Tracks \ requiredTracks) /\ Marks(s) \in Nat
  BY <1>1, MarksType DEF Marks
<1>3. claims[s] <= 1 + Marks(s)
  BY <1>1, <1>2 DEF MarkInv, Written
<1>4. QED
  BY <1>1, <1>2, <1>3, MarksType

\* More claims allow more transcriptions.
LEMMA TimesMonotone ==
  ASSUME NEW a \in Nat, NEW b \in Nat, NEW c \in Nat, b <= c
  PROVE  a * b \in Nat /\ a * c \in Nat /\ a * b <= a * c
OBVIOUS

(***************************************************************************)
(* "No infinite retry loop": whatever the receiver and the reconciliation  *)
(* write, and wherever either process crashes, the transcriptions of a     *)
(* segment are bounded.                                                    *)
(***************************************************************************)
THEOREM RetriesBounded == Spec => []TotalAttemptsBounded
<1>1. ASSUME IInv, MarkInv PROVE TotalAttemptsBounded
  <2> SUFFICES ASSUME NEW s \in Segments
               PROVE  starts[s] <= MaxAttempts * (2 + Cardinality(Tracks \ requiredTracks))
    BY DEF TotalAttemptsBounded
  <2> DEFINE n == 2 + Cardinality(Tracks \ requiredTracks)
  <2>1. /\ starts[s] \in Nat /\ claims[s] \in Nat /\ MaxAttempts \in Nat
        /\ starts[s] <= MaxAttempts * claims[s]
    BY <1>1, ConstantsAssumption DEF IInv, TypeInv, TypeOK, BudgetInv, WithinBudget
  <2>2. n \in Nat /\ claims[s] <= n
    BY <1>1, MarksType, ClaimsBounded DEF IInv
  <2> HIDE DEF n
  <2>3. MaxAttempts * claims[s] \in Nat /\ MaxAttempts * n \in Nat
        /\ MaxAttempts * claims[s] <= MaxAttempts * n
    BY <2>1, <2>2, TimesMonotone
  <2>4. starts[s] <= MaxAttempts * n BY <2>1, <2>3
  <2>5. QED BY <2>4 DEF n
<1>2. QED BY <1>1, MarkInvariance, PTL

(***************************************************************************)
(* Everything the run checks of every segment at every moment: what is     *)
(* queued is complete, results precede PROCESSED, failures leave a trace   *)
(* and attempts are bounded.                                               *)
(***************************************************************************)
THEOREM SegmentsAreSafe == Spec => []SegmentSafe
<1>1. /\ OnlyCompleteSegmentsAreQueued /\ ProcessedHasResult /\ FailedLeavesATrace
      /\ AttemptsPerClaimBounded /\ TotalAttemptsBounded
      => SegmentSafe
  BY DEF SegmentSafe
<1>2. QED
  BY <1>1, QueuedAreComplete, ResultBeforeProcessed, FailedIsTraceable, AttemptsBounded,
     RetriesBounded, PTL

-----------------------------------------------------------------------------
(* The refinement.                                                         *)

\* A segment at hand is not announced, and its result comes after a try.
UnannouncedInv ==
  /\ wpc \in {"claimed", "transcribe", "writeResult", "setProcessed"} =>
       state[wseg] # "PROCESSED"
  /\ wpc \in {"writeResult", "setProcessed"} => starts[wseg] > 0

\* What the worker transcribes was claimed by it, and announced by nobody.
LEMMA UnannouncedStep == TypeInv /\ UnannouncedInv /\ [Next]_vars => UnannouncedInv'
<1> SUFFICES ASSUME TypeInv, UnannouncedInv, [Next]_vars PROVE UnannouncedInv' OBVIOUS
<1> USE DEF UnannouncedInv, TypeInv, TypeOK, HandlerInv, AtSegment, ProcessSteps, FailSteps,
            workFiles, workVars, Files, bounds, history
<1>1. CASE Receive \/ ReceiverCrash \/ UNCHANGED vars
  BY <1>1, ReceiverLeavesWorker DEF vars
<1>2. CASE StartPass \/ StartRecover \/ StartDrain \/ EndPass \/ SetProcessing
  BY <1>2 DEF StartPass, StartRecover, StartDrain, EndPass, SetProcessing
<1>3. ASSUME NEW s \in Segments,
             \/ Reconcile(s) \/ RecoverProcessed(s) \/ RecoverExhausted(s)
             \/ RecoverRetry(s) \/ DrainProcessed(s)
      PROVE  UnannouncedInv'
  BY <1>3 DEF Reconcile, RecoverProcessed, RecoverExhausted, RecoverRetry, DrainProcessed
<1>4. ASSUME NEW s \in Segments, Claim(s) PROVE UnannouncedInv'
  BY <1>4 DEF Claim, Unfinished
<1>5. CASE Process
  BY <1>5 DEF Process, Transcribe, WriteResult, SetProcessed, Unmark, Regenerate
<1>6. CASE MarkFailed \/ WorkerFault \/ WorkerCrash
  BY <1>6 DEF MarkFailed, SetFailed, WriteFailed, UnmarkFailed, WorkerFault, WorkerCrash
<1>7. QED BY <1>1, <1>2, <1>3, <1>4, <1>5, <1>6 DEF Next, Work, Scan

\* One track at least is not optional, and the attempt about to begin is in the
\* budget of a claim.
LEMMA TriesLeft ==
  ASSUME IInv, MarkInv, wpc = "transcribe"
  PROVE  starts[wseg] < MaxAttempts * (1 + Cardinality(Tracks))
<1>1. /\ wseg \in Segments /\ proc[wseg] > 0 /\ Pending(wseg) = 1
      /\ proc[wseg] \in 0 .. MaxAttempts
      /\ starts[wseg] \in Nat /\ claims[wseg] \in Nat /\ MaxAttempts \in Nat
  BY ConstantsAssumption
     DEF IInv, TypeInv, TypeOK, HandlerInv, AtSegment, ProcessSteps, ClaimInv, BeforeDone, Pending
<1>2. /\ Cardinality(Tracks) \in Nat /\ Cardinality(Tracks \ requiredTracks) \in Nat
      /\ Cardinality(Tracks \ requiredTracks) <= Cardinality(Tracks)
      /\ Cardinality(Tracks \ requiredTracks) # Cardinality(Tracks)
  <2>1. Tracks \ requiredTracks \in SUBSET Tracks /\ Tracks \ requiredTracks # Tracks
    BY DEF IInv, TypeInv, TypeOK
  <2>2. QED BY <2>1, ConstantsAssumption, FS_Subset, FS_CardinalityType
<1>3. claims[wseg] <= 2 + Cardinality(Tracks \ requiredTracks)
  BY <1>1, ClaimsBounded
<1> DEFINE n == 1 + Cardinality(Tracks)
           b == MaxAttempts * claims[wseg]
<1>4. n \in Nat /\ claims[wseg] <= n BY <1>1, <1>2, <1>3
<1> HIDE DEF n
<1>5. b \in Nat /\ MaxAttempts * n \in Nat /\ b <= MaxAttempts * n
  BY <1>1, <1>4, TimesMonotone
<1>6. starts[wseg] + MaxAttempts + 1 <= b + proc[wseg]
  BY <1>1 DEF IInv, BudgetInv, WithinBudget
<1> HIDE DEF b
<1>7. starts[wseg] < MaxAttempts * n BY <1>1, <1>5, <1>6
<1>8. QED BY <1>7 DEF n

\* Steps that change no file the abstract specification knows.
LEMMA Stutters ==
  ASSUME UNCHANGED <<requiredTracks, meta, state, result, starts, faults>>
  PROVE  UNCHANGED Lifecycle!vars
BY DEF Lifecycle!vars, Complete

\* Every step of receiver and worker is a step of the lifecycle, or stutters.
LEMMA StepRefines ==
  ASSUME IInv, MarkInv, UnannouncedInv, [Next]_vars
  PROVE  [Lifecycle!Next]_(Lifecycle!vars)
<1> USE DEF IInv, TypeInv, TypeOK, HandlerInv, AtSegment, ProcessSteps, FailSteps
<1> DEFINE received == {s \in Segments : Complete(s)}
<1>0. requiredTracks' = requiredTracks BY RequiredStay
<1>1. CASE WriteMeta
  <2>1. req.seg \in Segments BY <1>1 DEF WriteMeta, Requests
  <2>2. \A s \in Segments \ {req.seg} : Complete(s)' <=> Complete(s)
    BY <1>0, <1>1 DEF WriteMeta, Complete, Pairs, Requests
  <2>3. \A s \in Segments : Complete(s) => Complete(s)'
    BY CompleteStays
  <2>4. received' = received \cup {req.seg} \/ received' = received
    BY <2>1, <2>2, <2>3
  <2>5. UNCHANGED <<state, result, starts, faults>>
    BY <1>1 DEF WriteMeta, workFiles, bounds, history
  <2>6. CASE received' = received \cup {req.seg}
    <3>1. Lifecycle!Receive(req.seg) BY <2>5, <2>6 DEF Lifecycle!Receive
    <3>2. QED BY <2>1, <3>1 DEF Lifecycle!Next
  <2>7. CASE received' = received
    BY <2>5, <2>7 DEF Lifecycle!vars
  <2>8. QED BY <2>4, <2>6, <2>7
<1>2. CASE \/ \E r \in Requests : Assemble(r)
           \/ RejectAssembled \/ MaybeWriteReady \/ ReceiverCrash \/ UNCHANGED vars
  BY <1>0, <1>2, Stutters
     DEF Assemble, RejectAssembled, MaybeWriteReady, ReceiverCrash, vars, recvFiles, workFiles,
         bounds, history
<1>3. CASE \/ StartPass \/ StartRecover \/ StartDrain \/ EndPass
           \/ Unmark \/ Regenerate \/ WriteFailed \/ UnmarkFailed \/ WorkerCrash
           \/ \E s \in Segments : \/ Reconcile(s) \/ RecoverProcessed(s) \/ RecoverExhausted(s)
                                  \/ RecoverRetry(s) \/ DrainProcessed(s) \/ Claim(s)
  BY <1>3, Stutters
     DEF StartPass, StartRecover, StartDrain, EndPass, Unmark, Regenerate, WriteFailed,
         UnmarkFailed, WorkerCrash, Reconcile, RecoverProcessed, RecoverExhausted, RecoverRetry,
         DrainProcessed, Claim, Files, recvFiles, workFiles, bounds, history
<1>4. ASSUME wpc \in AtSegment PROVE wseg \in Segments /\ wseg \in received
  BY <1>4 DEF CompleteInv
<1>5. ASSUME UNCHANGED recvFiles PROVE received' = received
  BY <1>5 DEF recvFiles, Complete
<1>6. CASE SetProcessing
  <2>1. Lifecycle!Begin(wseg)
    BY <1>4, <1>5, <1>6 DEF SetProcessing, Lifecycle!Begin, UnannouncedInv, bounds, history
  <2>2. QED BY <1>4, <1>6, <2>1 DEF SetProcessing, Lifecycle!Next
<1>7. CASE Transcribe
  <2>1. /\ starts' = [starts EXCEPT ![wseg] = @ + 1]
        /\ UNCHANGED <<recvFiles, state, result, faults>>
        /\ wpc = "transcribe" /\ starts[wseg] \in Nat
    BY <1>4, <1>7 DEF Transcribe, Files, workFiles, bounds
  <2>2. starts[wseg] < MaxAttempts * (1 + Cardinality(Tracks))
    BY <2>1, TriesLeft
  <2>3. Lifecycle!Try(wseg)
    BY <1>4, <1>5, <2>1, <2>2 DEF Lifecycle!Try, UnannouncedInv
  <2>4. QED BY <1>4, <2>1, <2>3 DEF Lifecycle!Next
<1>8. CASE WriteResult
  <2>1. Lifecycle!Publish(wseg)
    BY <1>4, <1>5, <1>8 DEF WriteResult, Lifecycle!Publish, UnannouncedInv, bounds, history
  <2>2. QED BY <1>4, <1>8, <2>1 DEF WriteResult, Lifecycle!Next
<1>9. CASE SetProcessed
  <2>1. Lifecycle!Succeed(wseg)
    BY <1>4, <1>5, <1>9
       DEF SetProcessed, Lifecycle!Succeed, UnannouncedInv, OrderInv, bounds
  <2>2. QED BY <1>4, <1>9, <2>1 DEF SetProcessed, Lifecycle!Next
<1>10. CASE SetFailed
  <2>1. /\ state' = [state EXCEPT ![wseg] = "FAILED"] /\ wpc = "setFailed"
        /\ UNCHANGED <<recvFiles, result, starts, faults>>
    BY <1>10 DEF SetFailed, bounds, history
  <2>2. CASE state[wseg] = "PROCESSED"
    <3>1. faults > 0 BY <2>1, <2>2 DEF ClaimInv, BeforeDone
    <3>2. Lifecycle!Revoke(wseg) BY <1>5, <2>1, <2>2, <3>1 DEF Lifecycle!Revoke
    <3>3. QED BY <1>4, <2>1, <3>2 DEF Lifecycle!Next
  <2>3. CASE state[wseg] # "PROCESSED"
    <3>1. Lifecycle!Fail(wseg) BY <1>4, <1>5, <2>1, <2>3 DEF Lifecycle!Fail
    <3>2. QED BY <1>4, <2>1, <3>1 DEF Lifecycle!Next
  <2>4. QED BY <2>2, <2>3
<1>11. CASE WorkerFault
  <2>1. Lifecycle!Fault
    BY <1>5, <1>11 DEF WorkerFault, Lifecycle!Fault, Files, workFiles, history
  <2>2. QED BY <2>1 DEF Lifecycle!Next
<1>12. QED
  BY <1>1, <1>2, <1>3, <1>6, <1>7, <1>8, <1>9, <1>10, <1>11
     DEF Next, Receive, Work, Scan, Process, MarkFailed

(***************************************************************************)
(* The files of receiver and worker implement the lifecycle's safety part: *)
(* work on complete segments only, bounded tries, PROCESSED after the      *)
(* result and final but for I/O errors, whatever crashes.                  *)
(***************************************************************************)
THEOREM SafelyImplementsLifecycle == Spec => Lifecycle!Spec
<1>1. Init => Lifecycle!Init
  <2> SUFFICES ASSUME Init PROVE Lifecycle!Init OBVIOUS
  <2>1. ASSUME NEW s \in Segments PROVE ~Complete(s)
    <3>1. PICK t \in requiredTracks : <<s, t>> \in Pairs BY DEF Init, Pairs
    <3>2. meta[<<s, t>>] = None BY <3>1 DEF Init
    <3>3. QED BY <3>1, <3>2, ConstantsAssumption DEF Complete
  <2>2. QED BY <2>1 DEF Init, Lifecycle!Init
<1>2. Init => UnannouncedInv BY DEF Init, UnannouncedInv
<1>3. IInv /\ UnannouncedInv /\ [Next]_vars => UnannouncedInv'
  BY UnannouncedStep DEF IInv
<1>4. IInv /\ MarkInv /\ UnannouncedInv /\ [Next]_vars
        => [Lifecycle!Next]_(Lifecycle!vars)
  BY StepRefines
<1>5. QED BY <1>1, <1>2, <1>3, <1>4, MarkInvariance, PTL DEF Spec, Lifecycle!Spec

=============================================================================
