----------------------------- MODULE KabIngest -----------------------------
(***************************************************************************)
(* One session of the K'ab ingest: the receiver process that assembles the *)
(* tracks of a segment and the worker process that turns assembled         *)
(* segments into transcripts.  The two share nothing but the session       *)
(* directory, so every variable of the first two groups is a family of     *)
(* files and survives a crash; the last two groups are the position of the *)
(* receiver's request handler and of the worker's scan, which do not.      *)
(*                                                                         *)
(* A step is one atomic replacement, rename or unlink of a file, so that a *)
(* crash can fall between any two of them.                                 *)
(*                                                                         *)
(* Simplifications.                                                        *)
(*  - The receiver's handlers hold the session lock, hence one request at  *)
(*    a time.  A replayed or conflicting request changes no file and is a  *)
(*    stuttering step.  Chunks are all present (KabUpload models them).    *)
(*  - A pair of startOffsetMs and durationMs is one element of Offsets.    *)
(*  - The worker visits the segments of a directory listing in any order;  *)
(*    the code sorts them, and segments of one pass do not interact.       *)
(*  - One worker process, as the README of the ingest prescribes.          *)
(***************************************************************************)
EXTENDS Naturals, FiniteSets

CONSTANTS
  Segments,         \* the segment indexes of the session
  Tracks,           \* the tracks a sender may upload
  Offsets,          \* (startOffsetMs, durationMs) pairs a request may declare
  None,             \* no value: an absent file, no request, no segment
  MaxAttempts,      \* MAX_PROCESSING_ATTEMPTS
  MaxCrashes,       \* bound: crashes of either process
  MaxFaults         \* bound: I/O errors the worker meets after transcribing

ASSUME ConstantsAssumption ==
  /\ IsFiniteSet(Tracks)
  /\ None \notin Offsets /\ None \notin Segments
  /\ MaxAttempts \in Nat \ {0}
  /\ MaxCrashes \in Nat /\ MaxFaults \in Nat

Pairs    == Segments \X Tracks
Requests == [seg : Segments, trk : Tracks, off : Offsets]

VARIABLES
  \* files written by the receiver
  requiredTracks, \* session.json: the tracks the session was created with
  asm,         \* assembled media of each <<segment, track>>
  meta,        \* segment-N.track.meta.json: the offsets it records, or None
  ready,       \* segments with a ready/ marker (the worker writes some too)
  \* files written by the worker
  proc,        \* processing/ marker: its attempts field, 0 when absent
  state,       \* state.json: the state of each segment
  failed,      \* segments with a failed/ marker
  result,      \* segments with a completed/*.result.json
  transcript,  \* segments whose text is in the session transcripts
  \* the receiver's handler
  rpc, req,
  \* the worker's scan: position, loop it returns to, listing left, segment
  wpc, wctx, todo, wseg,
  \* bounds, and what happened so far
  crashes, faults, starts, claims, done

recvFiles == <<requiredTracks, asm, meta>>
workFiles == <<proc, state, failed, result, transcript>>
recvVars  == <<rpc, req>>
workVars  == <<wpc, wctx, todo, wseg>>
bounds    == <<crashes, faults>>
history   == <<starts, claims, done>>
vars      == <<recvFiles, ready, workFiles, recvVars, workVars, bounds, history>>

SegmentStates == {"NONE", "PROCESSING", "PROCESSED", "FAILED"}

ProcessSteps == {"transcribe", "writeResult", "setProcessed", "unmark", "regenerate"}
FailSteps    == {"setFailed", "writeFailed", "unmarkFailed", "regenerateFailed"}
WorkerSteps  ==
  {"sleep", "reconcile", "recover", "drain", "claimed"} \cup ProcessSteps \cup FailSteps

TypeOK ==
  /\ requiredTracks \in (SUBSET Tracks) \ {{}}
  /\ asm \in [Pairs -> {"absent", "unverified", "verified"}]
  /\ meta \in [Pairs -> Offsets \cup {None}]
  /\ ready \subseteq Segments /\ failed \subseteq Segments
  /\ result \subseteq Segments /\ transcript \subseteq Segments
  /\ proc \in [Segments -> 0 .. MaxAttempts]
  /\ state \in [Segments -> SegmentStates]
  /\ rpc \in {"idle", "assembled", "metaWritten"}
  /\ req \in Requests \cup {None}
  /\ wpc \in WorkerSteps /\ wctx \in {"recover", "exhausted", "drain"}
  /\ todo \subseteq Segments /\ wseg \in Segments \cup {None}
  /\ crashes \in 0 .. MaxCrashes /\ faults \in 0 .. MaxFaults
  /\ starts \in [Segments -> Nat] /\ claims \in [Segments -> Nat]
  /\ done \subseteq Segments

\* create_session was answered.
Init ==
  /\ requiredTracks \in (SUBSET Tracks) \ {{}}
  /\ asm = [p \in Pairs |-> "absent"]
  /\ meta = [p \in Pairs |-> None]
  /\ ready = {} /\ failed = {} /\ result = {} /\ transcript = {}
  /\ proc = [s \in Segments |-> 0]
  /\ state = [s \in Segments |-> "NONE"]
  /\ rpc = "idle" /\ req = None
  /\ wpc = "sleep" /\ wctx = "drain" /\ todo = {} /\ wseg = None
  /\ crashes = 0 /\ faults = 0
  /\ starts = [s \in Segments |-> 0]
  /\ claims = [s \in Segments |-> 0]
  /\ done = {}

-----------------------------------------------------------------------------
(* What both processes compute from the metadata files.                    *)

\* Every required track has its metadata and they agree on the offsets: the
\* condition under which either process writes a ready marker.
Complete(s) ==
  \E o \in Offsets : \A t \in requiredTracks : meta[<<s, t>>] = o

\* Mutant of OffsetConflict: the tracks are not compared.
NoOffsetConflict(r) == FALSE

\* Another required track of the segment declared other offsets.
OffsetConflict(r) ==
  \E t \in requiredTracks \ {r.trk} : meta[<<r.seg, t>>] \notin {None, r.off}

-----------------------------------------------------------------------------
(* The receiver: POST .../segments/{i}/{track}/complete.                   *)

\* The checks pass and the chunks are concatenated over the final name.
Assemble(r) ==
  /\ rpc = "idle"
  /\ meta[<<r.seg, r.trk>>] = None
  /\ ~OffsetConflict(r)
  /\ asm' = [asm EXCEPT ![<<r.seg, r.trk>>] = "unverified"]
  /\ rpc' = "assembled" /\ req' = r
  /\ UNCHANGED <<requiredTracks, meta, ready, workFiles, workVars, bounds, history>>

\* Size or digest differ from the declared ones: unlink, answer 400.
RejectAssembled ==
  /\ rpc = "assembled"
  /\ asm' = [asm EXCEPT ![<<req.seg, req.trk>>] = "absent"]
  /\ rpc' = "idle" /\ req' = None
  /\ UNCHANGED <<requiredTracks, meta, ready, workFiles, workVars, bounds, history>>

\* Size and digest are the declared ones: record them.
WriteMeta ==
  /\ rpc = "assembled"
  /\ asm' = [asm EXCEPT ![<<req.seg, req.trk>>] = "verified"]
  /\ meta' = [meta EXCEPT ![<<req.seg, req.trk>>] = req.off]
  /\ rpc' = "metaWritten"
  /\ UNCHANGED <<requiredTracks, req, ready, workFiles, workVars, bounds, history>>

\* _maybe_write_ready_marker looks at the metadata only, never at what the
\* worker already did with the segment.
MaybeWriteReady ==
  /\ rpc = "metaWritten"
  /\ ready' = IF Complete(req.seg) THEN ready \cup {req.seg} ELSE ready
  /\ rpc' = "idle" /\ req' = None
  /\ UNCHANGED <<recvFiles, workFiles, workVars, bounds, history>>

Receive ==
  \/ \E r \in Requests : Assemble(r)
  \/ RejectAssembled
  \/ WriteMeta
  \/ MaybeWriteReady

\* The process stops; the request is lost, the files stay.
ReceiverCrash ==
  /\ rpc # "idle" /\ crashes < MaxCrashes
  /\ rpc' = "idle" /\ req' = None
  /\ crashes' = crashes + 1
  /\ UNCHANGED <<recvFiles, ready, workFiles, workVars, faults, history>>

-----------------------------------------------------------------------------
(* The worker: run_once is reconcile, then recover, then drain.            *)

Files == <<recvFiles, ready, workFiles>>

\* Lists the segments with any metadata file.
StartPass ==
  /\ wpc = "sleep"
  /\ wpc' = "reconcile"
  /\ todo' = {s \in Segments : \E t \in Tracks : meta[<<s, t>>] # None}
  /\ UNCHANGED <<Files, recvVars, wctx, wseg, bounds, history>>

\* A complete segment nobody queued, nobody claimed and nobody finished.
LostItsMarker(s) ==
  s \notin ready /\ proc[s] = 0 /\ state[s] = "NONE" /\ Complete(s)

\* Such a segment gets its marker.
Reconcile(s) ==
  /\ wpc = "reconcile" /\ s \in todo
  /\ todo' = todo \ {s}
  /\ ready' = IF LostItsMarker(s) THEN ready \cup {s} ELSE ready
  /\ UNCHANGED <<recvFiles, workFiles, recvVars, wpc, wctx, wseg, bounds, history>>

\* Lists processing/.
StartRecover ==
  /\ wpc = "reconcile" /\ todo = {}
  /\ wpc' = "recover" /\ wctx' = "recover"
  /\ todo' = {s \in Segments : proc[s] > 0}
  /\ UNCHANGED <<Files, recvVars, wseg, bounds, history>>

\* The crash came after the state was written: only the marker is left over.
RecoverProcessed(s) ==
  /\ wpc = "recover" /\ s \in todo
  /\ state[s] = "PROCESSED"
  /\ proc' = [proc EXCEPT ![s] = 0]
  /\ todo' = todo \ {s}
  /\ UNCHANGED <<recvFiles, ready, state, failed, result, transcript, recvVars,
                 wpc, wctx, wseg, bounds, history>>

\* Mutant of AttemptsLeft: the limit is compared with > instead of >=.
AttemptsLeftOffByOne(s) == proc[s] <= MaxAttempts

\* The attempts recorded by the marker are below the limit.
AttemptsLeft(s) == proc[s] < MaxAttempts

\* The marker used up its attempts.
RecoverExhausted(s) ==
  /\ wpc = "recover" /\ s \in todo
  /\ state[s] # "PROCESSED" /\ ~AttemptsLeft(s)
  /\ wpc' = "setFailed" /\ wctx' = "exhausted" /\ wseg' = s
  /\ todo' = todo \ {s}
  /\ UNCHANGED <<Files, recvVars, bounds, history>>

\* The attempt is recorded before it is made.
RecoverRetry(s) ==
  /\ wpc = "recover" /\ s \in todo
  /\ state[s] # "PROCESSED" /\ AttemptsLeft(s)
  /\ proc' = [proc EXCEPT ![s] = @ + 1]
  /\ wpc' = "transcribe" /\ wseg' = s
  /\ todo' = todo \ {s}
  /\ UNCHANGED <<recvFiles, ready, state, failed, result, transcript, recvVars,
                 wctx, bounds, history>>

\* Lists ready/.
StartDrain ==
  /\ wpc = "recover" /\ todo = {}
  /\ wpc' = "drain" /\ wctx' = "drain"
  /\ todo' = ready
  /\ UNCHANGED <<Files, recvVars, wseg, bounds, history>>

DrainProcessed(s) ==
  /\ wpc = "drain" /\ s \in todo
  /\ state[s] = "PROCESSED"
  /\ ready' = ready \ {s}
  /\ todo' = todo \ {s}
  /\ UNCHANGED <<recvFiles, workFiles, recvVars, wpc, wctx, wseg, bounds, history>>

\* Mutant of Unfinished: a queued segment is claimed whatever its state.
AnyState(s) == TRUE

\* The worker has not announced the segment as done.
Unfinished(s) == state[s] # "PROCESSED"

\* ready/ -> processing/ by rename; a marker without attempts reads as 1, and
\* the rewrite of the renamed marker that follows records 1.
Claim(s) ==
  /\ wpc = "drain" /\ s \in todo
  /\ Unfinished(s)
  /\ todo' = todo \ {s}
  /\ IF proc[s] = 0
     THEN /\ ready' = ready \ {s}
          /\ proc' = [proc EXCEPT ![s] = 1]
          /\ claims' = [claims EXCEPT ![s] = @ + 1]
          /\ wpc' = "claimed" /\ wseg' = s
     ELSE UNCHANGED <<ready, proc, claims, wpc, wseg>>
  /\ UNCHANGED <<recvFiles, state, failed, result, transcript, recvVars, wctx,
                 bounds, starts, done>>

SetProcessing ==
  /\ wpc = "claimed"
  /\ state' = [state EXCEPT ![wseg] = "PROCESSING"]
  /\ wpc' = "transcribe"
  /\ UNCHANGED <<recvFiles, ready, proc, failed, result, transcript, recvVars,
                 wctx, todo, wseg, bounds, history>>

EndPass ==
  /\ wpc = "drain" /\ todo = {}
  /\ wpc' = "sleep"
  /\ UNCHANGED <<Files, recvVars, wctx, todo, wseg, bounds, history>>

-----------------------------------------------------------------------------
(* The worker: _process, one segment.                                      *)

\* Mutant of Transcribe: the state is announced before the result is written.
TranscribeThenAnnounce ==
  /\ wpc = "transcribe"
  /\ starts' = [starts EXCEPT ![wseg] = @ + 1]
  /\ wpc' \in {"setProcessed", "setFailed"}
  /\ UNCHANGED <<Files, recvVars, wctx, todo, wseg, bounds, claims, done>>

\* Mux, transcribe and put the result together; any of it may raise.
Transcribe ==
  /\ wpc = "transcribe"
  /\ starts' = [starts EXCEPT ![wseg] = @ + 1]
  /\ wpc' \in {"writeResult", "setFailed"}
  /\ UNCHANGED <<Files, recvVars, wctx, todo, wseg, bounds, claims, done>>

WriteResult ==
  /\ wpc = "writeResult"
  /\ result' = result \cup {wseg}
  /\ wpc' = "setProcessed"
  /\ UNCHANGED <<recvFiles, ready, proc, state, failed, transcript, recvVars,
                 wctx, todo, wseg, bounds, history>>

SetProcessed ==
  /\ wpc = "setProcessed"
  /\ state' = [state EXCEPT ![wseg] = "PROCESSED"]
  /\ done' = done \cup {wseg}
  /\ wpc' = "unmark"
  /\ UNCHANGED <<recvFiles, ready, proc, failed, result, transcript, recvVars,
                 wctx, todo, wseg, bounds, starts, claims>>

Unmark ==
  /\ wpc = "unmark"
  /\ proc' = [proc EXCEPT ![wseg] = 0]
  /\ wpc' = "regenerate"
  /\ UNCHANGED <<recvFiles, ready, state, failed, result, transcript, recvVars,
                 wctx, todo, wseg, bounds, history>>

\* What load_results finds.
Quotable == result

\* Folds every result file, whatever the state of its segment.
Regenerate ==
  /\ wpc \in {"regenerate", "regenerateFailed"}
  /\ transcript' = Quotable
  /\ wpc' = wctx /\ wseg' = None
  /\ UNCHANGED <<recvFiles, ready, proc, state, failed, result, recvVars,
                 wctx, todo, bounds, history>>

\* A write of _process raises; its except clause marks the segment failed.
WorkerFault ==
  /\ wpc \in ProcessSteps \ {"transcribe"} /\ faults < MaxFaults
  /\ wpc' = "setFailed"
  /\ faults' = faults + 1
  /\ UNCHANGED <<Files, recvVars, wctx, todo, wseg, crashes, history>>

-----------------------------------------------------------------------------
(* The worker: _mark_failed.                                               *)

SetFailed ==
  /\ wpc = "setFailed"
  /\ state' = [state EXCEPT ![wseg] = "FAILED"]
  /\ wpc' = "writeFailed"
  /\ UNCHANGED <<recvFiles, ready, proc, failed, result, transcript, recvVars,
                 wctx, todo, wseg, bounds, history>>

WriteFailed ==
  /\ wpc = "writeFailed"
  /\ failed' = failed \cup {wseg}
  /\ wpc' = "unmarkFailed"
  /\ UNCHANGED <<recvFiles, ready, proc, state, result, transcript, recvVars,
                 wctx, todo, wseg, bounds, history>>

\* Only _process regenerates afterwards; _recover_stale goes on with its loop.
UnmarkFailed ==
  /\ wpc = "unmarkFailed"
  /\ proc' = [proc EXCEPT ![wseg] = 0]
  /\ IF wctx = "exhausted"
     THEN wpc' = "recover" /\ wctx' = "recover" /\ wseg' = None
     ELSE wpc' = "regenerateFailed" /\ UNCHANGED <<wctx, wseg>>
  /\ UNCHANGED <<recvFiles, ready, state, failed, result, transcript, recvVars,
                 todo, bounds, history>>

\* The process stops, or an exception leaves the pass: the files stay.
WorkerCrash ==
  /\ wpc # "sleep" /\ crashes < MaxCrashes
  /\ wpc' = "sleep" /\ wctx' = "drain" /\ todo' = {} /\ wseg' = None
  /\ crashes' = crashes + 1
  /\ UNCHANGED <<Files, recvVars, faults, history>>

-----------------------------------------------------------------------------

Process  == Transcribe \/ WriteResult \/ SetProcessed \/ Unmark \/ Regenerate
MarkFailed == SetFailed \/ WriteFailed \/ UnmarkFailed

Scan ==
  \/ StartPass \/ StartRecover \/ StartDrain \/ EndPass \/ SetProcessing
  \/ \E s \in Segments :
       \/ Reconcile(s)
       \/ RecoverProcessed(s) \/ RecoverExhausted(s) \/ RecoverRetry(s)
       \/ DrainProcessed(s) \/ Claim(s)

Work == Scan \/ Process \/ MarkFailed

Next == Receive \/ Work \/ WorkerFault \/ ReceiverCrash \/ WorkerCrash

Spec == Init /\ [][Next]_vars

\* run_forever keeps scanning, restarted by its supervisor; senders, crashes
\* and faults owe nothing.
FairSpec == Spec /\ WF_vars(Work)

-----------------------------------------------------------------------------
(* Correctness.                                                            *)

\* A segment enters the queue, is worked on or has a result only when every
\* required track is there, verified and on the same time line: neither
\* _maybe_write_ready_marker nor reconcile_session, racing and crashing,
\* queues a half-received segment.
OnlyCompleteSegmentsAreQueued ==
  \A s \in ready \cup result \cup {x \in Segments : proc[x] > 0} :
    /\ Complete(s)
    /\ \A t \in requiredTracks : asm[<<s, t>>] = "verified"

\* PROCESSED is published after the result it announces (what
\* processed_segment_indexes and the consolidation rely on), and the
\* transcripts quote nothing that has no result file.
ProcessedHasResult ==
  /\ \A s \in Segments : state[s] = "PROCESSED" => s \in result
  /\ transcript \subseteq result

\* At any crash point a FAILED segment has its failed marker or still has the
\* processing marker that makes recovery finish the job (as long as no write
\* raised once the processing marker was gone).
FailedLeavesATrace ==
  \A s \in Segments :
    state[s] = "FAILED" /\ faults = 0 => s \in failed \/ proc[s] > 0

\* The attempts field carried by the marker bounds the transcriptions of one
\* claim, however the worker crashes and restarts.
AttemptsPerClaimBounded ==
  \A s \in Segments : starts[s] <= MaxAttempts * claims[s]

\* "No infinite retry loop": every marker the receiver or the worker may ever
\* write for a segment is counted; one for the required tracks, one for the
\* reconciliation that overtakes it, one per optional track.
TotalAttemptsBounded ==
  \A s \in Segments :
    starts[s] <= MaxAttempts * (2 + Cardinality(Tracks \ requiredTracks))

\* What holds of every segment at every moment, crashes included.
SegmentSafe ==
  /\ OnlyCompleteSegmentsAreQueued
  /\ ProcessedHasResult
  /\ FailedLeavesATrace
  /\ AttemptsPerClaimBounded
  /\ TotalAttemptsBounded

\* A segment that reached PROCESSED is not transcribed again, late ready markers
\* and crashes included, as long as no write of _process raised.
NeverProcessedTwice ==
  [][faults = 0 => \A s \in done : starts'[s] = starts[s]]_vars

\* Every required track of the segment was accepted.
AllAccepted(s) == \A t \in requiredTracks : meta[<<s, t>>] # None

\* A segment whose required tracks were all accepted is settled one day, lost
\* markers, differing offsets and crashes included.
AcceptedIsSettled ==
  \A s \in Segments : AllAccepted(s) ~> state[s] \in {"PROCESSED", "FAILED"}

=============================================================================
