---------------------------- MODULE CaptureChunks ----------------------------
(***************************************************************************)
(* The chunk-level operations on a live-capture session: chunks are begun, *)
(* uploaded, cancelled, tried again, probed and deleted, a transcript is   *)
(* supplied, the session is configured, closed and deleted.  Each loads    *)
(* session.json, changes its copy and saves it, under the lock of its own  *)
(* CaptureService.  The dashboard has one service for all its requests;    *)
(* the media processor makes one of its own, and its lock is another lock. *)
(*                                                                         *)
(* Simplifications.                                                        *)
(*  - One session at a time; its id is never used again.                   *)
(*  - crop, source and metadata are set alike: `crop' stands for the three.*)
(*  - A body is "a" or "b"; an extension, a size and a digest are of it.   *)
(*  - Requests that are refused before the service is called (a malformed  *)
(*    crop, duration, source or availability) change nothing and are left  *)
(*    out; so are optional texts of blanks, which no manifest may hold.    *)
(***************************************************************************)
EXTENDS Naturals, FiniteSets

CONSTANTS
  Requests,   \* threads of the dashboard
  Processor,  \* the media processor
  MaxChunks,  \* bound: chunks of a session
  MaxOps,     \* bound: operations
  MaxStops,   \* bound: stops of the dashboard
  None

Threads == Requests \cup {Processor}
Index   == 0 .. MaxChunks - 1

ChunkStates == {"RECORDING", "UPLOAD_CANCELLED", "FINALIZED", "PROCESSING",
                "CANCEL_REQUESTED", "CANCELLED", "PROCESSED", "FAILED"}
Audio  == {"UNKNOWN", "AVAILABLE", "MISSING"}
Bodies == {"a", "b"}

Chunks == [state : ChunkStates, audio : Audio, available : BOOLEAN, required : BOOLEAN,
           media : Bodies \cup {None}]

Sessions == [status : {"ACTIVE", "FINALIZED", "FAILED"}, test : BOOLEAN, crop : BOOLEAN,
             transcript : {"one", "two", None},
             chunks : [Index -> Chunks \cup {None}]]

ChunksAssumption ==
  /\ IsFiniteSet(Requests) /\ Processor \notin Requests
  /\ MaxChunks \in Nat \ {0} /\ {MaxOps, MaxStops} \subseteq Nat
  /\ None \notin Sessions \cup Chunks \cup Bodies

VARIABLES
  manifest,   \* session.json
  media,      \* the files of the chunks
  sidecar,    \* transcript.txt
  thread,     \* what each thread is at
  event,      \* _upload_events
  cancelled,  \* uploads whose event is set
  ops, stops,
  shared,     \* uploads that met another of their chunk
  asked,      \* uploads that were cancelled before their end and met no other
  supplied,   \* chunks there were when a transcript was acknowledged
  crossed,    \* operations of both services overlapped, or a test session went
  cut,        \* a deletion was cut short between its file and its record
  stale       \* a save replaced a manifest it had not read

disk    == <<manifest, media, sidecar>>
uploads == <<event, cancelled, shared, asked>>
bounds  == <<ops, stops>>
vars    == <<disk, thread, uploads, bounds, supplied, crossed, cut, stale>>

Idle == [pc |-> "idle"]

TypeOK ==
  /\ manifest \in Sessions \cup {None}
  /\ media \in [Index -> Bodies \cup {None}]
  /\ sidecar \in {"one", "two", None}
  /\ \A t \in Threads :
       thread[t].pc \in {"idle", "wait", "stream", "media", "sidecar", "unlink", "save"}
  /\ event \in [Index -> Requests \cup {None}]
  /\ cancelled \cup shared \cup asked \subseteq Requests
  /\ supplied \subseteq Index
  /\ ops \in 0 .. MaxOps /\ stops \in 0 .. MaxStops

NoFiles == [i \in Index |-> None]

\* CaptureService.create_session: a new session has no chunks.
New(test) == [status |-> "ACTIVE", test |-> test, crop |-> FALSE, transcript |-> None,
              chunks |-> NoFiles]

Init ==
  /\ manifest = None /\ media = NoFiles /\ sidecar = None
  /\ thread = [t \in Threads |-> Idle]
  /\ event = NoFiles /\ cancelled = {} /\ shared = {} /\ asked = {}
  /\ ops = 0 /\ stops = 0 /\ supplied = {} /\ crossed = FALSE
  /\ cut = FALSE /\ stale = FALSE

-----------------------------------------------------------------------------
(* The state machines of models.py.                                        *)

ChunkTransitions(s) ==
  CASE s = "RECORDING"        -> {"FINALIZED", "FAILED", "UPLOAD_CANCELLED"}
    [] s = "UPLOAD_CANCELLED" -> {"RECORDING"}
    [] s = "FINALIZED"        -> {"PROCESSING", "CANCELLED", "FAILED"}
    [] s = "PROCESSING"       -> {"CANCEL_REQUESTED", "PROCESSED", "FAILED"}
    [] s = "CANCEL_REQUESTED" -> {"CANCELLED"}
    [] s = "CANCELLED"        -> {"FINALIZED"}
    [] s = "PROCESSED"        -> {}
    [] s = "FAILED"           -> {"PROCESSING"}

SessionTransitions(s) == IF s = "ACTIVE" THEN {"FINALIZED", "FAILED"} ELSE {}

Playable(c) == c.state \in {"FINALIZED", "PROCESSING", "PROCESSED"} /\ c.media # None

TranscriptRequired(audio, available) == audio = "MISSING" /\ ~available

Present(s)       == {i \in Index : s.chunks[i] # None}
NextChunkIndex(s) == IF Present(s) = {} THEN 0
                     ELSE 1 + CHOOSE i \in Present(s) : \A j \in Present(s) : j <= i
WithChunk(s, i, c) == [s EXCEPT !.chunks[i] = c]

InState(s, i, states) == s.chunks[i] # None /\ s.chunks[i].state \in states

\* transition_to: only along the state machine.
MayMove(s, i, target) ==
  s.chunks[i] # None /\ target \in ChunkTransitions(s.chunks[i].state)

Moved(s, i, target) == [s EXCEPT !.chunks[i].state = target]

-----------------------------------------------------------------------------
(* Locks and saves.                                                        *)

Locked(t) == thread[t].pc \notin {"idle", "wait"}

Service(t) == IF t = Processor THEN {Processor} ELSE Requests

\* _lock_for(session_id), in each service.
LockFree(t) == \A u \in Service(t) : ~Locked(u)

Counted == ops < MaxOps /\ ops' = ops + 1

\* Whoever holds the lock of one service while the other's is held has crossed it.
Meets(t) == crossed' = (crossed \/ \E u \in Threads \ Service(t) : Locked(u))

\* An operation loads the manifest and goes on to save its copy, by way of `pc'.
Loads(t, pc, copy) ==
  /\ thread[t].pc = "idle" /\ LockFree(t) /\ Counted /\ Meets(t)
  /\ thread' = [thread EXCEPT ![t] = [pc |-> pc, read |-> manifest, write |-> copy]]
  /\ UNCHANGED <<disk, uploads, stops, supplied, cut, stale>>

Save(t) ==
  /\ thread[t].pc = "save"
  /\ manifest' = thread[t].write
  /\ stale' = (stale \/ manifest # thread[t].read)
  /\ thread' = [thread EXCEPT ![t] = Idle]
  /\ supplied' = IF "text" \in DOMAIN thread[t] THEN Present(thread[t].write)
                 ELSE supplied \cap Present(thread[t].write)
  /\ event' = [i \in Index |-> IF "index" \in DOMAIN thread[t] /\ thread[t].index = i
                               THEN None ELSE event[i]]
  /\ shared' = shared \ {t} /\ cancelled' = cancelled \ {t}
  /\ UNCHANGED <<media, sidecar, asked, bounds, crossed, cut>>

-----------------------------------------------------------------------------
(* Sessions.                                                               *)

\* POST sessions: one with the same client request id is replayed.
CreateSession ==
  /\ manifest = None /\ Counted
  /\ \A t \in Threads : ~Locked(t)
  /\ \E test \in BOOLEAN : manifest' = New(test)
  /\ UNCHANGED <<media, sidecar, thread, uploads, stops, supplied, crossed, cut, stale>>

SetCrop(t) ==
  manifest # None /\ Loads(t, "save", [manifest EXCEPT !.crop = ~@])

FinalizeSession(t) ==
  /\ manifest # None /\ "FINALIZED" \in SessionTransitions(manifest.status)
  /\ Loads(t, "save", [manifest EXCEPT !.status = "FINALIZED"])

\* associate_transcript: the sidecar first, then the session and its chunks.
AssociateTranscript(t, text) ==
  /\ manifest # None
  /\ thread[t].pc = "idle" /\ LockFree(t) /\ Counted /\ Meets(t)
  /\ thread' = [thread EXCEPT ![t] =
       [pc |-> "sidecar", read |-> manifest, text |-> text,
        write |-> [manifest EXCEPT !.transcript = text,
                     !.chunks = [i \in Index |->
                        IF manifest.chunks[i] = None THEN None
                        ELSE [manifest.chunks[i] EXCEPT !.available = TRUE,
                                                        !.required = FALSE]]]]]
  /\ UNCHANGED <<disk, uploads, stops, supplied, cut, stale>>

WriteSidecar(t) ==
  /\ thread[t].pc = "sidecar"
  /\ sidecar' = thread[t].text
  /\ thread' = [thread EXCEPT ![t].pc = "save"]
  /\ UNCHANGED <<manifest, media, uploads, bounds, supplied, crossed, cut, stale>>

\* shutil.rmtree: the staged bodies of uploads go with it.
Removed ==
  /\ manifest' = None /\ media' = NoFiles /\ sidecar' = None
  /\ supplied' = {}
  /\ thread' = [u \in Threads |-> IF thread[u].pc \in {"stream", "media"}
                                  THEN [thread[u] EXCEPT !.staged = FALSE] ELSE thread[u]]

\* delete_session, under the lock.
DeleteSession(t) ==
  /\ manifest # None /\ thread[t].pc = "idle" /\ LockFree(t) /\ Counted /\ Meets(t)
  /\ manifest.status # "ACTIVE"
  /\ \A i \in Index : ~InState(manifest, i, {"FINALIZED", "PROCESSING", "CANCEL_REQUESTED"})
  /\ Removed
  /\ UNCHANGED <<uploads, stops, cut, stale>>

\* ManifestStore.delete_test_session: no lock, whatever the state.
DeleteTestSession(t) ==
  /\ manifest # None /\ manifest.test /\ thread[t].pc = "idle" /\ Counted
  /\ crossed' = TRUE
  /\ Removed
  /\ UNCHANGED <<uploads, stops, cut, stale>>

-----------------------------------------------------------------------------
(* Chunks.                                                                 *)

StartChunk(t) ==
  /\ manifest # None /\ manifest.status = "ACTIVE"
  /\ NextChunkIndex(manifest) \in Index
  /\ Loads(t, "save",
           WithChunk(manifest, NextChunkIndex(manifest),
             [state |-> "RECORDING", audio |-> "UNKNOWN", available |-> FALSE,
              required |-> FALSE, media |-> None]))

\* finalize_chunk_stream: the event is registered before the lock is asked for.
Upload(t, i, body, audio) ==
  LET others == {u \in Requests \ {t} : thread[u].pc \in {"wait", "stream", "media", "save"}
                                        /\ "index" \in DOMAIN thread[u] /\ thread[u].index = i}
  IN
  /\ thread[t].pc = "idle" /\ Counted
  /\ event' = [event EXCEPT ![i] = t]
  /\ cancelled' = cancelled \ {t} /\ asked' = asked \ {t}
  /\ shared' = IF others = {} THEN shared \ {t} ELSE shared \cup others \cup {t}
  /\ thread' = [thread EXCEPT ![t] = [pc |-> "wait", index |-> i, body |-> body,
                                      audio |-> audio]]
  /\ UNCHANGED <<disk, stops, supplied, crossed, cut, stale>>

\* The pop takes the event of the chunk, whosever it is.
Leaves(t) ==
  /\ thread' = [thread EXCEPT ![t] = Idle]
  /\ event' = [event EXCEPT ![thread[t].index] = None]
  /\ shared' = shared \ {t} /\ cancelled' = cancelled \ {t} /\ asked' = asked \ {t}

\* With the lock, the chunk must be RECORDING.
BeginUpload(t) ==
  /\ thread[t].pc = "wait" /\ LockFree(t)
  /\ IF manifest # None /\ MayMove(manifest, thread[t].index, "FINALIZED")
        /\ manifest.chunks[thread[t].index].state = "RECORDING"
     THEN /\ thread' = [thread EXCEPT ![t] =
               [pc |-> "stream", index |-> @.index, body |-> @.body, audio |-> @.audio,
                staged |-> TRUE, read |-> manifest]]
          /\ Meets(t) /\ UNCHANGED uploads
     ELSE Leaves(t) /\ UNCHANGED crossed
  /\ UNCHANGED <<disk, bounds, supplied, cut, stale>>

\* _stream_blocks looks at the event before every block.
Stopped(t) == t \in cancelled

EndOfBody(t) ==
  /\ thread[t].pc = "stream" /\ ~Stopped(t)
  /\ thread' = [thread EXCEPT ![t].pc = "media"]
  /\ UNCHANGED <<disk, uploads, bounds, supplied, crossed, cut, stale>>

\* Cancelled, empty, too large, or the client is gone: nothing was written.
UploadFails(t) ==
  /\ thread[t].pc = "stream"
  /\ Leaves(t)
  /\ UNCHANGED <<disk, bounds, supplied, crossed, cut, stale>>

\* _finalize_chunk_stream_locked: the body takes its place, then the copy is saved.
WriteMedia(t) ==
  LET w == thread[t]
      c == w.read.chunks[w.index]
      heard == IF w.audio = None THEN c.audio ELSE w.audio
  IN
  /\ w.pc = "media"
  /\ IF w.staged
     THEN /\ media' = [media EXCEPT ![w.index] = w.body]
          /\ thread' = [thread EXCEPT ![t] =
               [pc |-> "save", index |-> w.index, read |-> w.read,
                write |-> WithChunk(w.read, w.index,
                  [c EXCEPT !.state = "FINALIZED", !.media = w.body, !.audio = heard,
                            !.required = TranscriptRequired(heard, c.available)])]]
          /\ UNCHANGED uploads
     ELSE Leaves(t) /\ UNCHANGED media
  /\ UNCHANGED <<manifest, sidecar, bounds, supplied, crossed, cut, stale>>

\* cancel_upload sets the event, if there is one; the lock comes later.
SignalUpload(i) ==
  /\ event[i] # None /\ event[i] \notin cancelled /\ Counted
  /\ cancelled' = cancelled \cup {event[i]}
  /\ asked' = asked \cup ({event[i]} \cap {t \in Requests \ shared :
                                             thread[t].pc \in {"wait", "stream"}})
  /\ UNCHANGED <<disk, thread, event, shared, stops, supplied, crossed, cut, stale>>

CancelUpload(t, i) ==
  /\ manifest # None /\ InState(manifest, i, {"RECORDING"})
  /\ Loads(t, "save", Moved(manifest, i, "UPLOAD_CANCELLED"))

RetryUpload(t, i) ==
  /\ manifest # None /\ InState(manifest, i, {"UPLOAD_CANCELLED"})
  /\ Loads(t, "save", Moved(manifest, i, "RECORDING"))

\* cancel_processing: at once if nobody has taken the chunk.
CancelProcessing(t, i) ==
  /\ manifest # None /\ InState(manifest, i, {"FINALIZED", "PROCESSING"})
  /\ Loads(t, "save", Moved(manifest, i, IF manifest.chunks[i].state = "FINALIZED"
                                         THEN "CANCELLED" ELSE "CANCEL_REQUESTED"))

\* retry-processing, of one chunk or of all.
RetryProcessing(t, i) ==
  /\ manifest # None /\ InState(manifest, i, {"CANCELLED", "FAILED"})
  /\ Loads(t, "save", Moved(manifest, i, IF manifest.chunks[i].state = "CANCELLED"
                                         THEN "FINALIZED" ELSE "PROCESSING"))

\* delete_cancelled_chunk: the file first.
DeleteCancelled(t, i) ==
  /\ manifest # None /\ InState(manifest, i, {"CANCELLED"})
  /\ thread[t].pc = "idle" /\ LockFree(t) /\ Counted /\ Meets(t)
  /\ thread' = [thread EXCEPT ![t] = [pc |-> "unlink", file |-> i, read |-> manifest,
                                      write |-> WithChunk(manifest, i, None)]]
  /\ UNCHANGED <<disk, uploads, stops, supplied, cut, stale>>

Unlink(t) ==
  /\ thread[t].pc = "unlink"
  /\ media' = [media EXCEPT ![thread[t].file] = None]
  /\ thread' = [thread EXCEPT ![t].pc = "save"]
  /\ UNCHANGED <<manifest, sidecar, uploads, bounds, supplied, crossed, cut, stale>>

Heard(c, audio) ==
  [c EXCEPT !.audio = audio, !.required = TranscriptRequired(audio, c.available)]

\* detect_chunk_audio: a failed probe is UNKNOWN.
DetectAudio(t, i, audio) ==
  /\ manifest # None /\ manifest.chunks[i] # None
  /\ manifest.chunks[i].state # "RECORDING" /\ manifest.chunks[i].media # None
  /\ Loads(t, "save", WithChunk(manifest, i, Heard(manifest.chunks[i], audio)))

-----------------------------------------------------------------------------
(* The media processor.                                                    *)

\* _set_capture_processing.
Take(i) ==
  /\ manifest # None /\ InState(manifest, i, {"FINALIZED", "FAILED"})
  /\ Loads(Processor, "save", Moved(manifest, i, "PROCESSING"))

\* Mutant of Completed: a cancellation is not looked for.
CompletedAnyway(c, transcribed) ==
  [c EXCEPT !.state = "PROCESSED", !.available = @ \/ transcribed]

Completed(c, transcribed) ==
  IF c.state = "CANCEL_REQUESTED" THEN [c EXCEPT !.state = "CANCELLED"]
  ELSE LET available == transcribed \/ c.available
       IN  [c EXCEPT !.state = "PROCESSED", !.available = available,
                     !.required = TranscriptRequired(c.audio, available)]

\* complete_processing honours a cancellation.
Complete(i, transcribed) ==
  /\ manifest # None /\ InState(manifest, i, {"PROCESSING", "CANCEL_REQUESTED"})
  /\ Loads(Processor, "save",
           WithChunk(manifest, i, Completed(manifest.chunks[i], transcribed)))

\* _set_capture_failed, _set_capture_cancelled.
GiveUp(i) ==
  /\ manifest # None /\ InState(manifest, i, {"PROCESSING", "CANCEL_REQUESTED"})
  /\ Loads(Processor, "save", Moved(manifest, i, IF manifest.chunks[i].state = "PROCESSING"
                                                 THEN "FAILED" ELSE "CANCELLED"))

-----------------------------------------------------------------------------
(* A stop of the dashboard, and its start.                                 *)

ReconciledChunk(i) ==
  LET c == manifest.chunks[i] IN
  IF c = None THEN None
  ELSE IF c.state = "RECORDING" THEN [c EXCEPT !.state = "UPLOAD_CANCELLED"]
  ELSE IF Playable(c) /\ media[i] = None THEN [c EXCEPT !.state = "FAILED", !.media = None]
  ELSE c

\* _get_capture_service reconciles what is still ACTIVE.
Restart ==
  /\ stops < MaxStops /\ stops' = stops + 1
  /\ \E killed \in {Requests, Threads} :
       /\ thread' = [t \in Threads |-> IF t \in killed THEN Idle ELSE thread[t]]
       /\ cut' = (cut \/ \E t \in killed :
                           thread[t].pc = "save" /\ "file" \in DOMAIN thread[t])
  /\ crossed' = (crossed \/ \E t \in Threads : Locked(t))
  /\ event' = NoFiles /\ cancelled' = {} /\ shared' = {} /\ asked' = {}
  /\ manifest' = IF manifest # None /\ manifest.status = "ACTIVE"
                 THEN [manifest EXCEPT !.status = "FAILED",
                         !.chunks = [i \in Index |-> ReconciledChunk(i)]]
                 ELSE manifest
  /\ UNCHANGED <<media, sidecar, ops, supplied, stale>>

\* The routes of a session, and those of a chunk.
SessionRequest(t) ==
  \/ SetCrop(t) \/ FinalizeSession(t) \/ DeleteSession(t) \/ DeleteTestSession(t)
  \/ \E text \in {"one", "two"} : AssociateTranscript(t, text)

ChunkRequest(t, i) ==
  \/ \E body \in Bodies, audio \in {"MISSING", None} : Upload(t, i, body, audio)
  \/ CancelUpload(t, i) \/ RetryUpload(t, i)
  \/ CancelProcessing(t, i) \/ RetryProcessing(t, i) \/ DeleteCancelled(t, i)
  \/ \E audio \in Audio : DetectAudio(t, i, audio)

Goes(t) ==
  \/ WriteSidecar(t) \/ Unlink(t)
  \/ BeginUpload(t) \/ EndOfBody(t) \/ UploadFails(t) \/ WriteMedia(t)

Next ==
  \/ CreateSession \/ Restart
  \/ \E t \in Requests : SessionRequest(t) \/ StartChunk(t) \/ Goes(t)
  \/ \E t \in Requests, i \in Index : ChunkRequest(t, i)
  \/ \E t \in Threads : Save(t)
  \/ \E i \in Index :
       \/ SignalUpload(i) \/ Take(i) \/ GiveUp(i)
       \/ \E transcribed \in BOOLEAN : Complete(i, transcribed)

Spec == Init /\ [][Next]_vars

-----------------------------------------------------------------------------
(* Properties.                                                             *)

\* A save never replaces a manifest it had not read, unless operations of the
\* dashboard and of the processor overlapped or a test session was cleaned up.
LostOnlyAcross == stale => crossed

\* An upload that was cancelled while it was at its body, and had the chunk for
\* itself, writes nothing.
CancelStopsUpload == \A t \in asked : thread[t].pc \notin {"media", "save"}

\* What is playable has its body on disk, unless a save was stale or a deletion
\* was cut short after it removed the file.
PlayableHasMedia ==
  manifest # None /\ ~stale /\ ~cut =>
    \A i \in Present(manifest) :
      Playable(manifest.chunks[i]) => media[i] = manifest.chunks[i].media

\* No chunk that was there when a transcript arrived requires one later.
TranscriptClears ==
  manifest # None /\ ~stale =>
    \A i \in supplied \cap Present(manifest) :
      manifest.chunks[i].available /\ ~manifest.chunks[i].required

\* Saved states only move along the state machines, a deleted session does not
\* come back, unless a save was stale.
MovesAsAllowed ==
  [][~stale' =>
       /\ manifest = None /\ manifest' # None => manifest' \in {New(TRUE), New(FALSE)}
       /\ manifest # None /\ manifest' # None =>
            /\ manifest'.status # manifest.status =>
                 manifest'.status \in SessionTransitions(manifest.status)
            /\ \A i \in Present(manifest) \cap Present(manifest') :
                 manifest'.chunks[i].state # manifest.chunks[i].state =>
                   manifest'.chunks[i].state \in
                     ChunkTransitions(manifest.chunks[i].state)]_vars

ChunksSound == LostOnlyAcross /\ CancelStopsUpload /\ PlayableHasMedia /\ TranscriptClears

\* What the two services keep of each other: ChunksSound and MovesAsAllowed.
CaptureSafe == []ChunksSound /\ MovesAsAllowed

=============================================================================
