-------------------------- MODULE CaptureFragments --------------------------
(***************************************************************************)
(* One live-capture session: the fragments the browser uploads, their      *)
(* aggregation into processing chunks, the final recording made of all of  *)
(* them, the processing of the chunks, and the removal of the temporary    *)
(* media once all is done.                                                 *)
(*                                                                         *)
(* The dashboard's threads share one CaptureService: a lock per session,   *)
(* and one per session for aggregation.  The processor is another process  *)
(* with a CaptureService, and locks, of its own.                           *)
(*                                                                         *)
(* Simplifications.                                                        *)
(*  - Fragment ids and sequences coincide, as the browser makes them, and  *)
(*    a retried fragment has the same bytes.  All fragments last equally   *)
(*    long and have one extension; media is the set of fragments in it.    *)
(*  - Chunks are made by aggregation only, so chunk i is made from entry i *)
(*    of the processing map: chunks/start, which no page of the dashboard  *)
(*    uses, and delete_session are left out.                               *)
(*  - A load-modify-save of session.json is one step, except in            *)
(*    finalize_session_media, which assembles media in between.            *)
(***************************************************************************)
EXTENDS Naturals, Sequences, FiniteSets

CONSTANTS
  Fragments,       \* sequences of the fragments recorded, 1 .. n
  ChunkFragments,  \* fragments whose durations reach chunk_duration_sec
  Tolerance,       \* fragments whose absence finalization tolerates
  Aggregators,     \* threads that aggregate: those that drain, those that upload
  Forcing,         \* the aggregators that drain
  MaxCrashes       \* bound: stops of the dashboard

ConstantsAssumption ==
  /\ IsFiniteSet(Fragments) /\ Fragments \subseteq Nat
  /\ ChunkFragments \in Nat \ {0} /\ Tolerance \in Nat
  /\ Forcing \subseteq Aggregators /\ MaxCrashes \in Nat

Chunks == 1 .. Cardinality(Fragments)    \* chunk_index + 1

VARIABLES
  fragments,   \* fragments.json
  blobs,       \* the fragments whose media is on disk
  entries,     \* processing_chunks.json
  session,     \* session.json
  media,       \* the chunks whose media is on disk
  finalFile,   \* what final/recording contains, {} if there is none
  backup,      \* what recovery/previous-recording contains, {} if there is none
  agg,         \* each aggregator: its step and the entry it works on
  fin,         \* finalize_session_media: its step, the session it read
  crashes,     \* bound
  late         \* history: fragments acknowledged after a final recording, or
               \* after a fragment with a higher sequence

files   == <<fragments, blobs, entries, session, media, finalFile, backup>>
vars    == <<files, agg, fin, crashes, late>>

ChunkStates ==
  {"ABSENT", "RECORDING", "UPLOAD_CANCELLED", "FINALIZED", "PROCESSING",
   "CANCEL_REQUESTED", "CANCELLED", "PROCESSED", "FAILED"}

Sessions == [status : {"ACTIVE", "FINALIZED", "FAILED"},
             chunks : [Chunks -> ChunkStates],
             final  : SUBSET Fragments]        \* final_media, {} if there is none

Idle == [step |-> "idle", entry |-> 0]
Off  == [step |-> "off", loaded |-> {}, aside |-> {}]

TypeOK ==
  /\ fragments \subseteq Fragments /\ blobs \subseteq Fragments
  /\ Len(entries) <= Cardinality(Fragments)
  /\ \A i \in DOMAIN entries :
       /\ entries[i].state \in {"PENDING", "RETRYABLE", "FINALIZED"}
       /\ entries[i].fragments \in (SUBSET fragments) \ {{}}
  /\ session \in Sessions
  /\ media \subseteq DOMAIN entries
  /\ finalFile \subseteq Fragments /\ backup \subseteq Fragments
  /\ agg \in [Aggregators ->
                [step : {"idle", "assemble", "commit", "write", "finalize", "map"},
                 entry : {0} \cup Chunks]]
  /\ \A a \in Aggregators : agg[a].step # "idle" => agg[a].entry \in DOMAIN entries
  /\ fin = Off \/ fin \in [step   : {"assemble", "replace", "save"},
                          loaded : Sessions,
                          aside  : SUBSET Fragments]
  /\ crashes \in 0 .. MaxCrashes
  /\ late \subseteq Fragments

Init ==
  /\ fragments = {} /\ blobs = {} /\ entries = <<>>
  /\ session = [status |-> "ACTIVE", chunks |-> [i \in Chunks |-> "ABSENT"], final |-> {}]
  /\ media = {} /\ finalFile = {} /\ backup = {}
  /\ agg = [a \in Aggregators |-> Idle] /\ fin = Off
  /\ crashes = 0 /\ late = {}

\* No thread of the dashboard holds the session lock.
LockFree ==
  /\ fin = Off
  /\ \A a \in Aggregators : agg[a].step \in {"idle", "assemble", "commit"}

State(i)       == session.chunks[i]
WithChunk(i, s) == [session EXCEPT !.chunks[i] = s]
Unfinished     == {i \in DOMAIN entries : entries[i].state # "FINALIZED"}
Mapped         == UNION {entries[i].fragments : i \in DOMAIN entries}

-----------------------------------------------------------------------------
(* Uploads.                                                                *)

\* A fragment is stored and acknowledged, or repeated: a repetition restores
\* media that is gone.
Upload(f) ==
  /\ LockFree
  /\ blobs' = blobs \cup {f}
  /\ fragments' = fragments \cup {f}
  /\ late' = IF f \notin fragments /\ (session.final # {} \/ \E g \in fragments : g > f)
             THEN late \cup {f} ELSE late
  /\ UNCHANGED <<entries, session, media, finalFile, backup, agg, fin, crashes>>

-----------------------------------------------------------------------------
(* Aggregation.                                                            *)

\* Fragments of no entry.
Lead == fragments \ Mapped

\* The leading ones that make a chunk; a drain takes what is left, too.
Selection(a) ==
  LET prefix == {f \in Lead : Cardinality({g \in Lead : g <= f}) <= ChunkFragments}
  IN  IF Cardinality(prefix) = ChunkFragments \/ a \in Forcing THEN prefix ELSE {}

NextEntry == Len(entries) + 1

\* Mutant of AggregationFree: aggregation takes no lock of its own.
AggregationUnlocked == TRUE

AggregationFree == \A a \in Aggregators : agg[a].step = "idle"

\* The lowest unfinished entry is tried again before a new one is made.
Reserve(a) ==
  /\ agg[a].step = "idle" /\ AggregationFree /\ LockFree
  /\ IF Unfinished # {}
     THEN /\ agg' = [agg EXCEPT ![a] =
               [step |-> "assemble", entry |-> CHOOSE i \in Unfinished : \A j \in Unfinished : i <= j]]
          /\ UNCHANGED entries
     ELSE /\ Selection(a) # {}
          /\ agg' = [agg EXCEPT ![a] = [step |-> "assemble", entry |-> NextEntry]]
          /\ entries' = Append(entries, [state |-> "PENDING", fragments |-> Selection(a)])
  /\ UNCHANGED <<fragments, blobs, session, media, finalFile, backup, fin, crashes, late>>

Goto(a, step) == agg' = [agg EXCEPT ![a].step = step]

Assemble(a) ==
  /\ agg[a].step = "assemble"
  /\ entries[agg[a].entry].fragments \subseteq blobs
  /\ Goto(a, "commit")
  /\ UNCHANGED <<files, fin, crashes, late>>

\* A source is missing, or the assembler fails.
AssembleFails(a) ==
  /\ agg[a].step = "assemble" /\ LockFree
  /\ entries' = [entries EXCEPT ![agg[a].entry].state = "RETRYABLE"]
  /\ agg' = [agg EXCEPT ![a] = Idle]
  /\ UNCHANGED <<fragments, blobs, session, media, finalFile, backup, fin, crashes, late>>

\* A chunk yet to be made, or cut off.
Makeable(i) == State(i) \in {"ABSENT", "UPLOAD_CANCELLED", "RECORDING"}

\* The chunk is begun, unless an earlier attempt already made it.
Commit(a) ==
  /\ agg[a].step = "commit" /\ LockFree
  /\ LET i == agg[a].entry
     IN  IF Makeable(i)
         THEN session' = WithChunk(i, "RECORDING") /\ Goto(a, "write")
         ELSE UNCHANGED session /\ Goto(a, "map")
  /\ UNCHANGED <<fragments, blobs, entries, media, finalFile, backup, fin, crashes, late>>

WriteMedia(a) ==
  /\ agg[a].step = "write"
  /\ media' = media \cup {agg[a].entry}
  /\ Goto(a, "finalize")
  /\ UNCHANGED <<fragments, blobs, entries, session, finalFile, backup, fin, crashes, late>>

FinalizeChunk(a) ==
  /\ agg[a].step = "finalize"
  /\ session' = WithChunk(agg[a].entry, "FINALIZED")
  /\ Goto(a, "map")
  /\ UNCHANGED <<fragments, blobs, entries, media, finalFile, backup, fin, crashes, late>>

MarkMapped(a) ==
  /\ agg[a].step = "map"
  /\ entries' = [entries EXCEPT ![agg[a].entry].state = "FINALIZED"]
  /\ agg' = [agg EXCEPT ![a] = Idle]
  /\ UNCHANGED <<fragments, blobs, session, media, finalFile, backup, fin, crashes, late>>

-----------------------------------------------------------------------------
(* The end of the session: finalize_session, finalize_session_media.       *)

FinalizeSession ==
  /\ LockFree /\ session.status = "ACTIVE"
  /\ session' = [session EXCEPT !.status = "FINALIZED"]
  /\ UNCHANGED <<fragments, blobs, entries, media, finalFile, backup, agg, fin, crashes, late>>

\* The entries are in the order of the sequences and cover every fragment.
MappedInOrder ==
  /\ Mapped = fragments
  /\ \A i, j \in DOMAIN entries : i < j =>
       \A f \in entries[i].fragments, g \in entries[j].fragments : f < g

\* The recorded final media is there and about as long as all fragments.
ExistingIsValid ==
  /\ session.final # {} /\ finalFile = session.final
  /\ Cardinality(fragments) <= Cardinality(finalFile) + Tolerance

\* Unless the existing recording does, a new one is assembled.
FinalStart ==
  /\ LockFree /\ session.status = "FINALIZED"
  /\ Unfinished = {} /\ fragments # {} /\ MappedInOrder
  /\ fragments \subseteq blobs
  /\ ~ExistingIsValid
  /\ fin' = [step |-> "assemble", loaded |-> session, aside |-> {}]
  /\ UNCHANGED <<files, agg, crashes, late>>

\* Assembled; an older recording is moved to a name that is free, the first
\* of which is the backup.
FinalAside ==
  /\ fin.step = "assemble" /\ fragments \subseteq blobs
  /\ finalFile' = {}
  /\ IF backup = {}
     THEN backup' = finalFile /\ fin' = [fin EXCEPT !.step = "replace"]
     ELSE UNCHANGED backup /\ fin' = [fin EXCEPT !.step = "replace", !.aside = finalFile]
  /\ UNCHANGED <<fragments, blobs, entries, session, media, agg, crashes, late>>

FinalReplace ==
  /\ fin.step = "replace"
  /\ finalFile' = fragments
  /\ fin' = [fin EXCEPT !.step = "save"]
  /\ UNCHANGED <<fragments, blobs, entries, session, media, backup, agg, crashes, late>>

\* The recording moved aside, or else the backup, fills the place left empty.
FinalFails ==
  /\ fin.step \in {"assemble", "replace"}
  /\ IF finalFile = {} /\ fin.aside = {}
     THEN finalFile' = backup /\ backup' = {}
     ELSE finalFile' = finalFile \cup fin.aside /\ UNCHANGED backup
  /\ fin' = Off
  /\ UNCHANGED <<fragments, blobs, entries, session, media, agg, crashes, late>>

\* cleanup_temporary_media_if_safe, asked of the session s.
Cleanable(s) ==
  LET present == {i \in Chunks : s.chunks[i] # "ABSENT"}
  IN  /\ s.final # {} /\ finalFile = s.final
      /\ present # {} /\ \A i \in present : s.chunks[i] = "PROCESSED"
      /\ Unfinished = {}

\* The temporary media goes, if it may.
Clean(s) ==
  IF Cleanable(s)
  THEN blobs' = blobs \ fragments /\ media' = {i \in media : s.chunks[i] = "ABSENT"}
  ELSE UNCHANGED <<blobs, media>>

\* The session read before assembling is written back with the recording.
FinalSave ==
  /\ fin.step = "save"
  /\ session' = [fin.loaded EXCEPT !.final = fragments]
  /\ Clean(session')
  /\ fin' = Off
  /\ UNCHANGED <<fragments, entries, finalFile, backup, agg, crashes, late>>

-----------------------------------------------------------------------------
(* The life of a chunk after its finalization.                             *)

\* The processor, under its own lock.
Process(i) ==
  /\ i \in media
  /\ \/ State(i) \in {"FINALIZED", "FAILED"} /\ session' = WithChunk(i, "PROCESSING")
     \/ State(i) = "PROCESSING" /\ session' = WithChunk(i, "FAILED")
     \/ State(i) = "CANCEL_REQUESTED" /\ session' = WithChunk(i, "CANCELLED")
  /\ UNCHANGED <<fragments, blobs, entries, media, finalFile, backup, agg, fin, crashes, late>>

CompleteProcessing(i) ==
  /\ i \in media /\ State(i) = "PROCESSING"
  /\ session' = WithChunk(i, "PROCESSED")
  /\ Clean(session')
  /\ UNCHANGED <<fragments, entries, finalFile, backup, agg, fin, crashes, late>>

\* Requests of users: cancel and retry processing, cancel and retry an upload
\* that was cut off.
Control(i) ==
  /\ LockFree
  /\ \/ State(i) = "FINALIZED"        /\ session' = WithChunk(i, "CANCELLED")
     \/ State(i) = "PROCESSING"       /\ session' = WithChunk(i, "CANCEL_REQUESTED")
     \/ State(i) = "CANCELLED"        /\ session' = WithChunk(i, "FINALIZED")
     \/ State(i) = "FAILED"           /\ session' = WithChunk(i, "PROCESSING")
     \/ State(i) = "RECORDING"        /\ session' = WithChunk(i, "UPLOAD_CANCELLED")
     \/ State(i) = "UPLOAD_CANCELLED" /\ session' = WithChunk(i, "RECORDING")
  /\ UNCHANGED <<fragments, blobs, entries, media, finalFile, backup, agg, fin, crashes, late>>

DeleteCancelled(i) ==
  /\ LockFree /\ State(i) = "CANCELLED"
  /\ media' = media \ {i}
  /\ session' = WithChunk(i, "ABSENT")
  /\ UNCHANGED <<fragments, blobs, entries, finalFile, backup, agg, fin, crashes, late>>

\* An ACTIVE session that is found when the dashboard starts.
Reconciled ==
  [session EXCEPT
     !.status = "FAILED",
     !.chunks = [i \in Chunks |->
       CASE State(i) = "RECORDING" -> "UPLOAD_CANCELLED"
         [] State(i) \in {"FINALIZED", "PROCESSING", "PROCESSED"} /\ i \notin media -> "FAILED"
         [] OTHER -> State(i)]]

\* The dashboard stops and starts again.
Restart ==
  /\ crashes < MaxCrashes
  /\ crashes' = crashes + 1
  /\ agg' = [a \in Aggregators |-> Idle] /\ fin' = Off
  /\ session' = IF session.status = "ACTIVE" THEN Reconciled ELSE session
  /\ UNCHANGED <<fragments, blobs, entries, media, finalFile, backup, late>>

-----------------------------------------------------------------------------

Aggregate(a) ==
  \/ Reserve(a) \/ Assemble(a) \/ AssembleFails(a)
  \/ Commit(a) \/ WriteMedia(a) \/ FinalizeChunk(a) \/ MarkMapped(a)

Next ==
  \/ \E f \in Fragments : Upload(f)
  \/ \E a \in Aggregators : Aggregate(a)
  \/ FinalizeSession
  \/ FinalStart \/ FinalAside \/ FinalReplace \/ FinalFails \/ FinalSave
  \/ \E i \in Chunks :
       Process(i) \/ CompleteProcessing(i) \/ Control(i) \/ DeleteCancelled(i)
  \/ Restart

Spec == Init /\ [][Next]_vars

-----------------------------------------------------------------------------
(* Correctness.                                                            *)

\* No fragment goes into two chunks, in spite of retries, concurrent
\* aggregations and restarts.
MappedOnce ==
  \A i, j \in DOMAIN entries :
    i # j => entries[i].fragments \cap entries[j].fragments = {}

\* A finished entry stays finished and keeps its fragments: a failure of
\* another attempt does not reopen it.
FinishedStays ==
  [][\A i \in DOMAIN entries : entries[i].state = "FINALIZED" =>
       i \in DOMAIN entries' /\ entries'[i] = entries[i]]_vars

\* The chunk of a finished entry was finalized: it is not left half-way.
FinishedIsFinalized ==
  \A i \in DOMAIN entries \ Unfinished : State(i) \notin {"RECORDING", "UPLOAD_CANCELLED"}

\* A chunk to be processed has its media: cleanup, deletion and the session
\* written back by finalize_session_media never leave one without.
PlayableHasMedia ==
  \A i \in Chunks : State(i) \in {"FINALIZED", "PROCESSING"} => i \in media

\* The media of an acknowledged fragment is on disk, or in a final recording
\* that is the one session.json describes.
SourcesKept ==
  \A f \in fragments \ blobs : f \in session.final /\ finalFile = session.final

\* So it is, and the entries follow the sequences, unless a fragment arrived
\* after the final recording or out of order.
SourcesKeptUnlessLate ==
  late = {} =>
    /\ SourcesKept
    /\ \A f \in Mapped, g \in Lead : f < g

\* Fragments go into one chunk each, finished chunks are whole and playable,
\* and no media is lost unless it came late.
RecordingSafe == MappedOnce /\ FinishedIsFinalized /\ PlayableHasMedia /\ SourcesKeptUnlessLate

=============================================================================
