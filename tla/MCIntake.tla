------------------------------ MODULE MCIntake ------------------------------
(***************************************************************************)
(* How a recording comes in piece by piece: the chunks of a K'ab session,   *)
(* the completion of such a session, the fragments of a live capture, the   *)
(* requests about its chunks, and the table of recordings.  They share no   *)
(* state: `part' chooses the one a behaviour is about.                      *)
(***************************************************************************)
EXTENDS Integers, FiniteSets, TLC

CONSTANTS
  Slots, Extensions, Contents, Size, MaxChunks, MaxSession, MaxStops, small, large,
  Handlers, Segments, Expected, Ends, MaxTries, MaxFaults,
  Fragments, ChunkFragments, Tolerance, Aggregators, Forcing, MaxCrashes,
  Requests, Processor, MaxCaptured, MaxOps,
  Pieces, Logical, MaxTurns, MaxWalks, Instants, Gap,
  None

\* Chunks of one and two bytes.
Bytes == small :> 1 @@ large :> 2

VARIABLES
  part,
  chunk, assembled, meta, junk, usage, pc, req, stops,
  received, status, published, tries, faults, session, completion, hpc, hreq, quoted,
  before, acked, overlap,
  fragments, blobs, entries, recording, media, finalFile, backup, agg, fin, crashes, late,
  manifest, stored, sidecar, thread, event, cancelled, ops, restarts, shared, asked, supplied,
  crossed, cut, stale,
  live, piece, onFile, recorded, grouped, confirmed, cover, walk, listing, offered, disturbed,
  turns, walks, judged

chunks     == <<chunk, assembled, meta, junk, usage, pc, req, stops>>
completing == <<received, status, published, tries, faults, session, completion, hpc, hreq,
                quoted, before, acked, overlap>>
capture    == <<fragments, blobs, entries, recording, media, finalFile, backup, agg, fin,
                crashes, late>>
requesting == <<manifest, stored, sidecar, thread, event, cancelled, ops, restarts, shared,
                asked, supplied, crossed, cut, stale>>
table      == <<live, piece, onFile, recorded, grouped, confirmed, cover, walk, listing,
                offered, disturbed, turns, walks, judged>>

U == INSTANCE KabUpload WITH MaxCrashes <- MaxStops, crashes <- stops
S == INSTANCE KabSession
C == INSTANCE CaptureFragments WITH session <- recording
R == INSTANCE CaptureChunks
       WITH MaxChunks <- MaxCaptured, MaxStops <- MaxCrashes, media <- stored, stops <- restarts
T == INSTANCE MediaTable
       WITH Videos <- Logical, active <- live, onDisk <- onFile, playlist <- grouped,
            rows <- listing

ASSUME IntakeAssumption ==
  /\ U!ConstantsAssumption /\ S!ConstantsAssumption /\ C!ConstantsAssumption
  /\ R!ChunksAssumption /\ T!TableAssumption

Init ==
  /\ U!Init /\ S!Init /\ C!Init /\ R!Init /\ T!Init
  /\ part \in {"chunks", "completing", "capture", "requests", "table"}
  /\ part # "table" => live /\ onFile = {} /\ ~grouped
  /\ confirmed # {"v2"}  \* the logical videos are interchangeable

\* Between requests the receiver may have nothing left to store.
Rest == pc = "idle" /\ UNCHANGED chunks

\* The dashboard may be asked nothing more.
Quiet == (\A t \in R!Threads : thread[t].pc = "idle") /\ UNCHANGED requesting

\* The table need not be asked for; a walk that began comes to an end.
Unasked == walk.at \notin {"walk", "row"} /\ UNCHANGED table

Next ==
  /\ part' = part
  /\ \/ part = "chunks" /\ (U!Next \/ Rest) /\ UNCHANGED <<completing, capture, requesting, table>>
     \/ part = "completing" /\ S!Next /\ UNCHANGED <<chunks, capture, requesting, table>>
     \/ part = "capture" /\ C!Next /\ UNCHANGED <<chunks, completing, requesting, table>>
     \/ part = "requests" /\ (R!Next \/ Quiet) /\ UNCHANGED <<chunks, completing, capture, table>>
     \/ part = "table" /\ (T!Next \/ Unasked)
        /\ UNCHANGED <<chunks, completing, capture, requesting>>

Spec == Init /\ [][Next]_<<part, chunks, completing, capture, requesting, table>>

-----------------------------------------------------------------------------
(* A part that is not explored stays as it was: what is said of it need     *)
(* not be evaluated.                                                        *)

TypeOK ==
  CASE part = "chunks"     -> U!TypeOK
    [] part = "completing" -> S!TypeOK
    [] part = "capture"    -> C!TypeOK
    [] part = "requests"   -> R!TypeOK
    [] part = "table"      -> T!TypeOK

\* Chunks, see KabUpload: within the quota, accounted for, and what was declared.
StorageSafe == [](part = "chunks" => U!StorageSound) /\ U!ChunksImmutable

\* Completion, see KabSession: a completed session is backed by its file, which
\* stays, and other parameters are refused.
CompletionSafe == [](part = "completing" => S!CompletionSafe) /\ S!CompletedIsFinal

\* Fragments, see CaptureFragments: each goes into one chunk, finished chunks
\* stay, are whole and playable, and no media is lost unless it came late.
RecordingSafe == [](part = "capture" => C!RecordingSafe) /\ C!FinishedStays

\* Requests, see CaptureChunks: nothing is lost between operations of one service, and
\* saved states move along their state machines.
CaptureSafe == [](part = "requests" => R!ChunksSound) /\ R!MovesAsAllowed

\* The table, see MediaTable: each recording once, and deletion offered rightly.
TableSafe == part = "table" => T!TableSafe

=============================================================================
