----------------------------- MODULE MediaTable -----------------------------
(***************************************************************************)
(* The table of recordings of the dashboard (GET /api/files): it walks the *)
(* media folders and makes a row of every file it meets, while recordings  *)
(* are closed, assembled, processed and cleaned up beside it.  A recorded  *)
(* session has one row, or one for each of its confirmed logical videos.   *)
(*                                                                         *)
(* Simplifications.                                                        *)
(*  - One session in live_capture; the other media files have rows that    *)
(*    depend on nothing the walk keeps.                                    *)
(*  - Of a row the session or logical video and whether deletion is        *)
(*    offered are kept; sorting, names, dates and sizes are left out.      *)
(*  - A session that cannot be loaded has no rows; test sessions neither.  *)
(***************************************************************************)
EXTENDS Integers, Sequences, FiniteSets, Functions

CONSTANTS
  Pieces,      \* processing chunks of the session
  Videos,      \* logical videos of its playlist
  MaxTurns,    \* bound: changes beside the walk
  MaxWalks,    \* bound: walks
  Instants,    \* transcripts: seconds, in units of the tolerance
  Gap,         \* 300 s in that unit
  None

TableAssumption ==
  /\ IsFiniteSet(Pieces) /\ IsFiniteSet(Videos) /\ "final" \notin Pieces
  /\ "session" \notin Videos
  /\ {MaxTurns, MaxWalks, Gap} \subseteq Nat
  /\ Instants \subseteq Nat /\ IsFiniteSet(Instants)

Media == Pieces \cup {"final"}
Folders == {"chunks", "final"}

VARIABLES
  active,      \* the session is ACTIVE
  piece,       \* states of its chunks
  onDisk,      \* media files
  recorded,    \* final_media is in the manifest
  playlist,    \* capture_mode
  confirmed,   \* CONFIRMED logical videos
  cover,       \* processingChunkIds of each
  walk,        \* the request
  rows,        \* rows made so far: of each logical video, and of the session
  offered,     \* rows that offer deletion, with the session they were made of
  disturbed,   \* something changed since the walk began
  turns, walks,
  judged       \* a transcript and its verdict

recording == <<active, piece, onDisk, recorded, playlist, confirmed, cover>>
table     == <<walk, rows, offered>>
vars      == <<recording, table, disturbed, turns, walks, judged>>

PieceStates == {"RECORDING", "UPLOAD_CANCELLED", "FINALIZED", "PROCESSING",
                "CANCEL_REQUESTED", "CANCELLED", "PROCESSED", "FAILED"}

Resting == [at |-> "rest"]

TypeOK ==
  /\ {active, recorded, playlist, disturbed} \subseteq BOOLEAN
  /\ piece \in [Pieces -> PieceStates]
  /\ onDisk \subseteq Media
  /\ confirmed \subseteq Videos /\ cover \in [Videos -> SUBSET Pieces]
  /\ walk.at \in {"rest", "walk", "row", "done", "error"}
  /\ rows \in [Videos \cup {"session"} -> Nat]
  /\ turns \in 0 .. MaxTurns /\ walks \in 0 .. MaxWalks

NoRows == [r \in Videos \cup {"session"} |-> 0]

\* Any recording, going on or already on record.
Init ==
  /\ piece \in [Pieces -> {"FINALIZED", "PROCESSED", "RECORDING"}]
  /\ LET written == {i \in Pieces : piece[i] # "RECORDING"} IN
       \/ active \in BOOLEAN /\ recorded = FALSE /\ onDisk = written
       \/ active = FALSE /\ recorded = TRUE /\ written # {} /\ onDisk = written \cup {"final"}
  /\ playlist \in BOOLEAN
  /\ cover \in IF playlist THEN [Videos -> SUBSET (onDisk \ {"final"})] ELSE {[v \in Videos |-> {}]}
  /\ confirmed \in IF playlist THEN SUBSET Videos ELSE {{}}
  /\ walk = Resting /\ rows = NoRows /\ offered = {}
  /\ disturbed = FALSE /\ turns = 0 /\ walks = 0 /\ judged = None

-----------------------------------------------------------------------------
(* What changes beside the walk.                                           *)

Turn ==
  /\ turns < MaxTurns /\ turns' = turns + 1
  /\ disturbed' = TRUE
  /\ UNCHANGED <<table, walks, judged, playlist, cover>>

Follows(s) ==
  CASE s = "FINALIZED"        -> {"PROCESSING", "CANCELLED"}
    [] s = "PROCESSING"       -> {"CANCEL_REQUESTED", "PROCESSED", "FAILED"}
    [] s = "CANCEL_REQUESTED" -> {"CANCELLED"}
    [] s = "RECORDING"        -> {"UPLOAD_CANCELLED"}
    [] OTHER                  -> {}

ChunkMoves(i) ==
  /\ \E s \in Follows(piece[i]) : piece' = [piece EXCEPT ![i] = s]
  /\ UNCHANGED <<active, onDisk, recorded, confirmed>>
  /\ Turn

Stop ==
  /\ active /\ active' = FALSE
  /\ UNCHANGED <<piece, onDisk, recorded, confirmed>>
  /\ Turn

\* finalize_session_media: the file first, its record later.
PlaceFinal ==
  /\ ~active /\ "final" \notin onDisk /\ Pieces \cap onDisk # {}
  /\ onDisk' = onDisk \cup {"final"}
  /\ UNCHANGED <<active, piece, recorded, confirmed>>
  /\ Turn

RecordFinal ==
  /\ "final" \in onDisk /\ ~recorded /\ recorded' = TRUE
  /\ UNCHANGED <<active, piece, onDisk, confirmed>>
  /\ Turn

\* Cleanup: one chunk file after the other, once all are processed.
CleanUp(i) ==
  /\ recorded /\ i \in onDisk /\ \A j \in Pieces : piece[j] = "PROCESSED"
  /\ onDisk' = onDisk \ {i}
  /\ UNCHANGED <<active, piece, recorded, confirmed>>
  /\ Turn

\* The review of the playlist.
Review(v) ==
  /\ playlist
  /\ confirmed' = IF v \in confirmed THEN confirmed \ {v} ELSE confirmed \cup {v}
  /\ UNCHANGED <<active, piece, onDisk, recorded>>
  /\ Turn

-----------------------------------------------------------------------------
(* What a row says of the session.                                         *)

Session == [active |-> active, piece |-> piece, recorded |-> recorded]

\* Mutant of CaptureUserStatus: what is over is looked for first.
CaptureUserStatusFinalFirst(s) ==
  LET has(state) == \E i \in Pieces : s.piece[i] = state IN
  IF has("FAILED") THEN "FAILED"
  ELSE IF has("CANCELLED") THEN "CANCELLED"
  ELSE IF has("CANCEL_REQUESTED") THEN "CANCEL_REQUESTED"
  ELSE IF has("PROCESSING") THEN "PROCESSING"
  ELSE IF has("FINALIZED") THEN "QUEUED"
  ELSE IF s.active THEN "CAPTURING" ELSE "COMPLETED"

\* _capture_user_status: the first of these that some chunk is in.
CaptureUserStatus(s) ==
  LET has(state) == \E i \in Pieces : s.piece[i] = state IN
  IF has("CANCEL_REQUESTED") THEN "CANCEL_REQUESTED"
  ELSE IF has("PROCESSING") THEN "PROCESSING"
  ELSE IF has("FAILED") THEN "FAILED"
  ELSE IF has("CANCELLED") THEN "CANCELLED"
  ELSE IF \A i \in Pieces : s.piece[i] = "PROCESSED" THEN "COMPLETED"
  ELSE IF has("FINALIZED") THEN "QUEUED"
  ELSE IF s.active THEN "CAPTURING" ELSE "FINALIZED"

\* _delete_action.
DeleteOffered(s) ==
  ~s.active /\ CaptureUserStatus(s) \notin {"CAPTURING", "QUEUED", "PROCESSING", "CANCEL_REQUESTED"}

\* delete_session.
DeleteAccepted(s) ==
  ~s.active /\ \A i \in Pieces : s.piece[i] \notin {"FINALIZED", "PROCESSING", "CANCEL_REQUESTED"}

-----------------------------------------------------------------------------
(* The walk.                                                               *)

BeginWalk ==
  /\ walk.at \in {"rest", "done", "error"} /\ walks < MaxWalks /\ walks' = walks + 1
  /\ walk' = [at |-> "walk", folders |-> Folders, todo |-> {}, sessionListed |-> FALSE,
              videosListed |-> {}]
  /\ rows' = NoRows /\ offered' = {} /\ disturbed' = FALSE
  /\ UNCHANGED <<recording, turns, judged>>

\* rglob reads a folder when it comes to it.
Enter(f) ==
  /\ walk.at = "walk" /\ walk.todo = {} /\ f \in walk.folders
  /\ walk' = [walk EXCEPT !.folders = @ \ {f},
                          !.todo = onDisk \cap (IF f = "final" THEN {"final"} ELSE Pieces)]
  /\ UNCHANGED <<recording, rows, offered, disturbed, turns, walks, judged>>

\* is_file, and the session of a chunk or a final recording is loaded.
Look(file) ==
  /\ walk.at = "walk" /\ file \in walk.todo
  /\ walk' = IF file \notin onDisk \/ (file # "final" /\ recorded)
             THEN [walk EXCEPT !.todo = @ \ {file}]
             ELSE [at |-> "row", folders |-> walk.folders, todo |-> walk.todo \ {file},
                   sessionListed |-> walk.sessionListed, videosListed |-> walk.videosListed,
                   file |-> file, session |-> Session]
  /\ UNCHANGED <<recording, rows, offered, disturbed, turns, walks, judged>>

\* The confirmed logical videos a file has rows for, with the chunk's listed once.
ChunkVideos(i) == {v \in confirmed : i \in cover[v] /\ v \notin walk.videosListed}

Rowed(vs) == [r \in DOMAIN rows |->
                rows[r] + (IF r \in vs \/ (r = "session" /\ confirmed = {}
                                           /\ ~walk.sessionListed) THEN 1 ELSE 0)]

NextFile(vs) ==
  [at |-> "walk", folders |-> walk.folders, todo |-> walk.todo, sessionListed |-> TRUE,
   videosListed |-> walk.videosListed \cup (IF walk.file = "final" THEN {} ELSE vs)]

\* The file is gone when its size is asked for: the request fails.
FileGone ==
  /\ walk.at = "row" /\ walk.file \notin onDisk
  /\ walk' = [at |-> "error"]
  /\ UNCHANGED <<recording, rows, offered, disturbed, turns, walks, judged>>

Row ==
  LET vs == IF walk.file = "final" THEN confirmed ELSE ChunkVideos(walk.file) IN
  /\ walk.at = "row" /\ walk.file \in onDisk
  /\ rows' = Rowed(vs)
  /\ offered' = IF rows' # rows
                THEN offered \cup {[session |-> walk.session,
                                    delete |-> DeleteOffered(walk.session)]}
                ELSE offered
  /\ walk' = NextFile(vs)
  /\ UNCHANGED <<recording, disturbed, turns, walks, judged>>

EndWalk ==
  /\ walk.at = "walk" /\ walk.todo = {} /\ walk.folders = {}
  /\ walk' = [at |-> "done"]
  /\ UNCHANGED <<recording, rows, offered, disturbed, turns, walks, judged>>

-----------------------------------------------------------------------------
(* _transcript_coverage, of the transcripts of one project.                *)

Intervals == {s \in Instants \X Instants : s[1] < s[2]}

\* sorted(): by start, then by end.
NoLater(a, b) == a[1] < b[1] \/ (a[1] = b[1] /\ a[2] <= b[2])

InOrder(segments) ==
  LET places == CHOOSE p \in [DOMAIN segments -> DOMAIN segments] :
                  /\ IsInjective(p)
                  /\ \A i, j \in DOMAIN segments : i < j => NoLater(segments[p[i]], segments[p[j]])
  IN  [i \in DOMAIN segments |-> segments[places[i]]]

\* A transcript without timed segments is PARTIAL, as is one without a duration.
Coverage(segments, duration) ==
  LET timed == InOrder(segments)
      ends  == {timed[i][2] : i \in DOMAIN timed}
      last  == CHOOSE e \in ends : \A f \in ends : f <= e
  IN
  IF segments = <<>> \/ duration = None THEN "PARTIAL"
  ELSE IF \/ 20 * last > 21 * duration
          \/ timed[1][1] > Gap
          \/ \E i \in DOMAIN timed : i + 1 \in DOMAIN timed /\ timed[i + 1][1] - timed[i][2] > Gap
          \/ duration - last > Gap
       THEN "PARTIAL" ELSE "READY"

Judge ==
  /\ walks = 0 /\ turns = 0 /\ onDisk = {} /\ ~playlist
  /\ \E n \in 0 .. 2 : \E segments \in [1 .. n -> Intervals], duration \in Instants \cup {None} :
       judged' = [segments |-> segments, duration |-> duration,
                  verdict |-> Coverage(segments, duration)]
  /\ UNCHANGED <<recording, table, disturbed, turns, walks>>

\* A transcript is judged by itself.
Next ==
  /\ judged = None
  /\ \/ Stop \/ PlaceFinal \/ RecordFinal
     \/ \E i \in Pieces : ChunkMoves(i) \/ CleanUp(i)
     \/ \E v \in Videos : Review(v)
     \/ BeginWalk \/ (\E f \in Folders : Enter(f)) \/ (\E f \in Media : Look(f))
     \/ FileGone \/ Row \/ EndWalk
     \/ Judge

Spec == Init /\ [][Next]_vars

-----------------------------------------------------------------------------
(* Properties.                                                             *)

\* A video that a chunk on disk, or the final recording, has parts of.
Visible(v) == "final" \in onDisk \/ cover[v] \cap onDisk # {}

\* When nothing happens beside the walk and the final recording is on record, each
\* confirmed video that can be seen has one row, and a session without any has one.
ListedOnce ==
  walk.at = "done" /\ ~disturbed /\ ("final" \in onDisk => recorded) =>
    /\ \A v \in Videos : rows[v] = IF v \in confirmed /\ Visible(v) THEN 1 ELSE 0
    /\ rows["session"] = IF confirmed = {} /\ onDisk # {} THEN 1 ELSE 0

\* Whatever happens beside it, the session has at most one row of its own.
SessionOnce == rows["session"] <= 1

\* Deletion of a session that would be refused for its recording or its processing
\* is never offered, and one that would be accepted always is; failed chunks beside
\* waiting ones aside.
OfferIsRight ==
  \A o \in offered :
    /\ DeleteAccepted(o.session) => o.delete
    /\ o.delete =>
         /\ ~o.session.active
         /\ \A i \in Pieces : o.session.piece[i] \notin {"PROCESSING", "CANCEL_REQUESTED"}

\* In a READY transcript no stretch longer than the gap is without a segment.
ReadyIsCovered ==
  judged # None /\ judged.verdict = "READY" =>
    \A from, to \in Instants :
      from < to /\ to <= judged.duration /\ to - from > Gap =>
        \E i \in DOMAIN judged.segments :
          judged.segments[i][1] < to /\ judged.segments[i][2] > from

\* What the table shows: ListedOnce, SessionOnce, OfferIsRight and ReadyIsCovered.
TableSafe == ListedOnce /\ SessionOnce /\ OfferIsRight /\ ReadyIsCovered

=============================================================================
