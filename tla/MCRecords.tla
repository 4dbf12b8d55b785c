------------------------------ MODULE MCRecords ------------------------------
(***************************************************************************)
(* Records that several actors, or several runs, keep in files: those of   *)
(* the dashboard (logical videos, assignments, edits, the frames of a      *)
(* video), those of the legacy watcher (its folders, its realtime          *)
(* sessions, its queue over Redis and its table of jobs), and the reports  *)
(* of the delivery gates and of the heavy validation.  They share no       *)
(* state: each is explored by itself, and `part' chooses which.            *)
(***************************************************************************)
EXTENDS Integers, FiniteSets

CONSTANTS
  Requests, Titles, MaxOffset, MaxOps,
  Clients, LibraryMedia, ProjectNames, Longer, MaxRequests, MaxFailures, m1, m2,
  Sources, Specs, MaxEdits, MaxChanges,
  Videos, Clips, ClipOf, Live, Patience, MaxDays, MaxRestarts, v1, v2,
  Sessions, Length, Capacity,
  RedisJobs, Loaders, MaxRetries, MaxLapses,
  Paths, Watcher, Depth, Recent, MaxRows,
  Times, Cooldown, MaxFrames, MaxExtractions,
  MaxDeliveries, MaxRuns, MaxLocks,
  Nobody

\* The name of every medium begins with m1's.
LongerNames == [m \in {m1, m2} |-> IF m = m1 THEN {m1, m2} ELSE {m}]

\* One video, and the audio of both, are transcribed in real time when a session can
\* be started.
LiveFiles == {<<v1, "video">>, <<"clip", "wav">>}

\* Both videos have one stem.
OneTitle == [v \in Videos |-> "clip"]

VARIABLES
  part,
  clock, titled, request, wanted, settled, merges,
  projects, overrides, library, text, segments, client, made, failures, kept, mixed, broken,
  version, jobs, keys, latest, edited, provenance, changes,
  phase, watched, texts, brief, summaries, queue, events, sessions, ids, processed, hand, idle,
  day, restarts, taken, gaveUp, unseen, turned, rewritten,
  current, condition, listed, number, thread, onDisk, tasks, inWork, results, stopping, leaked,
  swept, without,
  data, pending, processing, completed, failed, caller, worker, lapses, runs, tries, stale,
  dropped,
  pool, rows, entries, arrived, stack, calls, behind,
  looks, stage, method, cropping, plan, index, stamps, frames, originals, tocrop, mapping,
  extractions,
  at, pc, step, gate, world, outcome, folder, evidence, summary, deliveries, reported,
  phaseOf, next, outcomes, verdict, lock, stamp, installed, newest, report, validations, wrote,
  raced

playlist    == <<clock, titled, request, wanted, settled, merges>>
assignments == <<projects, overrides, library, text, segments, client, made, failures, kept,
                 mixed, broken>>
edits       == <<version, jobs, keys, latest, edited, provenance, changes>>
watcher     == <<phase, watched, texts, brief, summaries, queue, events, sessions, ids, processed,
                 hand, idle, day, restarts, taken, gaveUp, unseen, turned, rewritten>>
transcriber == <<current, condition, listed, number, thread, onDisk, tasks, inWork, results,
                 stopping, leaked, swept, without>>
redis       == <<data, pending, processing, completed, failed, caller, worker, lapses, runs,
                 tries, stale, dropped>>
jobtable    == <<pool, rows, entries, arrived, stack, calls, behind>>
pictures    == <<looks, stage, method, cropping, plan, index, stamps, frames, originals, tocrop,
                 mapping, extractions>>
delivery    == <<at, pc, step, gate, world, outcome, folder, evidence, summary, deliveries,
                 reported>>
validation  == <<phaseOf, next, outcomes, verdict, lock, stamp, installed, newest, report,
                 validations, wrote, raced>>

dashboard == <<playlist, assignments, edits, pictures>>
legacy    == <<watcher, transcriber, redis, jobtable>>
gates     == <<delivery, validation>>

P == INSTANCE Playlist WITH file <- titled, asked <- wanted, None <- Nobody
A == INSTANCE ProjectAssignments WITH Media <- LibraryMedia, Names <- ProjectNames, None <- Nobody
E == INSTANCE VideoEdits WITH Videos <- Sources, MaxJobs <- MaxEdits, None <- Nobody
W == INSTANCE LegacyWatcher WITH disk <- watched, Titles <- Clips, Title <- ClipOf,
                                 Limit <- Patience, None <- Nobody
R == INSTANCE RealtimeTranscriber WITH status <- condition, active <- current, None <- Nobody
Q == INSTANCE QueueManager WITH Jobs <- RedisJobs, Workers <- Loaders, None <- Nobody,
                                MaxFaults <- MaxLapses, faults <- lapses
J == INSTANCE TranscriptionJobs WITH Workers <- Loaders, None <- Nobody
K == INSTANCE Keyframes WITH None <- Nobody
D == INSTANCE DeliveryGates WITH status <- gate, results <- outcome, None <- Nobody
H == INSTANCE HeavyValidation WITH phase <- phaseOf, latest <- newest, runs <- validations,
                                   None <- Nobody

ASSUME RecordsAssumption ==
  /\ Longer \in [LibraryMedia -> SUBSET LibraryMedia] /\ \A m \in LibraryMedia : m \in Longer[m]
  /\ W!WatcherAssumption /\ Watcher \notin Loaders
  /\ {MaxOffset, MaxOps, MaxRequests, MaxFailures, MaxEdits, MaxChanges, Patience, MaxRestarts,
      MaxRetries, MaxLapses} \subseteq Nat
  /\ {MaxDays, Length, Capacity, Depth, Recent, MaxRows} \subseteq Nat \ {0}
  /\ \A S \in {Requests, Titles, Clients, LibraryMedia, ProjectNames, Sources, Specs, Videos,
               Sessions, RedisJobs, Loaders, Paths} :
       IsFiniteSet(S) /\ Nobody \notin S
  /\ E!EditsAssumption /\ K!KeyframesAssumption /\ D!DeliveryAssumption /\ H!HeavyAssumption

Parts == {"playlist", "assignments", "edits", "watcher", "transcriber", "redis", "jobs",
          "frames", "delivery", "validation"}

RecordsInit ==
  /\ P!Init /\ A!Init /\ E!Init /\ W!Init /\ R!Init /\ Q!Init /\ J!Init
  /\ K!Init /\ D!Init /\ H!Init
  /\ part \in Parts
  /\ part # "assignments" => projects = {}
  /\ projects \in {{}, ProjectNames}  \* one name is reached from none
  /\ part # "watcher" => watched = {}
  /\ part # "jobs" => pool = {}
  /\ part # "frames" => \A t \in Times : looks[t] = "a"

RecordsNext ==
  /\ part' = part
  /\ \/ /\ UNCHANGED <<legacy, gates>>
        /\ \/ part = "playlist" /\ P!Next /\ UNCHANGED <<assignments, edits, pictures>>
           \/ part = "assignments" /\ A!Next /\ UNCHANGED <<playlist, edits, pictures>>
           \/ part = "edits" /\ E!Next /\ UNCHANGED <<playlist, assignments, pictures>>
           \/ part = "frames" /\ K!Next /\ UNCHANGED <<playlist, assignments, edits>>
     \/ /\ UNCHANGED <<dashboard, gates>>
        /\ \/ part = "watcher" /\ W!Next /\ UNCHANGED <<transcriber, redis, jobtable>>
           \/ part = "transcriber" /\ R!Next /\ UNCHANGED <<watcher, redis, jobtable>>
           \/ part = "redis" /\ Q!Next /\ UNCHANGED <<watcher, transcriber, jobtable>>
           \/ part = "jobs" /\ J!Next /\ UNCHANGED <<watcher, transcriber, redis>>
     \/ /\ UNCHANGED <<dashboard, legacy>>
        /\ \/ part = "delivery" /\ D!Next /\ UNCHANGED validation
           \/ part = "validation" /\ H!Next /\ UNCHANGED delivery

RecordsSpec == RecordsInit /\ [][RecordsNext]_<<part, dashboard, legacy, gates>>

\* Two videos are watched for one day and one life of the process.
Brief == Cardinality(watched \cap (Videos \X {"video"})) > 1 => day = 1 /\ restarts = 0

-----------------------------------------------------------------------------
(* A part that is not explored stays as it was: what is said of it need    *)
(* not be evaluated.                                                       *)

RecordsTypeOK ==
  CASE part = "playlist"    -> P!TypeOK
    [] part = "assignments" -> A!TypeOK
    [] part = "edits"       -> E!TypeOK
    [] part = "watcher"     -> W!TypeOK
    [] part = "transcriber" -> R!TypeOK
    [] part = "redis"       -> Q!TypeOK
    [] part = "jobs"        -> J!TypeOK
    [] part = "frames"      -> K!TypeOK
    [] part = "delivery"    -> D!TypeOK
    [] part = "validation"  -> H!TypeOK

\* Logical videos, see Playlist: they cover the recording, bear one name each,
\* and keep the reviews acknowledged.
PlaylistSafe == part = "playlist" => P!PlaylistSafe

\* Assignments, see ProjectAssignments: those acknowledged are kept, and the
\* files of one request agree.
AssignmentsSafe == part = "assignments" => A!AssignmentsSafe

\* Edited copies, see VideoEdits: retries share a job, a completed edit is there
\* and an edited copy has its provenance.
EditsSafe == part = "edits" => E!EditsSafe

\* The watcher, see LegacyWatcher and RealtimeTranscriber: no file found is
\* forgotten, none is taken twice, a text is written once a day, and converted
\* files are removed; chunks of a session are transcribed in order, none is
\* skipped, and no temporary file is forgotten.
WatcherSafe ==
  /\ part = "watcher" => W!WatcherSafe
  /\ part = "transcriber" => R!RealtimeSafe

\* Jobs, see QueueManager and TranscriptionJobs: in one place, not forgotten, retried as
\* often as they may be; rows end, are bounded, and shared by copies.
LegacyJobsSafe ==
  /\ part = "redis" => Q!JobsSafe
  /\ part = "jobs" => J!RowsSafe

\* Frames, see Keyframes: they have their times and their originals, and none is
\* dropped that has no like.
FramesSafe == K!FramesSafe

\* Gates, see DeliveryGates and HeavyValidation: a gate that passed had what it needs and
\* left nothing behind, a validation passes only with every gate in a complete
\* environment, and what is reported is what it came to.
GatesSafe ==
  /\ part = "delivery" => D!DeliverySafe
  /\ part = "validation" => H!ValidationSafe

=============================================================================
