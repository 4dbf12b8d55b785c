---------------------------- MODULE LegacyWatcher ----------------------------
(***************************************************************************)
(* The watcher service: one thread walks two folders and then observes     *)
(* them, another transcribes what they put in a queue, and a watchdog ends *)
(* the process when nothing was begun or finished for too long; what is in *)
(* memory is lost and the container starts the process again.              *)
(*                                                                         *)
(* Transcribing a video writes two files below the observed audio folder:  *)
(* <stem>.wav, and enhanced_<stem>.wav while the model listens.  They are  *)
(* new files like any other, and <stem>.wav is transcribed into the text   *)
(* of the video.  Videos of one project and one stem share both files and  *)
(* the text.                                                               *)
(*                                                                         *)
(* Simplifications.                                                        *)
(*  - All sources are videos; an enhanced file is not enhanced again.      *)
(*  - Stems of different projects differ (an id of a session has the stem  *)
(*    without the project).                                                *)
(*  - A walk of one folder is one step.                                    *)
(*  - Rag copies, mail and Notion, which never stop the thread, happen     *)
(*    with the writing of the summary.                                     *)
(***************************************************************************)
EXTENDS Integers, FiniteSets, Sequences, SequencesExt

CONSTANTS
  Videos,
  Titles,      \* project and stem of files
  Title,       \* that of each video
  Live,        \* files whose folder or size asks for real time
  Limit,       \* ticks without activity the watchdog allows
  MaxDays,     \* bound: days
  MaxRestarts, \* bound: restarts
  None

Files == (Videos \X {"video"}) \cup (Titles \X {"wav", "enhanced"})
Days  == 1 .. MaxDays

WatcherAssumption == Title \in [Videos -> Titles] /\ Live \subseteq Files

\* What is written for a file is named after its stem.
Named(f) == IF f[2] = "video" THEN Title[f[1]] ELSE f[1]
Stems    == Titles \X {"plain", "enhanced"}
Stem(f)  == <<Named(f), IF f[2] = "enhanced" THEN "enhanced" ELSE "plain">>
Wav(f)      == <<Named(f), "wav">>
Enhanced(f) == <<Named(f), "enhanced">>

VARIABLES
  phase,     \* of the main thread: "videos", "audio", "observer", "watching", "down"
  disk,      \* files there are
  texts,     \* <stem, day>: transcripts
  brief,     \* those too short to be looked up again
  summaries, \* <stem, day>: summaries in HTML
  queue,     \* processing_queue
  events,    \* files the observer has still to report
  sessions,  \* files in active_realtime_sessions that were started
  ids,       \* stems in active_realtime_sessions with the second it is
  processed, \* processed_files
  hand,      \* the file being processed, where, and the day it was begun
  idle,      \* ticks since the last activity
  day,
  \* history
  restarts,
  taken,     \* in this life: how often each file was taken from the queue
  gaveUp,    \* in this life: files whose processing failed
  unseen,    \* in this life: files that appeared between the walk and the observer
  turned,    \* in this life: files whose session had the name of an earlier one
  rewritten  \* <stem, day>: texts, long enough, that were written over

wvars == <<phase, disk, texts, brief, summaries, queue, events, sessions, ids, processed,
           hand, idle, day, restarts, taken, gaveUp, unseen, turned, rewritten>>

files  == <<disk, texts, brief, summaries, rewritten>>
live   == <<sessions, ids, turned>>
memory == <<queue, events, live, processed, hand, taken, gaveUp, unseen>>

Stages == {"convert", "text", "listen", "original", "summary"}
InHand == {f \in Files : hand # None /\ hand.file = f}

TypeOK ==
  /\ phase \in {"videos", "audio", "observer", "watching", "down"}
  /\ disk \subseteq Files /\ sessions \subseteq Files /\ processed \subseteq Files
  /\ gaveUp \subseteq Files /\ unseen \subseteq Files /\ turned \subseteq Files /\ ids \subseteq Stems
  /\ texts \subseteq Stems \X Days /\ brief \subseteq texts /\ summaries \subseteq Stems \X Days
  /\ queue \in Seq(Files) /\ events \in Seq(Files) /\ taken \in [Files -> Nat]
  /\ hand \in [file : Files, at : Stages, day : Days] \cup {None}
  /\ idle \in 0 .. (Limit + 1) /\ day \in Days /\ restarts \in 0 .. MaxRestarts
  /\ rewritten \subseteq Stems \X Days

Init ==
  /\ phase = "videos" /\ disk \in SUBSET {<<v, "video">> : v \in Videos}
  /\ texts = {} /\ brief = {} /\ summaries = {}
  /\ queue = <<>> /\ events = <<>> /\ sessions = {} /\ ids = {} /\ processed = {}
  /\ hand = None /\ idle = 0 /\ day = 1 /\ restarts = 0
  /\ taken = [f \in Files |-> 0] /\ gaveUp = {} /\ unseen = {} /\ turned = {}
  /\ rewritten = {}

-----------------------------------------------------------------------------
(* The main thread.                                                        *)

AlreadyTranscribed(f) == <<Stem(f), day>> \in texts

\* Folder of a file: videos are in one, audio in the other.
Walked(f) == IF f[2] = "video" THEN phase # "videos" ELSE phase \notin {"videos", "audio"}

\* process_existing_files: in the order the file system gives.
Walk(kinds) ==
  LET there == {f \in disk : f[2] \in kinds} \ processed
      done  == {f \in there : AlreadyTranscribed(f)}
  IN  /\ processed' = processed \cup done
      /\ \E order \in SetToSeqs(there \ done) : queue' = queue \o order
      /\ UNCHANGED <<files, events, live, hand, idle, day, restarts, taken, gaveUp, unseen>>

WalkVideos == phase = "videos" /\ Walk({"video"}) /\ phase' = "audio"
WalkAudio  == phase = "audio" /\ Walk({"wav", "enhanced"}) /\ phase' = "observer"

Observe ==
  /\ phase = "observer" /\ phase' = "watching"
  /\ UNCHANGED <<files, memory, idle, day, restarts>>

\* Files new on the disk, which the observer reports when it runs.
Appear(new) ==
  LET fresh == new \ disk
  IN  /\ disk' = disk \cup new
      /\ events' = IF phase = "watching" THEN events \o SetToSeq(fresh) ELSE events
      /\ unseen' = IF phase # "watching" THEN unseen \cup {f \in fresh : Walked(f)} ELSE unseen

NewVideo(v) ==
  /\ <<v, "video">> \notin disk /\ phase # "down"
  /\ Appear({<<v, "video">>})
  /\ UNCHANGED <<phase, texts, brief, summaries, queue, live, processed, hand, idle, day,
                 restarts, taken, gaveUp, rewritten>>

-----------------------------------------------------------------------------
(* on_created, in the thread of the observer.                              *)

Reported ==
  /\ phase = "watching" /\ events # <<>>
  /\ events' = Tail(events)
  /\ UNCHANGED <<phase, files, processed, hand, idle, day, restarts, taken, gaveUp, unseen>>

ToQueue ==
  /\ Reported /\ Head(events) \notin Live
  /\ queue' = Append(queue, Head(events)) /\ UNCHANGED live

\* The id of a session is the stem of the file and the second.
StartLive ==
  LET f == Head(events) IN
  /\ Reported /\ f \in Live /\ Stem(f) \notin ids
  /\ ids' = ids \cup {Stem(f)} /\ sessions' = sessions \cup {f}
  /\ UNCHANGED <<queue, turned>>

\* Mutant of FallBack: a session that could not be started is all there is to it.
FallBackNot ==
  LET f == Head(events) IN
  /\ Reported /\ f \in Live /\ Stem(f) \notin ids
  /\ ids' = ids \cup {Stem(f)} /\ UNCHANGED <<queue, sessions, turned>>

\* The session could not be started: the file is processed like any other, and the
\* id stays taken.
FallBack ==
  LET f == Head(events) IN
  /\ Reported /\ f \in Live /\ Stem(f) \notin ids
  /\ ids' = ids \cup {Stem(f)} /\ queue' = Append(queue, f)
  /\ UNCHANGED <<sessions, turned>>

\* A session of that id exists: the file is neither transcribed nor queued.
TurnAway ==
  LET f == Head(events) IN
  /\ Reported /\ f \in Live /\ Stem(f) \in ids
  /\ turned' = turned \cup {f}
  /\ UNCHANGED <<queue, sessions, ids>>

-----------------------------------------------------------------------------
(* process_queue_worker and process_video.                                 *)

Take ==
  /\ phase # "down" /\ hand = None /\ queue # <<>>
  /\ LET f == Head(queue)
     IN  hand' = [file |-> f, at |-> IF f[2] = "video" THEN "convert" ELSE "text", day |-> day]
  /\ queue' = Tail(queue) /\ taken' = [taken EXCEPT ![Head(queue)] = @ + 1] /\ idle' = 0
  /\ UNCHANGED <<phase, files, events, live, processed, day, restarts, gaveUp, unseen>>

At(stage) == phase # "down" /\ hand # None /\ hand.at = stage

Quiet == UNCHANGED <<phase, queue, live, processed, day, restarts, taken>>

GiveUp == hand' = None /\ gaveUp' = gaveUp \cup {hand.file} /\ UNCHANGED idle

Convert ==
  /\ At("convert")
  /\ Appear({Wav(hand.file)}) /\ hand' = [hand EXCEPT !.at = "text"]
  /\ Quiet /\ UNCHANGED <<texts, brief, summaries, idle, gaveUp, rewritten>>

\* ffmpeg may leave a part of the file.
ConvertFails ==
  /\ At("convert") /\ GiveUp
  /\ \E part \in {{}, {Wav(hand.file)}} : Appear(part)
  /\ Quiet /\ UNCHANGED <<texts, brief, summaries, rewritten>>

Text(h) == <<Stem(h.file), h.day>>

\* safe_transcribe: a text of that day is left as it is if it is long enough.
IsWritten(h) == Text(h) \in texts \ brief

SkipText ==
  /\ At("text") /\ IsWritten(hand) /\ hand' = [hand EXCEPT !.at = "summary"]
  /\ Quiet /\ UNCHANGED <<files, events, idle, gaveUp, unseen>>

\* What the model listens to.
Source(f) == IF f[2] = "video" THEN Wav(f) ELSE f
Better(f) == IF f[2] = "enhanced" THEN {} ELSE {Enhanced(f)}

Enhance ==
  /\ At("text") /\ ~IsWritten(hand) /\ Source(hand.file) \in disk
  /\ Appear(Better(hand.file)) /\ hand' = [hand EXCEPT !.at = "listen"]
  /\ Quiet /\ UNCHANGED <<texts, brief, summaries, idle, gaveUp, rewritten>>

\* The model listens to the original; what ffmpeg wrote stays.
EnhanceFails ==
  /\ At("text") /\ ~IsWritten(hand) /\ hand' = [hand EXCEPT !.at = "original"]
  /\ \E part \in IF Source(hand.file) \in disk THEN {{}, Better(hand.file)} ELSE {{}} :
       Appear(part)
  /\ Quiet /\ UNCHANGED <<texts, brief, summaries, idle, gaveUp, rewritten>>

NoModel ==
  /\ At("text") /\ ~IsWritten(hand) /\ GiveUp
  /\ Quiet /\ UNCHANGED <<files, events, unseen>>

Listening == At("listen") \/ At("original")

\* An enhanced file that was listened to is removed, however that ends.
Silence == disk' = IF hand.at = "listen" THEN disk \ Better(hand.file) ELSE disk

Listen ==
  /\ Listening /\ Source(hand.file) \in disk /\ Silence
  /\ texts' = texts \cup {Text(hand)}
  /\ brief' \in {brief \ {Text(hand)}, brief \cup {Text(hand)}}
  /\ rewritten' = IF Text(hand) \in texts \ brief
                  THEN rewritten \cup {Text(hand)} ELSE rewritten
  /\ hand' = [hand EXCEPT !.at = "summary"]
  /\ Quiet /\ UNCHANGED <<summaries, events, idle, gaveUp, unseen>>

ListenFails ==
  /\ Listening /\ Silence /\ GiveUp
  /\ Quiet /\ UNCHANGED <<texts, brief, summaries, rewritten, events, unseen>>

\* Only what was converted for the transcription is removed.
CleanWav(f) == IF f[2] = "video" THEN disk \ {Wav(f)} ELSE disk

Summarise ==
  /\ At("summary")
  /\ summaries' = summaries \cup {Text(hand)}
  /\ disk' = CleanWav(hand.file)
  /\ processed' = processed \cup {hand.file}
  /\ hand' = None /\ idle' = 0
  /\ UNCHANGED <<phase, texts, brief, rewritten, queue, events, live, day, restarts, taken,
                 gaveUp, unseen>>

SummariseFails ==
  /\ At("summary") /\ GiveUp
  /\ Quiet /\ UNCHANGED <<files, events, unseen>>

-----------------------------------------------------------------------------
(* Time, the watchdog and the container.                                   *)

\* The second ends, before the watchdog counts a tick or between its ticks.
Tick ==
  /\ phase # "down"
  /\ \/ idle <= Limit /\ idle' = idle + 1
     \/ ids # {} /\ idle' = idle
  /\ ids' = {}
  /\ UNCHANGED <<phase, files, queue, events, sessions, processed, hand, day, restarts, taken,
                 gaveUp, unseen, turned>>

NewDay ==
  /\ day < MaxDays /\ day' = day + 1 /\ ids' = {}
  /\ UNCHANGED <<phase, files, queue, events, sessions, processed, hand, idle, restarts, taken,
                 gaveUp, unseen, turned>>

Watchdog ==
  /\ phase # "down" /\ idle > Limit /\ phase' = "down"
  /\ UNCHANGED <<files, memory, idle, day, restarts>>

Restart ==
  /\ phase = "down" /\ restarts < MaxRestarts
  /\ phase' = "videos" /\ restarts' = restarts + 1 /\ idle' = 0
  /\ queue' = <<>> /\ events' = <<>> /\ sessions' = {} /\ ids' = {} /\ processed' = {}
  /\ hand' = None /\ taken' = [f \in Files |-> 0] /\ gaveUp' = {} /\ unseen' = {} /\ turned' = {}
  /\ UNCHANGED <<files, day>>

Next ==
  \/ WalkVideos \/ WalkAudio \/ Observe
  \/ \E v \in Videos : NewVideo(v)
  \/ ToQueue \/ StartLive \/ FallBack \/ TurnAway
  \/ Take \/ Convert \/ ConvertFails \/ SkipText \/ Enhance \/ EnhanceFails
  \/ NoModel \/ Listen \/ ListenFails \/ Summarise \/ SummariseFails
  \/ Tick \/ NewDay \/ Watchdog \/ Restart

-----------------------------------------------------------------------------
(* Properties.                                                             *)

\* Every file found is waiting, in work, in a session, or was dealt with,
\* unless it came after the walk of its folder and before the observer, or a
\* session of its stem was begun in the same second: then nobody takes it up.
Accounted ==
  \A f \in disk : phase # "down" /\ Walked(f) =>
    f \in ToSet(queue) \cup ToSet(events) \cup sessions \cup processed \cup gaveUp
          \cup unseen \cup turned \cup InHand

Sharing(t) == {v \in Videos : Title[v] = t /\ <<v, "video">> \in disk}

\* The walks and the observer do not find the same file twice: in one life of
\* the process no name is queued twice, but for what is made for several videos
\* of one stem, or for a video, and then its wav, that failed to be enhanced.
TakenOnce ==
  \A f \in Files : taken[f] + Cardinality({i \in DOMAIN queue : queue[i] = f}) > 1 =>
    /\ f[2] # "video"
    /\ \/ Cardinality(Sharing(f[1])) > 1
       \/ f[2] = "enhanced" /\ \E v \in Sharing(f[1]) : <<v, "video">> \in gaveUp

\* The text of a day is not made again by another file of its stem, or after a
\* restart, unless it was too short to be found.
WrittenOnce == rewritten = {}

\* A converted file that nobody will process or remove is what a failure or a
\* restart left, or its own processing.
Leftovers ==
  \A t \in Titles : <<t, "wav">> \in disk =>
    \/ phase = "down" \/ ~Walked(<<t, "wav">>)
    \/ hand # None /\ Named(hand.file) = t
    \/ restarts > 0 \/ \E v \in Sharing(t) : <<v, "video">> \in gaveUp

WatcherSafe == Accounted /\ TakenOnce /\ WrittenOnce /\ Leftovers

=============================================================================
