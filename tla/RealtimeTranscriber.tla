------------------------ MODULE RealtimeTranscriber ------------------------
(***************************************************************************)
(* Transcription of recordings while they are read: a thread per session   *)
(* cuts chunks into temporary files and puts them in one bounded queue, a  *)
(* worker transcribes them one at a time, and a cleaning thread removes    *)
(* what ended sessions left.  No lock protects the table of sessions.      *)
(*                                                                         *)
(* Simplifications.                                                        *)
(*  - A session's name is used once, as its callers do.                    *)
(*  - Calls, cut from a microphone's buffer instead of a file, put, list   *)
(*    and end their chunks in the same way.                                *)
(*  - There is one worker, so its count never reaches the limit of jobs    *)
(*    and no task is put back.                                             *)
(*  - Any session may be older than the hour it is kept.                   *)
(***************************************************************************)
EXTENDS Integers, FiniteSets, Sequences, SequencesExt

CONSTANTS
  Sessions,
  Length,   \* chunks of a recording
  Capacity, \* of the queue
  None

Numbers == 0 .. Length - 1
Chunks  == Sessions \X Numbers

VARIABLES
  active,   \* active_sessions: the names in it
  status,   \* of each session's record, which its thread keeps
  listed,   \* temp_files of each session
  number,   \* chunk_number of each thread
  thread,   \* where each thread is
  onDisk,   \* temporary files there are
  tasks,    \* transcription_queue
  inWork,   \* the task in hand, and whether it was found to be wanted
  results,  \* results_cache
  stopping, \* sessions that are being stopped
  \* history
  leaked,   \* files of extractions that were cut off
  swept,    \* chunks whose files were removed by cleaning or stopping
  without   \* chunks without a text: silent, or the model failed

rvars == <<active, status, listed, number, thread, onDisk, tasks, inWork, results, stopping,
           leaked, swept, without>>

Records == {"none", "starting", "running", "stopping", "completed", "error"}

TypeOK ==
  /\ active \subseteq Sessions /\ stopping \subseteq Sessions
  /\ status \in [Sessions -> Records]
  /\ listed \in [Sessions -> SUBSET Numbers]
  /\ number \in [Sessions -> 0 .. Length]
  /\ thread \in [Sessions -> {"new", "fetch", "set", "loop", "put", "list", "ended"}]
  /\ onDisk \subseteq Chunks /\ leaked \subseteq Sessions
  /\ swept \subseteq Chunks /\ without \subseteq Chunks
  /\ tasks \in Seq(Chunks) /\ Len(tasks) <= Capacity
  /\ inWork \in [task : Chunks, wanted : BOOLEAN] \cup {None}
  /\ results \in [Sessions -> Seq(Numbers)]

Init ==
  /\ active = {} /\ status = [s \in Sessions |-> "none"]
  /\ listed = [s \in Sessions |-> {}] /\ number = [s \in Sessions |-> 0]
  /\ thread = [s \in Sessions |-> "new"]
  /\ onDisk = {} /\ tasks = <<>> /\ inWork = None
  /\ results = [s \in Sessions |-> <<>>] /\ stopping = {}
  /\ leaked = {} /\ swept = {} /\ without = {}

-----------------------------------------------------------------------------
(* start_video_transcription, and the thread it starts.                    *)

Work    == <<tasks, inWork, results, without>>

Start(s) ==
  /\ thread[s] = "new" /\ s \notin active
  /\ active' = active \cup {s} /\ status' = [status EXCEPT ![s] = "starting"]
  /\ thread' = [thread EXCEPT ![s] = "fetch"]
  /\ UNCHANGED <<listed, number, onDisk, Work, stopping, leaked, swept>>

\* A session stopped before its thread ran is not found.
Fetch(s) ==
  /\ thread[s] = "fetch"
  /\ thread' = [thread EXCEPT ![s] = IF s \in active THEN "set" ELSE "ended"]
  /\ UNCHANGED <<active, status, listed, number, onDisk, Work, stopping, leaked, swept>>

\* Writes over a stop that came since.
SetRunning(s) ==
  /\ thread[s] = "set" /\ status' = [status EXCEPT ![s] = "running"]
  /\ thread' = [thread EXCEPT ![s] = "loop"]
  /\ UNCHANGED <<active, listed, number, onDisk, Work, stopping, leaked, swept>>

\* The chunk is cut; or the recording has no more or cannot be read; or the
\* cut takes a minute, is given up and leaves its file.
Extract(s) ==
  /\ thread[s] = "loop" /\ status[s] = "running" /\ number[s] < Length
  /\ onDisk' = onDisk \cup {<<s, number[s]>>}
  /\ thread' = [thread EXCEPT ![s] = "put"]
  /\ UNCHANGED <<active, status, listed, number, Work, stopping, leaked, swept>>

Completed(s) ==
  /\ status' = [status EXCEPT ![s] = "completed"]
  /\ thread' = [thread EXCEPT ![s] = "ended"]
  /\ UNCHANGED <<active, listed, number, Work, stopping, swept>>

NoMore(s) ==
  /\ thread[s] = "loop" /\ Completed(s) /\ UNCHANGED <<onDisk, leaked>>

CutOff(s) ==
  /\ thread[s] = "loop" /\ status[s] = "running" /\ number[s] < Length
  /\ Completed(s)
  /\ onDisk' = onDisk \cup {<<s, number[s]>>} /\ leaked' = leaked \cup {s}

Put(s) ==
  /\ thread[s] = "put" /\ Len(tasks) < Capacity
  /\ tasks' = Append(tasks, <<s, number[s]>>)
  /\ thread' = [thread EXCEPT ![s] = "list"]
  /\ UNCHANGED <<active, status, listed, number, onDisk, inWork, results, without, stopping,
                 leaked, swept>>

\* The queue is full: the file goes, and the same chunk is cut again.
Refused(s) ==
  /\ thread[s] = "put" /\ Len(tasks) = Capacity
  /\ onDisk' = onDisk \ {<<s, number[s]>>}
  /\ thread' = [thread EXCEPT ![s] = "loop"]
  /\ UNCHANGED <<active, status, listed, number, Work, stopping, leaked, swept>>

List(s) ==
  /\ thread[s] = "list"
  /\ listed' = [listed EXCEPT ![s] = @ \cup {number[s]}]
  /\ number' = [number EXCEPT ![s] = @ + 1]
  /\ thread' = [thread EXCEPT ![s] = "loop"]
  /\ UNCHANGED <<active, status, onDisk, Work, stopping, leaked, swept>>

-----------------------------------------------------------------------------
(* _transcription_worker.                                                  *)

Threads == <<active, status, listed, number, thread, stopping, leaked, swept>>

Take ==
  /\ inWork = None /\ tasks # <<>>
  /\ inWork' = [task |-> Head(tasks), wanted |-> FALSE] /\ tasks' = Tail(tasks)
  /\ UNCHANGED <<Threads, onDisk, results, without>>

Session == inWork.task[1]

\* The session is gone: only the file is removed.
Unwanted ==
  /\ inWork # None /\ ~inWork.wanted /\ Session \notin active
  /\ onDisk' = onDisk \ {inWork.task} /\ inWork' = None
  /\ UNCHANGED <<Threads, tasks, results, without>>

Wanted ==
  /\ inWork # None /\ ~inWork.wanted /\ Session \in active
  /\ inWork' = [inWork EXCEPT !.wanted = TRUE]
  /\ UNCHANGED <<Threads, onDisk, tasks, results, without>>

Unlinked(heard) == onDisk \ {inWork.task}

Transcribed ==
  /\ inWork # None /\ inWork.wanted /\ inWork.task \in onDisk
  /\ results' = [results EXCEPT ![Session] = Append(@, inWork.task[2])]
  /\ onDisk' = Unlinked(TRUE) /\ inWork' = None
  /\ UNCHANGED <<Threads, tasks, without>>

\* No text, or the model fails, as it does without the file.
NotTranscribed ==
  /\ inWork # None /\ inWork.wanted
  /\ without' = IF inWork.task \in swept THEN without ELSE without \cup {inWork.task}
  /\ onDisk' = Unlinked(FALSE) /\ inWork' = None
  /\ UNCHANGED <<Threads, tasks, results>>

-----------------------------------------------------------------------------
(* _cleanup_worker and stop_transcription.                                 *)

FilesOf(s) == {s} \X listed[s]

\* _cleanup_session_files.
Sweep(s) ==
  /\ onDisk' = onDisk \ FilesOf(s)
  /\ swept' = swept \cup (FilesOf(s) \cap onDisk)
  /\ listed' = [listed EXCEPT ![s] = {}]

Ended(s) == status[s] \in {"completed", "error"}

Clean(s) ==
  /\ s \in active /\ Ended(s) /\ Sweep(s)
  /\ UNCHANGED <<active, status, number, thread, Work, stopping, leaked>>

CleanOld(s) ==
  /\ s \in active /\ Ended(s) /\ Sweep(s)
  /\ results' = [results EXCEPT ![s] = <<>>] /\ active' = active \ {s}
  /\ UNCHANGED <<status, number, thread, tasks, inWork, without, stopping, leaked>>

AskStop(s) ==
  /\ s \in active \ stopping /\ stopping' = stopping \cup {s}
  /\ status' = [status EXCEPT ![s] = "stopping"]
  /\ UNCHANGED <<active, listed, number, thread, onDisk, Work, leaked, swept>>

Stop(s) ==
  /\ s \in stopping
  /\ IF s \in active THEN Sweep(s) ELSE UNCHANGED <<onDisk, swept, listed>>
  /\ active' = active \ {s} /\ stopping' = stopping \ {s}
  /\ UNCHANGED <<status, number, thread, Work, leaked>>

Next ==
  \/ \E s \in Sessions :
       \/ Start(s) \/ Fetch(s) \/ SetRunning(s) \/ Extract(s) \/ NoMore(s) \/ CutOff(s)
       \/ Put(s) \/ Refused(s) \/ List(s)
       \/ Clean(s) \/ CleanOld(s) \/ AskStop(s) \/ Stop(s)
  \/ Take \/ Unwanted \/ Wanted \/ Transcribed \/ NotTranscribed

-----------------------------------------------------------------------------
(* Properties.                                                             *)

Waiting == ToSet(tasks) \cup (IF inWork = None THEN {} ELSE {inWork.task})

\* Every temporary file will still be removed: it is being put, is queued or in
\* hand; except one whose extraction was cut off.
NoFileForgotten ==
  \A c \in onDisk :
    \/ c \in Waiting
    \/ thread[c[1]] = "put" /\ c[2] = number[c[1]]
    \/ c[1] \in leaked

\* The texts of a session are in the order of the recording, none twice.
InOrder == \A s \in Sessions : \A i, j \in DOMAIN results[s] : i < j => results[s][i] < results[s][j]

\* When a session is over and still known, a chunk without a text is one that
\* the model did not hear or whose file was removed before its turn; a full
\* queue costs nothing.
NothingSkipped ==
  \A s \in active : thread[s] = "ended" =>
    \A n \in 0 .. number[s] - 1 :
      n \in ToSet(results[s]) \/ <<s, n>> \in Waiting \cup swept \cup without

\* Files of a session at work are not removed before their turn.
SweptAfterwards == \A c \in swept : thread[c[1]] = "ended" \/ c[1] \notin active \/ c[1] \in stopping
                                    \/ status[c[1]] = "stopping"

RealtimeSafe == NoFileForgotten /\ InOrder /\ NothingSkipped /\ SweptAfterwards

=============================================================================
