-------------------------- MODULE TranscriptionJobs --------------------------
(***************************************************************************)
(* The improved watcher: a file is validated, looked up by its content,    *)
(* given a row in the table of jobs, and processed by the worker of the    *)
(* queue that finds the row, or at once when there is no queue.            *)
(*                                                                         *)
(* main() replaces the watcher's process_video by the function that does   *)
(* this, and processing a row calls process_video: so a row is processed   *)
(* by validating its file again, which makes another row, until a row of   *)
(* the content is completed or, without a queue, the stack is full.        *)
(*                                                                         *)
(* Simplifications.                                                        *)
(*  - All files have the same content.                                     *)
(*  - The queue hands over each entry once (QueueManager); the handler     *)
(*    never raises.  Rows are written and found without failures.          *)
(*  - A row bears the time its call began; no two calls begin together.    *)
(***************************************************************************)
EXTENDS Integers, FiniteSets, Sequences

CONSTANTS
  Paths,   \* files, all of one content
  Workers, \* of the queue, when there is one
  Watcher, \* the watcher's own thread
  Depth,   \* calls the stack can hold
  Recent,  \* limit of get_recent_jobs: 100
  MaxRows, \* bound: rows
  None

Threads == Workers \cup {Watcher}
Rows    == 1 .. MaxRows

VARIABLES
  rows,    \* transcription_jobs, as they were inserted
  pool,    \* the queue's workers; none: process directly
  entries, \* files of the queue's jobs
  arrived, \* files the watcher has not taken yet
  stack,   \* of each thread: its calls, innermost last
  calls,   \* how many there have been: the time
  behind   \* history: rows not looked at when an entry of their file was handled

jvars == <<pool, rows, entries, arrived, stack, calls, behind>>

\* A call of process_file_with_validation, and the row its caller processes.
Call(p, row) == [path |-> p, row |-> row, at |-> "validate", made |-> None,
                 began |-> calls + 1]

TypeOK ==
  /\ rows \in Seq([path : Paths, status : {"queued", "processing", "completed", "failed"},
                   began : 1 .. calls])
  /\ pool \in SUBSET Workers /\ entries \in Seq(Paths) /\ arrived \subseteq Paths
  /\ stack \in [Threads -> Seq([path : Paths, row : Rows \cup {None}, made : Rows \cup {None},
                                at : {"validate", "check", "create", "hand", "return"},
                                began : 1 .. calls])]
  /\ behind \subseteq DOMAIN rows

Init == /\ pool \in {Workers, {}} /\ rows = <<>> /\ entries = <<>> /\ arrived = Paths
        /\ stack = [t \in Threads |-> <<>>] /\ calls = 0 /\ behind = {}

-----------------------------------------------------------------------------
Top(t)  == stack[t][Len(stack[t])]
In(t, at) == stack[t] # <<>> /\ Top(t).at = at
Goes(t, at) == [stack EXCEPT ![t][Len(stack[t])].at = at]
SetStatus(r, status) == [rows EXCEPT ![r].status = status]

Arrive(p) ==
  /\ stack[Watcher] = <<>> /\ p \in arrived
  /\ arrived' = arrived \ {p}
  /\ stack' = [stack EXCEPT ![Watcher] = <<Call(p, None)>>] /\ calls' = calls + 1
  /\ UNCHANGED <<pool, rows, entries, behind>>

\* The newest rows of all files.
IsRecent(r) == Cardinality({s \in DOMAIN rows : rows[s].began > rows[r].began}) < Recent

Open(p) == {r \in DOMAIN rows : rows[r].path = p /\ rows[r].status \in {"queued", "processing"}}

\* transcription_handler: the first of the recent rows that is the file's and not done.
Target(p) == {r \in Open(p) : IsRecent(r) /\ \A s \in Open(p) : rows[s].began <= rows[r].began}

\* Without one the entry is gone and the row stays.
Handle(w) ==
  /\ stack[w] = <<>> /\ entries # <<>> /\ w \in pool
  /\ entries' = Tail(entries)
  /\ LET p == Head(entries)
     IN  /\ behind' = behind \cup {r \in Open(p) : ~IsRecent(r)}
         /\ \/ Target(p) = {} /\ UNCHANGED <<rows, stack, calls>>
            \/ \E r \in Target(p) :
                 /\ rows' = SetStatus(r, "processing") /\ calls' = calls + 1
                 /\ stack' = [stack EXCEPT ![w] = <<Call(p, r)>>]
  /\ UNCHANGED <<pool, arrived>>

\* validate_file raises for files that vanished or are no media.
Validate(t) ==
  /\ In(t, "validate")
  /\ \E ok \in BOOLEAN : stack' = Goes(t, IF ok THEN "check" ELSE "return")
  /\ UNCHANGED <<pool, rows, entries, arrived, calls, behind>>

\* check_duplicate_file.
Duplicate == \E r \in DOMAIN rows : rows[r].status = "completed"

Check(t) ==
  /\ In(t, "check")
  /\ stack' = Goes(t, IF Duplicate THEN "return" ELSE "create")
  /\ UNCHANGED <<pool, rows, entries, arrived, calls, behind>>

\* create_job.
Row(call) == [path |-> call.path, status |-> "queued", began |-> call.began]

Create(t) ==
  /\ In(t, "create") /\ Len(rows) < MaxRows
  /\ rows' = Append(rows, Row(Top(t)))
  /\ stack' = [stack EXCEPT ![t][Len(stack[t])].at = "hand",
                            ![t][Len(stack[t])].made = Len(rows) + 1]
  /\ UNCHANGED <<pool, entries, arrived, calls, behind>>

Enqueue(t) ==
  /\ In(t, "hand") /\ pool # {}
  /\ entries' = Append(entries, Top(t).path)
  /\ stack' = Goes(t, "return")
  /\ UNCHANGED <<pool, rows, arrived, calls, behind>>

\* process_transcription_job, which calls process_video.
Process(t) ==
  /\ In(t, "hand") /\ pool = {} /\ Len(stack[t]) < Depth
  /\ rows' = SetStatus(Top(t).made, "processing")
  /\ stack' = [stack EXCEPT ![t] = Append(Goes(t, "return")[t], Call(Top(t).path, Top(t).made))]
  /\ calls' = calls + 1
  /\ UNCHANGED <<pool, entries, arrived, behind>>

\* RecursionError is an Exception: the row fails.
TooDeep(t) ==
  /\ In(t, "hand") /\ pool = {} /\ Len(stack[t]) = Depth
  /\ rows' = SetStatus(Top(t).made, "failed") /\ stack' = Goes(t, "return")
  /\ UNCHANGED <<pool, entries, arrived, calls, behind>>

\* What process_video returned is not asked.
Outcome(row) == IF row = None THEN rows ELSE SetStatus(row, "completed")

Return(t) ==
  /\ In(t, "return")
  /\ rows' = Outcome(Top(t).row)
  /\ stack' = [stack EXCEPT ![t] = SubSeq(@, 1, Len(@) - 1)]
  /\ UNCHANGED <<pool, entries, arrived, calls, behind>>

Next ==
  \/ \E p \in Paths : Arrive(p)
  \/ \E w \in pool : Handle(w)
  \/ \E t \in pool \cup {Watcher} :
       \/ Validate(t) \/ Check(t) \/ Create(t) \/ Enqueue(t) \/ Process(t) \/ TooDeep(t)
       \/ Return(t)

-----------------------------------------------------------------------------
(* Properties.                                                             *)

AtRest == entries = <<>> /\ \A t \in Threads : stack[t] = <<>>

\* Rows come to an end: when nothing is queued or in work, every row is completed or
\* failed, but for those that were not among the recent ones when an entry of their
\* file was handled; these stay queued.
RowsEnd == AtRest => \A r \in DOMAIN rows \ behind : rows[r].status \in {"completed", "failed"}

\* The rows a file makes of itself are bounded: by the workers that can be at
\* work before the first row is completed, or by the stack.
RowsBounded ==
  \A p \in Paths : Cardinality({r \in DOMAIN rows : rows[r].path = p}) <=
    IF pool = {} THEN Depth ELSE Cardinality(pool) + 1

\* Content whose row was completed before a copy of it arrived gets no row:
\* the copies of one content together make no more rows than their threads.
CopiesShare == Len(rows) <= IF pool = {} THEN Depth * Cardinality(Paths)
                            ELSE Cardinality(pool) + Cardinality(Paths)

RowsSafe == RowsEnd /\ RowsBounded /\ CopiesShare

=============================================================================
