----------------------------- MODULE KabSession -----------------------------
(***************************************************************************)
(* POST /kab/v1/sessions/{id}/complete: the request handlers of the        *)
(* threaded receiver that complete one session, while the worker goes on   *)
(* with its segments.                                                      *)
(*                                                                         *)
(* Only finalize_session takes the session lock; what a handler decided    *)
(* from session.json, state.json and the results may be out of date when   *)
(* it writes.                                                              *)
(*                                                                         *)
(* The worker is its abstract specification, SegmentLifecycle, which       *)
(* KabIngestRefinement shows it implements.  Documents and the knowledge   *)
(* package a consolidation writes are regenerated from the same results    *)
(* and left out.                                                           *)
(***************************************************************************)
EXTENDS Naturals, FiniteSets

CONSTANTS
  Handlers,    \* requests in progress at a time
  Segments,    \* segment indexes
  Expected,    \* values of expectedSegmentCount that senders declare
  Ends,        \* values of endedAt and reason that senders declare
  MaxTries,    \* transcriptions a segment may cost
  MaxFaults,   \* bound: I/O errors of the worker
  None

Params      == [expected : Expected, ended : Ends]
Completions == [ended : Ends, results : SUBSET Segments]

ConstantsAssumption ==
  /\ Segments \subseteq Nat /\ Expected \subseteq Nat \ {0}
  /\ MaxTries \in Nat /\ MaxFaults \in Nat
  /\ None \notin Params \cup Completions

VARIABLES
  received, status, published, tries, faults,   \* the worker, see SegmentLifecycle
  session,      \* session.json: its status and the parameters it records
  completion,   \* completed/session.complete.json, or None
  hpc, hreq,    \* each handler: position, parameters
  quoted,       \* the results the handler's consolidation read
  before,       \* parameters acknowledged before the handler's request came
  acked,        \* parameters answered with COMPLETED or WAITING_FOR_SEGMENTS
  overlap       \* whether requests have overlapped so far

Worker == INSTANCE SegmentLifecycle

workVars == <<received, status, published, tries, faults>>
files    == <<session, completion>>
handVars == <<hpc, hreq, quoted, before>>
history  == <<acked, overlap>>
vars     == <<workVars, files, handVars, history>>

Overlaps == {"none", "sameParameters", "mixed"}

Finalized == {"WAITING_FOR_SEGMENTS", "COMPLETED"}
Steps     == {"idle", "check", "wait", "readResults", "writeCompletion", "finalize"}

TypeOK ==
  /\ received \subseteq Segments /\ published \subseteq Segments
  /\ status \in [Segments -> {"NONE", "PROCESSING", "PROCESSED", "FAILED"}]
  /\ tries \in [Segments -> 0 .. MaxTries] /\ faults \in 0 .. MaxFaults
  /\ session \in [status : {"ACTIVE"}, params : {None}]
                   \cup [status : Finalized, params : Params]
  /\ completion \in Completions \cup {None}
  /\ hpc \in [Handlers -> Steps]
  /\ hreq \in [Handlers -> Params \cup {None}]
  /\ quoted \in [Handlers -> SUBSET Segments]
  /\ before \in [Handlers -> SUBSET Params]
  /\ acked \subseteq Params
  /\ overlap \in Overlaps

Init ==
  /\ Worker!Init
  /\ session = [status |-> "ACTIVE", params |-> None]
  /\ completion = None
  /\ hpc = [h \in Handlers |-> "idle"]
  /\ hreq = [h \in Handlers |-> None]
  /\ quoted = [h \in Handlers |-> {}]
  /\ before = [h \in Handlers |-> {}]
  /\ acked = {} /\ overlap = "none"

-----------------------------------------------------------------------------

\* The handler is done with its request.
Idle(h) ==
  /\ hpc' = [hpc EXCEPT ![h] = "idle"]
  /\ hreq' = [hreq EXCEPT ![h] = None]
  /\ quoted' = [quoted EXCEPT ![h] = {}]
  /\ before' = [before EXCEPT ![h] = {}]

Goto(h, step) == hpc[h] # "idle" /\ hpc' = [hpc EXCEPT ![h] = step]

\* History: what the requests in progress make of overlap when p arrives.
OverlapWith(p) ==
  IF \A h \in Handlers : hreq[h] = None THEN overlap
  ELSE IF overlap # "mixed" /\ \A h \in Handlers : hreq[h] \in {None, p}
       THEN "sameParameters" ELSE "mixed"

\* The session was not finalised yet, or with the same parameters.
Agrees(p) ==
  session.status \in Finalized => session.params = p

\* Mutant of AnsweredFromFile: a completed session is consolidated again.
NeverAnswered == FALSE

\* The stored completion is the answer.
AnsweredFromFile == session.status = "COMPLETED" /\ completion # None

\* Reads session.json and acts on what it says.
LoadSession(h, p) ==
  /\ hpc[h] = "idle"
  /\ Agrees(p) /\ ~AnsweredFromFile
  /\ hpc' = [hpc EXCEPT ![h] = "check"]
  /\ hreq' = [hreq EXCEPT ![h] = p]
  /\ before' = [before EXCEPT ![h] = acked]
  /\ overlap' = OverlapWith(p)
  /\ UNCHANGED <<workVars, files, quoted, acked>>

\* processed_segment_indexes: announced, and the result is there.
ProcessedIndexes == {s \in Segments : status[s] = "PROCESSED" /\ s \in published}

Missing(p) == (0 .. p.expected - 1) \ ProcessedIndexes

CheckProcessed(h) ==
  /\ hpc[h] = "check"
  /\ Goto(h, IF Missing(hreq[h]) = {} THEN "readResults" ELSE "wait")
  /\ UNCHANGED <<workVars, files, hreq, quoted, before, history>>

FinalizeWaiting(h) ==
  /\ hpc[h] = "wait"
  /\ session' = [status |-> "WAITING_FOR_SEGMENTS", params |-> hreq[h]]
  /\ acked' = acked \cup {hreq[h]}
  /\ Idle(h)
  /\ UNCHANGED <<workVars, completion, overlap>>

\* consolidate_session reads every result file, whatever its segment's state.
ReadResults(h) ==
  /\ hpc[h] = "readResults"
  /\ quoted' = [quoted EXCEPT ![h] = published]
  /\ Goto(h, "writeCompletion")
  /\ UNCHANGED <<workVars, files, hreq, before, history>>

WriteCompletion(h) ==
  /\ hpc[h] = "writeCompletion"
  /\ completion' = [ended |-> hreq[h].ended, results |-> quoted[h]]
  /\ Goto(h, "finalize")
  /\ UNCHANGED <<workVars, session, hreq, quoted, before, history>>

FinalizeCompleted(h) ==
  /\ hpc[h] = "finalize"
  /\ session' = [status |-> "COMPLETED", params |-> hreq[h]]
  /\ acked' = acked \cup {hreq[h]}
  /\ Idle(h)
  /\ UNCHANGED <<workVars, completion, overlap>>

\* An exception, or the receiver stops: what was written stays.
Abort(h) ==
  /\ hpc[h] # "idle"
  /\ Idle(h)
  /\ UNCHANGED <<workVars, files, history>>

Handle(h) ==
  \/ \E p \in Params : LoadSession(h, p)
  \/ CheckProcessed(h) \/ FinalizeWaiting(h)
  \/ ReadResults(h) \/ WriteCompletion(h) \/ FinalizeCompleted(h)
  \/ Abort(h)

WorkerStep == Worker!Next /\ UNCHANGED <<files, handVars, history>>

Next == WorkerStep \/ \E h \in Handlers : Handle(h)

Spec == Init /\ [][Next]_vars

-----------------------------------------------------------------------------
(* Correctness.                                                            *)

\* A COMPLETED session has a completion file, with the end that session.json
\* records, that quotes every expected segment, each of them PROCESSED unless an
\* I/O error revoked that: also when an earlier attempt stopped half-way, and
\* when requests with the same parameters overlap.
CompletedIsBacked ==
  overlap # "mixed" /\ session.status = "COMPLETED" =>
    /\ completion # None
    /\ completion.ended = session.params.ended
    /\ \A s \in 0 .. session.params.expected - 1 :
         s \in completion.results /\ (faults = 0 => status[s] = "PROCESSED")

\* Once COMPLETED, the session and its completion file stay as they are, as
\* long as requests come one at a time.
CompletedIsFinal ==
  [][overlap = "none" /\ session.status = "COMPLETED" => UNCHANGED files]_vars

\* A request that gets past the comparison of parameters carries those of every
\* request granted before it arrived: others are answered 409.
LaterParametersRefused ==
  \A h \in Handlers : hreq[h] # None => before[h] \subseteq {hreq[h]}

\* So it is unless requests with different parameters have overlapped.
RefusedUnlessMixed == overlap # "mixed" => LaterParametersRefused

\* A completed session is backed by its file, and others' parameters refused.
CompletionSafe == CompletedIsBacked /\ RefusedUnlessMixed

=============================================================================
