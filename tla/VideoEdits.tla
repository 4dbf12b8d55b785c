----------------------------- MODULE VideoEdits -----------------------------
(***************************************************************************)
(* Edits of library videos (api_video_edit): a request decides under a     *)
(* lock whether it shares a job, is refused or makes one; two workers      *)
(* render the jobs, move the result to <stem>_edited.mp4, which must not   *)
(* be there, and write its provenance.                                     *)
(*                                                                         *)
(* Simplifications.                                                        *)
(*  - All sources have one stem, like talk.mp4 and talk.mov, so that their *)
(*    edits have one name.                                                 *)
(*  - A rendered file is the job and the version of the source it was made *)
(*    from; the digest of a file is what it is.                            *)
(*  - PROCESSING and VALIDATING, which are treated alike, are one status.  *)
(***************************************************************************)
EXTENDS Integers, FiniteSets, FiniteSetsExt

CONSTANTS
  Videos,     \* source files
  Specs,      \* edit specifications
  MaxJobs,    \* bound: jobs made
  MaxChanges, \* bound: sources replaced, edits deleted, failures and restarts
  None        \* no job, no file

Workers  == 2
Jobs     == 1 .. MaxJobs
Versions == 1 .. (MaxChanges + 1)

VARIABLES
  version,   \* of each source: what stat says of it
  jobs,      \* _VIDEO_EDIT_JOBS, and where each job is
  keys,      \* _VIDEO_EDIT_KEYS: the jobs that identical requests share
  latest,    \* _VIDEO_EDIT_SOURCE_JOBS: each source's job
  edited,    \* the file <stem>_edited.mp4
  provenance,\* its provenance file
  \* history
  changes    \* of users, failures and restarts

evars == <<version, jobs, keys, latest, edited, provenance, changes>>

Rendered == [job : Jobs, from : Versions]
Proofs   == [job : Jobs, output : Rendered, source : Versions]

EditsAssumption == None \notin Videos \cup Specs \cup Jobs \cup Rendered \cup Proofs

\* status and at are "none" for a job there is no record of; met: a job of
\* another source was at work meanwhile; touched: its source or its result was
\* changed by a user.
NoJob == [video |-> None, spec |-> None, version |-> 1, status |-> "none", at |-> "none",
          from |-> 1, met |-> FALSE, touched |-> FALSE]

TypeOK ==
  /\ version \in [Videos -> Versions]
  /\ jobs \in [Jobs -> [video : Videos \cup {None}, spec : Specs \cup {None},
                        version : Versions,
                        status : {"none", "PROCESSING", "COMPLETED", "FAILED"},
                        at : {"none", "queued", "render", "provenance"},
                        from : Versions, met : BOOLEAN, touched : BOOLEAN]]
  /\ keys \subseteq Jobs /\ latest \in [Videos -> Jobs \cup {None}]
  /\ edited \in Rendered \cup {None} /\ provenance \in Proofs \cup {None}
  /\ changes \in 0 .. MaxChanges

Init ==
  /\ version = [v \in Videos |-> 1]
  /\ jobs = [j \in Jobs |-> NoJob]
  /\ keys = {} /\ latest = [v \in Videos |-> None]
  /\ edited = None /\ provenance = None /\ changes = 0

-----------------------------------------------------------------------------
(* Requests.                                                               *)

Known(j)  == jobs[j].status # "none"
AtWork(j) == jobs[j].at \in {"render", "provenance"}

\* The job an identical request shares: same source, bytes and edit.
Shared(v, spec) ==
  {j \in keys : /\ jobs[j].video = v /\ jobs[j].spec = spec
                /\ jobs[j].version = version[v] /\ jobs[j].status # "FAILED"}

Busy(v) == latest[v] # None /\ jobs[latest[v]].status = "PROCESSING"

\* Numbers are given in order, and not again.
NextJob == Cardinality({j \in Jobs : jobs[j].video # None}) + 1

\* An identical request is answered with its job, another one is refused while
\* the source is busy or there is an edited copy; a failed job gives up its key.
Edit(v, spec) ==
  /\ Shared(v, spec) = {} /\ ~Busy(v) /\ edited = None
  /\ NextJob \in Jobs
  /\ jobs' = [jobs EXCEPT ![NextJob] =
       [NoJob EXCEPT !.video = v, !.spec = spec, !.version = version[v],
                     !.status = "PROCESSING", !.at = "queued"]]
  /\ keys' = {j \in keys : jobs[j].video # v \/ jobs[j].spec # spec
                             \/ jobs[j].version # version[v]} \cup {NextJob}
  /\ latest' = [latest EXCEPT ![v] = NextJob]
  /\ UNCHANGED <<version, edited, provenance, changes>>

-----------------------------------------------------------------------------
(* Workers.                                                                *)

\* The job has ended; only a failed one is forgotten by its source.
Ended(j, status) ==
  /\ jobs' = [jobs EXCEPT ![j].status = status, ![j].at = "none"]
  /\ latest' = IF status = "FAILED" /\ latest[jobs[j].video] = j
                 THEN [latest EXCEPT ![jobs[j].video] = None] ELSE latest

\* A free worker takes the oldest job; an edited copy that is there by then
\* fails it.
Take(j) ==
  /\ jobs[j].at = "queued" /\ \A k \in Jobs : jobs[k].at = "queued" => j <= k
  /\ Cardinality({k \in Jobs : AtWork(k)}) < Workers
  /\ edited = None
  /\ jobs' = [k \in Jobs |->
       IF k = j THEN [jobs[j] EXCEPT !.at = "render", !.from = version[jobs[j].video],
                                     !.met = \E i \in Jobs : AtWork(i)]
       ELSE IF AtWork(k) THEN [jobs[k] EXCEPT !.met = TRUE] ELSE jobs[k]]
  /\ UNCHANGED <<version, keys, latest, edited, provenance, changes>>

TakeFails(j) ==
  /\ jobs[j].at = "queued" /\ \A k \in Jobs : jobs[k].at = "queued" => j <= k
  /\ Cardinality({k \in Jobs : AtWork(k)}) < Workers
  /\ edited # None
  /\ Ended(j, "FAILED")
  /\ UNCHANGED <<version, keys, edited, provenance, changes>>

\* The validated result is moved to its name, whatever is there.
Move(j) ==
  /\ jobs[j].at = "render"
  /\ edited' = [job |-> j, from |-> jobs[j].from]
  /\ jobs' = [jobs EXCEPT ![j].at = "provenance"]
  /\ UNCHANGED <<version, keys, latest, provenance, changes>>

\* Both files are hashed as they are now.
Prove(j) ==
  /\ jobs[j].at = "provenance" /\ edited # None
  /\ provenance' = [job |-> j, output |-> edited, source |-> version[jobs[j].video]]
  /\ Ended(j, "COMPLETED")
  /\ UNCHANGED <<version, keys, edited, changes>>

\* Mutant of Withdrawn: the result stays without its provenance.
WithdrawnNot == edited

Withdrawn == None

\* A failure after the move withdraws the edited copy; so does an edited copy
\* that is gone when it is hashed.
Fail(j) ==
  /\ \/ AtWork(j) /\ changes < MaxChanges /\ changes' = changes + 1
     \/ jobs[j].at = "provenance" /\ edited = None /\ UNCHANGED changes
  /\ edited' = IF jobs[j].at = "provenance" THEN Withdrawn ELSE edited
  /\ Ended(j, "FAILED")
  /\ UNCHANGED <<version, keys, provenance>>

-----------------------------------------------------------------------------
(* Users, and restarts of the dashboard.                                   *)

Touched(js) == [j \in Jobs |-> IF j \in js THEN [jobs[j] EXCEPT !.touched = TRUE] ELSE jobs[j]]

Change(js) ==
  /\ changes < MaxChanges /\ changes' = changes + 1
  /\ jobs' = Touched(js)
  /\ UNCHANGED <<keys, latest>>

ReplaceSource(v) ==
  /\ Change({j \in Jobs : jobs[j].video = v})
  /\ version' = [version EXCEPT ![v] = @ + 1]
  /\ UNCHANGED <<edited, provenance>>

DeleteEdited ==
  /\ edited # None /\ Change(Jobs)
  /\ edited' = None
  /\ UNCHANGED <<version, provenance>>

\* The records of jobs are in memory.
Restart ==
  /\ changes < MaxChanges /\ changes' = changes + 1
  /\ \E j \in Jobs : Known(j)
  /\ jobs' = [j \in Jobs |-> [jobs[j] EXCEPT !.status = "none", !.at = "none"]]
  /\ keys' = {} /\ latest' = [v \in Videos |-> None]
  /\ UNCHANGED <<version, edited, provenance>>

Next ==
  \/ \E v \in Videos, spec \in Specs : Edit(v, spec)
  \/ \E j \in Jobs : Take(j) \/ TakeFails(j) \/ Move(j) \/ Prove(j) \/ Fail(j)
  \/ \E v \in Videos : ReplaceSource(v)
  \/ DeleteEdited \/ Restart

Spec == Init /\ [][Next]_evars

-----------------------------------------------------------------------------
(* Properties.                                                             *)

\* Identical requests share one job: of those with one source, version and
\* edit, at most one has not failed.
RetriesShare ==
  \A i, j \in Jobs :
    /\ i # j /\ {jobs[i].status, jobs[j].status} \subseteq {"PROCESSING", "COMPLETED"}
    /\ jobs[i].video = jobs[j].video /\ jobs[i].spec = jobs[j].spec
    => jobs[i].version # jobs[j].version

\* A source has one edit in progress at a time.
OneEditAtATime ==
  \A i, j \in Jobs : i # j /\ jobs[i].status = "PROCESSING" /\ jobs[j].status = "PROCESSING"
                       => jobs[i].video # jobs[j].video

\* A completed edit is there with the provenance of its making, unless a job of
\* another source of the same stem was at work meanwhile, or a user changed its
\* source or its result.
CompletedIsThere ==
  \A j \in Jobs :
    jobs[j].status = "COMPLETED" /\ ~jobs[j].met /\ ~jobs[j].touched =>
      /\ edited # None /\ edited.job = j
      /\ provenance = [job |-> j, output |-> edited, source |-> edited.from]

\* An edited copy that nobody makes any more has its provenance, while the
\* dashboard has not restarted.
Proven ==
  edited # None /\ Known(edited.job) /\ ~AtWork(edited.job)
    => provenance # None /\ provenance.output = edited

EditsSafe == RetriesShare /\ OneEditAtATime /\ CompletedIsThere /\ Proven

=============================================================================
