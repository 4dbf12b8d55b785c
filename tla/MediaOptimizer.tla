--------------------------- MODULE MediaOptimizer ---------------------------
(***************************************************************************)
(* Optimization of the videos of Video_compress: the runs of the           *)
(* compressor (process_video_compress_folder, optimize_media), one per     *)
(* processing job, requests of the dashboard that retry a pending cleanup  *)
(* (retry_source_cleanup), and the provenance file all of them load,       *)
(* change and save without a lock.                                         *)
(*                                                                         *)
(* A user may replace a source and delete an output at any time; a         *)
(* compressor may stop between any two steps.  Names point to files: what  *)
(* an encoder still writes moves with the file.                            *)
(*                                                                         *)
(* Simplifications.                                                        *)
(*  - A digest stands for the bytes: a source is the number of its version *)
(*    and an output is the encoding of one version, sound or damaged.      *)
(*  - validate_candidate compares an output with the probe of one version; *)
(*    for the probe of another version either answer is possible.          *)
(*  - All sources have one stem, so outputs are Base and its stamped       *)
(*    alternatives, and their folder is one.                               *)
(*  - optimize_media is called with remove_source, as its callers do.      *)
(***************************************************************************)
EXTENDS Integers, FiniteSets, FiniteSetsExt

CONSTANTS
  Compressors,  \* processes of the compressor
  Sources,      \* files of Video_compress
  Requests,     \* threads of the dashboard that retry a cleanup
  MaxOutputs,   \* bound: names in the destination folder
  MaxEvents,    \* bound: replaced sources, deleted outputs, stops, failed saves
  None

ASSUME ConstantsAssumption ==
  /\ IsFiniteSet(Compressors) /\ IsFiniteSet(Sources) /\ IsFiniteSet(Requests)
  /\ MaxOutputs \in Nat \ {0} /\ MaxEvents \in Nat

Names    == 1 .. MaxOutputs             \* 1 is <stem>.mp4
Versions == 1 .. (MaxEvents + 1)
Outputs  == [of : Sources, version : Versions, sound : BOOLEAN]
Files    == 1 .. (MaxOutputs + Cardinality(Sources) + Cardinality(Compressors))
Records  == [of : Sources, version : Versions, output : Outputs,
             state : {"PENDING", "REMOVED"}]

\* None is neither an output nor a record.
ASSUME TokensAssumption == None \notin Outputs \cup Records

VARIABLES
  source,    \* version under each source's name, 0 when it is gone
  data,      \* contents of the files that were ever encoded
  staging,   \* file under each source's hidden name beside the outputs, or 0
  videos,    \* file under each published name, or 0
  prov,      \* compression_provenance.json: the record under each output name
  job,       \* each compressor: its pc, its list, its locals, the file it writes
  retry,     \* each request: its pc, the output's name and its records
  \* history
  rewrites, deletes, faults,  \* counters of what users and faults did
  removed,   \* versions the program has unlinked: <<source, version>>
  exposed,   \* versions put in place between a check and the step it guards
  restored,  \* versions put in place that were there before
  mistaken,  \* versions that an encoding of another version was taken for
  deleted,   \* outputs the user deleted
  lost       \* versions whose record a save dropped that had not seen it

outputs == <<data, staging, videos>>
files   == <<source, outputs>>
history == <<rewrites, deletes, faults, removed, exposed, restored, mistaken, deleted, lost>>
vars    == <<files, prov, job, retry, history>>

Idle   == [pc |-> "idle", todo |-> {}, src |-> None, probe |-> 0, version |-> 0,
           file |-> 0, name |-> 0, snap |-> <<>>, rec |-> None, then |-> "idle"]
AtRest == [pc |-> "idle", name |-> 0, snap |-> <<>>, state |-> "PENDING"]

Books == [Names -> Records \cup {None}]

Jobs  == [pc : {"idle", "next", "hash", "encode", "write", "validate", "move",
                "recheck", "load", "save", "verify", "unlink"},
          todo : SUBSET Sources, src : Sources \cup {None},
          probe : Versions \cup {0}, version : Versions \cup {0},
          file : Files \cup {0}, name : Names \cup {0}, snap : Books \cup {<<>>},
          rec : Records \cup {None}, then : {"idle", "next", "verify"}]

TypeOK ==
  /\ source \in [Sources -> Versions \cup {0}]
  /\ data \in [Files -> Outputs \cup {None}]
  /\ staging \in [Sources -> Files \cup {0}]
  /\ videos \in [Names -> Files \cup {0}]
  /\ prov \in Books
  /\ job \in [Compressors -> Jobs]
  /\ retry \in [Requests -> [pc : {"idle", "check", "verify", "unlink", "save"},
                             name : Names \cup {0}, snap : Books \cup {<<>>},
                             state : {"PENDING", "REMOVED"}]]
  /\ {rewrites, deletes, faults} \subseteq 0 .. MaxEvents
  /\ removed \subseteq Sources \X Versions /\ exposed \subseteq Sources \X Versions
  /\ restored \subseteq Sources \X Versions /\ mistaken \subseteq Sources \X Versions
  /\ deleted \subseteq Outputs /\ lost \subseteq Sources \X Versions

Init ==
  /\ source = [s \in Sources |-> 1]
  /\ data = [f \in Files |-> None]
  /\ staging = [s \in Sources |-> 0]
  /\ videos = [n \in Names |-> 0]
  /\ prov = [n \in Names |-> None]
  /\ job = [c \in Compressors |-> Idle]
  /\ retry = [r \in Requests |-> AtRest]
  /\ rewrites = 0 /\ deletes = 0 /\ faults = 0
  /\ removed = {} /\ exposed = {} /\ restored = {} /\ mistaken = {} /\ deleted = {} /\ lost = {}

Eventful == rewrites + deletes + faults < MaxEvents

-----------------------------------------------------------------------------
(* Validation, names and the provenance file.                              *)

\* The answers validate_candidate may give on an output for a probed version.
Valid(version, output) ==
  IF version = output.version THEN {output.sound} ELSE BOOLEAN

\* What ffprobe and the hash tell of a source: the version it holds.
Probed(s) == source[s]
Digest(s) == source[s]

\* The published output, None when the name is free.
Output(name) == IF videos[name] = 0 THEN None ELSE data[videos[name]]

Free(name) == videos[name] = 0

\* _unique_destination.
Destination(name) == Free(name) /\ \A n \in Names : Free(n) => name <= n

\* find_by_source.
RecordFor(book, s, v) ==
  {n \in Names : book[n] # None /\ book[n].of = s /\ book[n].version = v}

\* save replaces the whole file by what was loaded and one changed record:
\* whatever was saved in between is dropped.
Dropped(loaded) ==
  {<<prov[n].of, prov[n].version>> : n \in {m \in Names : prov[m] \notin {None, loaded[m]}}}

Save(loaded, name, record) ==
  /\ prov' = [loaded EXCEPT ![name] = record]
  /\ lost' = lost \cup Dropped(loaded)

-----------------------------------------------------------------------------
(* A compressor.                                                           *)

\* process_video_compress_folder lists the folder once.
StartRun(c) ==
  /\ job[c].pc = "idle"
  /\ \E s \in Sources : source[s] # 0
  /\ job' = [job EXCEPT ![c] = [Idle EXCEPT !.pc = "next",
                                            !.todo = {s \in Sources : source[s] # 0}]]
  /\ UNCHANGED <<files, prov, retry, history>>

EndRun(c) ==
  /\ job[c].pc = "next" /\ job[c].todo = {}
  /\ job' = [job EXCEPT ![c] = Idle]
  /\ UNCHANGED <<files, prov, retry, history>>

\* The file is done with, whatever came of it.
NextFile(c) == [Idle EXCEPT !.pc = "next", !.todo = job[c].todo \ {job[c].src}]

\* Take a file of the list; one that is gone or that ffprobe cannot read is
\* given up, the others are probed.
ProbeSource(c, s) ==
  /\ job[c].pc = "next" /\ s \in job[c].todo
  /\ job' = IF source[s] = 0 THEN [job EXCEPT ![c].todo = @ \ {s}]
            ELSE [job EXCEPT ![c].pc = "hash", ![c].src = s, ![c].probe = Probed(s)]
  /\ UNCHANGED <<files, prov, retry, history>>

\* Mutant of Readable: a source that is gone is not noticed.
ReadableAlways(v) == TRUE

Readable(v) == v # 0

Reusable(n) == prov[n].state = "PENDING" /\ Output(n) = prov[n].output

Reuse(c, n, v) ==
  /\ job' = [job EXCEPT ![c].pc = "load", ![c].version = v, ![c].name = n,
                        ![c].then = "verify",
                        ![c].rec = [prov[n] EXCEPT !.state = "PENDING"]]
  /\ UNCHANGED staging

Encode(c, v) ==
  /\ job' = [job EXCEPT ![c].pc = "encode", ![c].version = v]
  /\ staging' = [staging EXCEPT ![job[c].src] = 0]

\* A record of these bytes (the first of the file) lets the run reuse its
\* output when that is still there and still valid; a source whose record says
\* it was removed is left alone, and one that is gone ends the run with an
\* exception.
HashSource(c) ==
  LET v == Digest(job[c].src)
      found == RecordFor(prov, job[c].src, v)
  IN /\ job[c].pc = "hash"
     /\ \/ ~Readable(v) /\ job' = [job EXCEPT ![c] = Idle] /\ UNCHANGED staging
        \/ Readable(v) /\ found = {} /\ Encode(c, v)
        \/ \E n \in found :
             \/ /\ prov[n].state = "REMOVED"
                /\ job' = [job EXCEPT ![c] = NextFile(c)] /\ UNCHANGED staging
             \/ /\ Reusable(n) /\ TRUE \in Valid(job[c].probe, Output(n))
                /\ Reuse(c, n, v)
             \/ /\ prov[n].state = "PENDING"
                /\ Reusable(n) => FALSE \in Valid(job[c].probe, Output(n))
                /\ Encode(c, v)
     /\ UNCHANGED <<source, data, videos, prov, retry, history>>

\* ffmpeg reads what is there now and may write a damaged file.
Encoded(s, sound) == [of |-> s, version |-> source[s], sound |-> sound]

InUse == {staging[s] : s \in Sources} \cup {videos[n] : n \in Names}
           \cup {job[c].file : c \in Compressors}

\* The encoder opens the hidden name and truncates the file it finds there.
OpenEncoder(c) ==
  LET s == job[c].src
      f == IF staging[s] = 0 THEN Min(Files \ InUse) ELSE staging[s]
  IN /\ job[c].pc = "encode" /\ source[s] # 0
     /\ staging' = [staging EXCEPT ![s] = f]
     /\ data' = [data EXCEPT ![f] = Encoded(s, FALSE)]
     /\ job' = [job EXCEPT ![c].pc = "write", ![c].file = f]
     /\ UNCHANGED <<source, videos, prov, retry, history>>

\* In the middle of writing.
WriteOn(c) ==
  /\ job[c].pc = "write"
  /\ data' = [data EXCEPT ![job[c].file].sound = FALSE]
  /\ UNCHANGED <<source, staging, videos, prov, job, retry, history>>

\* It ends, with a file under the hidden name or without.
CloseEncoder(c) ==
  LET s == job[c].src IN
  /\ job[c].pc = "write"
  /\ \E sound \in BOOLEAN : data' = [data EXCEPT ![job[c].file].sound = sound]
  /\ staging[s] # 0
  /\ job' = [job EXCEPT ![c].pc = "validate", ![c].file = 0]
  /\ UNCHANGED <<source, staging, videos, prov, retry, history>>

\* A failed encoding gives the file up.
FailEncoder(c) ==
  /\ \/ job[c].pc = "write"
     \/ job[c].pc = "encode" /\ source[job[c].src] = 0
  /\ staging' = [staging EXCEPT ![job[c].src] = 0]
  /\ job' = [job EXCEPT ![c] = NextFile(c)]
  /\ UNCHANGED <<source, data, videos, prov, retry, history>>

\* What is staged must be a valid optimization of the probed source.
Validate(c) ==
  LET s == job[c].src
      output == data[staging[s]]
  IN /\ job[c].pc = "validate"
     /\ \/ /\ staging[s] # 0 /\ TRUE \in Valid(job[c].probe, output)
           /\ job' = [job EXCEPT ![c].pc = "move",
                        ![c].rec = [of |-> s, version |-> job[c].version,
                                    output |-> output, state |-> "PENDING"]]
           /\ mistaken' = mistaken \cup
                {p \in {<<s, job[c].version>>} : output.version # job[c].version}
           /\ UNCHANGED staging
        \/ /\ staging[s] # 0 => FALSE \in Valid(job[c].probe, output)
           /\ staging' = [staging EXCEPT ![s] = 0]
           /\ job' = [job EXCEPT ![c] = NextFile(c)]
           /\ UNCHANGED mistaken
     /\ UNCHANGED <<source, data, videos, prov, retry, rewrites, deletes, faults, removed, exposed,
                    restored, deleted, lost>>

\* os.replace to a name of its own.
MoveToName(c) ==
  LET s == job[c].src IN
  /\ job[c].pc = "move"
  /\ IF staging[s] = 0
     THEN job' = [job EXCEPT ![c] = NextFile(c)] /\ UNCHANGED videos
     ELSE \E n \in Names :
            /\ Destination(n)
            /\ videos' = [videos EXCEPT ![n] = staging[s]]
            /\ job' = [job EXCEPT ![c].pc = "recheck", ![c].name = n]
  /\ staging' = [staging EXCEPT ![s] = 0]
  /\ UNCHANGED <<source, data, prov, retry, history>>

\* The published file is probed and hashed again; one that is gone ends the run.
Recheck(c) ==
  LET n == job[c].name IN
  /\ job[c].pc = "recheck"
  /\ \/ /\ Output(n) = job[c].rec.output
        /\ job' = [job EXCEPT ![c].pc = "load", ![c].then = "verify"]
        /\ UNCHANGED videos
     \/ /\ Output(n) # job[c].rec.output
        /\ videos' = [videos EXCEPT ![n] = 0]
        /\ job' = [job EXCEPT ![c] = IF Free(n) THEN Idle ELSE NextFile(c)]
  /\ UNCHANGED <<source, data, staging, prov, retry, history>>

\* upsert: load, change one record, save.
LoadRecords(c) ==
  /\ job[c].pc = "load"
  /\ job' = [job EXCEPT ![c].pc = "save", ![c].probe = 0, ![c].snap = prov]
  /\ UNCHANGED <<files, prov, retry, history>>

AfterSave(c) ==
  IF job[c].then = "verify"
  THEN [job[c] EXCEPT !.pc = "verify", !.snap = <<>>, !.then = "next"] ELSE NextFile(c)

\* A failed first save keeps the source; the later ones are best effort.
AfterFailedSave(c) == NextFile(c)

SaveRecords(c) ==
  /\ job[c].pc = "save"
  /\ \/ /\ Save(job[c].snap, job[c].name, job[c].rec)
        /\ job' = [job EXCEPT ![c] = AfterSave(c)]
        /\ UNCHANGED faults
     \/ /\ Eventful
        /\ faults' = faults + 1
        /\ job' = [job EXCEPT ![c] = AfterFailedSave(c)]
        /\ UNCHANGED <<prov, lost>>
  /\ UNCHANGED <<files, retry, rewrites, deletes, removed, exposed, restored, mistaken, deleted>>

\* Mutant of Intact: the hash taken before the encoding is trusted.
IntactAsBefore(s, v) == Digest(s) # 0

Intact(s, v) == Digest(s) = v

\* The source must still hold the bytes that were hashed.
VerifySource(c) ==
  /\ job[c].pc = "verify"
  /\ job' = [job EXCEPT ![c].pc = IF Intact(job[c].src, job[c].version)
                                  THEN "unlink" ELSE "load"]
  /\ UNCHANGED <<files, prov, retry, history>>

Unlink(s) ==
  /\ source[s] # 0
  /\ source' = [source EXCEPT ![s] = 0]
  /\ removed' = removed \cup {<<s, source[s]>>}

\* A source that is gone or in use stays pending.
UnlinkSource(c) ==
  /\ job[c].pc = "unlink"
  /\ \/ /\ Unlink(job[c].src)
        /\ job' = [job EXCEPT ![c].pc = "load", ![c].rec.state = "REMOVED"]
     \/ job' = [job EXCEPT ![c].pc = "load"] /\ UNCHANGED <<source, removed>>
  /\ UNCHANGED <<outputs, prov, retry, rewrites, deletes, faults, exposed, restored, mistaken,
                 deleted, lost>>

\* The process is killed, and its encoder with it.
Crash(c) ==
  /\ job[c].pc # "idle" /\ Eventful
  /\ job' = [job EXCEPT ![c] = Idle] /\ faults' = faults + 1
  /\ UNCHANGED <<files, prov, retry, rewrites, deletes, removed, exposed, restored, mistaken,
                 deleted, lost>>

-----------------------------------------------------------------------------
(* POST /api/compression/retry-cleanup.                                    *)

Pending(record) == record.state = "PENDING"

StartRetry(r, n) ==
  /\ retry[r].pc = "idle"
  /\ prov[n] # None /\ Pending(prov[n])
  /\ retry' = [retry EXCEPT ![r] = [pc |-> "check", name |-> n, snap |-> prov,
                                    state |-> "PENDING"]]
  /\ UNCHANGED <<files, prov, job, history>>

\* The output as recorded, the source as recorded, one valid for the other.
CheckFiles(r) ==
  LET rec == retry[r].snap[retry[r].name]
      to(pc, state) == retry' = [retry EXCEPT ![r].pc = pc, ![r].state = state]
  IN /\ retry[r].pc = "check"
     /\ IF Output(retry[r].name) # rec.output THEN to("save", "PENDING")
        ELSE IF source[rec.of] = 0 THEN to("save", "REMOVED")
        ELSE IF Digest(rec.of) # rec.version THEN to("save", "PENDING")
        ELSE \E answer \in Valid(Probed(rec.of), rec.output) :
               to(IF answer THEN "verify" ELSE "save", "PENDING")
     /\ UNCHANGED <<files, prov, job, history>>

VerifyAgain(r) ==
  LET rec == retry[r].snap[retry[r].name] IN
  /\ retry[r].pc = "verify"
  /\ retry' = [retry EXCEPT ![r].pc = IF Intact(rec.of, rec.version)
                                      THEN "unlink" ELSE "save"]
  /\ UNCHANGED <<files, prov, job, history>>

UnlinkAgain(r) ==
  LET s == retry[r].snap[retry[r].name].of IN
  /\ retry[r].pc = "unlink"
  /\ \/ Unlink(s) /\ retry' = [retry EXCEPT ![r].pc = "save", ![r].state = "REMOVED"]
     \/ retry' = [retry EXCEPT ![r].pc = "save"] /\ UNCHANGED <<source, removed>>
  /\ UNCHANGED <<outputs, prov, job, rewrites, deletes, faults, exposed, restored, mistaken,
                 deleted, lost>>

\* The records loaded at the start of the request are written back.
SaveRetry(r) ==
  LET snap == retry[r].snap
      n == retry[r].name
  IN /\ retry[r].pc = "save"
     /\ retry' = [retry EXCEPT ![r] = AtRest]
     /\ \/ Save(snap, n, [snap[n] EXCEPT !.state = retry[r].state]) /\ UNCHANGED faults
        \/ Eventful /\ faults' = faults + 1 /\ UNCHANGED <<prov, lost>>
     /\ UNCHANGED <<files, job, rewrites, deletes, removed, exposed, restored, mistaken, deleted>>

-----------------------------------------------------------------------------
(* The user.                                                               *)

\* The steps that use what the step before has checked: the hash taken after
\* the probe, and each unlink.
Guarded(s) ==
  \/ \E c \in Compressors : job[c].pc \in {"hash", "unlink"} /\ job[c].src = s
  \/ \E r \in Requests : retry[r].pc = "unlink" /\ retry[r].snap[retry[r].name].of = s

\* Another file, or the bytes of an earlier version again.
Rewrite(s) ==
  /\ Eventful
  /\ rewrites' = rewrites + 1
  /\ \E v \in 1 .. rewrites + 2 :
       /\ v # source[s]
       /\ source' = [source EXCEPT ![s] = v]
       /\ exposed' = IF Guarded(s) THEN exposed \cup {<<s, v>>} ELSE exposed
       /\ restored' = IF v <= rewrites + 1 THEN restored \cup {<<s, v>>} ELSE restored
  /\ UNCHANGED <<outputs, prov, job, retry, deletes, faults, removed, mistaken, deleted, lost>>

DeleteOutput(n) ==
  /\ ~Free(n) /\ Eventful
  /\ deletes' = deletes + 1
  /\ videos' = [videos EXCEPT ![n] = 0]
  /\ deleted' = deleted \cup {Output(n)}
  /\ UNCHANGED <<source, data, staging, prov, job, retry, rewrites, faults, removed, exposed,
                 restored, mistaken, lost>>

-----------------------------------------------------------------------------
CompressorStep(c) ==
  \/ StartRun(c) \/ EndRun(c) \/ HashSource(c)
  \/ OpenEncoder(c) \/ WriteOn(c) \/ CloseEncoder(c) \/ FailEncoder(c)
  \/ Validate(c) \/ MoveToName(c) \/ Recheck(c)
  \/ LoadRecords(c) \/ SaveRecords(c) \/ VerifySource(c) \/ UnlinkSource(c) \/ Crash(c)
  \/ \E s \in Sources : ProbeSource(c, s)

RetryStep(r) ==
  \/ \E n \in Names : StartRetry(r, n)
  \/ CheckFiles(r) \/ VerifyAgain(r) \/ UnlinkAgain(r) \/ SaveRetry(r)

Next ==
  \/ \E c \in Compressors : CompressorStep(c)
  \/ \E r \in Requests : RetryStep(r)
  \/ \E s \in Sources : Rewrite(s)
  \/ \E n \in Names : DeleteOutput(n)

Spec == Init /\ [][Next]_vars

-----------------------------------------------------------------------------
(* What the bytes of the user may expect.                                  *)

Encoding(p) == [of |-> p[1], version |-> p[2], sound |-> TRUE]

\* The versions no hash of the program can vouch for: put in place between the
\* probe and the hash or between the last check and the unlink; or replaced after
\* they were hashed, so that another version was encoded for them, and then put
\* back: the hash before the unlink is the one before the encoding again.
Unseen == exposed \cup (restored \cap mistaken)

\* The versions whose fate is the program's alone, with an encoding the user left
\* alone.
InItsCare == {p \in removed \ Unseen : Encoding(p) \notin deleted}

\* A version the program removed has a sound encoding among the outputs.
RemovedWasOptimized ==
  \A p \in InItsCare : \E n \in Names : Output(n) = Encoding(p)

\* A removed version is on record, unless a save that had not seen the record
\* dropped it.
RemovedIsRecorded ==
  \A p \in InItsCare :
    p \in lost \/ \E n \in Names :
                      prov[n] # None /\ <<prov[n].of, prov[n].version>> = p

\* A version has two recorded outputs only after a fault, a lost record or a
\* deletion, or when it was put in place unseen: a run that finds the bytes it has
\* encoded before reuses the output.
OneOutputPerVersion ==
  faults = 0 /\ lost = {} /\ deleted = {} =>
    \A m, n \in Names :
      /\ prov[m] # None /\ prov[n] # None
      /\ prov[m].of = prov[n].of /\ prov[m].version = prov[n].version
      /\ <<prov[m].of, prov[m].version>> \notin Unseen
      => m = n

\* A removed source is not lost: its encoding is there and on record, once.
RemovalSafe == RemovedWasOptimized /\ RemovedIsRecorded /\ OneOutputPerVersion

=============================================================================
