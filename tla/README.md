# Zo Media Intelligence: specifications

The repository turns recordings into transcripts, documents and published
knowledge packages.  This directory holds TLA+ specifications of the parts of
it where the order of steps matters: those that several threads or processes
share, and those that must survive a stop between two writes.  Each module is
translated from the source; `PROJECT.json` names the lines behind every
definition.

Paths below are relative to `src/src/transcript_pipeline/` unless they begin
with `docs/`, `tests/`, `scripts/` or `watcher/`, which are directories of `src/`.

- [1. The system](#1-the-system)
- [2. The modules and the code](#2-the-modules-and-the-code)
- [3. The runs](#3-the-runs)
- [4. Fairness](#4-fairness)
- [5. The proofs](#5-the-proofs)
- [6. Where code and documentation disagree](#6-where-code-and-documentation-disagree)
- [7. What is not modelled, and what comes next](#7-what-is-not-modelled-and-what-comes-next)

## 1. The system

```
 browser ──HTTP──▶ dashboard (threads) ──┬─ live capture ──── capture files ◀─┐
                                         ├─ resumable uploads ── media files   │
                                         ├─ library: playlist, projects, edits │
                                         └─ job queue (jobs file, lease)       │
                                               │ worker threads                │
                                               ▼ subprocesses                  │
                                         compressor ─▶ optimized videos        │
                                         processor: scan, transcribe ──────────┘
                                               │
                                         documentation engine
                                               │ hook
                                         knowledge outbox ──HTTPS──▶ Zavi API
                                               ▲
 K'ab sender ──HTTPS──▶ receiver (threads) ────┘ completion of a session
                            │  session directory (files only)
                        K'ab worker
```

The dashboard, the compressor, the processor, the K'ab receiver and the K'ab
worker are processes of their own.  What they have in common is files: markers,
JSON documents, most of them written with `os.replace`, and lease or lock files.
Both HTTP servers run one thread per request.  Beside them the repository holds
the predecessor of the package (`watcher/`, declared experimental) and the
wrappers that build, test and deliver it (`scripts/`).

### Components

| component | state | operations | what makes it hard | what makes it correct |
| --- | --- | --- | --- | --- |
| **K'ab segment pipeline** (`kab_ingest/store.py`, `worker.py`, `transcripts.py`) | assembled tracks, metadata, `ready/`, `processing/`, `failed/`, `completed/` markers, `state.json`, transcripts | complete a track; reconcile, recover, claim, process, fail, regenerate | receiver and worker share nothing but the directory; every rename may be the last before a crash | only complete segments are queued; PROCESSED announces a result that exists; failures leave a trace; retries are bounded; what was accepted is settled |
| **K'ab chunks and quota** (`store.py`) | chunk files, assembled files, metadata, cached usage | create, put chunk, complete a track | the cache is lost in a stop and rebuilt from a directory that holds leftovers; the final name comes before the verification | chunks stay within the quota, chunks are immutable, metadata speaks of the declared bytes |
| **K'ab session completion** (`server.py`, `consolidate.py`) | `session.json`, `session.complete.json` | complete a session, repeat, compare parameters | a handler decides on a session it read without the lock it writes under | COMPLETED is backed by results and final; other parameters are refused |
| **Processing queue** (`processing_worker.py`) | `processing_jobs.json`, lease file, `_active` per process, execution threads | enqueue, scan, claim, finish, cancel, recover | several processes on several hosts; `finish()` is not fenced; executions may outlast the heartbeat | no job twice, what is decided stays decided, the limit holds, queued jobs end |
| **Control of runs** (`dashboard/app.py`) | `_run_state`, one record for all executions; the jobs file | run, cancel, scan, reprocess, execute, restart | a global that several executions and requests change | a job ends with its own outcome; whatever runs ends |
| **Live capture** (`live_capture/service.py`, `store.py`, `models.py`) | fragments, processing map, chunks, `session.json`, final recording | upload, aggregate, drain, finalize, process, cancel, delete, clean up, reconcile | two locks, two services in two processes, a session written back after minutes of ffmpeg | no fragment in two chunks, none lost, finished entries stay, chunks to be processed have media, states move along their machines |
| **Playlist, projects, edits** (`live_capture/playlist.py`, `dashboard/app.py`) | `playlist.json`; `projects.json`, `project_overrides.json`, transcripts; jobs in memory, edited copies | sample, review; assign, rename, delete; edit, render, prove | load, change and save without a lock across requests; several files per request | the logical videos cover the recording; acknowledged reviews and assignments stay; retries share an edit |
| **Table of recordings** (`dashboard/app.py`) | none | walk, list, offer deletion, judge a transcript | the folders change under the walk | each recording once; deletion is offered when it would be accepted |
| **Resumable browser uploads** (`dashboard/resumable_uploads.py`) | a manifest and chunk files per upload, media files in `Video_compress` | create, acknowledge, resume, finalize, cancel | two locks and none over one manifest, the destination outside it | an acknowledged chunk is not lost, one upload makes one file, the file a browser was told stays |
| **Media optimization** (`media/optimize.py`, `media/compressor.py`) | sources, hidden files of the encoder, published videos, `compression_provenance.json` | probe, hash, encode, validate, move, record, unlink; retry a cleanup | the source may change under every step; records are loaded, changed and saved without a lock | a removed source has its sound encoding and its record |
| **Media processor, file tracker** (`transcription/processor.py`, `pipeline/master.py`, `file_tracker.py`) | `processed_files.json`, remembered by every process, transcripts | scan, transcribe, route, mark, delete | the database is written in place from memories of different age | what a scan skips is done; what is done is not done again |
| **Keyframes** (`media/keyframe_extractor.py`, `live_capture/crop.py`) | the folder of frames and of originals, `frame_mapping.json` | extract, drop, limit, crop, map | the folder holds frames of earlier extractions | a frame has its time and its original |
| **Documentation** (`documentation/`) | `manual/`, `ai-package/`, `evidence/`, `documentation_versions/` | review steps, generate, regenerate, restore, batch | three folders written in place by reviews and generations | versions are never changed; edits and the last good manual survive |
| **Knowledge outbox** (`knowledge/outbox.py`, `ledger.py`, `publisher.py`) | payloads in four directories, `ledger.json` | enqueue, reclaim, claim, deliver, mark | hooks of two processes overlap, each with a lock of its own; move and ledger write are two steps | ledger and directories agree, terminal is final, repetitions are bounded |
| **Legacy watcher** (`watcher/services`, `watcher/core`) | queues in memory and in Redis, sessions, a table of jobs | watch, transcribe, summarise; realtime sessions; queue; rows | a watchdog that kills the process, a bounded queue, commands that raise | no file is forgotten or taken twice, jobs are in one place |
| **Delivery** (`scripts/run_delivery.py`, `docker_gate.py`, `summarize_gates.py`, `heavy_validation_runner.py`, `validation_env.py`, `gate_runner.py`) | reports of a build, the Compose project, the pinned environment | run gates, clean up, summarise, validate | killed deliveries leave things behind for the next one | a gate that passed had what it needs and left nothing; a report tells what happened |
| **Upload idempotency** | a JSON file | save, look up | – | – |
| **Contents of documents** (`documentation/evidence.py`, `compaction.py`, `synthesis.py`, `grounding.py`, `screenshots.py`, `semantic_package.py`, `pipeline_v2.py`) | evidence, manual, package | resolve evidence, cut, ask, repair, merge, judge, write, publish | answers may be anything; a run may stop or be refused at every step | what is written rests on the recording's evidence; a good manual stays |
| **Knowledge packages** (`knowledge/package_builder.py`, `models.py`, `identity.py`, `policy.py`) | `knowledge-package.json`, `procedure.json` | judge a project's policy, build, identify, write, enqueue | the policy is checked in two places and read in a third; the project may change between two packages | nothing confidential goes to everyone; an identity stands for what it identifies |
| **Handlers and LLM access** (`pipeline/master.py`, `handlers/`, `llm/`) | folders of notes, the recordings' places | organize, transcribe, route, write notes, summarize, look at frames | notes are left alone when they are there, whoever made them; requests fail or answer anything | what leaves the machine was allowed; what is reported as done is there; edits stay |
| **Media tools, settings** | none that several steps share | functions of their inputs | external tools | – |

Interactions that a specification has to know about:

- The receiver's `complete_segment` writes metadata, then a ready marker; the
  worker's `reconcile_session` writes the same marker when it finds it
  missing.  Neither sees where the other is.
- `complete_session` reads `state.json` and the result files the worker
  writes, and enqueues a package in the knowledge outbox.
- The queue's executor runs compressor and processor as subprocesses; the
  processor opens the live-capture files with its own `CaptureService`, whose
  locks the dashboard does not know.
- All executions of a dashboard report through one `_run_state`, which the
  routes for running, reprocessing and scanning look at.
- The documentation hook runs at the end of a documentation run, in whichever
  process that is; there is no other trigger for a publish cycle.

### Hazards

`PROJECT.json` lists forty places where this code could go wrong in a way that
a unit test hardly reaches, each with the properties that would notice.  The
properties below were chosen from that list, not from the code's structure.
Three of the forty have no property: the transcripts after a crash, which do not catch
up, two compressors that share a staging name (both in section 6), and the takeover of a
stale lease, which is not modelled.  Fourteen have a property that covers them in part: what
the code does go wrong with is an exception of the property, named by a history variable
of its module, and the entry's note says which; section 6 says what happens then.

## 2. The modules and the code

| module | content | checked through |
| --- | --- | --- |
| `KabIngest` | one K'ab session: receiver's `complete_segment` and the worker's pass | `MCKabIngest` |
| `SegmentLifecycle` | abstract: what a segment goes through | `KabIngestRefinement` |
| `KabIngestRefinement` | the mapping from `KabIngest` to `SegmentLifecycle` | `MCKabIngest` |
| `KabUpload` | chunks, assembled files, usage of one session | `MCIntake` |
| `KabSession` | handlers of `complete_session` over an abstract worker (`SegmentLifecycle`) | `MCIntake` |
| `CaptureFragments` | one live-capture session | `MCIntake` |
| `CaptureChunks` | the operations on single chunks of a session | `MCIntake` |
| `MediaTable` | the table of recordings | `MCIntake` |
| `ProcessingQueue` | jobs file, polling processes, threads | `MCProcessingQueue` |
| `RunControl` | runs, `_run_state`, cancellation, reprocessing | itself |
| `ResumableUpload` | one upload of a browser: its directory, its media file, the threads that serve it | `MCResumableUpload` |
| `MediaOptimizer` | compressors, cleanup requests, provenance | itself |
| `MediaProcessor` | scanning processes and their memories of `processed_files.json` | `MCMediaProcessor` |
| `Keyframes` | extractions into one folder of frames | `MCRecords` |
| `DocumentVersions` | the documentation of one video | `MCDocumentVersions` |
| `ManualSynthesis` | what one run of documentation makes of a recording | `MCDocumentVersions` |
| `KnowledgeOutbox` | directories, ledger, hooks | `MCKnowledgeOutbox` |
| `KnowledgePackages` | the package made of one recording, and the policy it is made under | `MCKnowledgeOutbox` |
| `ProjectHandlers` | runs of the master processor over two recordings | `MCMediaProcessor` |
| `Playlist`, `ProjectAssignments`, `VideoEdits` | the dashboard's records about its library | `MCRecords` |
| `LegacyWatcher`, `RealtimeTranscriber`, `QueueManager`, `TranscriptionJobs` | four parts of the legacy watcher | `MCRecords` |
| `DeliveryGates`, `HeavyValidation` | delivery of a build, release validation | `MCRecords` |
| `KabIngestProofs` | theorems about `KabIngest`, and that it implements `SegmentLifecycle` | – |
| `IntakeProofs` | theorems about the five parts of `MCIntake` | – |
| `KnowledgeOutboxProofs` | theorems about `KnowledgeOutbox` and `KnowledgePackages` | – |
| `MediaProcessorProofs` | theorems about `MediaProcessor` and `ProjectHandlers` | – |
| `RecordsProofs` | theorems about `ProcessingQueue`, and about `VideoEdits`, `DeliveryGates` and `HeavyValidation` as parts of `MCRecords` | – |
| `RunControlProofs`, `ResumableUploadProofs`, `MediaOptimizerProofs` | theorems about the module of that name | – |

`MCIntake`, `MCDocumentVersions`, `MCKnowledgeOutbox`, `MCMediaProcessor` and `MCRecords`
instantiate modules that share no state.  A variable `part`, chosen in `Init`, says which of them a behaviour is
about; the others stay as they were, and each property is about its part.  So one
run explores each of them by itself.

The worker of the K'ab ingest appears twice: in detail in `KabIngest`, and as
`SegmentLifecycle` in `KabSession`, where it is instantiated as the environment
of the completion handlers.  `KabIngestRefinement` is what entitles `KabSession`
to do so: the detailed worker implements the abstract one, I/O errors included
(`Fault` and `Revoke` of the lifecycle).

### KabIngest

One action is one atomic file operation, so that a crash can fall between any
two.  `asm`, `meta`, `ready`, `proc`, `state`, `failed`, `result` and
`transcript` are files; `rpc`/`req` is the position of the one request the
session lock admits, `wpc`, `wctx`, `todo`, `wseg` the position of the worker.

| actions | code |
| --- | --- |
| `Assemble`, `RejectAssembled`, `WriteMeta`, `MaybeWriteReady` | `SessionStore.complete_segment`, `_maybe_write_ready_marker` |
| `StartPass`, `Reconcile` | `run_once`, `reconcile_session` |
| `StartRecover`, `RecoverProcessed`, `RecoverExhausted`, `RecoverRetry` | `_recover_stale` |
| `StartDrain`, `DrainProcessed`, `Claim`, `SetProcessing`, `EndPass` | `_drain_ready` |
| `Transcribe`, `WriteResult`, `SetProcessed`, `Unmark`, `Regenerate`, `WorkerFault` | `_process` |
| `SetFailed`, `WriteFailed`, `UnmarkFailed` | `_mark_failed` |
| `ReceiverCrash`, `WorkerCrash` | a stop of either process |

`starts`, `claims` and `done` are history: transcriptions begun, claims made,
segments once announced PROCESSED.  Which tracks are required is the session's
choice and made in `Init`.  A pair of offset and duration is one element of
`Offsets`; the chunks are there (their storage is `KabUpload`).

### KabUpload

`put_chunk` and the storage half of `complete_segment`, with the temporary file
a stop leaves behind (`junk`) and the usage that is cached, `None` after a
restart.  `CountAssembled` adds the size of a file that is already in place, as
the code does, so the first usage computed at that point counts it twice: an
overestimate, which `UsageCoversDisk` permits and `ChunksWithinQuota` survives.  A recount
also adds what the worker muxed into `completed/` (`_dir_size`), which the model leaves
out: the code refuses more, never less.

### KabSession

Handlers of the threaded server: `LoadSession` reads `session.json` and decides,
`CheckProcessed` is `processed_segment_indexes`, `ReadResults` and
`WriteCompletion` are `consolidate_session`, `FinalizeWaiting` and
`FinalizeCompleted` are `finalize_session`.  `before`, `acked` and `overlap` are
history: which parameters were granted before a request came, and whether
requests overlapped, with the same or with mixed parameters.

### ProcessingQueue

A store operation is one step because it runs under the lease.  `Claim` is one
iteration of `run_pending_once` with `claim_next`, its sweep of cancelled and
stale jobs included; `ScanCheck` and `ScanEnqueue` are the two halves of
`scan_once`, under two leases; `Finish` is `finish()` with what the thread does
after it; `LoseFinish` is a `finish()` that cannot get the lease.  `old` holds
the jobs claimed more than `stale_after` ago, `lost` those whose process is gone.

### RunControl

`Accept` and `EnqueueRun` are the two halves of `api_run`, which prepares
`_run_state` before the job exists; `Claim` is the worker's claim in the
dashboard; `Execute(j)` is the executor thread of a job, step by step: compress,
master, the exit that writes the outcome into `_run_state`, the closing that
reads it, `finish()`.  `Reprocess`, `ScanList` … `ScanEnqueue`, `Cancel`,
`Upload` and `Restart` are the other users of the same state.  `own`, `last`,
`mixed` and `withdrawn` are history: how the pipeline of each job ended, how the
last one did, which jobs met another execution, and that a job was cancelled
before it was claimed.

### CaptureFragments

Media is the set of fragments in it.  `Reserve` … `MarkMapped` are
`aggregate_ready_fragments` with the chunk it begins, writes and finalizes;
`FinalStart` … `FinalSave` are `finalize_session_media`, which writes back the
session it read first; `Process` and `CompleteProcessing` are the processor;
`Control` and `DeleteCancelled` are user requests; `Restart` is the start of the
dashboard with `reconcile`.  `LockFree` says that no thread of the dashboard holds
the session lock; the processor does not ask.  `late` is history: fragments that
came after a recording was made, or after a fragment with a higher sequence.

### CaptureChunks and MediaTable

`CaptureChunks` is every operation that loads `session.json`, changes its copy
and saves it: a request of the dashboard holds the lock of its service from load
to save, the processor the lock of another, and an
upload waits at its body without either.  `stale` is history: a save replaced a
manifest it had not read.  `MediaTable` is the walk of `GET /api/files`:
`Enter` and `Look` go through the folders while `Stop`, `RecordFinal`,
`ChunkMoves`, `CleanUp` and `Review` change what is in them; `Row` makes the rows
of a session or of its confirmed logical videos; `Judge` is the verdict on a
transcript's coverage, over intervals of a few instants.

### KnowledgeOutbox

A hook is `enqueue` followed by `run_publish_cycle`.  A ledger update is `Load`
and `Write`, because the lock around it belongs to the hook's own object.  `Mark`
moves the payload first; the ledger follows.  `tries` and `acks` are history,
kept until two hooks overlap.

### ResumableUpload

A thread loads the manifest, works on the files, and saves what it loaded, which
`send` and `fin` keep.  `Receive` … `SaveAck` are `acknowledge`, `Resume` and
`SaveResume` are `resume`, both under one lock (`AckFree`); `LoadManifest` …
`AnswerCompleted`, `Raise`, `Fault` and `Undo` are `finalize` under another
(`Holders`); `AnswerAgain`, `ReserveDestination`, `Duplicate`, `Refuse` and
`ReleaseDestination` are what its route does without a lock.  `Cancel` …
`CancelEnds` are `shutil.rmtree`, which lists the directory, removes what it
listed and fails on what came later.  `overlaps` is history: that a resume met a
finalization, that the upload was cancelled, that removing the chunk files failed.

### MediaOptimizer

`source` holds the version under each name of `Video_compress`; `staging` and
`videos` are names that point to files, `data` what is in the files, so that what
an encoder still writes moves with the file.  `ProbeSource`, `HashSource`,
`OpenEncoder`, `WriteOn`, `CloseEncoder`, `Validate`, `MoveToName`, `Recheck`,
`LoadRecords`, `SaveRecords`, `VerifySource` and `UnlinkSource` are
`optimize_media` in its order; `StartRetry` … `SaveRetry` are
`retry_source_cleanup`.  `Rewrite` and `DeleteOutput` are the user.  `removed`,
`exposed`, `deleted` and `lost` are history: versions the program unlinked,
versions put in place between a check and the step it guards, outputs the user
deleted, versions whose record was dropped by a save that had not seen it.  `restored` and
`mistaken` are history, too: versions put back in place, and versions for which an encoding
of another was taken, because the source was replaced between the hash and the encoder.
A version that is both is one the second hash cannot tell from the first (`Unseen`).

### MediaProcessor

Each process remembers the database as it loaded it (`proc[p]`) and writes its
memory back whole and in place (`Torn` in between); `Step(p)` is a scan: list,
look each file up by digest and by path, transcribe, route, mark, save.  A scan that
starts may also clean the database of entries whose files are gone and save what is
left (`cleanup_old_entries`).  A transcript belongs to a stem in a folder that `audio/` and
`Videos/` share: `Transcript` gives each media file its own, `text` is what a transcript was
made from and `origin` the media file its metadata name.  `Transcribe` opens it, `WriteText`
completes it or fails, which the scan survives and the torn transcript too (`cut`).  `Put`
and `Delete` are users; a deletion takes the transcripts whose stem begins with that of the
file (`Companions`) and the entries of every file of its name (`Namesakes`).  `replaced`,
`retryable`, `cut` and
`unsettled` are history that names the exceptions of the properties, `saved` is the
last database written whole, and `forgotten` says that an entry of it was dropped: by a
save from a memory that had not seen it, by one that stopped while the file was torn,
or by the cleaning.  A run of TLC goes no further than the step that forgets
(`Remembered`), because both properties are about databases that did not.

### DocumentVersions

A generation writes `manual/`, `ai-package/` and `evidence/` one after another;
a regeneration first freezes and backs up what is there and restores it when it
fails.  Content is where it came from: a version of `frame_mapping.json` and the
review edits applied since.  `entry` is the entry point that
`regenerate_v2.upstream_guard` replaces for the whole process.

### ManualSynthesis

`Begin` resolves the evidence timeline (`Timeline`: segments of the transcript,
frames and their screens, untimed text, each cut to the size of an item, sorted,
repeated texts merged) and cuts its facts into blocks (`Compacted`).  `Ask` is one
request for a block and, after an answer `WellShaped` refuses, its repair; `Merge`
makes the document and judges it (`Grounded`); `WriteManual`, `WritePackage` and
`Publish` follow, or `Refuse` and `WriteBundles` from the steps, as
`generate_documentation_v2` orders them.  `document` is `knowledge-document.json`, `manual`
what `MANUAL.md` shows, the document or the steps.  `Review` is a reviewer between runs, who
approves or removes a step or has the bundles rebuilt; each makes manual and package of the
steps and leaves the document (`engine.py`).  The answer of a provider is any fragment
of a few shapes that cites any items of the timeline, or malformed.  A text is its
words and its length in excerpts; scores have no text density and no centrality.

### KnowledgePackages

`Begin` is the hook up to the package in memory: whether the project publishes, as the
dashboard or a K'ab session sees its entry (`Seen`, `Publishes`), what of its
`second_brain` block goes into the package (`Context`), the check the models repeat
(`Allowed`), and the identities.  A hash is what is hashed, so that two packages have one
identity exactly when what goes into it is equal.  `WritePackage`, `WriteProcedure` and
`Enqueue` are the writes in their order, `GiveUp` a stop or an exception the hook swallows.
`Configure` and `Revise` change project and recording in between; `torn` is history.

### ProjectHandlers

One run of `MasterProcessor`: `Start`, `Organize` and `List` move what is in the inbox,
`Skip`, `Transcribe` and `Route` take the recordings one by one, and the plan of a handler
(`PlanOf`) is done note by note: `Write`, `Summarize`, `Look`/`Looked` at the frames,
`Documents`.  `Finish`, `WriteFails` and `OddAnswer` end it; `End` is the report of the run.
`MaySend` and `MaySendImages` are the guard that stands before a request, `Told` what is
then said to the model.  `Halt`, `Edit` and `NextDay` are what happens meanwhile.
`verdict`, `visits`, `given` and `kept` are history: the report, which handler worked in
which folder on whose behalf, what was marked as routed, which notes a user edited.

### Playlist, ProjectAssignments, VideoEdits

A request of the first two loads a file, changes its copy and saves it, and
nothing excludes another request in between; a failing request of
`ProjectAssignments` puts back the snapshots it took.  In `VideoEdits` one
request decides under a lock, two workers render, and users replace sources and
delete results meanwhile.

### The legacy watcher

`LegacyWatcher` is `watcher_and_processor.py`: the walks, the observer, the queue
in memory, the watchdog and the container's restart.  Videos of one project and one stem
have one wav file, one enhanced one and one text of a day (`Title`); a realtime session is
named after the stem and the second it began (`ids`), and `TurnAway` is what happens to a
file that comes under a name in use.  `RealtimeTranscriber` has a
producer thread per session, one bounded queue, one worker and a cleaning
thread.  `QueueManager` moves a job from list to list with one Redis command at a
time, each of which may raise, applied or not.  `TranscriptionJobs` is
`improved_watcher.py`, where `main()` replaces `process_video` by the function
that the processing of a row calls; the handler of an entry looks for its row among the
`Recent` newest (100 in the code).  The code is modelled as it is written;
`watcher/README.md` declares it experimental, and some of its imports moved away.

### DeliveryGates, HeavyValidation, Keyframes

`DeliveryGates` walks the frozen order of `run_delivery.py`; a Docker gate works
through its script, preserves evidence, takes the project down and reports; a
delivery may be killed anywhere and another begun in the same folder and project.
`HeavyValidation` is the runner with its pinned environment (`Ensure` …
`WriteStamp`) and its gates.  `Keyframes` writes, drops, limits, crops and maps
frames; the folder is never emptied, so that a later extraction finds the frames
of an earlier one.  `Listings` is what `ffprobe` tells of the times of an iframe extraction: all
of them, some, something that cannot be read, or nothing.

## 3. The runs

Ten runs pass, in less than five minutes each with two workers; `excerpts` and `retry`
end in a counterexample to what the repository says (section 6).

| run | instance | question |
| --- | --- | --- |
| `kab_segments` | 1 segment, 2 tracks of which one or both are required, 2 offsets, 2 attempts, 2 crashes, 1 I/O error | Can an interleaving or a crash queue a half-received segment, announce a missing result, lose a failure or an accepted segment, or retry beyond the limit? Does the pipeline implement `SegmentLifecycle`, settling included? |
| `intake` | chunks: 2 slots of 2 chunks of 1 or 2 bytes, 2 extensions, quota 5, 2 stops; completion: 2 handlers, segments 0 and 1, 1 or 2 expected, 1 end, 1 I/O error; capture: 3 fragments, 2 per chunk, 2 aggregating threads, 1 restart; requests: 1 chunk, 2 requests and the processor, 6 operations, 1 stop; table: 2 chunks, 2 logical videos, 2 changes beside 1 walk | Is the cached usage ever too small, can metadata speak of other bytes than declared? Is COMPLETED backed and final? Can a fragment be mapped twice or be lost, a finished entry reopen, a chunk be without media? Which saves lose a chunk's changes? Is deletion offered rightly? |
| `queue` | 2 processes on 2 hosts, 2 jobs, limit 1, 1 stop or lost outcome, 1 overlong execution | Is a job executed twice, a cancellation or an outcome undone, a queued job stuck? |
| `run_control` | 2 requests, 2 jobs, 2 at once, 1 reprocessing, 1 restart, 1 failed enqueue | Can executions that share `_run_state` take each other's outcome, and does it ever stay running? |
| `resumable_upload` | 2 chunks of 2 contents, 2 senders, 2 finalizations at a time, 3 names, 1 stop, 1 I/O error | Which overlaps lose acknowledged chunks, how many files come of an upload, does the file a browser was told stay? |
| `optimizer` | 1 compressor, 1 source, 1 cleanup request, 3 names; any 2 of: source replaced or restored, deleted output, stop, failed save | Is anything unlinked that has no sound encoding or no record, are bytes encoded twice? |
| `processor` | scans: 3 files, 2 of them of one name and one transcript, 2 contents, 2 processes, 2 puts, 1 deletion or 1 stop, 3 scans, failed writes; handlers: 2 recordings under 11 setups, 2 runs, 1 stop, 2 days, 1 edit, 3 descriptions | Does a scan skip what is not done, or do what is done? Is what handlers send allowed, and what they report as done there? |
| `documents` | versions: 2 threads, 3 operations, 2 versions of the mapping, 1 failed write or stop; synthesis: 7 recordings, 2 runs, 1 stop, blocks of 3 items, at most 2 of them, 2 items to an excerpt | Do versions, acknowledged edits and the last good manual survive what meets and what fails? Do manual and package rest on the evidence, whatever is answered? |
| `excerpts` | synthesis as above, 1 run | *violated*: are the pieces of a long text in its order? |
| `retry` | 1 name whose project has a handler, 1 content, 1 process, 2 scans | *violated*: does the next scan retry what a handler failed to do? |
| `outbox` | outbox: 2 packages, 2 hooks at a time, 3 in all, 2 attempts, 1 crash; packages: 6 contents, projects that differ from a good one in one place, 2 instants, 2 publications, 1 change | Do ledger and directories agree, is terminal final, what does a repetition cost? Who may be shown a package, and does its identity stand for it? |
| `records` | playlist: 2 requests, 5 operations, 2 titles, 2 instants; assignments: 2 clients, 2 media, 2 names, 3 requests, 1 failure; edits: 2 videos of one stem, 2 edits, 3 jobs, 2 changes by users; watcher: 1 video for 2 days and 1 restart, or 2 of one stem for a day, a watchdog that bites at once; transcriber: 2 sessions of 2 chunks, a queue of 1; Redis: 2 jobs, 2 workers, 1 retry, 1 fault; rows: 2 copies of a file, the 2 newest rows looked at; frames: 2 extractions of 3 times; gates: 2 deliveries with a kill; 3 validations, 2 lock files | What do requests lose that load, change and save without a lock? Is a file forgotten or taken twice, a job in two places, a row left behind? Do gates pass for a reason? Does a frame have its time? |

### What the properties say

Where a property makes an exception, the exception is needed: without it TLC
finds the property violated, and section 6 says what happens then.

**KabIngest.**  `SegmentSafe` has five parts.  `OnlyCompleteSegmentsAreQueued`: a
marker or a result implies that all required tracks are assembled, verified and
on one time line.  `ProcessedHasResult`: PROCESSED implies a result, and
transcripts quote results only.  `FailedLeavesATrace`: a FAILED segment has its
failed marker or still the processing marker that makes recovery finish.
`AttemptsPerClaimBounded`: the marker's counter bounds the transcriptions of a
claim.  `TotalAttemptsBounded`: all markers anybody may write for a segment
together bound them.  `NeverProcessedTwice`: without I/O errors, what was
PROCESSED is not transcribed again.  `AcceptedIsSettled`: what was accepted is
PROCESSED or FAILED one day.  `ImplementsLifecycle`: the refinement, its fairness
included.

**KabUpload** (`StorageSafe`).  `ChunksWithinQuota` and `UsageCoversDisk` (the cache
is never too small, rejected files, stops and recounts included),
`AcceptedIsDeclared`, `ChunksImmutable`.

**KabSession** (`CompletionSafe`).  `CompletedIsBacked` and `RefusedUnlessMixed` hold
unless requests with different parameters overlapped, `CompletedIsFinal` as long
as none overlapped: a slow handler that found a segment missing may overwrite
COMPLETED by WAITING_FOR_SEGMENTS.

**CaptureFragments** (`RecordingSafe`).  `MappedOnce`, `FinishedIsFinalized`,
`FinishedStays`, `PlayableHasMedia`, and `SourcesKeptUnlessLate`: every acknowledged
fragment is a file, in a chunk or in the recording, unless it came late.

**CaptureChunks** (`CaptureSafe`).  `LostOnlyAcross`: a save replaces a manifest it has
not read only when dashboard and processor overlap, or a test session is removed.
`CancelStopsUpload`, `PlayableHasMedia`, `TranscriptClears` and `MovesAsAllowed`
follow an upload, a stop and a transcript through these overlaps.

**MediaTable** (`TableSafe`).  `ListedOnce` and `SessionOnce` bound the rows,
`OfferIsRight` compares the offer to delete with what `delete_session` would answer,
`ReadyIsCovered` the verdict on a transcript with its gaps.  The order of the segments
is stated, not computed: any arrangement in which none comes before an earlier one.

**ProcessingQueue** (`JobsSafe`).  `ScheduledOnce`: one scheduled job is pending.
`JobRunsOnce` and `RunsWithinLimitUndisturbed`: no second execution and no more than
`limit`, unless one outlasted `stale_after` or, for the limit, a job was cancelled.
`DecidedIsFinal`: what ended stays as it ended, and what is asked to stop can only
be cancelled.  `QueuedIsSettled`: every queued job ends.

**RunControl.**  `OutcomeIsOwn` and `ReprocessStartsAlone` (`RunsApart`): outcome,
error and stages are those of the job that ran, unless executions met.  `RunEnds`:
`_run_state` does not stay running, unless a job was cancelled in the queue.

**ResumableUpload** (`UploadSafe`).  `AcknowledgedIsStored`: what a browser need not
send again is on disk with the content it sent.  `OneFilePerUpload`: repeated
finalizations make one file; a stop between the file and the manifest costs a
second one, and a stop after an I/O error a third.  `GrantedIsKept`: the file a
browser was told is there and has the acknowledged content.

**MediaOptimizer** (`RemovalSafe`).  `RemovedWasOptimized` and `RemovedIsRecorded`: a
version the program unlinked has a sound encoding under a published name, and a
record, unless a later save had not seen the record.  `OneOutputPerVersion`: bytes
are encoded again only after a fault, a lost record, a deletion, or when they were
put in place unseen.  Both leave out `Unseen`: versions put in place where no hash looks,
and those put back after another version was encoded for them.

**MediaProcessor** (`ScanSafe`).  `SkippedIsComplete`: a file the next scan would skip
has a complete transcript of its bytes, under its name or under the one its digest is
recorded for, unless that transcript is of another file of its stem, or a writer failed on
it.  `TranscribedOnce`: marked bytes are not
transcribed again.  Both hold until the database forgets an entry, and name what is
unsettled: a file that changed, or whose transcript was written for another, under a
process.

**DocumentVersions.**  `VersionsSound`: versions are numbered without gaps, hold what
their generation wrote, and never change.  `LastGoodKept`: an acknowledged edit stays
in the steps, package and manual agree at rest, the upstream guard is lifted
(`LeftInOrder`), and steps never replace a grounded manual (`GroundedKept`).

**ManualSynthesis** (`SynthesisSafe`).  `EvidenceSound`: every piece of what was said and
every screen is in the timeline once, where it belongs.  `RequestsBounded`: nothing is
sent to a blocked provider, and at most two requests per block.  `DocumentGrounded`: a
document rests on all facts, each block's text on facts of that block only.
`PackageSound` and `PublishedIsGrounded` follow it into the package and to the outbox;
`BundlesAgree`: manual and package show the same, the document or the steps, unless a run
stopped between them.  `LastGoodManual`: a document is replaced by one of a run all of whose
blocks were answered, and no run puts the steps in place of a manual that shows a document.
A reviewer of the steps does (section 6).

**KnowledgeOutbox.**  `TerminalIsKept` holds with overlaps and crashes.
`TerminalIsFinal` adds what remains true without overlaps: terminal entries do not
change, `AgreeAtRest`, and `RepeatsCostACrash` (a crash at most adds one acknowledged
delivery and one more round of attempts per package).

**KnowledgePackages** (`PackagesSafe`).  `AcceptedIsBuilt` compares the two checks of the
policy; `ScopeSafe` holds for entries that were never accepted, too.  `IdIsOfBody`,
`SameAgain` and `KnowledgeTells` say what the identities distinguish: a package made again
of the same is the same, and one knowledge id is one documentation.  `ExcerptsBounded`
bounds every text that is published, `ProcedureIsOfPackage` relates the two files.

**ProjectHandlers** (`HandlersSafe`).  `PolicyKept`: nothing leaves the machine against the
settings or a project's classification, and no known secret does.  `CompletedIsThere`: a
recording marked as routed has all notes, its own and whole unless two recordings share a
folder.  `EditsKept`: a note that its handlers leave alone keeps what a user wrote.
`OutputsSafe` and `OwnFolder` say where notes go, `FramesCovered` which screens are
described, and `VerdictIsHonest` that a run without errors has brought all it took to an
end.

**The library.**  `PlaylistSafe`: logical videos cover the recording without gap or
overlap even when requests meet; names are unique until a merge; a review stays
unless another request met it.  `AssignmentsSafe`: so do assignments, and files that
are changed together agree.  `EditsSafe`: identical requests share a job, a source has
one at a time, a completed edit is there with its provenance, and an edited copy that
nobody is making has the provenance of its own making.

**The legacy watcher.**  `WatcherSafe` (which joins the watcher and the realtime sessions)
and `LegacyJobsSafe` (the queue and the table): every file found is accounted for, but for one
turned away by a session of its stem and second, and taken once, but for the wav that
several videos share, its text made once; no temporary file is forgotten, texts are in
order, nothing is skipped silently; a job is in one place, not forgotten, retried as often
as the limit says; rows end, unless a hundred newer ones hid them when
their entry was handled, and are bounded.

**Delivery and frames.**  `GatesSafe`: a gate that passed left nothing behind and had
what it needs; the summary and the last report tell what happened; an environment is
taken for complete only if it is.  `FramesSafe`: the mapping gives each frame its
time, for iframe an estimate where `ffprobe` told none, or no frame any; originals are
kept, the plan is spread, and what a dropped frame shows is
shown by one before it.

### Why the bounds are enough

- *KabIngest.*  Segments do not share files except the transcripts, which is
  why one segment is enough.  Two tracks are the smallest number whose requests can
  disagree, and of which one can be optional, which gives the receiver a further
  chance to write a ready marker; two attempts (the value of
  `MAX_PROCESSING_ATTEMPTS`) with two crashes exhaust a marker in recovery; a third
  crash can only repeat one of the first two.
- *Intake.*  The quota 5 is below the 8 bytes two full slots may hold and above what
  one slot needs, so that both outcomes of the check occur next to assembled files;
  two extensions let a slot leave a file under one name and finish under the other.
  Two handlers exhibit every overlap the properties distinguish.  Three fragments and
  two per chunk give a full chunk, one that only the drain takes, and a gap in the
  order.
- *ProcessingQueue, RunControl.*  Limit 1 and two jobs make every admission contend;
  two hosts make recovery by process id and by age differ.  Two executions at a time
  are the fewest that can meet, and a third request finds what the second leaves.
- *ResumableUpload.*  Two finalizations at a time and one stop attain the bounds of
  `OneFilePerUpload`; three names are enough for them.  A second content for a chunk
  lets a part file survive a stop that does not belong to what is sent next.
- *MediaOptimizer.*  One compressor is what `processing_limit` admits by day; two share
  a staging name and break `RemovalSafe` (section 6).  Two events put a change both
  before and after any check, or a fault after a change.
- *MediaProcessor, DocumentVersions.*  Two processes have two memories of one file;
  three scans let the third meet what two left behind, as do three operations.  Three files
are the fewest of which two share a transcript and a third has a stem that begins with
theirs; there is a deletion or a stop, not both, and after it a third scan only where one
file was put (`Remembered`).
- *KnowledgeOutbox.*  Two hooks at a time show every overlap; three in all let a
  package be delivered, repeated after a crash, and found settled.  The bound
  `RepeatsCostACrash` sets on acknowledgements (two) is attained; the one on
  deliveries (four) needs a fourth hook.  With four the property holds as well.
- *ManualSynthesis.*  The seven recordings are the shapes `build_evidence_timeline`
  distinguishes: saved segments, segments and texts of frames, the same text at two
  frames, a transcript without times, a text that overruns the video; one text is long
  enough to be cut.  Two blocks let an answer cite another block.
- *KnowledgePackages.*  Two publications are the fewest that can share an identity, and
  one change lies between them; the projects put every value of every field, one at a
  time, beside good ones; an excerpt of 2 cuts some of the texts and not the others.
- *ProjectHandlers.*  Two recordings may share a name, a folder or a project; a second run
  finds what the first, a stop or a user left.  The setups take each handler, each setting
  of privacy and each rule of the output paths; five frames hold a screen that stays, two
  without text and a change, and three descriptions are fewer than the frames that differ.
- *MediaTable.*  The two logical videos are interchangeable: where one is confirmed at
  the beginning, `MCIntake` takes it to be the first.
- *The composed runs.*  In each part the bound on operations is one with which every
  action is taken and two actors meet; five requests about a playlist let a review be
  merged away, and three edits let a retry follow two that met.  A queue of one and a
  watchdog limit of zero make the limits bite at once.

`CHECK_DEADLOCK FALSE` stands in the configurations whose work is bounded or may be
done: `Outbox`, `Upload`, `Optimizer`, `Processor`, `RunControl`, `Documents`,
`Records`, `Excerpts` and `Retry`.  `Kab`, `Intake` and `Queue` check deadlock.

Symmetry is used in `Outbox`, `Upload`, `Documents`
(threads) and `Processor` (processes, contents, the two files of one name): the members of these sets are
interchangeable, and none of the runs checks liveness.

## 4. Fairness

- `KabIngest!FairSpec` is `WF_vars(Work)`: `run_forever` (`worker.py`) runs
  `run_once` again and again, and a pass only ends in an exception or a stop,
  which `MaxCrashes` bounds.  Senders, crashes and faults owe nothing.
- `SegmentLifecycle!FairSpec` asks that a segment that was begun and can be
  settled is settled; `ImplementsLifecycle` derives it from `WF_vars(Work)`.
- `ProcessingQueue!Fairness`: `_loop` polls for ever (`Poll`, `ScanEnqueue`), the
  supervisor restarts a process that stopped (`Restart`), executions end
  (`Finish`), and time passes for a job nobody executes (`GrowOld`).  An execution
  that outlasts `stale_after` is not owed anything.
- `RunControl!Fairness`: a request that was accepted goes on to its enqueue
  (`EnqueueRun`), the polling loop goes on (`ScanLook`, `ScanEnqueue`, `Claim`), and
  the subprocesses of an execution end (`Execute`).  Requests, cancellations,
  restarts and failures owe nothing.

The other modules promise no progress: what happens next is up to users,
browsers, operators, or a receiver elsewhere.

## 5. The proofs

Proved with TLAPS, for every value of the constants that satisfies the
assumptions of the module: `ConstantsAssumption` and those of its name (finite sets of
tracks, jobs, names; bounds that are natural numbers; some sets not empty; the shape of
what is read from files) and `TokensAssumption` (`None` and similar values are none of
the values they stand apart from).

| module | theorem | statement |
| --- | --- | --- |
| `KabIngestProofs` | `TypeCorrect` | `Spec => []TypeOK` |
| | `QueuedAreComplete` | `Spec => []OnlyCompleteSegmentsAreQueued` |
| | `ResultBeforeProcessed` | `Spec => []ProcessedHasResult` |
| | `FailedIsTraceable` | `Spec => []FailedLeavesATrace` |
| | `AttemptsBounded` | `Spec => []AttemptsPerClaimBounded` |
| | `ProcessedOnce` | `Spec => NeverProcessedTwice` |
| | `RetriesBounded` | `Spec => []TotalAttemptsBounded` |
| | `SegmentsAreSafe` | `Spec => []SegmentSafe` |
| | `SafelyImplementsLifecycle` | `Spec => Lifecycle!Spec` |
| `IntakeProofs` | `StorageIsSafe` | `Spec => StorageSafe` (chunks of a K'ab session) |
| | `CompletionIsSafe` | `Spec => CompletionSafe` |
| | `RecordingIsSafe` | `Spec => RecordingSafe` (fragments of a live capture) |
| | `CaptureIsSafe` | `Spec => CaptureSafe` (requests about its chunks) |
| | `TableIsSafe` | `Spec => []TableSafe` |
| | `IntakeTypes` | `Spec => []TypeOK`, of all five parts |
| `RecordsProofs` | `TypeCorrect` | `Spec => []TypeOK`, of `ProcessingQueue` |
| | `JobsAreSafe` | `Spec => JobsSafe` |
| | `EditsAreSafe` | `RecordsSpec => []EditsSafe` |
| | `GatesAreSafe` | `RecordsSpec => []GatesSafe` |
| `RunControlProofs` | `TypeCorrect` | `Spec => []TypeOK` |
| | `RunsApartTheorem` | `Spec => RunsApart` |
| `ResumableUploadProofs` | `TypeCorrect` | `Spec => []TypeOK` |
| | `UploadIsSafe` | `Spec => []UploadSafe` |
| `MediaOptimizerProofs` | `TypeCorrect` | `Spec => []TypeOK` |
| | `RemovalIsSafe` | `Alone => (Spec => []RemovalSafe)` |
| `MediaProcessorProofs` | `TypeCorrect` | `Spec => []TypeOK` |
| | `ScansAreSafe` | `Spec => []ScanSafe` |
| | `HandlersAreSafe` | `EitherSpec => []HandlersSafe` |
| `KnowledgeOutboxProofs` | `TypeCorrect` | `Spec => []TypeOK` |
| | `TerminalIsKeptTheorem` | `Spec => []TerminalIsKept` |
| | `DeliveryIsSafe` | `Spec => TerminalIsFinal` |
| | `PackagesAreSafe` | `EitherSpec => []PackagesSafe` |

Constants are those of the modules named: the projects, contents and setups that
`Outbox.cfg` and `Processor.cfg` give for TLC are any that their assumptions admit.

None of the safety properties is inductive: each speaks of files, while what a
step does depends on where its process is and what it has read.  Each module of
proofs states the strengthening; TLC checked every one of them on the instance of
its run before it was proved.

**KabIngest.**  The inductive invariant has these parts.

- `TypeInv`: `TypeOK`, and where the handler is, its request is one
  (`HandlerInv`).
- `MetaInv`: metadata means a verified track, also in the step after it was
  written, and the metadata of required tracks agree.  Needed because both
  processes decide from the metadata alone.
- `CompleteInv`: what is queued, marked, in the worker's hands, or has a result is
  complete.  `Complete` is stable because metadata is never removed, the required
  tracks of a session never change, and an `Assemble` that would bring other
  offsets is refused.
- `OrderInv`: at the step that announces PROCESSED the result is there, and a
  marker is removed only after the state says how the segment ended.
- `ClaimInv`: where the worker has a segment, its processing marker is there, and
  its attempts field is at least what this pass has recorded.
- `ListInv`: the segments still to be visited in the recovery have their marker;
  nothing else removes it.
- `BudgetInv`: transcriptions so far are at most `MaxAttempts` for each claim that
  is over, plus the attempts field of the one that is not, less one if the
  attempt just recorded was not made yet.

`NeverProcessedTwice` speaks of executions without I/O errors (`faults = 0`),
because it is false otherwise: an error in the regeneration of the transcripts
turns a PROCESSED segment FAILED, and a later ready marker makes the worker take
it again.  The invariant `ProcessedOnce` adds is that a segment in `done` is
PROCESSED and not in the worker's hands before `unmark`.

*All retries.*  `BudgetInv` bounds the transcriptions by the claims; what bounds
the claims?  `MarkInv`: the ready markers of a segment that were claimed or wait
are at most one more than the marks the receiver wrote or lost its chance to
write.  The receiver reaches its marker step once per optional track of the
segment and once when the required ones are complete (`Marks`); the worker's
reconciliation adds one, and only for a segment it never claimed, because a
claimed one has a marker or a state (`PositionInv`).

*The refinement.*  With `RetriesBounded` an attempt of the detailed worker is
never one the lifecycle refuses (`MaxTries`).  The rest is `UnannouncedInv`: what
the worker transcribes or publishes is not announced, and was tried.  Every action
of `KabIngest` is then a step of `SegmentLifecycle` or a stutter.

**ProcessingQueue.**  Why does no job run twice?  A thread belongs to the last claim
of its job, and a job that may be claimed or recovered has no thread
(`ThreadsAreOwned`), as long as no execution outlasted `stale_after`: then a claim
that finds an old heartbeat finds a lost one.  The recovery sweep is one map over
the jobs (`Swept`), and `SweptLemma` says what it leaves alone.  The limit counts
ACTIVE jobs, while the property counts threads: `ThreadsAreActive` connects them and
needs that nothing was cancelled; the rest is a cardinality (`ThreadsLemma`).

**RunControl.**  One record speaks for all executions, so the invariant says how far
an execution that met no other has come, and what it has made of the record:
`Progress`, for each position of its thread; `Prepared`, that whatever is said to run
is a request just accepted or an execution; `Shown`, that the record shows the last
outcome.  `Own` is then the outcome of the jobs that ended.  A cancelled job may be
followed by an accepted run before its thread ends, which is why `Progress` speaks of
`Shown` after the closing and not of the job itself.

**ResumableUpload.**  Two locks serialize senders and finalizers (`OneAtATime`), but
both load the manifest and save what they loaded.  `OneMap` is what makes the copies
harmless: there is one chunk map with which the manifest, all copies and all whole
files agree, and once complete it stays.  `Owned` gives each finalizer its destination
and the file it has come to, `Kept` that nobody takes away what was answered, `Stored`
that the chunks of an upload not completed are there.  `Counted` is the argument for
`OneFilePerUpload`: files are at most one for each stop or error, and one more only if
the chunk files make no further file or the one they make is there (`Used`).

**MediaOptimizer.**  `RemovedWasOptimized` must survive everything between the hash
of a source and its unlink.  `Followed` takes the compressor from the probe to the
hidden file, `Published` from the published file to the unlink and its record; both
excuse a version no hash can vouch for (`Unseen`).  Why is the second hash enough for the
others?  Either what was encoded is what was hashed, or the version was `mistaken`, and then
the source passes the comparison only when it was `restored`.  `Noted` speaks of all
records of a name that are on disk or in anybody's hands (`Known`), because a save
writes them back: those not deleted are the same, sound, and their file is kept.
`Separate` keeps what the encoder still writes apart from what is published.  That part
needs `Alone`, one compressor at a time: `staging` is named after the stem and suffix
of the source only, so that two compressors write to one file and `RemovalSafe` is
false (section 6).  `TypeCorrect` assumes nothing of the kind; that an encoder always
finds a free file is part of it (`FreshFileLemma`, a counting argument).

**KnowledgeOutbox.**  `TerminalIsKept` relates the ledger to the directories, but a
hook writes back a ledger it loaded earlier.  The inductive invariant says of
every copy a hook may yet write, and of the entry it is about to put in, what the
property says of the ledger: what they call terminal is in its directory.  It
holds because no step ever takes a payload out of `published` or `failed`.
`DeliveryIsSafe` speaks of hooks that do not overlap: `Sequential` says what the one at
work has in its hands, `AcksCounted` and `TriesCounted` charge every further
acknowledgement and every further round of attempts to a crash, and without a crash a
payload is where the ledger says or where the hook has just put it (`Accounted`).

**KnowledgePackages.**  The properties compare packages that were published at different
times, under projects that have changed since.  So the inductive part (`Built`) says of
each package, sent or under way, what it was made of: its identity is its body, the body
follows from documentation, context and instant, and the context passed the check the
models repeat.  `SameAgain` and `KnowledgeTells` are then about two values of one
function.  That acceptance implies the second check (`AcceptedIsBuilt`) has no induction:
it is two conditions on an entry, compared field by field.

**KabUpload.**  What is on disk is a sum over a set of files, and the library adds it up
by a recursion over sets.  Its laws are proved without induction over data: of the sets
for which the sum is not what it should be, take one with the fewest elements (there is a
least number, `LeastOne`), and remove an element from it.  From there: one file changed
changes the sum by the difference.  `Receiving`, `Counting`, `Assembling` and `Covering`
say for each position of a request what the cached usage still owes to the disk; only at
rest does it cover it.

**KabSession.**  Nothing holds a lock from the decision of a handler to its write, so the
argument is about agreement: while overlapping requests declare the same (`Agreeing`),
it does not matter whose write comes last, and a handler past its checks relies only on
what the worker never takes back (`Consolidates`).  A single request at a time
(`OneAtATime`) gives finality.  The worker is `SegmentLifecycle`; the proof uses nothing
else of it.

**CaptureFragments.**  `Aggregating` and `Made` carry an aggregation across the two locks:
one at a time, of an entry not finished, whose fragments no other entry has.  `Held` says
which states of a chunk mean that its media is there.  `Finalizing` is the hard part: the
session written back at the end is minutes old, and fits what is on disk only because
everything was finished when it was read.  `Timely` holds until a fragment comes late.

**CaptureChunks.**  `Locks`: the manifest a request of the dashboard read is the one on
disk, unless the processor crossed it.  `Copied` bounds what a copy about to be saved may
have changed since it was read; `Relies` what an upload, a deletion or a stored body
counts on in the manifest meanwhile.  From the two follows each step of the state
machines (`MovesAsAllowed`), and that media on record is on disk (`OnDisk`).

**MediaTable.**  `Offers` needs no history: a row offers what the session said when the row
was made.  `Listed` ties the rows made so far to the files passed (`ByFile`), which holds
while nothing changes beside the walk (`Calm`).  `ReadyIsCovered` is a statement about one
operator: if a stretch longer than the tolerance had no segment in it, take the first of
the segments in their order that begins after the stretch; the one before it ends before
the stretch, and the gap between the two is too long.

**MediaProcessor.**  Two processes have two memories of one file.  `Kept` holds as long as
no entry was forgotten: every database in use (`Live`: the file and all memories) is
right about bytes that were not replaced (`Right`), every transcript is saved or about to
be (`Saved`) and is that of its media or known to all (`Judged`), and what a process saw
marked is marked in its memory (`Remembers`).  `Busied` follows one process through its
scan.  A transcript belongs to the file that its metadata name, not to every file of its
stem: `Made` says whose it is, and only for that file are `Saved` and `Judged` claimed;
`Authored` says that a whole transcript has somebody it belongs to.  So the step that
completes one has to be followed through what it means for its own file (`Touched`), for
namesakes (`NotMade`) and for all others (`Untouched`).  The proof corrected the model:
`saved`, the last whole database, was missing, so
that a stop in the middle of a save could lose an entry unnoticed when another process
then saved an older memory; and the cleaning of the database did not save the file, as
`cleanup_old_entries` does.

**ProjectHandlers** (in `MediaProcessorProofs`).  The parts of `HInv` follow a handler
through its plan.  `Placing` has the types, and that the recording at hand has a transcript,
no mark, and a folder that counts as visited.  `There`: the notes the plan no longer
has are in the folder; notes are never removed, so it holds for what was marked as well
(`CompletedIsThere`).  `Owned` gives the rest of that property: a note is of a recording
handled in its folder, and one that was torn is of a recording that has its transcript
and no mark as routed, which `Processed` keeps from being handled again.  `Foldered` says
which project a folder is of, with `OutputLemma` that one that may be used in a container
is in an allowed root.  `Brought` says what a run without errors owes to the recordings
it took.  `Watched` is the invariant of the walk over the frames (`LookedLemma`): the
text kept is that of the frame just before, whether it was described or not, so that
two descriptions of one screen could only come from a screen without a text.

**VideoEdits** (in `RecordsProofs`).  `EInv` says that jobs are numbered without a gap, that a
live job has its key and a job in progress is its source's (`KeysFit`), that a job which
met nobody is alone at work and renders the version the source has now (`AloneAtWork`), and
that the edited copy is of a job past its rendering that has not failed (`EditedFits`).  TLC showed that the
condition under which provenance was promised was stronger than needed: a copy nobody is
making has it even where jobs met, which is what `Proven` now states.

**HeavyValidation, DeliveryGates** (in `RecordsProofs`).  `ValidInv`: outcomes are those of the
gates before the next one, and the stamp vouches for what is installed unless the lock
file changed meanwhile (`StampFits`).  `DInv` follows a delivery through the gates: what a gate needs has passed
(`OutcomesFit`), what its cleanup still owes (`CleanSoFar`), where the evidence is
(`EvidenceFits`), and that result files and reported outcomes agree (`FolderFits`).
Theorems about parts of `MCRecords` rest on `[RecordsNext]` being a step of that part or
leaving it alone (`EditsPart`, `GatesPart`).

**What is only model-checked.**  Liveness (`AcceptedIsSettled`, `QueuedIsSettled`,
`RunEnds`, the fairness half of `ImplementsLifecycle`): the prover does not handle
fairness and ENABLED.  And, so far without a proof, `DocumentVersions`, `ManualSynthesis`,
and the other parts of `MCRecords`: `Playlist`, `ProjectAssignments`, `Keyframes` and
the four of the legacy watcher.

To check the proofs: `tlapm` on each of the modules `KabIngestProofs`, `IntakeProofs`,
`RecordsProofs`, `RunControlProofs`, `ResumableUploadProofs`,
`MediaOptimizerProofs`, `MediaProcessorProofs`, `KnowledgeOutboxProofs`.  The longest,
`IntakeProofs`, takes ten minutes, `RecordsProofs` eight.

## 6. Where code and documentation disagree

These were met while the models were written.  Two have a run that ends in the
counterexample: `retry` (`RetriedNextScan`) and `excerpts` (`ExcerptsInOrder`).  The table
quotes what the repository says; the list after it is what the models allow besides.
The properties of section 3 name each of them as an exception or bound it.

| what the repository says | what the code does |
| --- | --- |
| `kab_ingest/worker.py:8`: "After each segment it atomically regenerates the session transcripts" | After a crash between PROCESSED and the regeneration, recovery only removes the marker; unless another segment follows, the transcripts lack this one. |
| `kab_ingest/worker.py:14`: "a second failure marks the segment FAILED permanently" | A receiver that comes to its marker step (`store.py`, `_maybe_write_ready_marker`) after the worker reconciled, retried and failed the segment queues it again, with fresh attempts. |
| `docs/KAB_INGEST.md:69`: other parameters on an earlier completion get `409` | Of two overlapping requests with different parameters both are granted (`server.py:238`), and the second one's parameters are then the ones that are accepted. |
| `tests/test_processing_worker.py:226`: the worker never exceeds the limit | `processing_worker.py:117` counts ACTIVE jobs: a cancelled execution that has not noticed yet counts no more once another process polled, and a further job starts beside it. |
| `docs/LIVE_CAPTURE.md:9`: original media is never deleted automatically | A fragment acknowledged after the final recording was made is deleted by the cleanup (`live_capture/service.py:370`), although no recording contains it. |
| `live_capture/service.py:722`: RECORDING chunks "become FAILED" | `reconcile` makes them UPLOAD_CANCELLED. |
| `pipeline/master.py:167`: a retryable failure of a handler is left unmarked, "so the next scan retries it" | The transcript is saved before the handler runs, so the next scan finds it, marks the file (`file_tracker.py:122`) and skips it.  Run `retry`. |
| `.agents/deliverables/DELTA-ZMI-DOCS-V2-004-real-flow-grounding.md:108`: a long transcript becomes "bounded ordered" items, and `:116` a long segment likewise | The frame stays with the first piece (`documentation/evidence.py:443`), and the sort puts items without a frame first (`:454`): the first piece of a long segment near a frame comes after the others.  Run `excerpts`. |
| `docs/plans/WHISPER_LIVE_CAPTURE_EXECUTION_PLAN.md:101`: a per-service `RLock` serializes playlist review | `_get_playlist_service` (`dashboard/app.py:284`) makes a new service, with a new lock, for each request. |
| `media/optimize.py:440`: the staging name keeps two sources of one stem apart | It does, but two compressors with the same source share it: one publishes what the other still writes.  `processing_limit` admits three executions at night. |
| `knowledge/identity.py:44`: the same source keeps its id, "which is what lets `version` increment" | The source id includes the hash of what was derived, so a reprocessed recording gets a new id. |

**K'ab.**  The final name of a track exists before its digest was compared
(`docs/KAB_INGEST.md:59` describes the opposite order).  A PROCESSED segment is
processed again after an error in the regeneration and a late marker
(`docs/KAB_INGEST.md:96`).  Assembled bytes are not compared with the quota, only
chunks are; the first assembled file after a restart is counted twice.  A slow
handler overwrites COMPLETED by WAITING_FOR_SEGMENTS.

**Live capture.**  A fragment with a lower sequence that arrives late blocks the
finalization for good.  A restart of the dashboard turns an ACTIVE session FAILED,
after which its drain is refused; so is a drain repeated after the cleanup.  A
deleted chunk is made again when a stop fell before its entry was marked.
`finalize_session_media` may write back a session in which a chunk was not yet
PROCESSED.  The processor's save can undo a cancellation, a new chunk or a deletion
of the dashboard, because the two hold different locks; `delete_test_session` holds
none.  An upload that waited for another of the same chunk cannot be cancelled
(`service.py:519`).  A stop between the unlink and the save of a deletion leaves a
CANCELLED chunk without its file, and a retry makes it FINALIZED
(`service.py:645`).

**Table of recordings.**  A session with FAILED or CANCELLED beside FINALIZED chunks is
offered for deletion, which the service refuses; a session whose confirmed videos have
no chunk file yet has no row; a file removed between `is_file` and `stat` fails the
listing; a capture state replaces GENERATING_DOCUMENTATION, so that deletion is offered
during the generation; a segment nested in a longer one makes a covered transcript
PARTIAL.

**Runs.**  A run accepted and cancelled before its claim leaves `_run_state` running
until a later job ends.  Two executions at a time take each other's outcome.

**Resumable uploads.**  A browser that is reloaded during a finalization sees
FINALIZING and resumes.  `resume` holds another lock than `finalize`, so it may
write UPLOADING over COMPLETED after the chunk files are gone; every later
finalization then fails.  An error in the removal of the chunk files is undone
like one before it: the media file is unlinked although chunk files, and perhaps
an answer that named the file, are gone.  A cancellation that meets an
acknowledgement can leave a manifest without its chunks.

**Media optimization.**  The hash before the unlink is compared with the one before the
encoding only (`media/optimize.py:535`).  A source that is replaced after the first, encoded,
and restored before the second is unlinked, and what was published is an encoding of other
bytes.

**Scans.**  All media files of one stem share one transcript, below `audio/` and `Videos/`
alike (`file_tracker.py:135`): the second one found is skipped and marked, or, when it is
transcribed again, replaces the transcript of the first.  An error while a transcript is
written is caught (`transcription/processor.py:848`,
`pipeline/master.py:171`); what was written stays, and the next
scan takes a hundred bytes of text for a transcript.  Deleting a file drops the entries of
every file of its name (`dashboard/app.py:2351`), so that bytes marked elsewhere are judged by
their transcript again.  A save from an older memory drops the entries made since.

**Playlist, projects, edits.**  Identifiers of logical videos are made from a count
that shrinks in a merge, so one may come twice; confirming an old candidate may end a
video before it starts.  A listing during a rename drops a manual assignment
(`dashboard/app.py:684`).  Deleting a medium removes the transcripts of every medium
whose name begins with its stem (`dashboard/app.py:2342`).  Edits of two sources of one
stem write to one file.

**Documentation.**  Regenerations of two videos at once stack their guards, and the one
lifted last restores the other's (`regenerate_v2.py:118`): upstream work stays refused.
A first generation resets `steps.json` while `MANUAL.md` keeps the edits when there is a
grounded document.  A stop leaves a staged version that is listed.  An edit that meets a
regeneration is lost.  A review of a step, or a rebuild, makes manual and package of the
steps even where a grounded document is there (`engine.py:435`), which `pipeline_v2.py`
keeps a run from doing; the document stays and the next good run shows it again.

**Knowledge outbox.**  A stop between a move and the ledger write repeats a
delivery or starts the attempts of a package anew, and overlapping hooks may
undo a terminal entry, against `docs/knowledge-to-action.md:89-94`.  No timer
runs publish cycles: what is to be retried waits for the next documentation run.

**Knowledge packages.**  No caller hands an earlier package to the builder, so its version
is always 1.  The package of a K'ab session contains when the session ended, so that the
same steps completed again are another package; the semantic hash of a document leaves out
whether its evidence was reviewed.  The dashboard reads `projects.json` as it is
(`dashboard/app.py:537`) and may publish for an entry `load_projects` skips.  The
instruction of a step holds its whole text; only excerpts of evidence are bounded.  A
regeneration without a procedure leaves the file of an earlier one.

**Handlers.**  Handlers are kept by the name of their project: of two entries with one name,
the last one's folder is used for both.  Recordings of one clean name share a folder, and
the second finds the first one's summary and leaves it.  A summary that is empty, or made
from a template because the model failed, is never made again.  A description that is JSON
but no object makes the handler fail for good, where other answers are passed over.
Prefixes move a recording wherever they stand in its name, although they match only at its
beginning when it is routed.

**Delivery and frames.**  When `ffprobe` exits with an error, the mapping of an iframe
extraction has no frames at all (`keyframe_extractor.py:345`), where other failures give
estimates.  Frames left by an earlier extraction make all times
estimates (`keyframe_extractor.py:287`) and may be cropped over their originals
(`crop.py:114`).  Every lifecycle gate removes the local images.  A gate that is
skipped and one that ran report under different names, so that an earlier delivery's
report may contradict the summary.

**Legacy watcher.**  A video may be summarised a second time through its own converted
wav; the watchdog kills what takes longer than fifteen minutes, where its message says
five; a wav cut off by a timed-out conversion is taken as converted
(`media/utils.py:78`); the improved watcher never transcribes, because `main()` replaces
the function that does; a job pushed back is taken again before its retry counter is
stored; texts of a hundred bytes or fewer are made again.  Of two files of one stem that
begin a realtime session in the same second, the second is neither transcribed nor queued
(`watcher_and_processor.py:602`).  Videos of one project and one stem share their wav file
and their text: the second one is skipped or its wav taken twice.  The handler of the queue looks
at the hundred newest rows (`improved_watcher.py:193`); a row behind them stays queued for
good.

## 7. What is not modelled, and what comes next

Left out of the modules above: the takeover of leases older than 30 s
(`ProcessingQueue`); crop, source and mixed extensions of fragments
(`CaptureFragments`, which also saves a finalized chunk in one step); eviction of
ledger entries beyond 5000 and corrupt payloads (`KnowledgeOutbox`); the storage
preflight and the listing (`ResumableUpload`); the rendering of the consolidated
session (`KabSession`); keyframes and the documentation bundle of a scan, whose
failures are caught (`MediaProcessor`); what is converted of documents, and the retries
within a request (`ProjectHandlers`); the constant parts of a package
(`KnowledgePackages`).  ffmpeg, faster-whisper, the LLM, the remote
API, the browser, Redis, Docker and the file system are external: each operation on
them succeeds atomically or fails, at a place the code allows for.

Components without a module, and why (`PROJECT.json` has a note for each):

- Upload idempotency: a small file loaded, checked and saved under one lock.
- Layout and PDF of documents, mission packs, media utilities: sequential work on one
  file, or functions of their inputs.
- Transport, tokens, request checks, configuration, paths: no state that several steps
  share.
- The rest of the legacy watcher and the operator scripts: functions of one text or one
  request, or started by nothing.

The plan, in order.

1. Proofs about what is only model-checked: `VersionsSound` of `DocumentVersions`,
   `SynthesisSafe` of `ManualSynthesis`.
2. The lease of `ProcessingQueue` in a module of its own, with its takeover, as the
   implementation of the atomic store operations the queue assumes.
