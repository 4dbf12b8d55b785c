--------------------------- MODULE MediaProcessor ---------------------------
(***************************************************************************)
(* Transcription of the media folders: processes that scan them (the       *)
(* master of a processing job, the scanning processor, the reprocessing    *)
(* thread of the dashboard), each with its own memory of                   *)
(* processed_files.json, which FileTracker loads once and writes back      *)
(* whole and in place; the transcripts; and the dashboard's deletion.      *)
(*                                                                         *)
(* Simplifications.                                                        *)
(*  - A digest stands for the bytes of a media file.                       *)
(*  - The files of a transcript (text, metadata, segments, timestamps) are *)
(*    one: complete, or torn as long as the last is not written.  A torn   *)
(*    one may or may not have the 100 bytes of text that make it count as  *)
(*    a transcript; a complete one has.  Of the metadata, the path of the  *)
(*    media file is kept.                                                  *)
(*  - Frames and documentation are steps that may fail without             *)
(*    consequence, and left out, as are capture states (CaptureFragments)  *)
(*    and records without a digest.                                        *)
(***************************************************************************)
EXTENDS Integers, FiniteSets

CONSTANTS
  Media,        \* paths of media files
  Texts,        \* paths of transcripts
  Transcript,   \* that of each media file: by its folder below audio/ or Videos/ and its stem
  Title,        \* file name of each media file
  Contents,     \* what a media file may hold
  Starts,       \* pairs of transcripts in a folder: the stem of the first starts that of the second
  Routed,       \* paths whose project has a handler
  Processes,
  MaxPuts,      \* bound: media files put in place by users
  MaxDeletes,   \* bound: deletions through the dashboard
  MaxCrashes,   \* bound: stops of processes
  MaxRuns,      \* bound: starts of processes
  None, Torn

ASSUME ConstantsAssumption ==
  /\ IsFiniteSet(Media) /\ IsFiniteSet(Contents) /\ IsFiniteSet(Processes)
  /\ Transcript \in [Media -> Texts] /\ DOMAIN Title = Media
  /\ Starts \subseteq Texts \X Texts /\ Routed \subseteq Media
  /\ {MaxPuts, MaxDeletes, MaxCrashes, MaxRuns} \subseteq Nat
  /\ None \notin Media \cup Contents /\ Torn \notin Contents \cup {None}

\* A database holds every entry twice, under its digest and under its path.
Databases == [hash : [Contents -> Media \cup {None}], path : [Media -> Contents \cup {None}]]
Empty     == [hash |-> [c \in Contents |-> None], path |-> [m \in Media |-> None]]

VARIABLES
  media,      \* content of each media file, None when there is none
  text,       \* content each transcript was made from
  origin,     \* media file each transcript was made from, as its metadata say
  file,       \* processed_files.json, Torn while it is written and unreadable after
  proc,       \* each process
  puts, deletes, crashes, runs,
  \* history
  saved,      \* what the file was last left with, less what was cleaned out since
  done,       \* contents that were marked and saved
  again,      \* media files a scan that started after that transcribed again
  retryable,  \* media files whose handler failed with an error worth a retry
  forgotten,  \* some entry got lost: a save from an older memory, a file read torn
  replaced,   \* contents whose file was replaced by another
  cut,        \* transcripts whose last writing failed or was stopped
  unsettled   \* media files a process stopped on, that changed while processes ran,
              \* whose transcript or entries went with another file, or whose
              \* transcript was written for another at the same time

texts   == <<text, origin>>
disk    == <<media, texts, file>>
bounds  == <<puts, deletes, crashes, runs>>
history == <<saved, done, again, retryable, forgotten, replaced, cut, unsettled>>
vars    == <<disk, proc, bounds, history>>

Idle == [pc |-> "idle", kind |-> None, mem |-> Empty, todo |-> {}, on |-> None,
         heard |-> None, seen |-> {}]

TypeOK ==
  /\ media \in [Media -> Contents \cup {None}]
  /\ text \in [Texts -> Contents \cup {None, Torn}]
  /\ origin \in [Texts -> Media \cup {None}]
  /\ file \in Databases \cup {Torn}
  /\ proc \in [Processes ->
       [pc : {"idle", "next", "transcribe", "write", "route", "mark",
              "open", "dump"},
        kind : {"master", "scan", "reprocess", None}, mem : Databases,
        todo : SUBSET Media, on : Media \cup {None}, heard : Contents \cup {None},
        seen : SUBSET Contents]]
  /\ \A p \in Processes : proc[p].pc = "write" => proc[p].heard # None
  /\ puts \in 0 .. MaxPuts /\ deletes \in 0 .. MaxDeletes
  /\ crashes \in 0 .. MaxCrashes /\ runs \in 0 .. MaxRuns
  /\ saved \in Databases /\ done \subseteq Contents /\ again \subseteq Media
  /\ retryable \subseteq Media /\ cut \subseteq Texts /\ unsettled \subseteq Media
  /\ replaced \subseteq Contents /\ forgotten \in BOOLEAN

Init ==
  /\ media = [m \in Media |-> None]
  /\ text = [t \in Texts |-> None] /\ origin = [t \in Texts |-> None]
  /\ file = Empty /\ saved = Empty
  /\ proc = [p \in Processes |-> Idle]
  /\ puts = 0 /\ deletes = 0 /\ crashes = 0 /\ runs = 0
  /\ done = {} /\ again = {} /\ retryable = {} /\ replaced = {} /\ cut = {} /\ unsettled = {}
  /\ forgotten = FALSE

-----------------------------------------------------------------------------
(* FileTracker.                                                            *)

\* load_database: an unreadable file is an empty database.
Loaded == IF file = Torn THEN Empty ELSE file

\* is_file_processed by the entries alone.
Known(db, m) == db.hash[media[m]] # None \/ db.path[m] = media[m]

\* Mutant of TranscriptCounts: an entry with other bytes does not matter.
TranscriptCountsAnyway(db, m) == text[Transcript[m]] # None

\* Only a path without an entry is judged by its transcript.
TranscriptCounts(db, m) == db.path[m] = None /\ text[Transcript[m]] # None

Marked(db, m) == [hash |-> [db.hash EXCEPT ![media[m]] = m],
                  path |-> [db.path EXCEPT ![m] = media[m]]]

\* cleanup_old_entries drops what is old and gone from the disk, if anything is.
Cleaned(db) ==
  {db} \cup
  {[hash |-> [c \in Contents |-> IF db.hash[c] \in gone THEN None ELSE db.hash[c]],
    path |-> [m \in Media |-> IF m \in gone THEN None ELSE db.path[m]]]
     : gone \in SUBSET {m \in Media : media[m] = None}}

MarkedIn(db) == {c \in Contents : db.hash[c] # None}

\* What a database says that another one does not know.
Forgets(db, old) == \/ \E m \in Media : old.path[m] # None /\ db.path[m] = None
                    \/ \E c \in Contents : old.hash[c] # None /\ db.hash[c] = None

-----------------------------------------------------------------------------
(* A process.                                                              *)

Running == {p \in Processes : proc[p].pc # "idle"}
At(p, pc) == proc[p].pc = pc

\* FileTracker is created, a scan cleans it and saves it if that changed it, and
\* the folders are listed once.
Start(p, kind) ==
  /\ At(p, "idle") /\ runs < MaxRuns
  /\ \E mem \in IF kind = "scan" THEN Cleaned(Loaded) ELSE {Loaded} :
     \E todo \in IF kind = "reprocess" THEN {{m} : m \in Media} ELSE {Media} :
       /\ \E m \in todo : media[m] # None
       /\ done' = done \ (MarkedIn(Loaded) \ MarkedIn(mem))
       /\ saved' = IF mem = Loaded THEN saved ELSE mem
       /\ proc' = [proc EXCEPT ![p] = [Idle EXCEPT
                     !.pc = IF mem = Loaded THEN "next" ELSE "open", !.kind = kind, !.mem = mem,
                     !.todo = {m \in todo : media[m] # None}, !.seen = done']]
  /\ runs' = runs + 1
  /\ forgotten' = (forgotten \/ file = Torn)
  /\ UNCHANGED <<disk, puts, deletes, crashes, again, retryable, cut, unsettled, replaced>>

NextFile(p) == [proc[p] EXCEPT !.pc = "next", !.todo = @ \ {proc[p].on},
                               !.on = None, !.heard = None]

\* A file that is known, or has a transcript, is skipped; in the second case it
\* is marked.  Reprocessing does not ask.
Skip(p, m) ==
  /\ At(p, "next") /\ m \in proc[p].todo /\ proc[p].kind # "reprocess"
  /\ \/ media[m] # None /\ Known(proc[p].mem, m)
        /\ proc' = [proc EXCEPT ![p].todo = @ \ {m}]
     \/ /\ media[m] # None /\ ~Known(proc[p].mem, m) /\ TranscriptCounts(proc[p].mem, m)
        /\ proc' = [proc EXCEPT ![p].pc = "open", ![p].on = m,
                                ![p].mem = Marked(@, m)]
  /\ UNCHANGED <<disk, bounds, history>>

\* A file that is gone fails here, any other is to be transcribed.
Take(p, m) ==
  /\ At(p, "next") /\ m \in proc[p].todo
  /\ proc' = IF media[m] = None THEN [proc EXCEPT ![p].todo = @ \ {m}]
             ELSE [proc EXCEPT ![p].pc = "transcribe", ![p].on = m]
  /\ (media[m] # None /\ proc[p].kind # "reprocess") =>
        /\ ~Known(proc[p].mem, m)
        /\ TranscriptCounts(proc[p].mem, m) => text[Transcript[m]] = Torn
  /\ UNCHANGED <<disk, bounds, history>>

\* Mutant of Readable: the failure on a file that is gone is not noticed.
ReadableAlways(m) == TRUE

Readable(m) == media[m] # None

\* Processes that write the transcript of m for another media file.
Crossing(m) == {p \in Processes : /\ proc[p].pc = "write" /\ proc[p].on # m
                                  /\ Transcript[proc[p].on] = Transcript[m]}

\* Whisper hears what is there now and save_transcription opens the text, in
\* place; or Whisper fails and the file is left as it is.
Transcribe(p) ==
  LET m == proc[p].on IN
  /\ At(p, "transcribe")
  /\ \/ /\ Readable(m)
        /\ text' = [text EXCEPT ![Transcript[m]] = Torn]
        /\ proc' = [proc EXCEPT ![p].pc = "write", ![p].heard = media[m]]
        /\ again' = IF media[m] \in proc[p].seen /\ proc[p].kind # "reprocess"
                    THEN again \cup {m} ELSE again
        /\ unsettled' = IF Crossing(m) = {} THEN unsettled
                        ELSE unsettled \cup {m} \cup {proc[q].on : q \in Crossing(m)}
     \/ proc' = [proc EXCEPT ![p] = NextFile(p)] /\ UNCHANGED <<text, again, unsettled>>
  /\ UNCHANGED <<media, origin, file, bounds, saved, done, retryable, forgotten, cut, replaced>>

\* A writer that fails or stops leaves what it got to.
TornBy(m) == /\ text' = [text EXCEPT ![Transcript[m]] = Torn]
             /\ cut' = cut \cup {Transcript[m]}

\* The rest of the text and the files beside it; when one cannot be written, the
\* error is caught, and the torn transcript stays.
WriteText(p) ==
  LET m == proc[p].on IN
  /\ At(p, "write")
  /\ origin' = [origin EXCEPT ![Transcript[m]] = m]
  /\ \/ /\ text' = [text EXCEPT ![Transcript[m]] = proc[p].heard]
        /\ cut' = cut \ {Transcript[m]}
        /\ proc' = [proc EXCEPT ![p].heard = None,
                      ![p].pc = IF proc[p].kind = "master" THEN "route" ELSE "mark"]
     \/ TornBy(m) /\ proc' = [proc EXCEPT ![p] = NextFile(p)]
  /\ UNCHANGED <<media, file, bounds, saved, done, again, retryable, forgotten, unsettled,
                 replaced>>

\* The handler of the project, if it has one, succeeds or fails for good, which
\* both mark the file, or fails with an error worth a retry, which does not.
Route(p) ==
  LET m == proc[p].on IN
  /\ At(p, "route")
  /\ \/ /\ proc' = [proc EXCEPT ![p].pc = "mark"]
        /\ retryable' = retryable \ {m}
     \/ /\ m \in Routed
        /\ proc' = [proc EXCEPT ![p] = NextFile(p)]
        /\ retryable' = retryable \cup {m}
  /\ UNCHANGED <<disk, bounds, saved, done, again, forgotten, cut, unsettled, replaced>>

\* mark_as_processed hashes the file again; a file that is gone is not marked.
Mark(p) ==
  LET m == proc[p].on IN
  /\ At(p, "mark")
  /\ IF media[m] = None
     THEN proc' = [proc EXCEPT ![p] = NextFile(p)]
     ELSE proc' = [proc EXCEPT ![p].pc = "open", ![p].mem = Marked(@, m)]
  /\ UNCHANGED <<disk, bounds, history>>

\* save_database opens the file for writing, then dumps the memory into it.
OpenFile(p) ==
  /\ At(p, "open")
  /\ file' = Torn
  /\ proc' = [proc EXCEPT ![p].pc = "dump"]
  /\ UNCHANGED <<media, texts, bounds, history>>

\* Over the dump of another process, which may be the longer one.
DumpFile(p) ==
  /\ At(p, "dump")
  /\ file' \in IF file = Torn THEN {proc[p].mem} ELSE {proc[p].mem, Torn}
  /\ saved' = IF file' = Torn THEN saved ELSE proc[p].mem
  /\ forgotten' = (forgotten \/ file' = Torn \/ Forgets(proc[p].mem, saved))
  /\ done' = done \cup MarkedIn(proc[p].mem)
  /\ proc' = [proc EXCEPT ![p] = NextFile(p)]
  /\ UNCHANGED <<media, texts, bounds, again, retryable, cut, unsettled, replaced>>

Finish(p) ==
  /\ At(p, "next") /\ proc[p].todo = {}
  /\ proc' = [proc EXCEPT ![p] = Idle]
  /\ UNCHANGED <<disk, bounds, history>>

Crash(p) ==
  /\ p \in Running /\ crashes < MaxCrashes
  /\ crashes' = crashes + 1
  /\ proc' = [proc EXCEPT ![p] = Idle]
  /\ IF At(p, "write") THEN TornBy(proc[p].on) ELSE UNCHANGED <<text, cut>>
  /\ unsettled' = unsettled \cup ({proc[p].on} \ {None})
  /\ UNCHANGED <<media, origin, file, puts, deletes, runs, saved, done, again, retryable, forgotten,
                 replaced>>

-----------------------------------------------------------------------------
(* Users.                                                                  *)

\* While a process runs, what it holds of a file is out of date.
Disturb(names) == unsettled' = IF Running = {} THEN unsettled ELSE unsettled \cup names

\* A recording, an upload or a copy puts a file in place.
Put(m, c) ==
  /\ puts < MaxPuts /\ media[m] # c
  /\ puts' = puts + 1
  /\ media' = [media EXCEPT ![m] = c]
  /\ replaced' = replaced \cup ({media[m]} \ {None})
  /\ Disturb({m})
  /\ UNCHANGED <<texts, file, proc, deletes, crashes, runs, saved, done, again, retryable,
                 forgotten, cut>>

\* The transcripts api_delete_file removes: if the deleted file has one, all of
\* its folder whose stem starts with that of the file.
Companions(m) ==
  LET t == Transcript[m] IN
  IF text[t] = None THEN {} ELSE {t} \cup {u \in Texts : <<t, u>> \in Starts}

\* The entries it removes: of the path, and of every path with its file name.
Namesakes(m) == {n \in Media : Title[n] = Title[m]}

Without(db, m) ==
  [hash |-> [c \in Contents |-> IF db.hash[c] \in Namesakes(m) THEN None ELSE db.hash[c]],
   path |-> [n \in Media |-> IF n \in Namesakes(m) THEN None ELSE db.path[n]]]

\* DELETE /api/file: the media file, its transcripts, its entries.
Delete(m) ==
  LET gone == Companions(m) IN
  /\ media[m] # None /\ deletes < MaxDeletes
  /\ deletes' = deletes + 1
  /\ media' = [media EXCEPT ![m] = None]
  /\ text' = [t \in Texts |-> IF t \in gone THEN None ELSE text[t]]
  /\ origin' = [t \in Texts |-> IF t \in gone THEN None ELSE origin[t]]
  /\ cut' = cut \ gone
  /\ file' = IF file = Torn THEN Torn ELSE Without(file, m)
  /\ saved' = IF file = Torn THEN saved ELSE Without(saved, m)
  /\ done' = IF file = Torn THEN done ELSE done \ (MarkedIn(file) \ MarkedIn(Without(file, m)))
  /\ unsettled' = unsettled
       \cup {n \in Media \ {m} : Transcript[n] \in gone \/ n \in Namesakes(m)}
       \cup IF Running = {} THEN {} ELSE {m}
  /\ UNCHANGED <<proc, puts, crashes, runs, again, retryable, forgotten, replaced>>

-----------------------------------------------------------------------------
Step(p) ==
  \/ \E kind \in {"master", "scan", "reprocess"} : Start(p, kind)
  \/ \E m \in Media : Skip(p, m) \/ Take(p, m)
  \/ Transcribe(p) \/ WriteText(p) \/ Route(p)
  \/ Mark(p) \/ OpenFile(p) \/ DumpFile(p) \/ Finish(p) \/ Crash(p)

Next ==
  \/ \E p \in Processes : Step(p)
  \/ \E m \in Media : Delete(m) \/ \E c \in Contents : Put(m, c)

Spec == Init /\ [][Next]_vars

-----------------------------------------------------------------------------
(* Properties.                                                             *)

AtRest == Running = {} /\ file # Torn

\* The transcript was made from this file, or is still to be made, and no writer
\* failed on it.
Own(m) == origin[Transcript[m]] \in {m, None} /\ Transcript[m] \notin cut

\* A file the next scan would skip has a complete transcript of its bytes,
\* under its name or the one its digest is recorded for, unless an entry was
\* forgotten, its handler failed retryably, a process stopped on it, it changed
\* under a process, or the file that was transcribed has been replaced; the
\* transcript is one a writer failed on; or it is one of another file, since all
\* media files of one stem have the same transcript.
SkippedIsComplete ==
  AtRest /\ ~forgotten =>
    \A m \in Media \ (unsettled \cup retryable) :
      /\ media[m] \notin replaced \cup {None}
      /\ Known(file, m) \/ TranscriptCounts(file, m)
      => \E n \in {m, file.hash[media[m]]} \ {None} :
           Own(n) /\ n \notin unsettled \cup retryable => text[Transcript[n]] = media[m]

\* A scan that starts after bytes were marked transcribes them again only if an
\* entry was forgotten or the file changed under a process.
TranscribedOnce ==
  ~forgotten => again \subseteq unsettled

\* A scan does what is left to do, and only that.
ScanSafe == SkippedIsComplete /\ TranscribedOnce

\* What handlers/base.py and master.py say of a handler's error that is worth a retry:
\* the next scan picks the file up again, if it is there and nobody else dealt with it.
RetriedNextScan ==
  AtRest => \A m \in retryable \ unsettled :
    media[m] \notin done \cup {None} => ~Known(file, m) /\ ~TranscriptCounts(file, m)

=============================================================================
