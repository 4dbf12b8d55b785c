-------------------------- MODULE ResumableUpload --------------------------
(***************************************************************************)
(* One resumable upload of a browser: its directory with the manifest      *)
(* session.json, the chunk files and assembled.tmp, and the media files    *)
(* its finalization makes in Video_compress.                               *)
(*                                                                         *)
(* The dashboard's threads share three locks: acknowledge and resume hold  *)
(* _ACK_LOCK, finalize holds _FINALIZE_LOCK, cancel holds none.  All of    *)
(* them load the manifest, work on the files, and save what they loaded.   *)
(*                                                                         *)
(* Simplifications.                                                        *)
(*  - A digest stands for its content; a chunk of another size or digest   *)
(*    than it declares is refused and stutters, as does every request the  *)
(*    storage preflight refuses.                                           *)
(*  - The upload has just been created.  Times, names and projects are     *)
(*    left out; PAUSED and FAILED are states nothing writes.               *)
(*  - The job enqueued with a successful answer is that answer: it has an  *)
(*    idempotency key.  The processor leaves the media file in place.      *)
(***************************************************************************)
EXTENDS Naturals, FiniteSets

CONSTANTS
  Indices,      \* chunks of the file
  Contents,     \* contents a chunk may have
  Senders,      \* threads that serve acknowledge and resume
  Finalizers,   \* threads that serve finalize
  MaxFiles,     \* bound: names tried in Video_compress
  MaxCrashes,   \* bound: stops of the dashboard
  MaxFaults,    \* bound: I/O errors in finalize
  Reserved,     \* an empty file that keeps a name
  None

ASSUME ConstantsAssumption ==
  /\ Indices # {} /\ IsFiniteSet(Indices)
  /\ Indices \cap {"session.json", "assembled.tmp"} = {}
  /\ MaxFiles \in Nat /\ MaxCrashes \in Nat /\ MaxFaults \in Nat

Names  == 1 .. MaxFiles
Chunks == [Indices -> Contents \cup {None}]
Files  == [Indices -> Contents]

VARIABLES
  dir,        \* the upload's directory is there
  manifest,   \* session.json, or None
  parts,      \* content of each chunk file, or None
  assembled,  \* assembled.tmp, or None
  media,      \* under each name: a whole file, Reserved, or None
  send,       \* each sender: its step, its chunk, the chunk map it loaded
  fin,        \* each finalizer: its step, its destination, the chunk map it loaded
  removing,   \* what rmtree has yet to remove, or None
  crashes, faults,
  acked,      \* history: chunks a sender was told are stored
  granted,    \* history: names a finalizer was told
  overlaps    \* history: "resume" met a finalization, "cancel" was asked for,
              \* "unlink": an I/O error hit after COMPLETED was saved

disk    == <<dir, manifest, parts, assembled, media>>
threads == <<send, fin, removing>>
bounds  == <<crashes, faults>>
history == <<acked, granted, overlaps>>
vars    == <<disk, threads, bounds, history>>

Manifests == [state  : {"UPLOADING", "FINALIZING", "COMPLETED"},
              chunks : Chunks,
              name   : Names \cup {None}]      \* final_name

\* None and Reserved are nothing else.
ASSUME TokensAssumption ==
  /\ None \notin Contents /\ None \notin Nat /\ None \notin Manifests
  /\ None \notin {Reserved, {}}
  /\ None \notin Chunks /\ Reserved \notin Chunks

Idle == [step |-> "idle", index |-> None, content |-> None, data |-> None]
Done == [step |-> "idle", name |-> None, data |-> None]

NoChunks == [i \in Indices |-> None]

TypeOK ==
  /\ dir \in BOOLEAN
  /\ manifest \in Manifests \cup {None} /\ parts \in Chunks
  /\ assembled \in Files \cup {None}
  /\ ~dir => <<manifest, assembled, parts>> = <<None, None, NoChunks>>
  /\ media \in [Names -> Files \cup {Reserved, None}]
  /\ send \in [Senders -> [step    : {"idle", "store", "save", "resume"},
                           index   : Indices \cup {None},
                           content : Contents \cup {None},
                           data    : Chunks \cup {None}]]
  /\ fin \in [Finalizers -> [step : {"idle", "wait", "mark", "assemble", "replace", "complete",
                                     "clean", "undo", "release"},
                             name : Names \cup {None},
                             data : Chunks \cup {None}]]
  /\ removing = None \/ removing \subseteq ({"session.json", "assembled.tmp"} \cup Indices)
  /\ crashes \in 0 .. MaxCrashes /\ faults \in 0 .. MaxFaults
  /\ acked \subseteq Indices /\ granted \subseteq Names
  /\ overlaps \subseteq {"resume", "cancel", "unlink"}

\* The manifest a thread saves has the chunk map it loaded.
Saved(state, chunks) == [state |-> state, chunks |-> chunks, name |-> None]

Init ==
  /\ dir = TRUE /\ parts = NoChunks /\ assembled = None
  /\ manifest = Saved("UPLOADING", NoChunks)
  /\ media = [n \in Names |-> None]
  /\ send = [s \in Senders |-> Idle] /\ fin = [r \in Finalizers |-> Done]
  /\ removing = None
  /\ crashes = 0 /\ faults = 0
  /\ acked = {} /\ granted = {} /\ overlaps = {}

\* Mutant of AckFree: acknowledgements do not exclude each other.
AckUnlocked == TRUE

AckFree == \A s \in Senders : send[s].step = "idle"

\* Finalizers that hold _FINALIZE_LOCK.
Holders == {r \in Finalizers : fin[r].step \in {"mark", "assemble", "replace", "complete",
                                                "clean", "undo"}}

Resumers == {s \in Senders : send[s].step = "resume"}

Acknowledged(m) == {i \in Indices : m.chunks[i] # None}

-----------------------------------------------------------------------------
(* PUT .../chunks/{i}: acknowledge.                                        *)

\* A chunk that is acknowledged already is acknowledged again, or refused when
\* it conflicts: nothing changes.
Receive(s, i, c) ==
  /\ send[s].step = "idle" /\ AckFree
  /\ manifest # None /\ manifest.state = "UPLOADING"
  /\ manifest.chunks[i] = None
  /\ send' = [send EXCEPT ![s] =
       [step |-> "store", index |-> i, content |-> c, data |-> manifest.chunks]]
  /\ UNCHANGED <<disk, fin, removing, bounds, history>>

\* A chunk file left by an acknowledgement that was cut off is the same.
Matches(s) == parts[send[s].index] = send[s].content

\* One that is not the same is removed.
DiscardPart(s) ==
  /\ send[s].step = "store"
  /\ parts[send[s].index] # None /\ ~Matches(s)
  /\ parts' = [parts EXCEPT ![send[s].index] = None]
  /\ UNCHANGED <<dir, manifest, assembled, media, threads, bounds, history>>

StorePart(s) ==
  /\ send[s].step = "store"
  /\ parts[send[s].index] = None \/ Matches(s)
  /\ dir
  /\ parts' = IF Matches(s) THEN parts
              ELSE [parts EXCEPT ![send[s].index] = send[s].content]
  /\ send' = [send EXCEPT ![s].step = "save"]
  /\ UNCHANGED <<dir, manifest, assembled, media, fin, removing, bounds, history>>

SaveAck(s) ==
  /\ send[s].step = "save" /\ dir
  /\ manifest' = Saved("UPLOADING", [send[s].data EXCEPT ![send[s].index] = send[s].content])
  /\ acked' = acked \cup {send[s].index}
  /\ send' = [send EXCEPT ![s] = Idle]
  /\ UNCHANGED <<dir, parts, assembled, media, fin, removing, bounds, granted, overlaps>>

-----------------------------------------------------------------------------
(* POST .../resume.                                                        *)

Resume(s) ==
  /\ send[s].step = "idle" /\ AckFree
  /\ manifest # None /\ manifest.state # "COMPLETED"
  /\ send' = [send EXCEPT ![s] = [Idle EXCEPT !.step = "resume", !.data = manifest.chunks]]
  /\ overlaps' = IF Holders # {} THEN overlaps \cup {"resume"} ELSE overlaps
  /\ UNCHANGED <<disk, fin, removing, bounds, acked, granted>>

SaveResume(s) ==
  /\ send[s].step = "resume" /\ dir
  /\ manifest' = Saved("UPLOADING", send[s].data)
  /\ send' = [send EXCEPT ![s] = Idle]
  /\ UNCHANGED <<dir, parts, assembled, media, fin, removing, bounds, history>>

\* The directory has been removed in the meantime.
SendFails(s) ==
  /\ send[s].step # "idle" /\ ~dir
  /\ send' = [send EXCEPT ![s] = Idle]
  /\ UNCHANGED <<disk, fin, removing, bounds, history>>

-----------------------------------------------------------------------------
(* POST .../finalize: the route, and finalize under its lock.              *)

Grant(n) == granted' = granted \cup {n}

\* The route reads the manifest without the lock.
AnswerAgain ==
  /\ manifest # None /\ manifest.state = "COMPLETED"
  /\ Grant(manifest.name)
  /\ UNCHANGED <<disk, threads, bounds, acked, overlaps>>

\* _reserve_upload_destination
FirstFree == CHOOSE n \in Names : media[n] = None /\ \A k \in 1 .. n - 1 : media[k] # None

ReserveDestination(r) ==
  /\ fin[r].step = "idle"
  /\ manifest # None /\ manifest.state # "COMPLETED"
  /\ \E n \in Names : media[n] = None
  /\ media' = [media EXCEPT ![FirstFree] = Reserved]
  /\ fin' = [fin EXCEPT ![r] = [step |-> "wait", name |-> FirstFree, data |-> None]]
  /\ UNCHANGED <<dir, manifest, parts, assembled, send, removing, bounds, history>>

CompletedBefore == manifest.state = "COMPLETED"

\* Another finalization was faster: its file is the answer.
Duplicate(r) ==
  /\ fin[r].step = "wait" /\ Holders = {}
  /\ manifest # None /\ CompletedBefore
  /\ media' = IF manifest.name = fin[r].name THEN media
              ELSE [media EXCEPT ![fin[r].name] = None]
  /\ fin' = [fin EXCEPT ![r] = Done]
  /\ Grant(manifest.name)
  /\ UNCHANGED <<dir, manifest, parts, assembled, send, removing, bounds, acked, overlaps>>

\* The route gives its own destination up.
Release(r) ==
  /\ media' = [media EXCEPT ![fin[r].name] = None]
  /\ fin' = [fin EXCEPT ![r] = Done]

Refuse(r) ==
  /\ fin[r].step = "wait" /\ Holders = {}
  /\ manifest # None => ~CompletedBefore /\ Acknowledged(manifest) # Indices
  /\ Release(r)
  /\ UNCHANGED <<dir, manifest, parts, assembled, send, removing, bounds, history>>

LoadManifest(r) ==
  /\ fin[r].step = "wait" /\ Holders = {}
  /\ manifest # None /\ ~CompletedBefore /\ Acknowledged(manifest) = Indices
  /\ fin' = [fin EXCEPT ![r].step = "mark", ![r].data = manifest.chunks]
  /\ overlaps' = IF Resumers # {} THEN overlaps \cup {"resume"} ELSE overlaps
  /\ UNCHANGED <<disk, send, removing, bounds, acked, granted>>

Goto(r, step) == fin' = [fin EXCEPT ![r].step = step]

MarkFinalizing(r) ==
  /\ fin[r].step = "mark" /\ dir
  /\ manifest' = Saved("FINALIZING", fin[r].data)
  /\ Goto(r, "assemble")
  /\ UNCHANGED <<dir, parts, assembled, media, send, removing, bounds, history>>

Assemble(r) ==
  /\ fin[r].step = "assemble" /\ dir
  /\ \A i \in Indices : parts[i] # None
  /\ assembled' = parts
  /\ Goto(r, "replace")
  /\ UNCHANGED <<dir, manifest, parts, media, send, removing, bounds, history>>

\* The media are valid; os.replace onto the destination.
ReplaceDestination(r) ==
  /\ fin[r].step = "replace" /\ assembled # None
  /\ media' = [media EXCEPT ![fin[r].name] = assembled]
  /\ assembled' = None
  /\ Goto(r, "complete")
  /\ UNCHANGED <<dir, manifest, parts, send, removing, bounds, history>>

SaveCompleted(r) ==
  /\ fin[r].step = "complete" /\ dir
  /\ manifest' = [Saved("COMPLETED", fin[r].data) EXCEPT !.name = fin[r].name]
  /\ Goto(r, "clean")
  /\ UNCHANGED <<dir, parts, assembled, media, send, removing, bounds, history>>

UnlinkPart(r, i) ==
  /\ fin[r].step = "clean" /\ parts[i] # None
  /\ parts' = [parts EXCEPT ![i] = None]
  /\ UNCHANGED <<dir, manifest, assembled, media, threads, bounds, history>>

AnswerCompleted(r) ==
  /\ fin[r].step = "clean" /\ parts = NoChunks
  /\ fin' = [fin EXCEPT ![r] = Done]
  /\ Grant(fin[r].name)
  /\ UNCHANGED <<disk, send, removing, bounds, acked, overlaps>>

-----------------------------------------------------------------------------
(* What finalize does about an exception.                                  *)

\* A file is missing, or the media are not valid.
Raise(r) ==
  /\ \/ fin[r].step = "assemble" /\ \E i \in Indices : parts[i] = None
     \/ fin[r].step = "replace"
     \/ fin[r].step = "complete" /\ ~dir
  /\ Goto(r, "undo")
  /\ UNCHANGED <<disk, send, removing, bounds, history>>

\* An I/O error within the try block, or in the handler's own save.
Fault(r) ==
  /\ faults < MaxFaults /\ faults' = faults + 1
  /\ \/ fin[r].step \in {"assemble", "replace", "complete", "clean"}
        /\ Goto(r, "undo") /\ UNCHANGED assembled
     \/ fin[r].step = "undo" /\ Goto(r, "release") /\ assembled' = None
     \/ fin[r].step = "mark" /\ Goto(r, "release") /\ UNCHANGED assembled
  /\ overlaps' = IF fin[r].step = "clean" THEN overlaps \cup {"unlink"} ELSE overlaps
  /\ UNCHANGED <<dir, manifest, parts, media, send, removing, crashes, acked, granted>>

Undo(r) ==
  /\ fin[r].step = "undo"
  /\ assembled' = None
  /\ manifest' = IF dir THEN Saved("UPLOADING", fin[r].data) ELSE manifest
  /\ Goto(r, "release")
  /\ UNCHANGED <<dir, parts, media, send, removing, bounds, history>>

\* The lock is free again; the route unlinks its destination.
ReleaseDestination(r) ==
  /\ \/ fin[r].step = "release"
     \/ fin[r].step = "mark" /\ ~dir
  /\ Release(r)
  /\ UNCHANGED <<dir, manifest, parts, assembled, send, removing, bounds, history>>

-----------------------------------------------------------------------------
(* DELETE: cancel.                                                         *)

\* rmtree lists the directory before it removes what it found.
Cancel ==
  /\ removing = None /\ dir
  /\ removing' = {i \in Indices : parts[i] # None}
                 \cup (IF manifest # None THEN {"session.json"} ELSE {})
                 \cup (IF assembled # None THEN {"assembled.tmp"} ELSE {})
  /\ overlaps' = overlaps \cup {"cancel"}
  /\ UNCHANGED <<disk, send, fin, bounds, acked, granted>>

CancelRemove(e) ==
  /\ removing # None /\ e \in removing
  /\ removing' = removing \ {e}
  /\ manifest' = IF e = "session.json" THEN None ELSE manifest
  /\ assembled' = IF e = "assembled.tmp" THEN None ELSE assembled
  /\ parts' = [i \in Indices |-> IF i = e THEN None ELSE parts[i]]
  /\ UNCHANGED <<dir, media, send, fin, bounds, history>>

\* Something listed is gone already: older versions of rmtree raise.
Gone(e) == CASE e = "session.json"  -> manifest = None
             [] e = "assembled.tmp" -> assembled = None
             [] OTHER               -> parts[e] = None

CancelAborts ==
  /\ removing # None /\ \E e \in removing : Gone(e)
  /\ removing' = None
  /\ UNCHANGED <<disk, send, fin, bounds, history>>

\* Mutant of Empty: rmdir takes what is left along.
EmptyAlways == TRUE

\* Nothing is left in the directory.
Empty == manifest = None /\ assembled = None /\ parts = NoChunks

\* rmdir fails when something was written in the meantime.
CancelEnds ==
  /\ removing = {}
  /\ dir' = ~Empty
  /\ removing' = None
  /\ UNCHANGED <<manifest, parts, assembled, media, send, fin, bounds, history>>

-----------------------------------------------------------------------------

Crash ==
  /\ crashes < MaxCrashes /\ crashes' = crashes + 1
  /\ send' = [s \in Senders |-> Idle] /\ fin' = [r \in Finalizers |-> Done]
  /\ removing' = None
  /\ UNCHANGED <<disk, faults, history>>

Send(s) ==
  \/ \E i \in Indices, c \in Contents : Receive(s, i, c)
  \/ DiscardPart(s) \/ StorePart(s) \/ SaveAck(s)
  \/ Resume(s) \/ SaveResume(s) \/ SendFails(s)

Finalize(r) ==
  \/ ReserveDestination(r) \/ Duplicate(r) \/ Refuse(r) \/ LoadManifest(r)
  \/ MarkFinalizing(r) \/ Assemble(r) \/ ReplaceDestination(r) \/ SaveCompleted(r)
  \/ \E i \in Indices : UnlinkPart(r, i)
  \/ AnswerCompleted(r)
  \/ Raise(r) \/ Fault(r) \/ Undo(r) \/ ReleaseDestination(r)

Remove ==
  \/ Cancel \/ CancelAborts \/ CancelEnds
  \/ \E e \in {"session.json", "assembled.tmp"} \cup Indices : CancelRemove(e)

Next ==
  \/ \E s \in Senders : Send(s)
  \/ \E r \in Finalizers : Finalize(r)
  \/ AnswerAgain
  \/ Remove
  \/ Crash

Spec == Init /\ [][Next]_vars

-----------------------------------------------------------------------------
(* Properties.                                                             *)

\* What the manifest acknowledges, or a sender was told, is in the manifest
\* and in a chunk file of that content, whatever stops or fails, until the
\* upload is completed.  A resume that meets a finalization, an I/O error in
\* its last step, and a cancellation are the exceptions.
AcknowledgedIsStored ==
  overlaps = {} /\ manifest.state # "COMPLETED" =>
    \A i \in acked \cup Acknowledged(manifest) :
      manifest.chunks[i] # None /\ parts[i] = manifest.chunks[i]

\* Names about to be released after an exception.
Doomed == {fin[r].name : r \in {q \in Finalizers : fin[q].step \in {"undo", "release"}}}

\* Media files made of the upload.
Made == {n \in Names \ Doomed : media[n] \in Files}

\* However many finalize requests a browser repeats, one media file comes of
\* an upload; a stop of the dashboard, or an I/O error before it, may leave one
\* more behind.
OneFilePerUpload == Cardinality(Made) <= 1 + crashes + (IF crashes > 0 THEN faults ELSE 0)

\* The file a browser was told stays, and is made of the acknowledged chunks,
\* unless removing the chunk files failed after another request was answered.
GrantedIsKept ==
  "unlink" \notin overlaps =>
    \A n \in granted :
      n \in Made /\ (manifest # None => media[n] = manifest.chunks)

\* Acknowledged chunks are kept until they make one file, and a granted file stays.
UploadSafe == AcknowledgedIsStored /\ OneFilePerUpload /\ GrantedIsKept

=============================================================================
