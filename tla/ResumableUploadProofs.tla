------------------------ MODULE ResumableUploadProofs ------------------------
(***************************************************************************)
(* Proofs about ResumableUpload, for any number of chunks, contents,       *)
(* senders and finalizers, and any number of stops and I/O errors.         *)
(***************************************************************************)
EXTENDS ResumableUpload, FiniteSetTheorems, WellFoundedInduction, TLAPS

SendStates ==
  [step : {"idle", "store", "save", "resume"}, index : Indices \cup {None},
   content : Contents \cup {None}, data : Chunks \cup {None}]
FinStates ==
  [step : {"idle", "wait", "mark", "assemble", "replace", "complete", "clean", "undo", "release"},
   name : Names \cup {None}, data : Chunks \cup {None}]

\* A completed upload has its answer.
Completed == manifest # None /\ manifest.state = "COMPLETED"
Named == Completed => manifest.name \in Names

\* Threads work with what they loaded.
Loaded ==
  /\ \A s \in Senders :
       /\ send[s].step # "idle" => send[s].data \in Chunks
       /\ send[s].step \in {"store", "save"} => send[s].index \in Indices /\ send[s].content \in Contents
  /\ \A r \in Finalizers :
       /\ fin[r].step # "idle" => fin[r].name \in Names
       /\ fin[r].step \notin {"idle", "wait"} => fin[r].data \in Chunks

TInv == TypeOK /\ Named /\ Loaded

\* A manifest that is saved is one.
LEMMA SavedLemma ==
  ASSUME NEW state \in {"UPLOADING", "FINALIZING", "COMPLETED"}, NEW chunks \in Chunks
  PROVE  /\ Saved(state, chunks) \in Manifests
         /\ Saved(state, chunks).state = state /\ Saved(state, chunks).chunks = chunks
         /\ \A n \in Names :
              /\ [Saved(state, chunks) EXCEPT !.name = n] \in Manifests
              /\ [Saved(state, chunks) EXCEPT !.name = n].state = state
              /\ [Saved(state, chunks) EXCEPT !.name = n].chunks = chunks
              /\ [Saved(state, chunks) EXCEPT !.name = n].name = n
BY DEF Saved, Manifests

\* A whole file is a chunk map without gaps, and a name without a file is none.
LEMMA FilesLemma ==
  /\ Files \subseteq Chunks /\ None \notin Files /\ Reserved \notin Files /\ Reserved # None
  /\ NoChunks \in Chunks /\ Names \subseteq Nat /\ None \notin Names /\ None \notin Chunks
  /\ \A map \in Chunks : (\A i \in Indices : map[i] # None) <=> map \in Files
  /\ NoChunks \notin Files
<1>1. Files \subseteq Chunks /\ NoChunks \in Chunks
  BY DEF Files, Chunks, NoChunks
<1>2. None \notin Chunks /\ Reserved \notin Chunks /\ Reserved # None
  BY TokensAssumption DEF Chunks
<1>3. Names \subseteq Nat /\ None \notin Names
  BY ConstantsAssumption, TokensAssumption DEF Names
<1>4. \A map \in Chunks : (\A i \in Indices : map[i] # None) <=> map \in Files
  BY TokensAssumption DEF Chunks, Files
<1>5. NoChunks \notin Files
  BY ConstantsAssumption, TokensAssumption DEF NoChunks, Files
<1> QED
  BY <1>1, <1>2, <1>3, <1>4, <1>5

\* A destination is the first name without a file.
LEMMA FirstFreeLemma ==
  ASSUME \E n \in Names : media[n] = None
  PROVE  FirstFree \in Names /\ media[FirstFree] = None
<1> DEFINE free == {n \in Names : media[n] = None}
<1>1. free # {} /\ free \subseteq Nat
  BY FilesLemma
<1> HIDE DEF free
<1>2. PICK n \in free : \A k \in free : <<k, n>> \notin OpToRel(<, Nat)
  BY <1>1, NatLessThanWellFounded, WFMin
<1>3. \A j, k \in Nat : <<k, j>> \notin OpToRel(<, Nat) => j <= k
  BY DEF OpToRel
<1>4. \A k \in free : n <= k
  BY <1>1, <1>2, <1>3
<1>5. n \in Names /\ media[n] = None /\ \A k \in 1 .. n - 1 : media[k] # None
  BY <1>4, ConstantsAssumption DEF free, Names
<1> QED
  BY <1>5 DEF FirstFree

\* An upload begins with an empty manifest and no file.
LEMMA TypeInit == Init => TInv
<1> SUFFICES ASSUME Init PROVE TInv
  OBVIOUS
<1>1. manifest \in Manifests /\ manifest.state = "UPLOADING"
  BY SavedLemma, FilesLemma DEF Init
<1>2. 0 \in 0 .. MaxCrashes /\ 0 \in 0 .. MaxFaults
  BY ConstantsAssumption
<1>3. send \in [Senders -> SendStates] /\ fin \in [Finalizers -> FinStates]
  BY DEF Init, Idle, Done, SendStates, FinStates
<1> QED
  BY <1>1, <1>2, <1>3, FilesLemma
     DEF Init, TInv, TypeOK, Named, Completed, Loaded, Idle, Done, SendStates, FinStates

\* The types are inductive.
LEMMA TypeNext == TInv /\ [Next]_vars => TInv'
<1> SUFFICES ASSUME TInv, [Next]_vars PROVE TInv'
  OBVIOUS
<1>0. /\ send \in [Senders -> SendStates] /\ fin \in [Finalizers -> FinStates]
      /\ manifest # None => manifest \in Manifests /\ manifest.chunks \in Chunks
      /\ parts \in Chunks
  BY DEF TInv, TypeOK, SendStates, FinStates, Manifests
<1>a. ASSUME NEW s \in Senders, Send(s)
      PROVE  TInv'
  <2> USE DEF SendStates, bounds, history, disk, threads
  <2>i. acked \subseteq Indices /\ overlaps \subseteq {"resume", "cancel", "unlink"}
    BY DEF TInv, TypeOK
  <2>0. UNCHANGED <<fin, media, assembled, removing, bounds, granted, dir>>
    BY <1>a DEF Send, Receive, DiscardPart, StorePart, SaveAck, Resume, SaveResume, SendFails
  <2>1. ASSUME send' \in [Senders -> SendStates], parts' \in Chunks, acked' \subseteq Indices,
               overlaps' \subseteq {"resume", "cancel", "unlink"},
               manifest' = manifest \/ (manifest' \in Manifests /\ manifest'.state = "UPLOADING"),
               manifest' # manifest \/ parts' # parts => dir,
               \A t \in Senders :
                 /\ send'[t].step # "idle" => send'[t].data \in Chunks
                 /\ send'[t].step \in {"store", "save"} =>
                      send'[t].index \in Indices /\ send'[t].content \in Contents
        PROVE  TInv'
    BY <2>0, <2>1 DEF TInv, TypeOK, Named, Completed, Loaded
  <2>2. ASSUME NEW i \in Indices, NEW c \in Contents, Receive(s, i, c)
        PROVE  TInv'
    BY <1>0, <2>i, <2>1, <2>2 DEF TInv, Receive, Loaded
  <2>3. CASE DiscardPart(s)
    <3>1. dir /\ parts' \in Chunks
      BY <1>0, <2>3 DEF TInv, TypeOK, DiscardPart, Loaded, Chunks, NoChunks
    <3> QED
      BY <1>0, <2>i, <2>1, <2>3, <3>1 DEF TInv, DiscardPart, Loaded
  <2>4. CASE StorePart(s)
    <3>1. dir /\ parts' \in Chunks
      BY <1>0, <2>4 DEF TInv, StorePart, Loaded, Chunks
    <3>2. /\ send' \in [Senders -> SendStates]
          /\ \A t \in Senders :
               /\ send'[t].step # "idle" => send[t].step # "idle"
               /\ send'[t].step \in {"store", "save"} => send[t].step \in {"store", "save"}
               /\ send'[t].data = send[t].data /\ send'[t].index = send[t].index
               /\ send'[t].content = send[t].content
      BY <1>0, <2>4 DEF StorePart
    <3> QED
      BY <1>0, <2>i, <2>1, <2>4, <3>1, <3>2 DEF TInv, StorePart, Loaded
  <2>5. CASE SaveAck(s)
    <3>1. [send[s].data EXCEPT ![send[s].index] = send[s].content] \in Chunks /\ send[s].index \in Indices
      BY <2>5 DEF TInv, SaveAck, Loaded, Chunks
    <3> QED
      BY <1>0, <2>i, <2>1, <2>5, <3>1, SavedLemma DEF TInv, SaveAck, Loaded, Idle
  <2>6. CASE Resume(s)
    <3>1. /\ send' = [send EXCEPT ![s] = [Idle EXCEPT !.step = "resume", !.data = manifest.chunks]]
          /\ manifest.chunks \in Chunks
      BY <1>0, <2>6 DEF Resume
    <3>2. /\ send' \in [Senders -> SendStates] /\ send'[s].step = "resume"
          /\ send'[s].data \in Chunks /\ \A t \in Senders \ {s} : send'[t] = send[t]
      BY <1>0, <3>1 DEF Idle
    <3> QED
      BY <1>0, <2>i, <2>1, <2>6, <3>2 DEF TInv, Resume, Loaded
  <2>7. CASE SaveResume(s)
    BY <1>0, <2>i, <2>1, <2>7, SavedLemma DEF TInv, SaveResume, Loaded, Idle
  <2>8. CASE SendFails(s)
    <3>1. /\ send' \in [Senders -> SendStates] /\ send'[s].step = "idle"
          /\ \A t \in Senders \ {s} : send'[t] = send[t]
      BY <1>0, <2>8 DEF SendFails, Idle
    <3> QED
      BY <1>0, <2>i, <2>1, <2>8, <3>1 DEF TInv, SendFails, Loaded
  <2> QED
    BY <1>a, <2>2, <2>3, <2>4, <2>5, <2>6, <2>7, <2>8 DEF Send
<1>b. ASSUME NEW r \in Finalizers, Finalize(r)
      PROVE  TInv'
  <2> USE DEF TypeOK, FinStates, bounds, history, disk, threads
  <2>0. UNCHANGED <<send, removing, crashes, acked, dir>>
    BY <1>b DEF Finalize, ReserveDestination, Duplicate, Refuse, Release, LoadManifest, MarkFinalizing,
      Assemble, ReplaceDestination, SaveCompleted, UnlinkPart, AnswerCompleted, Raise, Fault, Undo,
      ReleaseDestination, Goto
  <2>1. ASSUME fin' \in [Finalizers -> FinStates], parts' \in Chunks, faults' \in 0 .. MaxFaults,
               media' \in [Names -> Files \cup {Reserved, None}],
               assembled' \in Files \cup {None}, granted' \subseteq Names,
               overlaps' \subseteq {"resume", "cancel", "unlink"},
               manifest' = manifest \/ (manifest' \in Manifests /\ dir
                                       /\ (manifest'.state = "COMPLETED" => manifest'.name \in Names)),
               parts' # parts => dir, assembled' = assembled \/ assembled' = None \/ dir,
               \A q \in Finalizers :
                 /\ fin'[q].step # "idle" => fin'[q].name \in Names
                 /\ fin'[q].step \notin {"idle", "wait"} => fin'[q].data \in Chunks
        PROVE  TInv'
    BY <2>0, <2>1 DEF TInv, Named, Completed, Loaded
  <2>2. CASE ReserveDestination(r)
    BY <1>0, <2>1, <2>2, FirstFreeLemma DEF TInv, ReserveDestination, Loaded
  <2>3. CASE Duplicate(r)
    BY <1>0, <2>1, <2>3 DEF TInv, Duplicate, Loaded, Done, Grant, Named, Completed, CompletedBefore
  <2>4. CASE Refuse(r) \/ ReleaseDestination(r)
    BY <1>0, <2>1, <2>4 DEF TInv, Refuse, ReleaseDestination, Release, Loaded, Done
  <2>5. CASE LoadManifest(r)
    <3>1. /\ fin' \in [Finalizers -> FinStates] /\ fin'[r].data \in Chunks
          /\ fin'[r].name = fin[r].name /\ fin[r].step = "wait"
          /\ \A q \in Finalizers \ {r} : fin'[q] = fin[q]
      BY <1>0, <2>5 DEF LoadManifest
    <3> QED
      BY <1>0, <2>1, <2>5, <3>1 DEF TInv, LoadManifest, Loaded
  <2>6. CASE MarkFinalizing(r)
    BY <1>0, <2>1, <2>6, SavedLemma DEF TInv, MarkFinalizing, Loaded, Goto
  <2>7. CASE Assemble(r)
    BY <1>0, <2>1, <2>7, FilesLemma DEF TInv, Assemble, Loaded, Goto
  <2>8. CASE ReplaceDestination(r)
    BY <1>0, <2>1, <2>8 DEF TInv, ReplaceDestination, Loaded, Goto
  <2>9. CASE SaveCompleted(r)
    BY <1>0, <2>1, <2>9, SavedLemma DEF TInv, SaveCompleted, Loaded, Goto
  <2>10. ASSUME NEW i \in Indices, UnlinkPart(r, i)
         PROVE  TInv'
    BY <1>0, <2>1, <2>10 DEF TInv, UnlinkPart, Loaded, Chunks, NoChunks
  <2>11. CASE AnswerCompleted(r)
    BY <1>0, <2>1, <2>11 DEF TInv, AnswerCompleted, Loaded, Done, Grant
  <2>12. CASE Raise(r)
    BY <1>0, <2>1, <2>12 DEF TInv, Raise, Loaded, Goto
  <2>13. CASE Fault(r)
    <3>1. faults' \in 0 .. MaxFaults
      BY <2>13, ConstantsAssumption DEF Fault, TInv
    <3> QED
      BY <1>0, <2>1, <2>13, <3>1 DEF TInv, Fault, Loaded, Goto
  <2>14. CASE Undo(r)
    BY <1>0, <2>1, <2>14, SavedLemma DEF TInv, Undo, Loaded, Goto
  <2> QED
    BY <1>b, <2>2, <2>3, <2>4, <2>5, <2>6, <2>7, <2>8, <2>9, <2>10, <2>11, <2>12, <2>13, <2>14
    DEF Finalize
<1>c. CASE AnswerAgain
  BY <1>c DEF AnswerAgain, Grant, TInv, TypeOK, Named, Completed, Loaded, disk, threads, bounds
<1>d. CASE Remove
  <2> USE DEF TInv, TypeOK, Named, Completed, Loaded, disk, threads, bounds, history
  <2>1. CASE Cancel \/ CancelAborts
    BY <1>d, <2>1 DEF Cancel, CancelAborts
  <2>2. CASE CancelEnds
    BY <1>d, <2>2 DEF CancelEnds, Empty
  <2>3. ASSUME NEW e \in {"session.json", "assembled.tmp"} \cup Indices, CancelRemove(e)
        PROVE  TInv'
    <3>1. parts' \in Chunks
      BY <1>0, <2>3 DEF CancelRemove, Chunks
    <3>2. ~dir => parts' = NoChunks
      BY <2>3 DEF CancelRemove, NoChunks
    <3> QED
      BY <2>3, <3>1, <3>2 DEF CancelRemove
  <2> QED
    BY <1>d, <2>1, <2>2, <2>3 DEF Remove
<1>e. CASE Crash
  BY <1>e, ConstantsAssumption
  DEF Crash, TInv, TypeOK, Named, Completed, Loaded, Idle, Done, disk, history
<1>f. CASE UNCHANGED vars
  BY <1>f DEF vars, TInv, TypeOK, Named, Completed, Loaded, disk, threads, bounds, history
<1> QED
  BY <1>a, <1>b, <1>c, <1>d, <1>e, <1>f DEF Next

\* Types, for any number of threads, chunks, stops and errors.
THEOREM TypeCorrect == Spec => []TypeOK
<1>1. TInv => TypeOK
  BY DEF TInv
<1> QED
  BY <1>1, TypeInit, TypeNext, PTL DEF Spec

-----------------------------------------------------------------------------
(* The inductive invariant.                                                *)

Whole == {n \in Names : media[n] \in Files}

\* The locks: one sender and one finalizer at a time.
OneAtATime ==
  /\ \A s, t \in Senders : send[s].step # "idle" /\ send[t].step # "idle" => s = t
  /\ \A r, q \in Holders : r = q

\* A finalizer has a destination of its own, with the file it has come to.
Owned ==
  /\ \A r \in Finalizers :
       LET held == media[fin[r].name]
       IN  /\ fin[r].step \in {"wait", "mark", "assemble", "replace"} => held = Reserved
           /\ fin[r].step \in {"complete", "clean"} => held \in Files
           /\ fin[r].step \in {"undo", "release"} => held \in Files \cup {Reserved}
  /\ \A r, q \in Finalizers :
       fin[r].step # "idle" /\ fin[q].step # "idle" /\ fin[r].name = fin[q].name => r = q

\* One chunk map is in the manifest and in what all threads have loaded, and the
\* chunk files and all whole files are of it; once it is complete it stays.
Agreed(map) ==
  /\ manifest # None => manifest.chunks = map
  /\ \A s \in Senders :
       /\ send[s].step # "idle" => send[s].data = map
       /\ send[s].step \in {"store", "save"} => map[send[s].index] = None
       /\ send[s].step = "save" => parts[send[s].index] \in {None, send[s].content}
  /\ \A r \in Holders : fin[r].data = map /\ map \in Files
  /\ \A r \in Finalizers : fin[r].step = "replace" /\ assembled # None => assembled = map
  /\ \A i \in Indices : map[i] # None /\ parts[i] # None => parts[i] = map[i]
  /\ \A n \in Whole : media[n] = map

OneMap == \E map \in Chunks : Agreed(map)

\* What was answered, or the manifest answers, is a whole file no finalizer will
\* take away.
Told == granted \cup (IF Completed THEN {manifest.name} ELSE {})
Kept ==
  "unlink" \notin overlaps =>
    \A n \in Told :
      /\ n \in Whole
      /\ \A r \in Finalizers : fin[r].step # "idle" /\ fin[r].name = n => fin[r].step = "clean"

\* Unless something overlaps, senders and finalizers exclude each other, and the
\* chunks of an upload that is not completed are there.
Stored ==
  overlaps = {} =>
    /\ dir /\ manifest # None /\ removing = None
    /\ \A s \in Senders :
         /\ send[s].step # "idle" => Holders = {} /\ ~Completed
         /\ send[s].step = "save" => parts[send[s].index] = send[s].content
    /\ \A r \in Holders : fin[r].step = "clean" <=> Completed
    /\ ~Completed => /\ acked \subseteq Acknowledged(manifest)
                     /\ \A i \in Acknowledged(manifest) : parts[i] = manifest.chunks[i]

\* Either the chunk files make no further file, or the one they make is there.
Full == \A i \in Indices : parts[i] # None
Replacing == \E r \in Finalizers : fin[r].step = "replace"
Finishing == \E r \in Finalizers : fin[r].step \in {"complete", "clean"}
Used == Finishing \/ (~Full /\ ~Replacing)

\* A file more needs a stop or an error; without a stop what an error leaves is
\* released.
Counted ==
  /\ Cardinality(Whole) <= crashes + faults + 1
  /\ Cardinality(Whole) <= crashes + faults \/ Used
Alone ==
  crashes = 0 => /\ \A m, n \in Made : m = n
                 /\ Made = {} \/ Used

HolderSteps == {"mark", "assemble", "replace", "complete", "clean", "undo"}

\* What a step of a sender leaves alone.
LEMMA SendFrame ==
  ASSUME TInv, NEW s \in Senders, Send(s)
  PROVE  /\ UNCHANGED <<fin, media, assembled, removing, crashes, faults, granted, dir>>
         /\ \A t \in Senders \ {s} : send'[t] = send[t]
         /\ Holders' = Holders /\ Whole' = Whole /\ Made' = Made
<1>0. send \in [Senders -> SendStates]
  BY DEF TInv, TypeOK, SendStates
<1>1. UNCHANGED <<fin, media, assembled, removing, crashes, faults, granted, dir>>
  BY DEF Send, Receive, DiscardPart, StorePart, SaveAck, Resume, SaveResume, SendFails,
         bounds, history, disk, threads
<1>2. \A t \in Senders \ {s} : send'[t] = send[t]
  BY <1>0 DEF Send, Receive, DiscardPart, StorePart, SaveAck, Resume, SaveResume, SendFails, threads
<1>3. Holders' = Holders /\ Whole' = Whole /\ Made' = Made
  BY <1>1 DEF Holders, Whole, Made, Doomed
<1> QED
  BY <1>1, <1>2, <1>3

\* What a step of a finalizer leaves alone, and how it proceeds.
LEMMA FinFrame ==
  ASSUME TInv, NEW r \in Finalizers, Finalize(r)
  PROVE  /\ UNCHANGED <<send, removing, crashes, acked, dir>>
         /\ \A q \in Finalizers \ {r} : fin'[q] = fin[q]
         /\ fin'[r].step \in HolderSteps =>
              /\ LoadManifest(r) \/ (fin[r].step \in HolderSteps /\ fin'[r].data = fin[r].data)
              /\ fin'[r].name = fin[r].name /\ fin[r].step # "idle"
         /\ fin'[r].step = "release" => fin'[r].name = fin[r].name /\ fin[r].step \in HolderSteps
         /\ fin'[r].step = "wait" => ReserveDestination(r)
         /\ fin'[r].step # "idle" /\ ~ReserveDestination(r) =>
              fin'[r].name = fin[r].name /\ fin[r].step # "idle"
<1>0. fin \in [Finalizers -> FinStates]
  BY DEF TInv, TypeOK, FinStates
<1>1. UNCHANGED <<send, removing, crashes, acked, dir>>
  BY DEF Finalize, ReserveDestination, Duplicate, Refuse, Release, LoadManifest, MarkFinalizing,
      Assemble, ReplaceDestination, SaveCompleted, UnlinkPart, AnswerCompleted, Raise, Fault, Undo,
      ReleaseDestination, Goto, disk, threads, bounds, history
<1>2. ASSUME NEW step \in HolderSteps \cup {"release"}, Goto(r, step), fin[r].step \in HolderSteps
      PROVE  /\ \A q \in Finalizers \ {r} : fin'[q] = fin[q]
             /\ fin'[r].step = step /\ fin'[r].name = fin[r].name /\ fin'[r].data = fin[r].data
             /\ fin'[r].step # "wait" /\ fin[r].step # "idle"
  BY <1>0, <1>2 DEF Goto, HolderSteps, FinStates
<1>3. ASSUME fin' = [fin EXCEPT ![r] = Done]
      PROVE  /\ \A q \in Finalizers \ {r} : fin'[q] = fin[q]
             /\ fin'[r].step = "idle"
  BY <1>0, <1>3 DEF Done
<1>4. CASE ReserveDestination(r)
  BY <1>0, <1>1, <1>4 DEF ReserveDestination, HolderSteps
<1>5. CASE LoadManifest(r)
  BY <1>0, <1>1, <1>5 DEF LoadManifest, HolderSteps
<1>6. ASSUME NEW i \in Indices, UnlinkPart(r, i)
      PROVE  UNCHANGED fin /\ fin[r].step = "clean"
  BY <1>6 DEF UnlinkPart, threads
<1>7. CASE Duplicate(r) \/ Refuse(r) \/ AnswerCompleted(r) \/ ReleaseDestination(r)
  BY <1>1, <1>3, <1>7 DEF Duplicate, Refuse, AnswerCompleted, ReleaseDestination, Release, HolderSteps
<1>8. CASE \/ MarkFinalizing(r) \/ Assemble(r) \/ ReplaceDestination(r) \/ SaveCompleted(r)
           \/ Raise(r) \/ Fault(r) \/ Undo(r)
  <2>1. \E step \in HolderSteps \cup {"release"} : Goto(r, step) /\ fin[r].step \in HolderSteps
    BY <1>8 DEF MarkFinalizing, Assemble, ReplaceDestination, SaveCompleted, Raise, Fault, Undo, HolderSteps
  <2> QED
    BY <1>1, <1>2, <2>1
<1> QED
  BY <1>1, <1>4, <1>5, <1>6, <1>7, <1>8 DEF Finalize, HolderSteps

\* What removes the directory leaves the threads and the files made alone.
LEMMA RemoveFrame ==
  ASSUME TInv, Remove
  PROVE  /\ UNCHANGED <<send, fin, media, crashes, faults, acked, granted>>
         /\ Holders' = Holders /\ Whole' = Whole /\ Made' = Made
         /\ manifest' \in {manifest, None} /\ assembled' \in {assembled, None}
         /\ \A i \in Indices : parts'[i] \in {parts[i], None}
         /\ overlaps' \in {overlaps, overlaps \cup {"cancel"}}
         /\ removing = None => "cancel" \in overlaps'
<1>1. CASE Cancel
  BY <1>1 DEF Cancel, disk, bounds, Holders, Whole, Made, Doomed
<1>2. CASE CancelAborts
  BY <1>2 DEF CancelAborts, disk, bounds, history, Holders, Whole, Made, Doomed
<1>3. CASE CancelEnds
  BY <1>3, TokensAssumption DEF CancelEnds, bounds, history, Holders, Whole, Made, Doomed
<1>4. ASSUME NEW e \in {"session.json", "assembled.tmp"} \cup Indices, CancelRemove(e)
      PROVE  /\ UNCHANGED <<send, fin, media, crashes, faults, acked, granted, overlaps>>
             /\ Holders' = Holders /\ Whole' = Whole /\ Made' = Made
             /\ manifest' \in {manifest, None} /\ assembled' \in {assembled, None}
             /\ \A i \in Indices : parts'[i] \in {parts[i], None}
             /\ removing # None
  BY <1>4 DEF CancelRemove, bounds, history, Holders, Whole, Made, Doomed
<1> QED
  BY <1>1, <1>2, <1>3, <1>4 DEF Remove

\* A thread takes a lock that nobody holds.
LEMMA OneAtATimeNext ==
  ASSUME TInv, OneAtATime, [Next]_vars
  PROVE  OneAtATime'
<1>1. ASSUME NEW s \in Senders, Send(s)
      PROVE  OneAtATime'
  <2>1. UNCHANGED fin /\ Holders' = Holders /\ \A t \in Senders \ {s} : send'[t] = send[t]
    BY <1>1, SendFrame
  <2>2. AckFree \/ send[s].step # "idle"
    BY <1>1 DEF Send, Receive, DiscardPart, StorePart, SaveAck, Resume, SaveResume, SendFails
  <2>3. \A t \in Senders \ {s} : send'[t].step # "idle" => ~(send'[s].step # "idle")
    BY <2>1, <2>2 DEF AckFree, OneAtATime
  <2> QED
    BY <2>1, <2>3 DEF OneAtATime
<1>2. ASSUME NEW r \in Finalizers, Finalize(r)
      PROVE  OneAtATime'
  <2>1. UNCHANGED send /\ \A q \in Finalizers \ {r} : fin'[q] = fin[q]
    BY <1>2, FinFrame
  <2>2. r \in Holders' => LoadManifest(r) \/ r \in Holders
    BY <1>2, FinFrame DEF Holders, HolderSteps
  <2>3. LoadManifest(r) => Holders = {}
    BY DEF LoadManifest
  <2>4. Holders' \subseteq Holders \cup {r}
    BY <2>1 DEF Holders
  <2>5. \A q, p \in Holders' : q = p
    BY <2>2, <2>3, <2>4 DEF OneAtATime
  <2> QED
    BY <2>1, <2>5 DEF OneAtATime
<1>3. CASE Remove
  BY <1>3, RemoveFrame DEF OneAtATime
<1>4. CASE Crash
  BY <1>4 DEF Crash, OneAtATime, Holders, Idle, Done
<1>5. CASE AnswerAgain \/ UNCHANGED vars
  BY <1>5 DEF AnswerAgain, vars, threads, OneAtATime, Holders
<1> QED
  BY <1>1, <1>2, <1>3, <1>4, <1>5 DEF Next

\* A destination is reserved under a free name, and given up by its finalizer only.
LEMMA OwnedNext ==
  ASSUME TInv, Owned, [Next]_vars
  PROVE  Owned'
<1>0. fin \in [Finalizers -> FinStates] /\ media \in [Names -> Files \cup {Reserved, None}]
  BY DEF TInv, TypeOK, FinStates
<1>1. CASE UNCHANGED <<fin, media>>
  BY <1>1 DEF Owned
<1>2. ASSUME NEW r \in Finalizers, Finalize(r)
      PROVE  Owned'
  <2>0. \A q \in Finalizers : fin[q].step # "idle" => fin[q].name \in Names /\ media[fin[q].name] # None
    BY FilesLemma DEF TInv, Loaded, Owned, FinStates, TypeOK
  <2>1. \A q \in Finalizers \ {r} : fin'[q] = fin[q]
    BY <1>2, FinFrame
  <2>2. ASSUME \A q \in Finalizers \ {r} : fin[q].step # "idle" => media'[fin[q].name] = media[fin[q].name],
               fin'[r].step # "idle" => fin'[r].name = fin[r].name /\ fin[r].step # "idle",
               fin'[r].step \in {"wait", "mark", "assemble", "replace"} => media'[fin'[r].name] = Reserved,
               fin'[r].step \in {"complete", "clean"} => media'[fin'[r].name] \in Files,
               fin'[r].step \in {"undo", "release"} => media'[fin'[r].name] \in Files \cup {Reserved}
        PROVE  Owned'
    BY <2>1, <2>2 DEF Owned
  <2>3. CASE ReserveDestination(r)
    <3>1. /\ FirstFree \in Names /\ media[FirstFree] = None
          /\ fin'[r].step = "wait" /\ fin'[r].name = FirstFree
          /\ media' = [media EXCEPT ![FirstFree] = Reserved]
      BY <1>0, <2>3, FirstFreeLemma DEF ReserveDestination
    <3>2. media'[FirstFree] = Reserved /\ \A n \in Names \ {FirstFree} : media'[n] = media[n]
      BY <1>0, <3>1
    <3>3. \A q \in Finalizers \ {r} : fin[q].step # "idle" => fin[q].name # FirstFree
      BY <2>0, <3>1
    <3> QED
      BY <2>0, <2>1, <3>1, <3>2, <3>3 DEF Owned
  <2>4. CASE Duplicate(r) \/ Refuse(r) \/ ReleaseDestination(r) \/ AnswerCompleted(r)
    <3>1. fin[r].step # "idle" /\ fin'[r].step = "idle"
      BY <1>0, <2>4 DEF Duplicate, Refuse, ReleaseDestination, Release, AnswerCompleted, Done
    <3>2. media' \in {media, [media EXCEPT ![fin[r].name] = None]}
      BY <2>4 DEF Duplicate, Refuse, ReleaseDestination, Release, AnswerCompleted, disk
    <3>3. \A q \in Finalizers \ {r} : fin[q].step # "idle" => fin[q].name # fin[r].name
      BY <3>1 DEF Owned
    <3> QED
      BY <1>0, <2>0, <2>2, <3>1, <3>2, <3>3
  <2>5. CASE ReplaceDestination(r)
    <3>1. /\ fin[r].step = "replace" /\ fin'[r].step = "complete" /\ fin'[r].name = fin[r].name
          /\ media' = [media EXCEPT ![fin[r].name] = assembled] /\ assembled \in Files
      BY <1>0, <2>5 DEF ReplaceDestination, Goto, FinStates, TInv, TypeOK
    <3>2. \A q \in Finalizers \ {r} : fin[q].step # "idle" => fin[q].name # fin[r].name
      BY <3>1 DEF Owned
    <3> QED
      BY <1>0, <2>0, <2>2, <3>1, <3>2
  <2>6. CASE LoadManifest(r)
    BY <1>0, <2>2, <2>6 DEF LoadManifest, disk, Owned
  <2>7. CASE MarkFinalizing(r) \/ Assemble(r) \/ SaveCompleted(r) \/ Raise(r) \/ Fault(r) \/ Undo(r)
    <3>1. UNCHANGED media
      BY <2>7 DEF MarkFinalizing, Assemble, SaveCompleted, Raise, Fault, Undo, disk
    <3>2. PICK step \in HolderSteps \cup {"release"} :
            /\ Goto(r, step)
            /\ \/ fin[r].step = "mark" /\ step \in {"assemble", "release"}
               \/ fin[r].step = "assemble" /\ step \in {"replace", "undo"}
               \/ fin[r].step = "replace" /\ step = "undo"
               \/ fin[r].step = "complete" /\ step \in {"clean", "undo"}
               \/ fin[r].step = "clean" /\ step = "undo"
               \/ fin[r].step = "undo" /\ step = "release"
      BY <2>7 DEF MarkFinalizing, Assemble, SaveCompleted, Raise, Fault, Undo, HolderSteps
    <3>3. fin'[r].step = step /\ fin'[r].name = fin[r].name
      BY <1>0, <3>2 DEF Goto, FinStates
    <3> QED
      BY <2>2, <3>1, <3>2, <3>3 DEF Owned
  <2>8. ASSUME NEW i \in Indices, UnlinkPart(r, i)
        PROVE  Owned'
    BY <1>1, <2>8 DEF UnlinkPart, threads
  <2> QED
    BY <1>2, <2>3, <2>4, <2>5, <2>6, <2>7, <2>8 DEF Finalize
<1>3. CASE Crash
  BY <1>3 DEF Crash, Owned, Done
<1> QED
  BY <1>1, <1>2, <1>3, SendFrame, RemoveFrame DEF Next, AnswerAgain, vars, threads, disk

\* A complete chunk map has no gap a sender could be filling.
LEMMA NoGap ==
  ASSUME NEW map \in Chunks, NEW i \in Indices, map[i] = None
  PROVE  map \notin Files
BY FilesLemma

\* A sender that saves a further chunk has the only copy; finalizers hold a map
\* that is whole.
LEMMA OneMapNext ==
  ASSUME TInv, OneAtATime, Owned, OneMap, [Next]_vars
  PROVE  OneMap'
<1>0. /\ send \in [Senders -> SendStates] /\ fin \in [Finalizers -> FinStates]
      /\ parts \in Chunks /\ media \in [Names -> Files \cup {Reserved, None}]
      /\ assembled \in Files \cup {None}
  BY DEF TInv, TypeOK, SendStates, FinStates
<1>1. PICK map \in Chunks : Agreed(map)
  BY DEF OneMap
<1>a. ASSUME NEW s \in Senders, Send(s)
      PROVE  OneMap'
  <2>0. /\ UNCHANGED <<fin, media, assembled>> /\ Holders' = Holders /\ Whole' = Whole
        /\ \A t \in Senders \ {s} : send'[t] = send[t]
    BY <1>a, SendFrame
  <2>1. send[s].step \in {"store", "save"} =>
          send[s].index \in Indices /\ send[s].content \in Contents /\ map[send[s].index] = None
    BY <1>1 DEF Agreed, TInv, Loaded
  <2>2. ASSUME manifest' # None => manifest'.chunks = map,
               send'[s].step # "idle" => send'[s].data = map,
               send'[s].step \in {"store", "save"} => map[send'[s].index] = None,
               send'[s].step = "save" => parts'[send'[s].index] \in {None, send'[s].content},
               parts' = parts \/ send[s].step = "store",
               \A i \in Indices : map[i] # None /\ parts'[i] # None => parts'[i] = map[i]
        PROVE  OneMap'
    <3>1. ASSUME NEW t \in Senders \ {s}, send[t].step = "save"
          PROVE  parts' = parts
      BY <2>2, <3>1 DEF OneAtATime
    <3>2. Agreed(map)'
      BY <1>1, <2>0, <2>2, <3>1 DEF Agreed
    <3> QED
      BY <3>2 DEF OneMap
  <2>3. ASSUME NEW i \in Indices, NEW c \in Contents, Receive(s, i, c)
        PROVE  OneMap'
    <3>1. send'[s] = [step |-> "store", index |-> i, content |-> c, data |-> map] /\ map[i] = None
          /\ UNCHANGED <<manifest, parts>>
      BY <1>0, <1>1, <2>3 DEF Receive, Agreed, disk
    <3> QED
      BY <1>1, <2>2, <3>1 DEF Agreed
  <2>4. CASE DiscardPart(s)
    <3>1. /\ send[s].step = "store" /\ parts' = [parts EXCEPT ![send[s].index] = None]
          /\ UNCHANGED <<manifest, send>>
      BY <2>4 DEF DiscardPart, threads
    <3>2. \A i \in Indices : parts'[i] \in {parts[i], None}
      BY <1>0, <3>1 DEF Chunks
    <3> QED
      BY <1>1, <2>2, <3>1, <3>2 DEF Agreed
  <2>5. CASE StorePart(s)
    <3>1. /\ send[s].step = "store" /\ UNCHANGED manifest
          /\ send' = [send EXCEPT ![s].step = "save"]
          /\ (parts' = parts /\ Matches(s)) \/ parts' = [parts EXCEPT ![send[s].index] = send[s].content]
      BY <2>5 DEF StorePart
    <3>2. /\ send'[s].step = "save" /\ send'[s].index = send[s].index
          /\ send'[s].content = send[s].content /\ send'[s].data = send[s].data
      BY <1>0, <3>1 DEF SendStates
    <3>3. parts'[send[s].index] = send[s].content /\ \A i \in Indices \ {send[s].index} : parts'[i] = parts[i]
      BY <1>0, <2>1, <3>1 DEF Matches, Chunks
    <3> QED
      BY <1>1, <2>1, <2>2, <3>1, <3>2, <3>3 DEF Agreed
  <2>6. CASE SaveAck(s)
    <3> DEFINE i == send[s].index
               c == send[s].content
    <3>1. /\ send[s].step = "save" /\ send[s].data = map /\ i \in Indices /\ c \in Contents
          /\ map[i] = None /\ parts[i] \in {None, c}
      BY <1>1, <2>1, <2>6 DEF SaveAck, Agreed
    <3>2. map \notin Files
      BY <3>1, NoGap
    <3>3. Holders = {} /\ Whole = {}
      BY <1>1, <3>2 DEF Agreed, Whole
    <3>4. \A t \in Senders \ {s} : send[t].step = "idle"
      BY <3>1 DEF OneAtATime
    <3>5. PICK next \in Chunks : next = [map EXCEPT ![i] = c]
      BY <3>1 DEF Chunks
    <3>6. next[i] = c /\ \A k \in Indices \ {i} : next[k] = map[k]
      BY <3>1, <3>5 DEF Chunks
    <3>7. manifest'.chunks = next /\ send'[s].step = "idle" /\ parts' = parts
      BY <1>0, <2>6, <3>1, <3>5, SavedLemma DEF SaveAck, Idle
    <3>8. \A r \in Finalizers : fin[r].step # "replace"
      BY <3>3 DEF Holders
    <3>9. \A k \in Indices : next[k] # None /\ parts[k] # None => parts[k] = next[k]
      BY <1>1, <3>1, <3>6 DEF Agreed
    <3>10. \A t \in Senders : send'[t].step = "idle"
      BY <2>0, <3>4, <3>7
    <3> HIDE DEF i, c
    <3>11. Agreed(next)'
      BY <2>0, <3>3, <3>7, <3>8, <3>9, <3>10 DEF Agreed
    <3> QED
      BY <3>11 DEF OneMap
  <2>7. CASE Resume(s)
    <3>1. send'[s].step = "resume" /\ send'[s].data = map /\ UNCHANGED <<manifest, parts>>
      BY <1>0, <1>1, <2>7 DEF Resume, Agreed, disk, Idle
    <3> QED
      BY <1>1, <2>2, <3>1 DEF Agreed
  <2>8. CASE SaveResume(s)
    <3>1. send'[s].step = "idle" /\ manifest'.chunks = map /\ UNCHANGED parts
      BY <1>0, <1>1, <2>8, SavedLemma DEF SaveResume, Agreed, Idle
    <3> QED
      BY <1>1, <2>2, <3>1 DEF Agreed
  <2>9. CASE SendFails(s)
    <3>1. send'[s].step = "idle" /\ UNCHANGED <<manifest, parts>>
      BY <1>0, <2>9 DEF SendFails, disk, Idle
    <3> QED
      BY <1>1, <2>2, <3>1 DEF Agreed
  <2> QED
    BY <1>a, <2>3, <2>4, <2>5, <2>6, <2>7, <2>8, <2>9 DEF Send
<1>b. ASSUME NEW r \in Finalizers, Finalize(r)
      PROVE  OneMap'
  <2>0. UNCHANGED send /\ \A q \in Finalizers \ {r} : fin'[q] = fin[q]
    BY <1>b, FinFrame
  <2>1. ASSUME manifest' # None => manifest'.chunks = map,
               r \in Holders' => r \in Holders /\ fin'[r].data = fin[r].data,
               fin'[r].step = "replace" /\ assembled' # None => assembled' = map,
               \A q \in Finalizers \ {r} : fin[q].step = "replace" => assembled' \in {assembled, None},
               \A i \in Indices : parts'[i] \in {parts[i], None},
               \A n \in Names : media'[n] \in Files => media'[n] = map
        PROVE  OneMap'
    <3>1. \A q \in Holders' : fin'[q].data = map /\ map \in Files
      BY <1>1, <2>0, <2>1 DEF Agreed, Holders
    <3>2. \A s \in Senders : send[s].step = "save" => send[s].index \in Indices
      BY DEF TInv, Loaded
    <3>3. \A n \in Whole' : media'[n] = map
      BY <2>1 DEF Whole
    <3>4. Agreed(map)'
      BY <1>1, <2>0, <2>1, <3>1, <3>2, <3>3 DEF Agreed
    <3> QED
      BY <3>4 DEF OneMap
  <2>2. \A n \in Names : media[n] \in Files => media[n] = map
    BY <1>1 DEF Agreed, Whole
  <2>3. r \in Holders => fin[r].data = map /\ map \in Files
    BY <1>1 DEF Agreed
  <2>4. \A q \in Finalizers \ {r} : fin[q].step = "replace" => r \notin Holders
    BY DEF OneAtATime, Holders
  <2>5. CASE ReserveDestination(r)
    <3>1. /\ \A n \in Names : media'[n] \in {media[n], Reserved}
          /\ fin'[r].step = "wait" /\ UNCHANGED <<manifest, parts, assembled>>
      BY <1>0, <2>5 DEF ReserveDestination
    <3> QED
      BY <1>1, <2>1, <2>2, <3>1, FilesLemma DEF Agreed, Holders
  <2>6. CASE Duplicate(r) \/ Refuse(r) \/ ReleaseDestination(r) \/ AnswerCompleted(r)
    <3>1. /\ \A n \in Names : media'[n] \in {media[n], None}
          /\ fin'[r].step = "idle" /\ UNCHANGED <<manifest, parts, assembled>>
      BY <1>0, <2>6 DEF Duplicate, Refuse, ReleaseDestination, Release, AnswerCompleted, Done, disk
    <3> QED
      BY <1>1, <2>1, <2>2, <3>1, FilesLemma DEF Agreed, Holders
  <2>7. CASE LoadManifest(r)
    <3>1. /\ manifest # None /\ Acknowledged(manifest) = Indices /\ Holders = {}
          /\ fin'[r].step = "mark" /\ fin'[r].data = manifest.chunks
          /\ UNCHANGED <<manifest, parts, assembled, media>>
      BY <1>0, <2>7 DEF LoadManifest, disk
    <3>2. manifest.chunks = map
      BY <1>1, <3>1 DEF Agreed
    <3>3. map \in Files
      BY <3>1, <3>2, FilesLemma DEF Acknowledged
    <3>4. \A q \in Holders' : fin'[q].data = map
      BY <2>0, <3>1, <3>2 DEF Holders
    <3>5. Whole' = Whole
      BY <3>1 DEF Whole
    <3>6. Agreed(map)'
      BY <1>1, <2>0, <3>1, <3>3, <3>4, <3>5 DEF Agreed
    <3> QED
      BY <3>6 DEF OneMap
  <2>8. CASE Assemble(r)
    <3>1. /\ fin[r].step = "assemble" /\ fin'[r].step = "replace" /\ fin'[r].data = fin[r].data
          /\ assembled' = parts /\ UNCHANGED <<manifest, parts, media>>
          /\ \A i \in Indices : parts[i] # None
      BY <1>0, <2>8 DEF Assemble, Goto, FinStates
    <3>2. r \in Holders
      BY <3>1 DEF Holders
    <3>3. \A i \in Indices : parts[i] = map[i]
      BY <1>1, <2>3, <3>1, <3>2, FilesLemma DEF Agreed
    <3>4. parts = map
      BY <1>0, <3>3 DEF Chunks
    <3> QED
      BY <1>1, <2>1, <2>2, <2>4, <3>1, <3>2, <3>4 DEF Agreed
  <2>9. CASE ReplaceDestination(r)
    <3>1. /\ fin[r].step = "replace" /\ fin'[r].step = "complete" /\ fin'[r].data = fin[r].data
          /\ media' = [media EXCEPT ![fin[r].name] = assembled]
          /\ assembled # None /\ assembled' = None /\ UNCHANGED <<manifest, parts>>
      BY <1>0, <2>9 DEF ReplaceDestination, Goto, FinStates
    <3>2. assembled = map /\ r \in Holders
      BY <1>1, <3>1 DEF Agreed, Holders
    <3>3. \A n \in Names : media'[n] \in {media[n], map}
      BY <1>0, <3>1, <3>2
    <3> QED
      BY <1>1, <2>1, <2>2, <3>1, <3>2, <3>3 DEF Agreed
  <2>10. CASE MarkFinalizing(r) \/ SaveCompleted(r)
    <3>1. /\ r \in Holders /\ fin'[r].data = fin[r].data /\ fin'[r].step # "replace"
          /\ UNCHANGED <<parts, assembled, media>>
      BY <1>0, <2>10 DEF MarkFinalizing, SaveCompleted, Goto, Holders, FinStates
    <3>2. manifest'.chunks = map
      <4>1. fin[r].data = map /\ fin[r].name \in Names
        BY <2>3, <2>10, <3>1 DEF TInv, Loaded, MarkFinalizing, SaveCompleted
      <4>2. CASE MarkFinalizing(r)
        BY <4>1, <4>2, SavedLemma DEF MarkFinalizing
      <4>3. CASE SaveCompleted(r)
        <5>1. manifest' = [Saved("COMPLETED", map) EXCEPT !.name = fin[r].name]
          BY <4>1, <4>3 DEF SaveCompleted
        <5> QED
          BY <4>1, <5>1, SavedLemma
      <4> QED
        BY <2>10, <4>2, <4>3
    <3> QED
      BY <1>1, <2>1, <2>2, <3>1, <3>2 DEF Agreed
  <2>11. ASSUME NEW i \in Indices, UnlinkPart(r, i)
         PROVE  OneMap'
    <3>1. /\ \A k \in Indices : parts'[k] \in {parts[k], None}
          /\ UNCHANGED <<manifest, assembled, media, fin>>
      BY <1>0, <2>11 DEF UnlinkPart, threads, Chunks
    <3> QED
      BY <1>1, <2>1, <2>2, <3>1 DEF Agreed, Holders
  <2>12. CASE Raise(r) \/ Fault(r) \/ Undo(r)
    <3>1. /\ r \in Holders /\ fin'[r].data = fin[r].data /\ fin'[r].step \in {"undo", "release"}
          /\ assembled' \in {assembled, None} /\ UNCHANGED <<parts, media>>
      BY <1>0, <2>12 DEF Raise, Fault, Undo, Goto, Holders, disk, FinStates
    <3>2. manifest' = manifest \/ manifest'.chunks = map
      <4>1. fin[r].data = map
        BY <2>3, <3>1
      <4> QED
        BY <2>12, <4>1, SavedLemma DEF Raise, Fault, Undo, disk
    <3> QED
      BY <1>1, <2>1, <2>2, <3>1, <3>2 DEF Agreed
  <2> QED
    BY <1>b, <2>5, <2>6, <2>7, <2>8, <2>9, <2>10, <2>11, <2>12 DEF Finalize
<1>c. CASE Remove
  <2>1. \A s \in Senders : send[s].step = "save" => send[s].index \in Indices
    BY DEF TInv, Loaded
  <2>2. Agreed(map)'
    BY <1>1, <1>c, <2>1, RemoveFrame DEF Agreed
  <2> QED
    BY <2>2 DEF OneMap
<1>d. CASE Crash
  <2>1. Agreed(map)'
    BY <1>1, <1>d DEF Crash, Agreed, Idle, Done, disk, Holders, Whole
  <2> QED
    BY <2>1 DEF OneMap
<1>e. CASE AnswerAgain \/ UNCHANGED vars
  <2>1. Agreed(map)'
    BY <1>1, <1>e DEF AnswerAgain, vars, disk, threads, Agreed, Holders, Whole
  <2> QED
    BY <2>1 DEF OneMap
<1> QED
  BY <1>a, <1>b, <1>c, <1>d, <1>e DEF Next

\* Files that were answered are those of completed finalizations, and an undo
\* removes the file of its own finalizer.
LEMMA KeptNext ==
  ASSUME TInv, Owned, Kept, [Next]_vars
  PROVE  Kept'
<1> SUFFICES ASSUME "unlink" \notin overlaps'
             PROVE  \A n \in Told' :
                      /\ n \in Whole'
                      /\ \A r \in Finalizers :
                           fin'[r].step # "idle" /\ fin'[r].name = n => fin'[r].step = "clean"
  BY DEF Kept
<1> DEFINE Goal == \A n \in Told' :
                     /\ n \in Whole'
                     /\ \A r \in Finalizers :
                          fin'[r].step # "idle" /\ fin'[r].name = n => fin'[r].step = "clean"
<1>0. fin \in [Finalizers -> FinStates] /\ media \in [Names -> Files \cup {Reserved, None}]
  BY DEF TInv, TypeOK, FinStates
<1>1. ASSUME "unlink" \notin overlaps, Told' \subseteq Told, UNCHANGED <<fin, media>>
      PROVE  Goal
  BY <1>1 DEF Kept, Whole
<1>a. ASSUME NEW s \in Senders, Send(s)
      PROVE  Goal
  <2>1. UNCHANGED <<fin, media, granted>>
    BY <1>a, SendFrame
  <2>2. manifest' = manifest \/ manifest'.state = "UPLOADING"
    BY <1>a DEF Send, Receive, DiscardPart, StorePart, SaveAck, Resume, SaveResume, SendFails, disk, Saved
  <2>3. "unlink" \notin overlaps
    BY <1>a DEF Send, Receive, DiscardPart, StorePart, SaveAck, Resume, SaveResume, SendFails, history
  <2>4. Told' \subseteq Told
    BY <2>1, <2>2 DEF Told, Completed
  <2> QED
    BY <1>1, <2>1, <2>3, <2>4
<1>b. ASSUME NEW r \in Finalizers, Finalize(r)
      PROVE  Goal
  <2>0. \A q \in Finalizers \ {r} : fin'[q] = fin[q]
    BY <1>b, FinFrame
  <2>1. "unlink" \notin overlaps /\ (fin[r].step = "clean" => ~Fault(r))
    BY <1>b DEF Finalize, ReserveDestination, Duplicate, Refuse, Release, LoadManifest, MarkFinalizing,
      Assemble, ReplaceDestination, SaveCompleted, UnlinkPart, AnswerCompleted, Raise, Fault, Undo,
      ReleaseDestination, Goto, history
  <2>2. Told \subseteq Whole /\ \A q \in Finalizers : fin[q].step \notin {"idle", "clean"} => fin[q].name \notin Told
    BY <2>1 DEF Kept
  <2>3. ASSUME Told' \subseteq Told, \A n \in Told : media'[n] = media[n],
               fin'[r].step # "idle" => fin'[r].name \notin Told \/ fin'[r].step = "clean"
        PROVE  Goal
    BY <2>0, <2>1, <2>3 DEF Kept, Whole
  <2>4. CASE ReserveDestination(r)
    <3>1. /\ FirstFree \in Names /\ media[FirstFree] = None
          /\ fin'[r].step = "wait" /\ fin'[r].name = FirstFree
          /\ media' = [media EXCEPT ![FirstFree] = Reserved] /\ UNCHANGED <<granted, manifest>>
      BY <1>0, <2>4, FirstFreeLemma DEF ReserveDestination, history
    <3>2. FirstFree \notin Told
      BY <2>2, <3>1, FilesLemma DEF Whole
    <3>3. Told' = Told
      BY <3>1 DEF Told, Completed
    <3>4. \A n \in Told : media'[n] = media[n]
      BY <1>0, <2>2, <3>1, <3>2 DEF Whole
    <3> QED
      BY <2>3, <3>1, <3>2, <3>3, <3>4
  <2>5. CASE Duplicate(r) \/ Refuse(r) \/ ReleaseDestination(r)
    <3>1. /\ fin[r].step \in {"wait", "mark", "release"} /\ fin'[r].step = "idle" /\ UNCHANGED manifest
          /\ media' \in {media, [media EXCEPT ![fin[r].name] = None]}
      BY <1>0, <2>5 DEF Duplicate, Refuse, ReleaseDestination, Release, Done
    <3>2. granted' = granted \/ (granted' = granted \cup {manifest.name} /\ Completed)
      BY <2>5 DEF Duplicate, Refuse, ReleaseDestination, Grant, CompletedBefore, Completed, history
    <3>3. Told' \subseteq Told
      BY <3>1, <3>2 DEF Told, Completed
    <3>4. \A n \in Told : media'[n] = media[n]
      BY <1>0, <2>2, <3>1 DEF Whole
    <3> QED
      BY <2>3, <3>1, <3>3, <3>4
  <2>6. CASE LoadManifest(r)
    BY <1>0, <2>2, <2>3, <2>6 DEF LoadManifest, disk, Told, Completed
  <2>7. CASE ReplaceDestination(r)
    <3>1. /\ fin[r].step = "replace" /\ fin'[r].step = "complete" /\ fin'[r].name = fin[r].name
          /\ media' = [media EXCEPT ![fin[r].name] = assembled] /\ UNCHANGED <<granted, manifest>>
      BY <1>0, <2>7 DEF ReplaceDestination, Goto, FinStates, history
    <3>2. \A n \in Told : media'[n] = media[n]
      BY <1>0, <2>2, <3>1 DEF Whole
    <3>3. Told' = Told
      BY <3>1 DEF Told, Completed
    <3> QED
      BY <2>2, <2>3, <3>1, <3>2, <3>3
  <2>8. CASE SaveCompleted(r)
    <3>1. /\ fin[r].step = "complete" /\ fin'[r].step = "clean" /\ fin'[r].name = fin[r].name
          /\ fin[r].name \in Names /\ fin[r].data \in Chunks
          /\ UNCHANGED <<granted, media>>
      BY <1>0, <2>8 DEF SaveCompleted, Goto, FinStates, history, TInv, Loaded
    <3>2. manifest'.name = fin[r].name
      BY <2>8, <3>1, SavedLemma DEF SaveCompleted
    <3>3. Told' \subseteq granted \cup {fin[r].name}
      BY <3>1, <3>2 DEF Told
    <3>4. fin[r].name \in Whole' /\ \A q \in Finalizers \ {r} : fin[q].step # "idle" => fin[q].name # fin[r].name
      BY <3>1 DEF Owned, Whole
    <3>5. \A n \in granted : n \in Whole' /\ n # fin[r].name
      BY <2>2, <3>1 DEF Told, Whole
    <3>6. \A n \in granted : \A q \in Finalizers \ {r} :
            fin[q].step # "idle" /\ fin[q].name = n => fin[q].step = "clean"
      BY <2>2 DEF Told
    <3> QED
      BY <2>0, <3>1, <3>3, <3>4, <3>5, <3>6
  <2>9. CASE AnswerCompleted(r)
    <3>1. /\ fin[r].step = "clean" /\ fin'[r].step = "idle" /\ fin[r].name \in Names
          /\ granted' = granted \cup {fin[r].name} /\ UNCHANGED <<media, manifest>>
      BY <1>0, <2>9 DEF AnswerCompleted, Done, Grant, disk, TInv, Loaded
    <3>2. Told' \subseteq Told \cup {fin[r].name}
      BY <3>1 DEF Told, Completed
    <3>3. fin[r].name \in Whole' /\ \A q \in Finalizers \ {r} : fin[q].step # "idle" => fin[q].name # fin[r].name
      BY <3>1 DEF Owned, Whole
    <3>4. Whole' = Whole
      BY <3>1 DEF Whole
    <3> QED
      BY <2>0, <2>2, <3>1, <3>2, <3>3, <3>4
  <2>10. CASE MarkFinalizing(r) \/ Assemble(r) \/ Raise(r) \/ Fault(r) \/ Undo(r)
    <3>1. /\ fin[r].step \notin {"idle", "clean"} /\ fin'[r].name = fin[r].name
          /\ UNCHANGED <<granted, media>>
      BY <1>0, <2>1, <2>10
      DEF MarkFinalizing, Assemble, Raise, Fault, Undo, Goto, FinStates, history, disk
    <3>2. manifest' = manifest \/ manifest'.state \in {"UPLOADING", "FINALIZING"}
      BY <2>10 DEF MarkFinalizing, Assemble, Raise, Fault, Undo, disk, Saved
    <3>3. Told' \subseteq Told
      BY <3>1, <3>2 DEF Told, Completed
    <3> QED
      BY <2>2, <2>3, <3>1, <3>3
  <2>11. ASSUME NEW i \in Indices, UnlinkPart(r, i)
         PROVE  Goal
    BY <1>1, <2>1, <2>11 DEF UnlinkPart, threads, history, Told, Completed
  <2> QED
    BY <1>b, <2>4, <2>5, <2>6, <2>7, <2>8, <2>9, <2>10, <2>11 DEF Finalize
<1>c. CASE Remove
  <2>1. UNCHANGED <<fin, media, granted>> /\ manifest' \in {manifest, None} /\ "unlink" \notin overlaps
    BY <1>c, RemoveFrame
  <2>2. Told' \subseteq Told
    BY <2>1 DEF Told, Completed
  <2> QED
    BY <1>1, <2>1, <2>2
<1>d. CASE Crash
  <2>1. \A r \in Finalizers : fin'[r].step = "idle"
    BY <1>d DEF Crash, Done
  <2>2. Told' = Told /\ Whole' = Whole /\ "unlink" \notin overlaps
    BY <1>d DEF Crash, Told, Completed, Whole, disk, history
  <2> QED
    BY <2>1, <2>2 DEF Kept
<1>e. CASE AnswerAgain
  BY <1>1, <1>e DEF AnswerAgain, Grant, disk, threads, Told, Completed
<1>f. CASE UNCHANGED vars
  BY <1>1, <1>f DEF vars, disk, threads, history, Told, Completed
<1> QED
  BY <1>a, <1>b, <1>c, <1>d, <1>e, <1>f DEF Next

\* Chunk files go in the removal that follows completion, in a cancellation, or
\* when something overlapped.
LEMMA StoredNext ==
  ASSUME TInv, OneAtATime, OneMap, Stored, [Next]_vars
  PROVE  Stored'
<1> DEFINE Goal ==
      /\ dir' /\ manifest' # None /\ removing' = None
      /\ \A s \in Senders :
           /\ send'[s].step # "idle" => Holders' = {} /\ ~Completed'
           /\ send'[s].step = "save" => parts'[send'[s].index] = send'[s].content
      /\ \A r \in Holders' : fin'[r].step = "clean" <=> Completed'
      /\ ~Completed' => /\ acked' \subseteq Acknowledged(manifest')
                        /\ \A i \in Acknowledged(manifest') : parts'[i] = manifest'.chunks[i]
<1> SUFFICES ASSUME overlaps' = {}
             PROVE  Goal
  BY DEF Stored
<1>0. /\ send \in [Senders -> SendStates] /\ fin \in [Finalizers -> FinStates]
      /\ parts \in Chunks /\ None \notin Manifests
  BY TokensAssumption DEF TInv, TypeOK, SendStates, FinStates
<1>1. PICK map \in Chunks : Agreed(map)
  BY DEF OneMap
<1>2. overlaps = {}
  <2>1. overlaps \subseteq overlaps'
    BY RemoveFrame DEF Next, AnswerAgain, Crash, vars, history, Send, Receive, DiscardPart, StorePart,
      SaveAck, Resume, SaveResume, SendFails, Finalize, ReserveDestination, Duplicate, Refuse, Release,
      LoadManifest, MarkFinalizing, Assemble, ReplaceDestination, SaveCompleted, UnlinkPart,
      AnswerCompleted, Raise, Fault, Undo, ReleaseDestination
  <2> QED
    BY <2>1
<1>3. /\ dir /\ manifest # None /\ removing = None
      /\ \A s \in Senders :
           /\ send[s].step # "idle" => Holders = {} /\ ~Completed
           /\ send[s].step = "save" => parts[send[s].index] = send[s].content
      /\ \A r \in Holders : fin[r].step = "clean" <=> Completed
      /\ ~Completed => /\ acked \subseteq Acknowledged(manifest)
                       /\ \A i \in Acknowledged(manifest) : parts[i] = manifest.chunks[i]
  BY <1>2 DEF Stored
<1>4. manifest.chunks = map
  BY <1>1, <1>3 DEF Agreed
<1>a. ASSUME NEW s \in Senders, Send(s)
      PROVE  Goal
  <2>0. /\ UNCHANGED <<fin, removing, dir>> /\ Holders' = Holders
        /\ \A t \in Senders \ {s} : send'[t] = send[t]
    BY <1>a, SendFrame
  <2>1. send[s].step \in {"store", "save"} =>
          send[s].index \in Indices /\ send[s].content \in Contents /\ map[send[s].index] = None
    BY <1>1 DEF Agreed, TInv, Loaded
  <2>2. ASSUME NEW t \in Senders \ {s}, send[s].step # "idle"
        PROVE  send[t].step = "idle"
    BY <2>2 DEF OneAtATime
  <2>3. ASSUME NEW i \in Indices, NEW c \in Contents, Receive(s, i, c)
        PROVE  Goal
    <3>1. send'[s].step = "store" /\ UNCHANGED <<manifest, parts, acked>>
      BY <1>0, <2>3 DEF Receive, disk, history
    <3>2. manifest.state = "UPLOADING" /\ map[i] = None
      BY <1>4, <2>3 DEF Receive
    <3>3. Holders = {}
      BY <1>1, <3>2, NoGap DEF Agreed
    <3> QED
      BY <1>3, <2>0, <3>1, <3>2, <3>3 DEF Completed
  <2>4. CASE DiscardPart(s)
    <3>1. /\ send[s].step = "store" /\ UNCHANGED <<manifest, acked, send>>
          /\ \A i \in Indices \ {send[s].index} : parts'[i] = parts[i]
      BY <1>0, <2>1, <2>4 DEF DiscardPart, threads, history, Chunks
    <3>2. \A i \in Acknowledged(manifest) : i \in Indices /\ i # send[s].index
      BY <1>4, <2>1, <3>1 DEF Acknowledged
    <3> QED
      BY <1>3, <2>0, <2>2, <3>1, <3>2 DEF Completed
  <2>5. CASE StorePart(s)
    <3>1. /\ send[s].step = "store" /\ UNCHANGED <<manifest, acked>>
          /\ send' = [send EXCEPT ![s].step = "save"]
          /\ (parts' = parts /\ Matches(s)) \/ parts' = [parts EXCEPT ![send[s].index] = send[s].content]
      BY <2>5 DEF StorePart, history
    <3>2. send'[s].index = send[s].index /\ send'[s].content = send[s].content
      BY <1>0, <3>1 DEF SendStates
    <3>3. /\ parts'[send[s].index] = send[s].content
          /\ \A i \in Indices \ {send[s].index} : parts'[i] = parts[i]
      BY <1>0, <2>1, <3>1 DEF Matches, Chunks
    <3>4. \A i \in Acknowledged(manifest) : i \in Indices /\ i # send[s].index
      BY <1>4, <2>1, <3>1 DEF Acknowledged
    <3> QED
      BY <1>3, <2>0, <2>2, <3>1, <3>2, <3>3, <3>4 DEF Completed
  <2>6. CASE SaveAck(s)
    <3> DEFINE i == send[s].index
               c == send[s].content
    <3>1. /\ send[s].step = "save" /\ send[s].data = map /\ i \in Indices /\ c \in Contents
          /\ parts[i] = c /\ Holders = {} /\ ~Completed
      BY <1>1, <1>3, <2>1, <2>6 DEF SaveAck, Agreed
    <3>2. PICK next \in Chunks : next = [map EXCEPT ![i] = c]
      BY <3>1 DEF Chunks
    <3>3. next[i] = c /\ \A k \in Indices \ {i} : next[k] = map[k]
      BY <3>1, <3>2 DEF Chunks
    <3>4. /\ manifest' = Saved("UPLOADING", next) /\ parts' = parts
          /\ send'[s].step = "idle" /\ acked' = acked \cup {i}
      BY <1>0, <2>6, <3>1, <3>2 DEF SaveAck, Idle
    <3>5. manifest' # None /\ manifest'.chunks = next /\ ~Completed'
      BY <1>0, <3>4, SavedLemma DEF Completed
    <3>6. c # None
      BY <3>1, TokensAssumption
    <3> HIDE DEF i, c
    <3>7. Acknowledged(manifest') = Acknowledged(manifest) \cup {i}
      BY <1>4, <3>1, <3>3, <3>5, <3>6 DEF Acknowledged
    <3>8. \A k \in Acknowledged(manifest') : parts'[k] = next[k]
      BY <1>3, <1>4, <3>1, <3>3, <3>4, <3>7 DEF Acknowledged
    <3>9. \A t \in Senders : send'[t].step = "idle"
      BY <2>0, <2>2, <3>1, <3>4
    <3> QED
      BY <1>3, <2>0, <3>1, <3>4, <3>5, <3>7, <3>8, <3>9
  <2>7. CASE Resume(s)
    <3>1. /\ send'[s].step = "resume" /\ UNCHANGED <<manifest, parts, acked>>
          /\ Holders = {} /\ ~Completed
      BY <1>0, <2>7 DEF Resume, disk, Idle, Completed
    <3> QED
      BY <1>3, <2>0, <3>1 DEF Completed
  <2>8. CASE SaveResume(s)
    <3>1. /\ send[s].step = "resume" /\ send[s].data = map /\ send'[s].step = "idle"
          /\ manifest' = Saved("UPLOADING", map) /\ UNCHANGED <<parts, acked>>
      BY <1>0, <1>1, <2>8 DEF SaveResume, Agreed, Idle, history
    <3>2. manifest' # None /\ manifest'.chunks = map /\ ~Completed'
      BY <1>0, <3>1, SavedLemma DEF Completed
    <3>3. Acknowledged(manifest') = Acknowledged(manifest)
      BY <1>4, <3>2 DEF Acknowledged
    <3>4. Holders = {} /\ ~Completed /\ \A t \in Senders : send'[t].step = "idle"
      BY <1>3, <2>0, <2>2, <3>1
    <3> QED
      BY <1>3, <1>4, <2>0, <3>1, <3>2, <3>3, <3>4
  <2>9. CASE SendFails(s)
    BY <1>3, <2>9 DEF SendFails
  <2> QED
    BY <1>a, <2>3, <2>4, <2>5, <2>6, <2>7, <2>8, <2>9 DEF Send
<1>b. ASSUME NEW r \in Finalizers, Finalize(r)
      PROVE  Goal
  <2>0. UNCHANGED <<send, removing, acked, dir>> /\ \A q \in Finalizers \ {r} : fin'[q] = fin[q]
    BY <1>b, FinFrame
  <2>1. CASE ReserveDestination(r) \/ Duplicate(r) \/ Refuse(r)
    <3>1. fin[r].step \in {"idle", "wait"} /\ fin'[r].step \in {"idle", "wait"} /\ UNCHANGED <<manifest, parts>>
      BY <1>0, <2>1 DEF ReserveDestination, Duplicate, Refuse, Release, Done
    <3>2. Holders' = Holders
      BY <2>0, <3>1 DEF Holders
    <3>3. \A q \in Holders : fin'[q] = fin[q]
      BY <2>0, <3>1 DEF Holders
    <3> QED
      BY <1>3, <2>0, <3>1, <3>2, <3>3 DEF Completed
  <2>2. CASE LoadManifest(r)
    <3>1. /\ Acknowledged(manifest) = Indices /\ Holders = {} /\ ~Completed /\ Resumers = {}
          /\ fin'[r].step = "mark" /\ UNCHANGED <<manifest, parts>>
      BY <1>0, <2>2 DEF LoadManifest, disk, Completed, CompletedBefore
    <3>2. \A s \in Senders : send[s].step = "idle"
      <4>1. \A i \in Indices : map[i] # None
        BY <1>4, <3>1 DEF Acknowledged
      <4>2. \A s \in Senders : send[s].step \in {"idle", "store", "save", "resume"}
        BY <1>0 DEF SendStates
      <4> QED
        BY <1>1, <3>1, <4>1, <4>2 DEF Agreed, Resumers, TInv, Loaded
    <3>3. Holders' \subseteq {r}
      BY <2>0, <3>1 DEF Holders
    <3> QED
      BY <1>3, <2>0, <3>1, <3>2, <3>3 DEF Completed
  <2>3. CASE r \in Holders
    <3>1. /\ \A s \in Senders : send'[s].step = "idle"
          /\ Holders' \subseteq {r}
          /\ fin[r].step = "clean" <=> Completed
          /\ fin[r].data = map /\ fin[r].name \in Names
      BY <1>1, <1>3, <2>0, <2>3 DEF Holders, OneAtATime, Agreed, TInv, Loaded
    <3>2. ASSUME UNCHANGED <<manifest, parts>>, r \in Holders' => (fin'[r].step = "clean" <=> fin[r].step = "clean")
          PROVE  Goal
      BY <1>3, <2>0, <3>1, <3>2 DEF Completed
    <3>3. ASSUME NEW state \in {"UPLOADING", "FINALIZING"}, manifest' = Saved(state, map), UNCHANGED parts,
                 fin[r].step # "clean", fin'[r].step # "clean"
          PROVE  Goal
      <4>1. manifest' # None /\ manifest'.chunks = map /\ ~Completed'
        BY <1>0, <3>3, SavedLemma DEF Completed
      <4>2. Acknowledged(manifest') = Acknowledged(manifest)
        BY <1>4, <4>1 DEF Acknowledged
      <4> QED
        BY <1>3, <1>4, <2>0, <3>1, <3>3, <4>1, <4>2
    <3>4. CASE MarkFinalizing(r)
      BY <1>0, <3>1, <3>3, <3>4 DEF MarkFinalizing, Goto, FinStates
    <3>5. CASE Assemble(r) \/ ReplaceDestination(r)
      BY <1>0, <3>2, <3>5 DEF Assemble, ReplaceDestination, Goto, FinStates
    <3>6. CASE SaveCompleted(r)
      <4>1. /\ fin'[r].step = "clean" /\ UNCHANGED parts
            /\ manifest' = [Saved("COMPLETED", map) EXCEPT !.name = fin[r].name]
        BY <1>0, <3>1, <3>6 DEF SaveCompleted, Goto, FinStates
      <4>2. manifest' # None /\ Completed'
        BY <1>0, <3>1, <4>1, SavedLemma DEF Completed
      <4> QED
        BY <1>3, <2>0, <3>1, <4>1, <4>2
    <3>7. ASSUME NEW i \in Indices, UnlinkPart(r, i)
          PROVE  Goal
      BY <1>3, <2>0, <3>1, <3>7 DEF UnlinkPart, threads, Completed
    <3>8. CASE AnswerCompleted(r)
      BY <1>0, <3>2, <3>8 DEF AnswerCompleted, Done, Holders, disk
    <3>9. CASE Raise(r)
      BY <1>0, <3>2, <3>9 DEF Raise, Goto, FinStates, disk
    <3>10. CASE Fault(r)
      BY <1>0, <3>2, <3>10 DEF Fault, Goto, FinStates
    <3>11. CASE Undo(r)
      BY <1>0, <1>3, <3>1, <3>3, <3>11 DEF Undo, Goto, FinStates
    <3>12. CASE ReleaseDestination(r)
      BY <1>3, <2>3, <3>12 DEF ReleaseDestination, Holders
    <3> QED
      BY <1>b, <2>1, <2>2, <3>4, <3>5, <3>6, <3>7, <3>8, <3>9, <3>10, <3>11, <3>12 DEF Finalize
  <2>4. CASE ReleaseDestination(r) /\ r \notin Holders
    <3>1. fin[r].step = "release" /\ fin'[r].step = "idle" /\ UNCHANGED <<manifest, parts>>
      BY <1>0, <2>4 DEF ReleaseDestination, Release, Done, Holders
    <3>2. Holders' = Holders /\ \A q \in Holders : fin'[q] = fin[q]
      BY <2>0, <3>1 DEF Holders
    <3> QED
      BY <1>3, <2>0, <3>1, <3>2 DEF Completed
  <2>5. ASSUME r \notin Holders
        PROVE  ReserveDestination(r) \/ Duplicate(r) \/ Refuse(r) \/ LoadManifest(r) \/ ReleaseDestination(r)
    BY <1>b, <2>5 DEF Finalize, MarkFinalizing, Assemble, ReplaceDestination, SaveCompleted, UnlinkPart,
                      AnswerCompleted, Raise, Fault, Undo, Holders
  <2> QED
    BY <2>1, <2>2, <2>3, <2>4, <2>5
<1>c. CASE Remove
  BY <1>3, <1>c, RemoveFrame
<1>d. CASE Crash
  BY <1>3, <1>d DEF Crash, disk, history, Holders, Idle, Done, Completed
<1>e. CASE AnswerAgain \/ UNCHANGED vars
  BY <1>3, <1>e DEF AnswerAgain, vars, disk, threads, history, Holders, Completed
<1> QED
  BY <1>a, <1>b, <1>c, <1>d, <1>e DEF Next

-----------------------------------------------------------------------------
(* How many files are made.                                                *)

\* Counting sets of names.
LEMMA CountLemma ==
  ASSUME NEW S, S \subseteq Names
  PROVE  /\ IsFiniteSet(S) /\ Cardinality(S) \in Nat
         /\ \A T : T \subseteq S => Cardinality(T) \in Nat /\ Cardinality(T) <= Cardinality(S)
         /\ \A n, T : T \subseteq S \cup {n} => Cardinality(T) \in Nat /\ Cardinality(T) <= Cardinality(S) + 1
<1>1. IsFiniteSet(Names)
  BY FS_Interval, ConstantsAssumption DEF Names
<1>2. IsFiniteSet(S)
  BY <1>1, FS_Subset
<1>3. \A T : T \subseteq S => Cardinality(T) \in Nat /\ Cardinality(T) <= Cardinality(S)
  BY <1>2, FS_Subset, FS_CardinalityType
<1>4. ASSUME NEW n, NEW T, T \subseteq S \cup {n}
      PROVE  Cardinality(T) \in Nat /\ Cardinality(T) <= Cardinality(S) + 1
  <2>1. IsFiniteSet(S \cup {n}) /\ Cardinality(S \cup {n}) <= Cardinality(S) + 1
    BY <1>2, FS_AddElement, FS_CardinalityType
  <2>2. IsFiniteSet(T) /\ Cardinality(T) <= Cardinality(S \cup {n})
    BY <1>4, <2>1, FS_Subset
  <2>3. Cardinality(T) \in Nat /\ Cardinality(S \cup {n}) \in Nat /\ Cardinality(S) \in Nat
    BY <1>2, <2>1, <2>2, FS_CardinalityType
  <2> QED
    BY <2>1, <2>2, <2>3
<1> QED
  BY <1>2, <1>3, <1>4, FS_CardinalityType

\* A new file comes only of a finalizer that replaces its destination, and what
\* an error or a failure leaves is about to be released.
LEMMA FilesNext ==
  ASSUME TInv, OneAtATime, Owned, [Next]_vars
  PROVE  \/ Whole' \subseteq Whole /\ (Made' \subseteq Made \/ Crash)
         \/ \E r \in Finalizers :
              /\ ReplaceDestination(r)
              /\ Whole' \subseteq Whole \cup {fin[r].name} /\ Made' \subseteq Made \cup {fin[r].name}
<1>0. fin \in [Finalizers -> FinStates] /\ media \in [Names -> Files \cup {Reserved, None}]
  BY DEF TInv, TypeOK, FinStates
<1>1. CASE UNCHANGED <<fin, media>>
  BY <1>1 DEF Whole, Made, Doomed
<1>2. ASSUME NEW r \in Finalizers, Finalize(r)
      PROVE  \/ Whole' \subseteq Whole /\ Made' \subseteq Made
             \/ /\ ReplaceDestination(r)
                /\ Whole' \subseteq Whole \cup {fin[r].name} /\ Made' \subseteq Made \cup {fin[r].name}
  <2>0. \A q \in Finalizers \ {r} : fin'[q] = fin[q]
    BY <1>2, FinFrame
  <2>2. \A n \in Made' : n \in Names /\ n \in Whole' /\ n \notin Doomed'
    BY DEF Made, Whole
  <2>3. CASE ReserveDestination(r)
    <3>1. fin[r].step = "idle" /\ fin'[r].step = "wait" /\ \A n \in Names : media'[n] \in {media[n], Reserved}
      BY <1>0, <2>3 DEF ReserveDestination
    <3>2. Doomed' = Doomed
      BY <2>0, <3>1 DEF Doomed
    <3> QED
      BY <3>1, <3>2, FilesLemma DEF Whole, Made
  <2>4. CASE Duplicate(r) \/ Refuse(r) \/ ReleaseDestination(r) \/ AnswerCompleted(r)
    <3>1. /\ fin[r].step \in {"wait", "mark", "release", "clean"} /\ fin'[r].step = "idle"
          /\ \A n \in Names : media'[n] \in {media[n], None}
          /\ fin[r].step = "release" => fin[r].name \in Names /\ media'[fin[r].name] = None
      BY <1>0, <2>4 DEF Duplicate, Refuse, ReleaseDestination, Release, AnswerCompleted, Done, disk, TInv, Loaded
    <3>2. Doomed \subseteq Doomed' \cup (IF fin[r].step = "release" THEN {fin[r].name} ELSE {})
      BY <2>0, <3>1 DEF Doomed
    <3>3. Whole' \subseteq Whole
      BY <3>1, FilesLemma DEF Whole
    <3>4. fin[r].step = "release" => fin[r].name \notin Whole'
      BY <3>1, FilesLemma DEF Whole
    <3>5. \A n \in Made' : n \in Whole /\ n \notin Doomed
      BY <2>2, <3>2, <3>3, <3>4
    <3> QED
      BY <3>3, <3>5 DEF Made, Whole
  <2>5. CASE ReplaceDestination(r)
    <3>1. /\ fin[r].step = "replace" /\ fin'[r].step = "complete"
          /\ \A n \in Names \ {fin[r].name} : media'[n] = media[n]
      BY <1>0, <2>5 DEF ReplaceDestination, Goto, FinStates
    <3>2. Doomed' = Doomed
      BY <2>0, <3>1 DEF Doomed
    <3> QED
      BY <2>5, <3>1, <3>2 DEF Whole, Made
  <2>6. CASE \/ LoadManifest(r) \/ MarkFinalizing(r) \/ Assemble(r) \/ SaveCompleted(r)
             \/ Raise(r) \/ Fault(r) \/ Undo(r)
    <3>1. /\ UNCHANGED media /\ fin'[r].name = fin[r].name
          /\ fin[r].step \in {"undo", "release"} => fin'[r].step \in {"undo", "release"}
      BY <1>0, <2>6
      DEF LoadManifest, MarkFinalizing, Assemble, SaveCompleted, Raise, Fault, Undo, Goto, FinStates, disk
    <3>2. Doomed \subseteq Doomed'
      BY <2>0, <3>1 DEF Doomed
    <3> QED
      BY <3>1, <3>2 DEF Whole, Made
  <2>7. ASSUME NEW i \in Indices, UnlinkPart(r, i)
        PROVE  Whole' \subseteq Whole /\ Made' \subseteq Made
    BY <2>7 DEF UnlinkPart, threads, Whole, Made, Doomed
  <2> QED
    BY <1>2, <2>3, <2>4, <2>5, <2>6, <2>7 DEF Finalize
<1>3. CASE Crash
  BY <1>3 DEF Crash, disk, Whole
<1> QED
  BY <1>1, <1>2, <1>3, SendFrame, RemoveFrame DEF Next, AnswerAgain, vars, threads, disk

\* The chunk files are used up with the file they made, unless a finalizer fails
\* or the dashboard stops after it has made the file.
LEMMA UsedNext ==
  ASSUME TInv, OneAtATime, OneMap, [Next]_vars, Used
  PROVE  \/ Used' \/ Whole' = {} \/ Crash
         \/ \E r \in Finalizers : Fault(r) /\ fin[r].step \in {"complete", "clean"}
<1>0. fin \in [Finalizers -> FinStates] /\ parts \in Chunks
  BY DEF TInv, TypeOK, FinStates
<1>1. ASSUME UNCHANGED fin, \A i \in Indices : parts'[i] \in {parts[i], None}
      PROVE  Used'
  <2>1. Full' => Full
    BY <1>1 DEF Full
  <2> QED
    BY <1>1, <2>1 DEF Used, Finishing, Replacing
<1>a. ASSUME NEW s \in Senders, Send(s)
      PROVE  Used' \/ Whole' = {}
  <2>0. UNCHANGED fin /\ Whole' = Whole
    BY <1>a, SendFrame
  <2>1. CASE StorePart(s)
    <3>1. send[s].step = "store" /\ send[s].index \in Indices
      BY <2>1 DEF StorePart, TInv, Loaded
    <3>2. PICK map \in Chunks : map[send[s].index] = None /\ \A n \in Whole : media[n] = map
      BY <3>1 DEF OneMap, Agreed
    <3>3. map \notin Files
      BY <3>1, <3>2, NoGap
    <3> QED
      BY <2>0, <3>2, <3>3 DEF Whole
  <2>2. CASE ~StorePart(s)
    <3>1. \A i \in Indices : parts'[i] \in {parts[i], None}
      BY <1>0, <1>a, <2>2
      DEF Send, Receive, DiscardPart, SaveAck, Resume, SaveResume, SendFails, disk, Chunks
    <3> QED
      BY <1>1, <2>0, <3>1
  <2> QED
    BY <2>1, <2>2
<1>b. ASSUME NEW r \in Finalizers, Finalize(r)
      PROVE  Used' \/ (Fault(r) /\ fin[r].step \in {"complete", "clean"})
  <2>0. \A q \in Finalizers \ {r} : fin'[q] = fin[q]
    BY <1>b, FinFrame
  <2>1. r \in Holders => \A q \in Finalizers \ {r} : fin[q].step \notin {"complete", "clean", "replace"}
    BY DEF OneAtATime, Holders
  <2>2. ASSUME r \notin Holders, fin'[r].step \notin {"complete", "clean", "replace"}, UNCHANGED parts
        PROVE  Used'
    <3>1. (Finishing => Finishing') /\ (Replacing' => Replacing) /\ (Full' => Full)
      BY <2>0, <2>2 DEF Finishing, Replacing, Full, Holders
    <3> QED
      BY <3>1 DEF Used
  <2>3. ASSUME r \in Holders, fin'[r].step # "replace", UNCHANGED parts,
               fin[r].step \in {"complete", "clean"} => fin'[r].step \in {"complete", "clean"}
        PROVE  Used'
    <3>1. (Finishing => Finishing') /\ (Replacing' => Replacing) /\ (Full' => Full)
      BY <2>0, <2>1, <2>3 DEF Finishing, Replacing, Full
    <3> QED
      BY <3>1 DEF Used
  <2>4. ASSUME ~Full', r \in Holders, fin'[r].step # "replace"
        PROVE  Used'
    BY <2>0, <2>1, <2>4 DEF Used, Replacing
  <2>5. CASE ReserveDestination(r) \/ Duplicate(r) \/ Refuse(r)
    BY <1>0, <2>2, <2>5 DEF ReserveDestination, Duplicate, Refuse, Release, Done, Holders
  <2>6. CASE LoadManifest(r)
    BY <1>0, <2>2, <2>6 DEF LoadManifest, disk, Holders
  <2>7. CASE ReleaseDestination(r)
    BY <1>0, <2>2, <2>3, <2>7 DEF ReleaseDestination, Release, Done, Holders
  <2>8. CASE MarkFinalizing(r) \/ ReplaceDestination(r) \/ SaveCompleted(r) \/ Undo(r)
    BY <1>0, <2>3, <2>8
    DEF MarkFinalizing, ReplaceDestination, SaveCompleted, Undo, Goto, Holders, FinStates
  <2>9. CASE Assemble(r)
    <3>1. Full /\ r \in Holders /\ fin[r].step = "assemble"
      BY <2>9 DEF Assemble, Full, Holders
    <3> QED
      BY <2>1, <3>1 DEF Used, Finishing
  <2>10. ASSUME NEW i \in Indices, UnlinkPart(r, i)
         PROVE  Used'
    BY <1>0, <1>1, <2>10 DEF UnlinkPart, threads, Chunks
  <2>11. CASE AnswerCompleted(r)
    <3>1. parts' = NoChunks /\ fin'[r].step = "idle" /\ r \in Holders
      BY <1>0, <2>11 DEF AnswerCompleted, Done, disk, Holders
    <3>2. ~Full'
      BY <3>1, ConstantsAssumption DEF Full, NoChunks
    <3> QED
      BY <2>4, <3>1, <3>2
  <2>12. CASE Raise(r)
    <3>1. r \in Holders /\ fin'[r].step = "undo" /\ UNCHANGED parts
      BY <1>0, <2>12 DEF Raise, Goto, Holders, disk, FinStates
    <3>2. CASE fin[r].step \in {"complete", "clean"}
      <4>1. parts' = NoChunks
        BY <2>12, <3>1, <3>2 DEF Raise, TInv, TypeOK
      <4>2. ~Full'
        BY <4>1, ConstantsAssumption DEF Full, NoChunks
      <4> QED
        BY <2>4, <3>1, <4>2
    <3> QED
      BY <2>3, <3>1, <3>2
  <2>13. CASE Fault(r) /\ fin[r].step \notin {"complete", "clean"}
    <3>1. r \in Holders /\ fin'[r].step \in {"undo", "release"} /\ UNCHANGED parts
      BY <1>0, <2>13 DEF Fault, Goto, Holders, FinStates
    <3> QED
      BY <2>3, <2>13, <3>1
  <2> QED
    BY <1>b, <2>5, <2>6, <2>7, <2>8, <2>9, <2>10, <2>11, <2>12, <2>13 DEF Finalize
<1>c. CASE Remove
  BY <1>1, <1>c, RemoveFrame
<1>d. CASE AnswerAgain \/ UNCHANGED vars
  BY <1>1, <1>d DEF AnswerAgain, vars, disk, threads
<1> QED
  BY <1>a, <1>b, <1>c, <1>d DEF Next

\* While a finalizer replaces its destination, no file has used the chunks up.
LEMMA ReplacingUnused ==
  ASSUME OneAtATime, NEW r \in Finalizers, fin[r].step = "replace"
  PROVE  ~Used
<1>1. \A q \in Finalizers : fin[q].step \notin {"complete", "clean"}
  BY DEF OneAtATime, Holders
<1> QED
  BY <1>1 DEF Used, Finishing, Replacing

\* Stops and errors are only counted up.
LEMMA BoundsNext ==
  ASSUME TInv, [Next]_vars
  PROVE  /\ {crashes, faults, crashes', faults'} \subseteq Nat
         /\ crashes <= crashes' /\ faults <= faults'
         /\ Crash => crashes' = crashes + 1
         /\ \A r \in Finalizers : Fault(r) => faults' = faults + 1
<1>1. {crashes, faults} \subseteq Nat
  BY DEF TInv, TypeOK
<1>2. Crash => crashes' = crashes + 1 /\ faults' = faults
  BY DEF Crash
<1>3. \A r \in Finalizers : Fault(r) => faults' = faults + 1 /\ crashes' = crashes
  BY DEF Fault
<1>4. Crash \/ (\E r \in Finalizers : Fault(r)) \/ UNCHANGED <<crashes, faults>>
  BY SendFrame, RemoveFrame
  DEF Next, AnswerAgain, vars, bounds, Finalize, ReserveDestination, Duplicate, Refuse,
      LoadManifest, MarkFinalizing, Assemble, ReplaceDestination, SaveCompleted, UnlinkPart,
      AnswerCompleted, Raise, Undo, ReleaseDestination
<1> QED
  BY <1>1, <1>2, <1>3, <1>4

\* Only a replace makes a file; the next needs the chunk files again, or an undo.
LEMMA CountedNext ==
  ASSUME TInv, OneAtATime, Owned, OneMap, Counted, [Next]_vars
  PROVE  Counted'
<1> DEFINE n == Cardinality(Whole)
           m == Cardinality(Whole')
<1>1. /\ {crashes, faults, crashes', faults'} \subseteq Nat
      /\ crashes <= crashes' /\ faults <= faults'
      /\ Crash => crashes' = crashes + 1
      /\ \A r \in Finalizers : Fault(r) => faults' = faults + 1
  BY BoundsNext
<1>2. n \in Nat /\ n <= crashes + faults + 1 /\ (n <= crashes + faults \/ Used)
  BY CountLemma DEF Counted, Whole
<1>3. CASE Whole' \subseteq Whole
  <2>1. m \in Nat /\ m <= n
    BY <1>3, CountLemma DEF Whole
  <2>2. Whole' = {} => m = 0
    BY FS_EmptySet
  <2>3. \/ n <= crashes + faults
        \/ Used' \/ m = 0 \/ crashes' = crashes + 1 \/ faults' = faults + 1
    BY <1>1, <1>2, <2>2, UsedNext
  <2> HIDE DEF n, m
  <2>4. m <= crashes' + faults' + 1 /\ (m <= crashes' + faults' \/ Used')
    BY <1>1, <1>2, <2>1, <2>3
  <2> QED
    BY <2>4 DEF Counted, m
<1>4. ASSUME NEW r \in Finalizers, ReplaceDestination(r), Whole' \subseteq Whole \cup {fin[r].name}
      PROVE  Counted'
  <2>1. m \in Nat /\ m <= n + 1
    BY <1>4, CountLemma DEF Whole
  <2>2. ~Used
    BY <1>4, ReplacingUnused DEF ReplaceDestination
  <2>3. Used'
    <3>1. fin'[r].step = "complete"
      BY <1>4 DEF ReplaceDestination, Goto, TInv, TypeOK
    <3> QED
      BY <3>1 DEF Used, Finishing
  <2> HIDE DEF n, m
  <2>4. m <= crashes' + faults' + 1
    BY <1>1, <1>2, <2>1, <2>2
  <2> QED
    BY <2>3, <2>4 DEF Counted, m
<1> QED
  BY <1>3, <1>4, FilesNext

\* Without a stop a replace finds no file made: what an error leaves is undone first.
LEMMA AloneNext ==
  ASSUME TInv, OneAtATime, Owned, OneMap, Alone, [Next]_vars
  PROVE  Alone'
<1> SUFFICES ASSUME crashes' = 0
             PROVE  (\A m, n \in Made' : m = n) /\ (Made' = {} \/ Used')
  BY DEF Alone
<1>1. crashes = 0 /\ ~Crash
  BY BoundsNext
<1>2. (\A m, n \in Made : m = n) /\ (Made = {} \/ Used)
  BY <1>1 DEF Alone
<1>3. CASE Made' \subseteq Made
  <2>1. CASE \E r \in Finalizers : Fault(r) /\ fin[r].step \in {"complete", "clean"}
    <3>1. PICK r \in Finalizers : Fault(r) /\ fin[r].step \in {"complete", "clean"}
      BY <2>1
    <3>2. fin'[r].step = "undo" /\ fin'[r].name = fin[r].name
      BY <3>1 DEF Fault, Goto, TInv, TypeOK
    <3>3. fin[r].name \in Made
      BY <3>1 DEF Made, Doomed, Owned, TInv, Loaded
    <3>4. fin[r].name \notin Made'
      BY <3>2 DEF Made, Doomed
    <3> QED
      BY <1>2, <1>3, <3>3, <3>4
  <2>2. Whole' = {} => Made' = {}
    BY DEF Made, Whole
  <2> QED
    BY <1>1, <1>2, <1>3, <2>1, <2>2, UsedNext
<1>4. ASSUME NEW r \in Finalizers, ReplaceDestination(r), Made' \subseteq Made \cup {fin[r].name}
      PROVE  (\A m, n \in Made' : m = n) /\ Used'
  <2>1. Made = {}
    BY <1>2, <1>4, ReplacingUnused DEF ReplaceDestination
  <2>2. fin'[r].step = "complete"
    BY <1>4 DEF ReplaceDestination, Goto, TInv, TypeOK
  <2> QED
    BY <1>4, <2>1, <2>2 DEF Used, Finishing
<1> QED
  BY <1>1, <1>3, <1>4, FilesNext

-----------------------------------------------------------------------------
(* The theorem.                                                            *)

UInv == TInv /\ OneAtATime /\ Owned /\ OneMap /\ Kept /\ Stored /\ Counted /\ Alone

\* Nothing is stored, acknowledged or answered.
LEMMA UInvInit == Init => UInv
<1> SUFFICES ASSUME Init PROVE UInv
  OBVIOUS
<1>1. TInv
  BY TypeInit
<1>2. /\ \A s \in Senders : send[s].step = "idle"
      /\ \A r \in Finalizers : fin[r].step = "idle"
      /\ manifest # None /\ manifest.chunks = NoChunks /\ ~Completed /\ NoChunks \in Chunks
  BY SavedLemma, FilesLemma, TokensAssumption DEF Init, Idle, Done, Completed
<1>3. Holders = {} /\ Whole = {} /\ Made = {}
  BY <1>2, FilesLemma DEF Init, Holders, Whole, Made
<1>4. \A i \in Indices : parts[i] = None
  BY DEF Init, NoChunks
<1>5. OneAtATime /\ Owned
  BY <1>2, <1>3 DEF OneAtATime, Owned
<1>6. OneMap
  <2>1. Agreed(NoChunks)
    BY <1>2, <1>3, <1>4 DEF Agreed
  <2> QED
    BY <1>2, <2>1 DEF OneMap
<1>7. Kept
  BY <1>2 DEF Init, Kept, Told
<1>8. Stored
  BY <1>2, <1>3 DEF Init, Stored, Acknowledged, NoChunks
<1>9. Counted
  <2>1. Cardinality(Whole) = 0
    BY <1>3, FS_EmptySet
  <2> QED
    BY <2>1 DEF Init, Counted
<1>10. Alone
  BY <1>3 DEF Alone
<1> QED
  BY <1>1, <1>5, <1>6, <1>7, <1>8, <1>9, <1>10 DEF UInv

\* The invariant is inductive.
LEMMA UInvNext == UInv /\ [Next]_vars => UInv'
BY TypeNext, OneAtATimeNext, OwnedNext, OneMapNext, KeptNext, StoredNext, CountedNext, AloneNext
DEF UInv

\* What the invariant says of the manifest, the files made and the answers.
LEMMA UInvSafe == UInv => UploadSafe
<1> SUFFICES ASSUME UInv PROVE UploadSafe
  OBVIOUS
<1>1. AcknowledgedIsStored
  BY DEF UInv, AcknowledgedIsStored, Stored, Completed, Acknowledged
<1>2. OneFilePerUpload
  <2>1. Made \subseteq Whole /\ Whole \subseteq Names /\ Made \subseteq Names
    BY DEF Made, Whole
  <2>2. Cardinality(Made) \in Nat /\ Cardinality(Made) <= Cardinality(Whole) /\ Cardinality(Whole) \in Nat
    BY <2>1, CountLemma
  <2>3. crashes \in Nat /\ faults \in Nat /\ Cardinality(Whole) <= crashes + faults + 1
    BY DEF UInv, Counted, TInv, TypeOK
  <2>4. CASE crashes = 0
    <3>1. Made = {} \/ \E n : Made = {n}
      BY <2>4 DEF UInv, Alone
    <3>2. Cardinality(Made) <= 1
      BY <3>1, FS_EmptySet, FS_Singleton
    <3> QED
      BY <2>4, <3>2 DEF OneFilePerUpload
  <2>5. CASE crashes > 0
    BY <2>2, <2>3, <2>5 DEF OneFilePerUpload
  <2> QED
    BY <2>3, <2>4, <2>5
<1>3. GrantedIsKept
  <2>1. ASSUME "unlink" \notin overlaps, NEW n \in granted
        PROVE  n \in Made /\ (manifest # None => media[n] = manifest.chunks)
    <3>1. n \in Whole /\ \A r \in Finalizers : fin[r].step \in {"undo", "release"} => fin[r].name # n
      BY <2>1 DEF UInv, Kept, Told
    <3>2. n \in Made
      BY <3>1 DEF Made, Doomed, Whole
    <3> QED
      BY <3>1, <3>2 DEF UInv, OneMap, Agreed
  <2> QED
    BY <2>1 DEF GrantedIsKept
<1> QED
  BY <1>1, <1>2, <1>3 DEF UploadSafe

\* Acknowledged chunks are kept until they make one file, and a granted file
\* stays, for any number of threads, chunks, stops and errors.
THEOREM UploadIsSafe == Spec => []UploadSafe
BY UInvInit, UInvNext, UInvSafe, PTL DEF Spec

=============================================================================
