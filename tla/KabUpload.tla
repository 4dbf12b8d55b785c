----------------------------- MODULE KabUpload -----------------------------
(***************************************************************************)
(* Chunks, assembled files and the byte quota of one session of the K'ab   *)
(* ingest receiver: put_chunk and the storage half of complete_segment,    *)
(* whose other half, markers and worker, is KabIngest.                     *)
(*                                                                         *)
(* Both run under the session lock, so one request is in progress at a     *)
(* time; the process may stop between any two of its steps.  Files survive *)
(* that, the cached usage does not.                                        *)
(*                                                                         *)
(* Simplifications.                                                        *)
(*  - A digest stands for its content: a body is accepted when it is the   *)
(*    declared content.                                                    *)
(*  - Only media count for the usage; session.json and the metadata files  *)
(*    are taken as empty.                                                  *)
(*  - A replayed or conflicting request changes nothing: it stutters.      *)
(***************************************************************************)
EXTENDS Integers, Sequences, FiniteSets, Functions

CONSTANTS
  Slots,        \* <<segment, track>> pairs of the session
  Extensions,   \* file extensions a completion may declare
  Contents,     \* contents of a chunk
  Size,         \* bytes of each content
  MaxChunks,    \* bound: chunks of one slot
  MaxSession,   \* max_session_bytes
  MaxCrashes,   \* bound: stops of the receiver
  None

ChunkNames == Slots \X (1 .. MaxChunks)      \* chunk i of the code is i + 1
Names      == Slots \X Extensions            \* final names of assembled files
Files      == UNION {[1 .. n -> Contents] : n \in 1 .. MaxChunks}

Puts      == [op : {"put"}, name : ChunkNames, content : Contents]
Completes == [op : {"complete"}, slot : Slots, ext : Extensions, file : Files]

ConstantsAssumption ==
  /\ IsFiniteSet(Slots) /\ IsFiniteSet(Extensions)
  /\ Size \in [Contents -> Nat \ {0}]
  /\ MaxChunks \in Nat \ {0} /\ MaxSession \in Nat /\ MaxCrashes \in Nat
  /\ None \notin Contents \cup Nat \cup Completes

VARIABLES
  chunk,      \* content of each chunk file, or None
  assembled,  \* contents under each final name, <<>> when absent
  meta,       \* what the metadata of each slot declares, or None
  junk,       \* bytes in temporary files a stop left behind
  usage,      \* _usage of the session, or None when not cached
  pc, req,    \* the request in progress
  crashes

disk == <<chunk, assembled, meta, junk>>
vars == <<disk, usage, pc, req, crashes>>

Steps == {"idle", "receive", "countChunk", "assemble", "compare", "countAssembled",
          "writeMeta"}

TypeOK ==
  /\ chunk \in [ChunkNames -> Contents \cup {None}]
  /\ assembled \in [Names -> Files \cup {<<>>}]
  /\ meta \in [Slots -> Completes \cup {None}]
  /\ junk \in Nat /\ usage \in Nat \cup {None}
  /\ pc \in Steps /\ req \in Puts \cup Completes \cup {None}
  /\ crashes \in 0 .. MaxCrashes

Init ==
  /\ chunk = [c \in ChunkNames |-> None]
  /\ assembled = [n \in Names |-> <<>>]
  /\ meta = [s \in Slots |-> None]
  /\ junk = 0 /\ usage = 0        \* create_session
  /\ pc = "idle" /\ req = None
  /\ crashes = 0

-----------------------------------------------------------------------------
(* Sizes.                                                                  *)

SizeOf(file) == SumFunction([i \in DOMAIN file |-> Size[file[i]]])

ChunkBytes ==
  SumFunction([c \in ChunkNames |-> IF chunk[c] = None THEN 0 ELSE Size[chunk[c]]])

AssembledBytes == SumFunction([n \in Names |-> SizeOf(assembled[n])])

\* _dir_size walks everything below the session, temporary files included.
DirSize == ChunkBytes + AssembledBytes + junk

\* _session_usage: the cached value, or the size of the directory.
Usage == IF usage = None THEN DirSize ELSE usage

-----------------------------------------------------------------------------
(* PUT .../chunks/{i}.                                                     *)

FitsQuota(content) == Usage + Size[content] <= MaxSession

\* Nothing is stored under the name yet; otherwise the answer is the same
\* again for the same content and a conflict for another.
NewChunk(name) == chunk[name] = None

PutChunk(r) ==
  /\ pc = "idle"
  /\ NewChunk(r.name) /\ FitsQuota(r.content)
  /\ usage' = Usage
  /\ pc' = "receive" /\ req' = r
  /\ UNCHANGED <<disk, crashes>>

\* The session is full: only the cache is filled.
RefuseChunk(r) ==
  /\ pc = "idle" /\ usage = None
  /\ NewChunk(r.name) /\ ~FitsQuota(r.content)
  /\ usage' = Usage
  /\ UNCHANGED <<disk, pc, req, crashes>>

\* Too long, too short, too slow or not the declared content: the temporary
\* file goes.
RejectBody ==
  /\ pc = "receive"
  /\ pc' = "idle" /\ req' = None
  /\ UNCHANGED <<disk, usage, crashes>>

\* The declared content arrived: the temporary file takes the chunk's name.
StoreChunk ==
  /\ pc = "receive"
  /\ chunk' = [chunk EXCEPT ![req.name] = req.content]
  /\ pc' = "countChunk"
  /\ UNCHANGED <<assembled, meta, junk, usage, req, crashes>>

CountChunk ==
  /\ pc = "countChunk"
  /\ usage' = Usage + Size[req.content]
  /\ pc' = "idle" /\ req' = None
  /\ UNCHANGED <<disk, crashes>>

-----------------------------------------------------------------------------
(* POST .../complete of one slot.                                          *)

Concatenation(slot, n) == [i \in 1 .. n |-> chunk[<<slot, i>>]]

\* No metadata yet and no chunk missing.
CompleteSegment(r) ==
  /\ pc = "idle"
  /\ meta[r.slot] = None
  /\ \A i \in 1 .. Len(r.file) : chunk[<<r.slot, i>>] # None
  /\ pc' = "assemble" /\ req' = r
  /\ UNCHANGED <<disk, usage, crashes>>

\* The concatenation takes the final name.
Assemble ==
  /\ pc = "assemble"
  /\ assembled' = [assembled EXCEPT ![<<req.slot, req.ext>>] =
                     Concatenation(req.slot, Len(req.file))]
  /\ pc' = "compare"
  /\ UNCHANGED <<chunk, meta, junk, usage, req, crashes>>

AsDeclared(r) == assembled[<<r.slot, r.ext>>] = r.file

AcceptFile ==
  /\ pc = "compare" /\ AsDeclared(req)
  /\ pc' = "countAssembled"
  /\ UNCHANGED <<disk, usage, req, crashes>>

\* Mutant of RejectFile: bytes that were never counted are given back.
RejectFileUncounting ==
  /\ pc = "compare" /\ ~AsDeclared(req)
  /\ assembled' = [assembled EXCEPT ![<<req.slot, req.ext>>] = <<>>]
  /\ usage' = Usage - SizeOf(assembled[<<req.slot, req.ext>>])
  /\ pc' = "idle" /\ req' = None
  /\ UNCHANGED <<chunk, meta, junk, crashes>>

RejectFile ==
  /\ pc = "compare" /\ ~AsDeclared(req)
  /\ assembled' = [assembled EXCEPT ![<<req.slot, req.ext>>] = <<>>]
  /\ pc' = "idle" /\ req' = None
  /\ UNCHANGED <<chunk, meta, junk, usage, crashes>>

\* Mutant of CountAssembled: assembled files are not counted.
CountAssembledNot ==
  /\ pc = "countAssembled"
  /\ usage' = Usage
  /\ pc' = "writeMeta"
  /\ UNCHANGED <<disk, req, crashes>>

\* Counted after the file is in place: when the usage is not cached yet, the
\* directory's size includes the file already.
CountAssembled ==
  /\ pc = "countAssembled"
  /\ usage' = Usage + SizeOf(req.file)
  /\ pc' = "writeMeta"
  /\ UNCHANGED <<disk, req, crashes>>

WriteMeta ==
  /\ pc = "writeMeta"
  /\ meta' = [meta EXCEPT ![req.slot] = req]
  /\ pc' = "idle" /\ req' = None
  /\ UNCHANGED <<chunk, assembled, junk, usage, crashes>>

-----------------------------------------------------------------------------

\* What the request in progress may have written to its temporary file.
TemporaryBytes ==
  CASE pc = "receive"  -> 0 .. Size[req.content]
    [] pc = "assemble" -> 0 .. SizeOf(Concatenation(req.slot, Len(req.file)))
    [] OTHER           -> {0}

\* The process stops; its temporary file stays, the cache is gone.
Crash ==
  /\ crashes < MaxCrashes
  /\ \E n \in TemporaryBytes : junk' = junk + n
  /\ usage' = None /\ pc' = "idle" /\ req' = None
  /\ crashes' = crashes + 1
  /\ UNCHANGED <<chunk, assembled, meta>>

Next ==
  \/ \E r \in Puts : PutChunk(r) \/ RefuseChunk(r)
  \/ RejectBody \/ StoreChunk \/ CountChunk
  \/ \E r \in Completes : CompleteSegment(r)
  \/ Assemble \/ AcceptFile \/ RejectFile \/ CountAssembled \/ WriteMeta
  \/ Crash

Spec == Init /\ [][Next]_vars

-----------------------------------------------------------------------------
(* Correctness.                                                            *)

\* However uploads, completions and restarts follow one another, the stored
\* chunks never exceed the session's limit: the cached usage, filled from the
\* directory after a restart and kept by hand afterwards, is never too small.
ChunksWithinQuota == ChunkBytes <= MaxSession

\* Between requests the accounted bytes cover what the session has on disk.
UsageCoversDisk == pc = "idle" => Usage >= DirSize

\* A stored chunk is never replaced or removed, so that a retried upload can be
\* answered from it and a retried assembly reads the same bytes.
ChunksImmutable ==
  [][\A c \in ChunkNames : chunk[c] # None => chunk'[c] = chunk[c]]_chunk

\* The file a slot's metadata speaks of holds what the sender declared, after
\* rejected attempts, crashes and attempts with another extension.
AcceptedIsDeclared ==
  \A s \in Slots :
    meta[s] # None => assembled[<<s, meta[s].ext>>] = meta[s].file

\* What is on disk stays within the quota, is accounted for and is what was
\* declared; stored chunks never change.
StorageSound == ChunksWithinQuota /\ UsageCoversDisk /\ AcceptedIsDeclared

StorageSafe == []StorageSound /\ ChunksImmutable

=============================================================================
