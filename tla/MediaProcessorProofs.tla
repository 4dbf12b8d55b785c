------------------------ MODULE MediaProcessorProofs ------------------------
(***************************************************************************)
(* Proofs about MediaProcessor, for any names, contents and processes, and *)
(* any number of puts, deletions, stops and starts, and about              *)
(* ProjectHandlers, for any projects, settings and recordings.             *)
(***************************************************************************)
EXTENDS MCMediaProcessor, WellFoundedInduction, TLAPS

Busy(p) == proc[p].pc \notin {"idle", "next"}

\* A process that is busy has a name, and a text that is written has contents;
\* a cleaned database is saved on behalf of no name.
Placed(p) ==
  /\ Busy(p) => \/ proc[p].on \in Media
                \/ proc[p].on = None /\ proc[p].pc \in {"open", "dump"}
  /\ At(p, "write") => proc[p].heard \in Contents

TInv == TypeOK /\ \A p \in Processes : Placed(p)

-----------------------------------------------------------------------------
(* What is made of a file.                                                 *)

\* A process may be in the middle of a transcript.
Writes(p, t) == At(p, "write") /\ Transcript[proc[p].on] = t
Written(t)   == text[t] = Torn /\ \E p \in Processes : Writes(p, t)

\* The transcript of m is what m holds, being written, or nothing is claimed of it.
Fresh(m) ==
  \/ m \in unsettled \/ ~Own(m)
  \/ text[Transcript[m]] = media[m]
  \/ Written(Transcript[m])

\* The transcript of m was made from it.
Made(m) == origin[Transcript[m]] = m /\ Transcript[m] \notin cut

\* A transcript of which nobody wrote the metadata yet is being written.
Authored(t) ==
  /\ text[t] = None => origin[t] = None
  /\ text[t] # None /\ origin[t] = None => t \in cut \/ Written(t)

\* The databases that are in use.
Live == {proc[p].mem : p \in Running} \cup ({file} \ {Torn})

\* Bytes c are what there is under name n, and their transcript, too.
Backed(n, c) ==
  /\ n \in unsettled \/ media[n] = c
  /\ n \in retryable \/ Fresh(n)

\* What a database says of bytes that were not replaced is right.
Right(db) ==
  /\ \A c \in Contents \ replaced : db.hash[c] # None => Backed(db.hash[c], c)
  /\ \A m \in Media : db.path[m] \notin replaced \cup {None} => Backed(m, db.path[m])

\* A process that has the text of a name writes what is there, and takes on
\* what is not known.
Busied(p) ==
  LET m == proc[p].on IN
  /\ At(p, "write") => m \in unsettled \/ proc[p].heard = media[m]
  /\ proc[p].pc \in {"route", "mark"} => Fresh(m)
  /\ proc[p].pc \in {"open", "dump"} /\ m # None => proc[p].mem.path[m] # None

\* A file whose transcript was made from it is there, unless it is unsettled.
NoOrphans == \A m \in Media : Made(m) => media[m] # None \/ m \in unsettled

\* Process p is about to save what it made of name m.
Saves(p, m) == proc[p].on = m /\ proc[p].pc \in {"route", "mark", "open", "dump"}

\* A transcript is saved, or about to be.
Saved(m) ==
  \/ m \in unsettled \cup retryable
  \/ saved.path[m] # None
  \/ \E p \in Processes : Saves(p, m)

\* The transcript is that of the media, or its path is known to all.
Judged(m) ==
  \/ m \in retryable
  \/ Fresh(m)
  \/ saved.path[m] # None /\ \A p \in Running : proc[p].mem.path[m] # None

\* What a process saw marked it does not transcribe.
Remembers(p) ==
  /\ proc[p].seen \subseteq MarkedIn(proc[p].mem)
  /\ At(p, "transcribe") /\ proc[p].kind # "reprocess" =>
       proc[p].on \in unsettled \/ media[proc[p].on] \notin proc[p].seen

Within(db, old) ==
  /\ \A c \in Contents : old.hash[c] \in {None, db.hash[c]}
  /\ \A m \in Media : old.path[m] \in {None, db.path[m]}

\* What holds as long as no entry was forgotten.
Kept ==
  /\ file # Torn => Within(file, saved)
  /\ done \subseteq MarkedIn(saved)
  /\ again \subseteq unsettled
  /\ \A p \in Processes : Remembers(p)
  /\ \A m \in Media : Made(m) => Saved(m) /\ Judged(m)
  /\ \A db \in Live : Right(db)

\* The invariant by induction.
IInv ==
  /\ TInv
  /\ NoOrphans /\ \A t \in Texts : Authored(t)
  /\ \A p \in Processes : Busied(p)
  /\ ~forgotten => Kept

-----------------------------------------------------------------------------
(* Databases.                                                              *)

\* The empty database is one.
LEMMA EmptyLemma == Empty \in Databases
BY DEF Empty, Databases

\* The file is a database when it is read.
LEMMA LoadedLemma == ASSUME TypeOK PROVE Loaded \in Databases
BY EmptyLemma DEF TypeOK, Loaded

\* What mark_as_processed makes of a database.
LEMMA MarkedLemma ==
  ASSUME TypeOK, NEW db \in Databases, NEW m \in Media, media[m] # None
  PROVE  /\ Marked(db, m) \in Databases
         /\ \A c \in Contents : Marked(db, m).hash[c] = IF c = media[m] THEN m ELSE db.hash[c]
         /\ \A n \in Media : Marked(db, m).path[n] = IF n = m THEN media[m] ELSE db.path[n]
<1>1. media[m] \in Contents
  BY DEF TypeOK
<1> QED
  BY <1>1, ConstantsAssumption DEF Databases, Marked

\* What cleanup_old_entries makes of one: less, of names that are gone.
LEMMA CleanedLemma ==
  ASSUME TypeOK, NEW old \in Databases, NEW db \in Cleaned(old)
  PROVE  /\ db \in Databases
         /\ Within(old, db)
         /\ \A m \in Media : media[m] # None => db.path[m] = old.path[m]
<1>1. CASE db = old
  BY <1>1 DEF Within, Databases
<1>2. ASSUME NEW gone \in SUBSET {m \in Media : media[m] = None},
             db = [hash |-> [c \in Contents |-> IF old.hash[c] \in gone THEN None ELSE old.hash[c]],
                   path |-> [m \in Media |-> IF m \in gone THEN None ELSE old.path[m]]]
      PROVE  /\ db \in Databases
             /\ Within(old, db)
             /\ \A m \in Media : media[m] # None => db.path[m] = old.path[m]
  <2>1. db \in Databases
    BY <1>2 DEF Databases
  <2>2. \A c \in Contents : db.hash[c] \in {None, old.hash[c]}
    BY <1>2
  <2>3. \A m \in Media : db.path[m] \in {None, old.path[m]}
    BY <1>2
  <2>4. \A m \in Media : media[m] # None => db.path[m] = old.path[m]
    BY <1>2
  <2> QED
    BY <2>1, <2>2, <2>3, <2>4 DEF Within
<1> QED
  BY <1>1, <1>2 DEF Cleaned

\* What api_delete_file makes of one: less, of the files with that name.
LEMMA WithoutLemma ==
  ASSUME NEW db \in Databases, NEW m \in Media
  PROVE  /\ Without(db, m) \in Databases
         /\ \A c \in Contents : Without(db, m).hash[c] =
              IF db.hash[c] \in Namesakes(m) THEN None ELSE db.hash[c]
         /\ \A n \in Media : Without(db, m).path[n] =
              IF n \in Namesakes(m) THEN None ELSE db.path[n]
BY ConstantsAssumption DEF Databases, Without

-----------------------------------------------------------------------------
(* Types.                                                                  *)

ProcStates ==
  [pc : {"idle", "next", "transcribe", "write", "route", "mark", "open", "dump"},
   kind : {"master", "scan", "reprocess", None}, mem : Databases,
   todo : SUBSET Media, on : Media \cup {None}, heard : Contents \cup {None},
   seen : SUBSET Contents]

\* The types, at the beginning.
LEMMA TypeInit == Init => TInv
<1> SUFFICES ASSUME Init PROVE TInv
  OBVIOUS
<1>1. Idle \in ProcStates /\ Idle.pc = "idle"
  BY EmptyLemma DEF Idle, ProcStates
<1>2. /\ proc \in [Processes -> ProcStates]
      /\ \A p \in Processes : proc[p].pc = "idle"
  BY <1>1 DEF Init
<1>3. 0 \in 0 .. MaxPuts /\ 0 \in 0 .. MaxDeletes /\ 0 \in 0 .. MaxCrashes /\ 0 \in 0 .. MaxRuns
  BY ConstantsAssumption
<1> QED
  BY <1>2, <1>3, EmptyLemma DEF Init, TInv, TypeOK, ProcStates, Placed, Busy, At

\* A step of process p changes no other process.
LEMMA ProcTypes ==
  ASSUME TInv, NEW p \in Processes,
         proc' = [proc EXCEPT ![p] = proc'[p]],
         proc'[p] \in ProcStates,
         proc'[p].pc \notin {"idle", "next"} =>
           \/ proc'[p].on \in Media
           \/ proc'[p].on = None /\ proc'[p].pc \in {"open", "dump"},
         proc'[p].pc = "write" => proc'[p].heard \in Contents
  PROVE  /\ proc' \in [Processes -> ProcStates]
         /\ \A r \in Processes : proc'[r].pc = "write" => proc'[r].heard # None
         /\ \A r \in Processes : Placed(r)'
<1>1. proc \in [Processes -> ProcStates] /\ \A r \in Processes : Placed(r)
  BY DEF TInv, TypeOK, ProcStates
<1>2. proc' \in [Processes -> ProcStates]
  BY <1>1
<1>3. \A r \in Processes : Placed(r)'
  BY <1>1 DEF Placed, Busy, At
<1>4. \A r \in Processes : proc'[r].pc = "write" => proc'[r].heard # None
  BY <1>3, ConstantsAssumption DEF Placed, At
<1> QED
  BY <1>2, <1>3, <1>4

\* A process keeps its types.
LEMMA StepTypes ==
  ASSUME TInv, NEW p \in Processes, Step(p)
  PROVE  TInv'
<1>0. /\ proc \in [Processes -> ProcStates] /\ Placed(p)
      /\ proc[p] \in ProcStates
      /\ Idle \in ProcStates /\ Idle.pc = "idle"
  BY EmptyLemma DEF TInv, TypeOK, ProcStates, Idle
<1>1. ASSUME NEW kind \in {"master", "scan", "reprocess"}, Start(p, kind)
      PROVE  TInv'
  <2>1. PICK mem \in Cleaned(Loaded) \cup {Loaded}, todo \in {{m} : m \in Media} \cup {Media} :
          /\ done' = done \ (MarkedIn(Loaded) \ MarkedIn(mem))
          /\ saved' = IF mem = Loaded THEN saved ELSE mem
          /\ proc' = [proc EXCEPT ![p] = [Idle EXCEPT
                        !.pc = IF mem = Loaded THEN "next" ELSE "open", !.kind = kind, !.mem = mem,
                        !.todo = {m \in todo : media[m] # None}, !.seen = done']]
    <3>1. CASE kind = "scan"
      BY <1>1, <3>1, Zenon DEF Start
    <3>2. CASE kind # "scan"
      BY <1>1, <3>2, Zenon DEF Start
    <3> QED
      BY <3>1, <3>2
  <2>2. mem \in Databases
    BY LoadedLemma, CleanedLemma DEF TInv
  <2>3. done' \subseteq Contents /\ saved' \in Databases
    BY <2>1, <2>2 DEF TInv, TypeOK
  <2>4. /\ proc' = [proc EXCEPT ![p] = proc'[p]] /\ proc'[p] \in ProcStates
        /\ proc'[p].pc \in {"next", "open"} /\ proc'[p].on = None
    <3> DEFINE pc == IF mem = Loaded THEN "next" ELSE "open"
               there == {m \in todo : media[m] # None}
               q == [Idle EXCEPT !.pc = pc, !.kind = kind, !.mem = mem, !.todo = there,
                                 !.seen = done']
    <3>1. there \in SUBSET Media /\ pc \in {"next", "open"}
      BY <2>1
    <3>2. proc' = [proc EXCEPT ![p] = q]
      BY <2>1
    <3> HIDE DEF pc, there
    <3>3. q \in ProcStates /\ q.pc \in {"next", "open"} /\ q.on = None
      BY <2>2, <2>3, <3>1 DEF ProcStates, Idle
    <3> HIDE DEF q
    <3> QED
      BY <1>0, <3>2, <3>3
  <2>5. runs' \in 0 .. MaxRuns /\ forgotten' \in BOOLEAN
    BY <1>1, ConstantsAssumption DEF Start, TInv, TypeOK
  <2> QED
    BY <1>1, <2>3, <2>4, <2>5, ProcTypes DEF Start, TInv, TypeOK, ProcStates, disk, texts
<1>2. ASSUME NEW m \in Media, Skip(p, m)
      PROVE  TInv'
  <2>1. proc[p].mem \in Databases /\ (media[m] # None => Marked(proc[p].mem, m) \in Databases)
    BY <1>0, MarkedLemma DEF TInv, ProcStates
  <2>2. /\ proc' = [proc EXCEPT ![p] = proc'[p]] /\ proc'[p] \in ProcStates
        /\ proc'[p].pc \in {"next", "open"} /\ (proc'[p].pc = "open" => proc'[p].on = m)
    BY <1>0, <1>2, <2>1 DEF Skip, ProcStates, At
  <2> QED
    BY <1>2, <2>2, ProcTypes DEF Skip, TInv, TypeOK, ProcStates, disk, texts, bounds, history
<1>3. ASSUME NEW m \in Media, Take(p, m)
      PROVE  TInv'
  <2>2. /\ proc' = [proc EXCEPT ![p] = proc'[p]] /\ proc'[p] \in ProcStates
        /\ proc'[p].pc \in {"next", "transcribe"} /\ (proc'[p].pc # "next" => proc'[p].on = m)
    BY <1>0, <1>3 DEF Take, ProcStates, At
  <2> QED
    BY <1>3, <2>2, ProcTypes DEF Take, TInv, TypeOK, ProcStates, disk, texts, bounds, history
<1>4. NextFile(p) \in ProcStates /\ NextFile(p).pc = "next"
  BY <1>0 DEF NextFile, ProcStates
<1>5. CASE Transcribe(p)
  <2>1. proc[p].on \in Media
    BY <1>0, <1>5 DEF Transcribe, Placed, Busy, At
  <2>2. /\ proc' = [proc EXCEPT ![p] = proc'[p]] /\ proc'[p] \in ProcStates
        /\ proc'[p].pc \in {"next", "write"}
        /\ (proc'[p].pc = "write" => proc'[p].on = proc[p].on /\ proc'[p].heard \in Contents)
    BY <1>0, <1>4, <1>5, <2>1 DEF Transcribe, Readable, ProcStates, At, TInv, TypeOK
  <2>3. text' \in [Texts -> Contents \cup {None, Torn}] /\ again' \subseteq Media
    BY <1>5, <2>1, ConstantsAssumption DEF Transcribe, TInv, TypeOK
  <2>4. unsettled' \subseteq Media
    <3>1. ASSUME NEW q \in Crossing(proc[p].on)
          PROVE  proc[q].on \in Media
      BY <3>1 DEF Crossing, TInv, Placed, Busy, At
    <3> QED
      BY <1>5, <2>1, <3>1 DEF Transcribe, TInv, TypeOK
  <2> QED
    BY <1>5, <2>1, <2>2, <2>3, <2>4, ProcTypes DEF Transcribe, TInv, TypeOK, ProcStates, bounds
<1>6. CASE WriteText(p)
  <2>1. proc[p].on \in Media /\ proc[p].heard \in Contents
    BY <1>0, <1>6 DEF WriteText, Placed, Busy, At
  <2>2. /\ proc' = [proc EXCEPT ![p] = proc'[p]] /\ proc'[p] \in ProcStates
        /\ proc'[p].pc \in {"next", "route", "mark"}
        /\ (proc'[p].pc # "next" => proc'[p].on = proc[p].on)
    <3>1. CASE proc' = [proc EXCEPT ![p] = NextFile(p)]
      BY <1>0, <1>4, <3>1
    <3>2. CASE proc' = [proc EXCEPT ![p].heard = None,
                         ![p].pc = IF proc[p].kind = "master" THEN "route" ELSE "mark"]
      <4> DEFINE pc == IF proc[p].kind = "master" THEN "route" ELSE "mark"
      <4>1. pc \in {"route", "mark"}
        OBVIOUS
      <4>2. proc' = [proc EXCEPT ![p].heard = None, ![p].pc = pc]
        BY <3>2
      <4> HIDE DEF pc
      <4> QED
        BY <1>0, <4>1, <4>2 DEF ProcStates
    <3> QED
      BY <1>6, <3>1, <3>2 DEF WriteText
  <2>3. /\ text' \in [Texts -> Contents \cup {None, Torn}]
        /\ origin' \in [Texts -> Media \cup {None}] /\ cut' \subseteq Texts
    BY <1>6, <2>1, ConstantsAssumption DEF WriteText, TornBy, TInv, TypeOK
  <2> QED
    BY <1>6, <2>1, <2>2, <2>3, ProcTypes DEF WriteText, TInv, TypeOK, ProcStates, bounds
<1>7. CASE Route(p)
  <2>1. proc[p].on \in Media
    BY <1>0, <1>7 DEF Route, Placed, Busy, At
  <2>2. /\ proc' = [proc EXCEPT ![p] = proc'[p]] /\ proc'[p] \in ProcStates
        /\ proc'[p].pc \in {"next", "mark"} /\ (proc'[p].pc = "mark" => proc'[p].on = proc[p].on)
    BY <1>0, <1>4, <1>7 DEF Route, ProcStates
  <2>3. retryable' \subseteq Media
    BY <1>7, <2>1 DEF Route, TInv, TypeOK
  <2> QED
    BY <1>7, <2>1, <2>2, <2>3, ProcTypes DEF Route, TInv, TypeOK, ProcStates, disk, texts, bounds
<1>8. CASE Mark(p)
  <2>1. proc[p].on \in Media
    BY <1>0, <1>8 DEF Mark, Placed, Busy, At
  <2>2. media[proc[p].on] # None => Marked(proc[p].mem, proc[p].on) \in Databases
    BY <1>0, <2>1, MarkedLemma DEF TInv, ProcStates
  <2>3. /\ proc' = [proc EXCEPT ![p] = proc'[p]] /\ proc'[p] \in ProcStates
        /\ proc'[p].pc \in {"next", "open"} /\ (proc'[p].pc = "open" => proc'[p].on = proc[p].on)
    BY <1>0, <1>4, <1>8, <2>2 DEF Mark, ProcStates
  <2> QED
    BY <1>8, <2>1, <2>3, ProcTypes DEF Mark, TInv, TypeOK, ProcStates, disk, texts, bounds, history
<1>9. CASE OpenFile(p)
  <2>1. /\ proc' = [proc EXCEPT ![p] = proc'[p]] /\ proc'[p] \in ProcStates
        /\ proc'[p].pc = "dump" /\ proc'[p].on = proc[p].on
    BY <1>0, <1>9 DEF OpenFile, ProcStates
  <2>2. proc[p].on \in Media \cup {None}
    BY <1>0 DEF ProcStates
  <2> QED
    BY <1>9, <2>1, <2>2, ProcTypes DEF OpenFile, TInv, TypeOK, ProcStates, texts, bounds, history
<1>10. CASE DumpFile(p)
  <2>1. proc[p].mem \in Databases
    BY <1>0 DEF ProcStates
  <2>2. /\ proc' = [proc EXCEPT ![p] = proc'[p]] /\ proc'[p] \in ProcStates
        /\ proc'[p].pc = "next"
    BY <1>0, <1>4, <1>10 DEF DumpFile
  <2>3. /\ file' \in Databases \cup {Torn} /\ saved' \in Databases
        /\ done' \subseteq Contents /\ forgotten' \in BOOLEAN
    BY <1>10, <2>1 DEF DumpFile, TInv, TypeOK, MarkedIn
  <2> QED
    BY <1>10, <2>2, <2>3, ProcTypes DEF DumpFile, TInv, TypeOK, ProcStates, texts, bounds
<1>11. CASE Finish(p)
  <2>1. /\ proc' = [proc EXCEPT ![p] = proc'[p]] /\ proc'[p] \in ProcStates
        /\ proc'[p].pc = "idle"
    BY <1>0, <1>11 DEF Finish
  <2> QED
    BY <1>11, <2>1, ProcTypes DEF Finish, TInv, TypeOK, ProcStates, disk, texts, bounds, history
<1>12. CASE Crash(p)
  <2>1. /\ proc' = [proc EXCEPT ![p] = proc'[p]] /\ proc'[p] \in ProcStates
        /\ proc'[p].pc = "idle"
    BY <1>0, <1>12 DEF Crash
  <2>2. crashes' \in 0 .. MaxCrashes
    BY <1>12, ConstantsAssumption DEF Crash, TInv, TypeOK
  <2>3. unsettled' \subseteq Media
    BY <1>0, <1>12 DEF Crash, TInv, TypeOK, ProcStates
  <2>4. text' \in [Texts -> Contents \cup {None, Torn}] /\ cut' \subseteq Texts
    <3>1. At(p, "write") => Transcript[proc[p].on] \in Texts
      BY <1>0, ConstantsAssumption DEF Placed, Busy, At
    <3> QED
      BY <1>12, <3>1 DEF Crash, TornBy, TInv, TypeOK
  <2> QED
    BY <1>12, <2>1, <2>2, <2>3, <2>4, ProcTypes DEF Crash, TInv, TypeOK, ProcStates
<1> QED
  BY <1>1, <1>2, <1>3, <1>5, <1>6, <1>7, <1>8, <1>9, <1>10, <1>11, <1>12 DEF Step

\* Users keep them.
LEMMA UserTypes ==
  ASSUME TInv, NEW m \in Media, Delete(m) \/ \E c \in Contents : Put(m, c)
  PROVE  TInv'
<1>1. ASSUME NEW c \in Contents, Put(m, c)
      PROVE  TInv'
  <2>1. media' \in [Media -> Contents \cup {None}]
    BY <1>1 DEF Put, TInv, TypeOK
  <2>2. puts' \in 0 .. MaxPuts
    BY <1>1, ConstantsAssumption DEF Put, TInv, TypeOK
  <2>3. replaced' \subseteq Contents /\ unsettled' \subseteq Media
    BY <1>1 DEF Put, Disturb, TInv, TypeOK
  <2> QED
    BY <1>1, <2>1, <2>2, <2>3 DEF Put, texts, TInv, TypeOK, Placed, Busy, At
<1>2. CASE Delete(m)
  <2>1. /\ media' \in [Media -> Contents \cup {None}]
        /\ text' \in [Texts -> Contents \cup {None, Torn}]
        /\ origin' \in [Texts -> Media \cup {None}] /\ cut' \subseteq Texts
    BY <1>2 DEF Delete, TInv, TypeOK
  <2>2. deletes' \in 0 .. MaxDeletes
    BY <1>2, ConstantsAssumption DEF Delete, TInv, TypeOK
  <2>3. file' \in Databases \cup {Torn} /\ saved' \in Databases
    BY <1>2, WithoutLemma DEF Delete, TInv, TypeOK
  <2>4. done' \subseteq Contents /\ unsettled' \subseteq Media
    BY <1>2 DEF Delete, TInv, TypeOK
  <2> QED
    BY <1>2, <2>1, <2>2, <2>3, <2>4 DEF Delete, TInv, TypeOK, Placed, Busy, At
<1> QED
  BY <1>1, <1>2

\* The types are inductive.
LEMMA TypeNext == TInv /\ [Next]_vars => TInv'
<1>1. TInv /\ UNCHANGED vars => TInv'
  BY DEF vars, disk, texts, bounds, history, TInv, TypeOK, Placed, Busy, At
<1> QED
  BY <1>1, StepTypes, UserTypes DEF Next

\* The scans and the users keep the types of the folders, the transcripts, the
\* database and the processes.
THEOREM TypeCorrect == Spec => []TypeOK
<1>1. TInv => TypeOK
  BY DEF TInv
<1> QED
  BY <1>1, TypeInit, TypeNext, PTL DEF Spec

-----------------------------------------------------------------------------
(* A scan does what is left to do, and only that.                          *)

\* A step of a process changes neither the media nor another process, and no
\* entry that was forgotten comes back.
LEMMA Frame ==
  ASSUME TInv, NEW p \in Processes, Step(p)
  PROVE  /\ media' = media /\ replaced' = replaced /\ unsettled \subseteq unsettled'
         /\ \A r \in Processes \ {p} : proc'[r] = proc[r]
         /\ forgotten => forgotten'
<1>1. proc \in [Processes -> ProcStates]
  BY DEF TInv, TypeOK, ProcStates
<1>2. ASSUME NEW kind \in {"master", "scan", "reprocess"}, Start(p, kind)
      PROVE  \E q : proc' = [proc EXCEPT ![p] = q]
  BY <1>2, Zenon DEF Start
<1>3. \A r \in Processes \ {p} : proc'[r] = proc[r]
  BY <1>1, <1>2
     DEF Step, Skip, Take, Transcribe, WriteText, Route, Mark, OpenFile, DumpFile, Finish, Crash
<1>4. ASSUME NEW kind \in {"master", "scan", "reprocess"}, Start(p, kind)
      PROVE  /\ media' = media /\ replaced' = replaced /\ unsettled \subseteq unsettled'
             /\ forgotten => forgotten'
  BY <1>4 DEF Start, disk, texts
<1>5. ASSUME NEW m \in Media, Skip(p, m) \/ Take(p, m)
      PROVE  /\ media' = media /\ replaced' = replaced /\ unsettled \subseteq unsettled'
             /\ forgotten => forgotten'
  BY <1>5 DEF Skip, Take, disk, texts, history
<1>6. CASE Transcribe(p) \/ WriteText(p) \/ Route(p) \/ Mark(p) \/ Finish(p)
  <2>1. media' = media /\ replaced' = replaced /\ unsettled \subseteq unsettled'
    BY <1>6 DEF Transcribe, WriteText, Route, Mark, Finish, disk, history
  <2>2. forgotten' = forgotten
    BY <1>6, Zenon DEF Transcribe, WriteText, Route, Mark, Finish, history
  <2> QED
    BY <1>3, <2>1, <2>2
<1>7. CASE OpenFile(p) \/ Crash(p)
  BY <1>3, <1>7 DEF OpenFile, Crash, disk, history
<1>8. CASE DumpFile(p)
  <2>1. media' = media /\ replaced' = replaced /\ unsettled' = unsettled
    BY <1>8 DEF DumpFile
  <2>2. forgotten => forgotten'
    BY <1>8, Zenon DEF DumpFile
  <2> QED
    BY <1>3, <2>1, <2>2
<1> QED
  BY <1>3, <1>4, <1>5, <1>6, <1>7, <1>8 DEF Step

\* Only a process that writes a transcript changes it, or what is known of it.
LEMMA Untouched ==
  ASSUME TInv, NEW p \in Processes, Step(p), NEW t \in Texts,
         At(p, "transcribe") \/ At(p, "write") => Transcript[proc[p].on] # t
  PROVE  /\ text'[t] = text[t] /\ origin'[t] = origin[t] /\ (t \in cut' <=> t \in cut)
         /\ Written(t) => Written(t)'
<1>0. /\ \A r \in Processes \ {p} : proc'[r] = proc[r]
      /\ proc \in [Processes -> ProcStates] /\ text \in [Texts -> Contents \cup {None, Torn}]
      /\ origin \in [Texts -> Media \cup {None}]
  BY Frame DEF TInv, TypeOK, ProcStates
<1>1. text'[t] = text[t] /\ origin'[t] = origin[t] /\ (t \in cut' <=> t \in cut)
  <2>1. CASE Transcribe(p)
    BY <1>0, <2>1 DEF Transcribe, At
  <2>2. CASE WriteText(p)
    BY <1>0, <2>2 DEF WriteText, TornBy, At
  <2>3. CASE Crash(p)
    BY <1>0, <2>3 DEF Crash, TornBy, At
  <2>4. CASE ~(Transcribe(p) \/ WriteText(p) \/ Crash(p))
    BY <2>4 DEF Step, Start, Skip, Take, Route, Mark, OpenFile, DumpFile, Finish, disk, texts, history
  <2> QED
    BY <2>1, <2>2, <2>3, <2>4
<1>2. \A r \in Processes : Writes(r, t) => r # p /\ Writes(r, t)'
  BY <1>0 DEF Writes, At
<1> QED
  BY <1>1, <1>2 DEF Written

\* What becomes of a transcript that is written: it is torn and still written,
\* the writer failed on it, or it is what the writer heard.
LEMMA Touched ==
  ASSUME TInv, NEW p \in Processes, Step(p), NEW t \in Texts,
         At(p, "transcribe") \/ At(p, "write"), Transcript[proc[p].on] = t
  PROVE  /\ t = Transcript[proc[p].on] /\ proc[p].on \in Media
         /\ \/ UNCHANGED texts /\ cut' = cut /\ ~At(p, "write")
            \/ /\ Written(t)' /\ UNCHANGED <<origin, cut>> /\ At(p, "transcribe")
               /\ text' = [text EXCEPT ![t] = Torn]
            \/ At(p, "write") /\ t \in cut' /\ text' = [text EXCEPT ![t] = Torn]
            \/ /\ WriteText(p) /\ text' = [text EXCEPT ![t] = proc[p].heard]
               /\ origin' = [origin EXCEPT ![t] = proc[p].on] /\ cut' = cut \ {t}
<1>0. /\ proc \in [Processes -> ProcStates] /\ text \in [Texts -> Contents \cup {None, Torn}]
      /\ Placed(p)
  BY DEF TInv, TypeOK, ProcStates
<1>1. proc[p].on \in Media
  BY <1>0 DEF Placed, Busy, At
<1>2. CASE Transcribe(p)
  <2>1. CASE text' = text
    BY <1>1, <1>2, <2>1 DEF Transcribe, texts, At
  <2>2. CASE /\ text' = [text EXCEPT ![t] = Torn]
             /\ proc' = [proc EXCEPT ![p].pc = "write", ![p].heard = media[proc[p].on]]
    BY <1>0, <1>1, <1>2, <2>2 DEF Transcribe, Written, Writes, At, ProcStates
  <2> QED
    BY <1>2, <2>1, <2>2 DEF Transcribe
<1>3. CASE WriteText(p)
  BY <1>1, <1>3 DEF WriteText, TornBy
<1>4. CASE Crash(p)
  BY <1>1, <1>4 DEF Crash, TornBy, texts
<1> QED
  BY <1>2, <1>3, <1>4
     DEF Step, Start, Skip, Take, Route, Mark, OpenFile, DumpFile, Finish, At

\* What a transcript is right about stays right: it is overwritten by the text of
\* the same bytes or taken for another file, and a stop or a failure is noted.
LEMMA FreshStays ==
  ASSUME TInv, \A r \in Processes : Busied(r), NEW p \in Processes, Step(p), NEW m \in Media
  PROVE  /\ Fresh(m) => Fresh(m)'
         /\ m \in retryable \ retryable' => Fresh(m)'
<1>0. /\ media' = media /\ unsettled \subseteq unsettled' /\ Busied(p)
      /\ text \in [Texts -> Contents \cup {None, Torn}] /\ origin \in [Texts -> Media \cup {None}]
  BY Frame DEF TInv, TypeOK
<1>1. PICK t \in Texts : t = Transcript[m]
  BY ConstantsAssumption
<1>6. /\ Fresh(m) <=> m \in unsettled \/ ~Own(m) \/ text[t] = media[m] \/ Written(t)
      /\ Fresh(m)' <=> m \in unsettled' \/ ~Own(m)' \/ text'[t] = media'[m] \/ Written(t)'
  BY <1>1 DEF Fresh, Written, Writes, At
<1>2. ASSUME At(p, "transcribe") \/ At(p, "write") => Transcript[proc[p].on] # t
      PROVE  Fresh(m) => Fresh(m)'
  <2>1. /\ text'[t] = text[t] /\ origin'[t] = origin[t] /\ (t \in cut' <=> t \in cut)
        /\ Written(t) => Written(t)'
    BY <1>2, Untouched
  <2> QED
    BY <1>0, <1>1, <1>6, <2>1 DEF Own
<1>3. ASSUME At(p, "transcribe") \/ At(p, "write"), Transcript[proc[p].on] = t
      PROVE  Fresh(m) => Fresh(m)'
  <2>1. CASE UNCHANGED texts /\ cut' = cut /\ ~At(p, "write")
    <3>1. \A r \in Processes : Writes(r, t) => Writes(r, t)'
      BY <1>0, <2>1, Frame DEF Writes, At
    <3>2. Written(t) => Written(t)'
      BY <2>1, <3>1 DEF Written, texts
    <3> QED
      BY <1>0, <1>1, <1>6, <2>1, <3>2 DEF Own, texts
  <2>2. CASE Written(t)' \/ t \in cut'
    BY <1>0, <1>1, <1>6, <2>2 DEF Own
  <2>3. CASE /\ WriteText(p) /\ text' = [text EXCEPT ![t] = proc[p].heard]
             /\ origin' = [origin EXCEPT ![t] = proc[p].on] /\ cut' = cut \ {t}
    <3>1. proc[p].on \in Media /\ (proc[p].on \in unsettled \/ proc[p].heard = media[proc[p].on])
      BY <1>0, <1>1, <1>3, <2>3, Touched DEF WriteText, Busied
    <3>2. CASE proc[p].on = m
      BY <1>0, <1>1, <2>3, <1>6, <3>1, <3>2
    <3>3. CASE proc[p].on # m
      <4>1. origin'[t] \notin {m, None}
        BY <1>0, <1>1, <2>3, <3>1, <3>3, ConstantsAssumption
      <4> QED
        BY <1>1, <1>6, <4>1 DEF Own
    <3> QED
      BY <3>2, <3>3
  <2> QED
    BY <1>1, <1>3, <2>1, <2>2, <2>3, Touched
<1>4. Fresh(m) => Fresh(m)'
  BY <1>2, <1>3
<1>5. ASSUME m \in retryable \ retryable'
      PROVE  Fresh(m)
  <2>1. Route(p)
    BY <1>5 DEF Step, Start, Skip, Take, Transcribe, WriteText, Mark, OpenFile, DumpFile, Finish, Crash,
                disk, history
  <2> QED
    BY <1>0, <1>5, <2>1 DEF Route, Busied, At
<1> QED
  BY <1>4, <1>5

\* What is right about the bytes under a name stays right.
LEMMA BackedStays ==
  ASSUME TInv, \A r \in Processes : Busied(r), NEW p \in Processes, Step(p),
         NEW n \in Media, NEW c, Backed(n, c)
  PROVE  Backed(n, c)'
BY Frame, FreshStays DEF Backed

\* So does what a database says of them.
LEMMA RightStays ==
  ASSUME TInv, \A r \in Processes : Busied(r), NEW p \in Processes, Step(p),
         NEW db \in Databases, Right(db)
  PROVE  Right(db)'
<1>1. replaced' = replaced
  BY Frame
<1>2. /\ \A c \in Contents : db.hash[c] # None => db.hash[c] \in Media
      /\ \A m \in Media : db.path[m] # None => db.path[m] \in Contents
  BY DEF Databases
<1> QED
  BY <1>1, <1>2, BackedStays DEF Right

\* Databases that are in use are databases.
LEMMA LiveLemma == ASSUME TInv PROVE Live \subseteq Databases
BY DEF TInv, TypeOK, Live, Running

\* A transcript is made of a file by the process that writes its metadata.
LEMMA MadeBy ==
  ASSUME TInv, NEW p \in Processes, Step(p), NEW m \in Media, Made(m)'
  PROVE  \/ Made(m)
         \/ WriteText(p) /\ proc[p].on = m /\ text'[Transcript[m]] = proc[p].heard
<1> DEFINE t == Transcript[m]
<1>0. /\ t \in Texts /\ text \in [Texts -> Contents \cup {None, Torn}]
      /\ origin \in [Texts -> Media \cup {None}]
  BY ConstantsAssumption DEF TInv, TypeOK
<1>1. CASE At(p, "transcribe") \/ At(p, "write") => Transcript[proc[p].on] # t
  BY <1>0, <1>1, Untouched DEF Made
<1>2. CASE (At(p, "transcribe") \/ At(p, "write")) /\ Transcript[proc[p].on] = t
  BY <1>0, <1>2, Touched DEF Made, texts
<1> QED
  BY <1>1, <1>2

\* A process transcribes what is there.
LEMMA OrphansStep ==
  ASSUME TInv, NoOrphans, \A r \in Processes : Busied(r), NEW p \in Processes, Step(p)
  PROVE  NoOrphans'
<1>1. media' = media /\ unsettled \subseteq unsettled' /\ Placed(p) /\ Busied(p)
  BY Frame DEF TInv
<1>2. ASSUME NEW m \in Media, Made(m)'
      PROVE  media[m] # None \/ m \in unsettled
  <2>1. CASE Made(m)
    BY <2>1 DEF NoOrphans
  <2>2. CASE WriteText(p) /\ proc[p].on = m
    <3>1. proc[p].heard # None
      BY <1>1, <2>2, ConstantsAssumption DEF WriteText, Placed
    <3> QED
      BY <1>1, <2>2, <3>1 DEF WriteText, Busied
  <2> QED
    BY <1>2, <2>1, <2>2, MadeBy
<1> QED
  BY <1>1, <1>2 DEF NoOrphans

\* The first to write a transcript leaves it torn, or writes its metadata.
LEMMA AuthoredStep ==
  ASSUME TInv, NEW p \in Processes, Step(p), NEW t \in Texts, Authored(t)
  PROVE  Authored(t)'
<1>0. /\ text \in [Texts -> Contents \cup {None, Torn}] /\ origin \in [Texts -> Media \cup {None}]
      /\ None \notin Media /\ Torn # None /\ (At(p, "write") => proc[p].heard # None)
  BY ConstantsAssumption DEF TInv, TypeOK, At
<1>1. CASE At(p, "transcribe") \/ At(p, "write") => Transcript[proc[p].on] # t
  BY <1>1, Untouched DEF Authored
<1>2. CASE (At(p, "transcribe") \/ At(p, "write")) /\ Transcript[proc[p].on] = t
  <2>1. CASE UNCHANGED texts /\ cut' = cut /\ ~At(p, "write")
    <3>1. \A r \in Processes : Writes(r, t) => Writes(r, t)'
      BY <2>1, Frame DEF Writes, At
    <3> QED
      BY <2>1, <3>1 DEF Authored, Written, texts
  <2>2. CASE (Written(t)' \/ t \in cut') /\ text' = [text EXCEPT ![t] = Torn]
    BY <1>0, <2>2 DEF Authored
  <2>3. CASE /\ WriteText(p) /\ text' = [text EXCEPT ![t] = proc[p].heard]
             /\ origin' = [origin EXCEPT ![t] = proc[p].on] /\ proc[p].on \in Media
    BY <1>0, <2>3 DEF Authored, WriteText
  <2> QED
    BY <1>2, <2>1, <2>2, <2>3, Touched
<1> QED
  BY <1>1, <1>2

\* What is not the transcript of a file, nor still to be made, is nothing to it.
LEMMA NotMade ==
  ASSUME NEW m \in Media, Authored(Transcript[m]), text[Transcript[m]] # None, ~Made(m)
  PROVE  Fresh(m)
BY DEF Authored, Made, Fresh, Own

\* A process that is busy with a name stays right about it.
LEMMA BusiedStep ==
  ASSUME TInv, \A r \in Processes : Busied(r), NEW p \in Processes, Step(p)
  PROVE  \A r \in Processes : Busied(r)'
<1>0. /\ media' = media /\ unsettled \subseteq unsettled'
      /\ \A r \in Processes \ {p} : proc'[r] = proc[r]
      /\ proc \in [Processes -> ProcStates] /\ proc[p] \in ProcStates /\ Placed(p) /\ Busied(p)
  BY Frame DEF TInv, TypeOK, ProcStates
<1>1. ASSUME NEW r \in Processes \ {p}
      PROVE  Busied(r)'
  <2>1. Busied(r) /\ proc'[r] = proc[r] /\ Placed(r)
    BY <1>0 DEF TInv
  <2>2. proc[r].pc \in {"route", "mark"} => proc[r].on \in Media
    BY <2>1 DEF Placed, Busy
  <2>3. proc[r].pc \in {"route", "mark"} => Fresh(proc[r].on)'
    BY <2>1, <2>2, FreshStays DEF Busied
  <2> QED
    BY <1>0, <2>1, <2>3 DEF Busied, At
<1>2. Busied(p)'
  <2>1. ASSUME NEW kind \in {"master", "scan", "reprocess"}, Start(p, kind)
        PROVE  proc'[p].pc \in {"next", "open"} /\ proc'[p].on = None
    <3>1. PICK mem, todo, seen :
            proc' = [proc EXCEPT ![p] = [Idle EXCEPT
                      !.pc = IF mem = Loaded THEN "next" ELSE "open", !.kind = kind, !.mem = mem,
                      !.todo = todo, !.seen = seen]]
      BY <2>1, Zenon DEF Start
    <3> QED
      BY <1>0, <3>1 DEF Idle
  <2>2. ASSUME NEW m \in Media, Skip(p, m)
        PROVE  /\ proc'[p].pc \in {"next", "open"}
               /\ proc'[p].pc = "open" => proc'[p].on = m /\ proc'[p].mem.path[m] # None
    <3>1. proc[p].mem \in Databases
      BY <1>0 DEF ProcStates
    <3>2. media[m] # None => Marked(proc[p].mem, m).path[m] # None
      BY <3>1, MarkedLemma DEF TInv
    <3> QED
      BY <1>0, <2>2, <3>2 DEF Skip, At, ProcStates
  <2>3. ASSUME NEW m \in Media, Take(p, m)
        PROVE  proc'[p].pc \in {"next", "transcribe"}
    BY <1>0, <2>3 DEF Take, At
  <2>4. NextFile(p).pc = "next"
    BY <1>0 DEF NextFile, ProcStates
  <2>5. CASE Transcribe(p)
    BY <1>0, <2>4, <2>5 DEF Transcribe, Busied, At, ProcStates
  <2>6. CASE WriteText(p)
    <3>1. proc[p].on \in Media
      BY <1>0, <2>6 DEF WriteText, Placed, Busy, At
    <3>2. CASE proc' = [proc EXCEPT ![p] = NextFile(p)]
      BY <1>0, <2>4, <3>2 DEF Busied, At
    <3>3. CASE /\ text' = [text EXCEPT ![Transcript[proc[p].on]] = proc[p].heard]
               /\ proc' = [proc EXCEPT ![p].heard = None,
                             ![p].pc = IF proc[p].kind = "master" THEN "route" ELSE "mark"]
      <4>1. proc'[p].pc \in {"route", "mark"} /\ proc'[p].on = proc[p].on
        BY <1>0, <3>3 DEF ProcStates
      <4>2. \/ text'[Transcript[proc[p].on]] = media'[proc[p].on]
            \/ proc[p].on \in unsettled'
        BY <1>0, <2>6, <3>1, <3>3, ConstantsAssumption DEF WriteText, Busied, TInv, TypeOK
      <4> QED
        BY <4>1, <4>2 DEF Busied, Fresh, At
    <3> QED
      BY <2>6, <3>2, <3>3 DEF WriteText
  <2>7. CASE Route(p)
    <3>1. proc[p].on \in Media /\ proc[p].pc = "route"
      BY <1>0, <2>7 DEF Route, Placed, Busy, At
    <3>2. PICK m \in Media : m = proc[p].on
      BY <3>1
    <3>3. Fresh(m)'
      BY <1>0, <3>1, <3>2, FreshStays DEF Busied
    <3>4. proc'[p].pc \in {"next", "mark"} /\ (proc'[p].pc = "mark" => proc'[p].on = m)
      BY <1>0, <2>4, <2>7, <3>2 DEF Route, ProcStates
    <3> QED
      BY <3>3, <3>4 DEF Busied, At
  <2>8. CASE Mark(p)
    <3>1. proc[p].on \in Media /\ proc[p].mem \in Databases
      BY <1>0, <2>8 DEF Mark, Placed, Busy, At, ProcStates
    <3>2. media[proc[p].on] # None => Marked(proc[p].mem, proc[p].on).path[proc[p].on] # None
      BY <3>1, MarkedLemma DEF TInv
    <3> QED
      BY <1>0, <2>4, <2>8, <3>2 DEF Mark, Busied, At, ProcStates
  <2>9. CASE OpenFile(p)
    BY <1>0, <2>9 DEF OpenFile, Busied, At, ProcStates
  <2>10. CASE DumpFile(p)
    BY <1>0, <2>4, <2>10 DEF DumpFile, Busied, At
  <2>11. CASE Finish(p) \/ Crash(p)
    BY <1>0, <2>11 DEF Finish, Crash, Idle, Busied, At
  <2> QED
    BY <2>1, <2>2, <2>3, <2>5, <2>6, <2>7, <2>8, <2>9, <2>10, <2>11 DEF Step, Busied, At
<1> QED
  BY <1>1, <1>2

CInv == TInv /\ NoOrphans /\ (\A t \in Texts : Authored(t)) /\ \A p \in Processes : Busied(p)

\* Steps that save nothing: what they write is fresh and about to be saved, what
\* they drop is excused, and what they mark is right.
LEMMA OrdinaryStep ==
  ASSUME CInv, Kept, NEW p \in Processes, Step(p),
         saved' = saved, done' = done, file' \in {file, Torn}, again' \subseteq unsettled',
         Remembers(p)',
         \A m \in Media : Made(m)' => Made(m) \/ (Saves(p, m)' /\ Fresh(m)'),
         \A m \in Media : Made(m)' /\ Saves(p, m) =>
           Saves(p, m)' \/ m \in unsettled' \cup retryable',
         \A m \in Media : m \in retryable \ retryable' => Saves(p, m)',
         p \in Running' => p \in Running,
         \A m \in Media : p \in Running' /\ proc[p].mem.path[m] # None => proc'[p].mem.path[m] # None,
         p \in Running' => proc'[p].mem \in Live \/ \A db : db = proc'[p].mem => Right(db)'
  PROVE  Kept'
<1>0. /\ media' = media /\ replaced' = replaced /\ unsettled \subseteq unsettled'
      /\ \A r \in Processes \ {p} : proc'[r] = proc[r]
      /\ TInv /\ \A r \in Processes : Busied(r)
  BY Frame DEF CInv
<1>1. file' # Torn => Within(file', saved')
  BY DEF Kept, Within
<1>2. done' \subseteq MarkedIn(saved')
  BY DEF Kept, MarkedIn
<1>3. ASSUME NEW r \in Processes
      PROVE  Remembers(r)'
  BY <1>0 DEF Kept, Remembers, MarkedIn, At
<1>4. ASSUME NEW m \in Media, Made(m)'
      PROVE  Saved(m)'
  <2>1. Saves(p, m)' => Saved(m)'
    BY DEF Saved
  <2>2. CASE Made(m)
    <3>1. Saved(m)
      BY <2>2 DEF Kept
    <3>2. m \in unsettled \/ saved.path[m] # None => Saved(m)'
      BY <1>0 DEF Saved
    <3>3. m \in retryable => Saved(m)'
      BY <2>1 DEF Saved
    <3>4. ASSUME NEW r \in Processes, Saves(r, m)
          PROVE  Saved(m)'
      <4>1. CASE r = p
        BY <1>4, <2>1, <3>4, <4>1 DEF Saved
      <4>2. CASE r # p
        BY <1>0, <3>4, <4>2 DEF Saved, Saves
      <4> QED
        BY <4>1, <4>2
    <3> QED
      BY <3>1, <3>2, <3>3, <3>4 DEF Saved
  <2> QED
    BY <1>4, <2>1, <2>2
<1>5. ASSUME NEW m \in Media, Made(m)'
      PROVE  Judged(m)'
  <2>1. Fresh(m)' => Judged(m)'
    BY DEF Judged
  <2>2. CASE Made(m)
    <3>1. Judged(m)
      BY <2>2 DEF Kept
    <3>2. m \in retryable \/ Fresh(m) => m \in retryable' \/ Fresh(m)'
      BY <1>0, FreshStays
    <3>3. ASSUME saved.path[m] # None, \A r \in Running : proc[r].mem.path[m] # None
          PROVE  saved'.path[m] # None /\ \A r \in Running' : proc'[r].mem.path[m] # None
      BY <1>0, <3>3 DEF Running
    <3> QED
      BY <3>1, <3>2, <3>3 DEF Judged
  <2> QED
    BY <1>5, <2>1, <2>2
<1>6. ASSUME NEW db \in Live'
      PROVE  Right(db)'
  <2>1. db \in Live => Right(db)'
    BY <1>0, LiveLemma, RightStays DEF Kept
  <2>2. db \in Live \/ (p \in Running' /\ db = proc'[p].mem)
    BY <1>0 DEF Live, Running
  <2> QED
    BY <2>1, <2>2
<1> QED
  BY <1>1, <1>2, <1>3, <1>4, <1>5, <1>6 DEF Kept

\* A database with an entry for bytes that are there and transcribed is right.
LEMMA MarkedRight ==
  ASSUME CInv, NEW p \in Processes, Step(p), NEW old \in Databases, Right(old),
         NEW m \in Media, media[m] # None, m \in retryable \/ Fresh(m),
         NEW db, db = Marked(old, m)
  PROVE  Right(db)'
<1>1. db \in Databases
  BY MarkedLemma DEF CInv, TInv
<1>2. Backed(m, media[m])
  BY DEF Backed
<1>3. Right(db)
  <2>1. \A c \in Contents \ replaced : db.hash[c] # None => Backed(db.hash[c], c)
    BY <1>2, MarkedLemma DEF CInv, TInv, Right
  <2>2. \A n \in Media : db.path[n] \notin replaced \cup {None} => Backed(n, db.path[n])
    BY <1>2, MarkedLemma DEF CInv, TInv, Right
  <2> QED
    BY <2>1, <2>2 DEF Right
<1> QED
  BY <1>1, <1>3, RightStays DEF CInv

\* A scan that skips a file knows it, or marks the transcript of its bytes.
LEMMA SkipKept ==
  ASSUME CInv, Kept, NEW p \in Processes, NEW m \in Media, Skip(p, m)
  PROVE  Kept'
<1>0. /\ proc \in [Processes -> ProcStates] /\ proc[p] \in ProcStates /\ proc[p].mem \in Databases
      /\ Step(p) /\ Remembers(p) /\ p \in Running /\ At(p, "next")
      /\ UNCHANGED <<media, texts, cut, file, saved, done, again, retryable, unsettled, replaced>>
  BY DEF CInv, TInv, TypeOK, ProcStates, Step, Skip, disk, texts, history, Kept, Running, At
<1>1. /\ again' \subseteq unsettled' /\ \A k \in Media : ~Saves(p, k)
      /\ \A k \in Media : Made(k)' => Made(k)
  BY <1>0 DEF Kept, Saves, At, Made, texts
<1>2. CASE proc' = [proc EXCEPT ![p].todo = @ \ {m}]
  <2>1. /\ proc'[p].mem = proc[p].mem /\ proc'[p].seen = proc[p].seen
        /\ proc'[p].pc = "next"
    BY <1>0, <1>2 DEF ProcStates, At
  <2>2. Remembers(p)'
    BY <1>0, <2>1 DEF Remembers, At, MarkedIn
  <2>3. proc'[p].mem \in Live
    BY <1>0, <2>1 DEF Live
  <2> QED
    BY <1>0, <1>1, <2>1, <2>2, <2>3, OrdinaryStep
<1>3. CASE /\ media[m] # None /\ TranscriptCounts(proc[p].mem, m)
           /\ proc' = [proc EXCEPT ![p].pc = "open", ![p].on = m, ![p].mem = Marked(@, m)]
  <2>1. /\ proc'[p].mem = Marked(proc[p].mem, m) /\ proc'[p].seen = proc[p].seen
        /\ proc'[p].pc = "open"
    BY <1>0, <1>3 DEF ProcStates
  <2>2. /\ \A c \in Contents : proc[p].mem.hash[c] # None => proc'[p].mem.hash[c] # None
        /\ \A k \in Media : proc[p].mem.path[k] # None => proc'[p].mem.path[k] # None
    BY <1>0, <1>3, <2>1, MarkedLemma, ConstantsAssumption DEF CInv, TInv
  <2>3. Remembers(p)'
    BY <1>0, <2>1, <2>2 DEF Remembers, At, MarkedIn
  <2>4. Right(proc[p].mem)
    BY <1>0 DEF Kept, Live
  <2>5. m \in retryable \/ Fresh(m)
    <3>1. /\ proc[p].mem.path[m] = None /\ text[Transcript[m]] # None
          /\ Authored(Transcript[m])
      BY <1>3, ConstantsAssumption DEF TranscriptCounts, CInv
    <3>2. Made(m) => Judged(m)
      BY DEF Kept
    <3> QED
      BY <1>0, <3>1, <3>2, NotMade DEF Judged
  <2>6. \A db : db = proc'[p].mem => Right(db)'
    BY <1>0, <1>3, <2>1, <2>4, <2>5, MarkedRight
  <2> QED
    BY <1>0, <1>1, <2>2, <2>3, <2>6, OrdinaryStep
<1> QED
  BY <1>2, <1>3 DEF Skip

\* A scan transcribes what it does not know.
LEMMA TakeKept ==
  ASSUME CInv, Kept, NEW p \in Processes, NEW m \in Media, Take(p, m)
  PROVE  Kept'
<1>0. /\ proc \in [Processes -> ProcStates] /\ proc[p] \in ProcStates
      /\ Step(p) /\ Remembers(p) /\ p \in Running /\ At(p, "next")
      /\ UNCHANGED <<media, texts, cut, file, saved, done, again, retryable, unsettled, replaced>>
  BY DEF CInv, TInv, TypeOK, ProcStates, Step, Take, disk, texts, history, Kept, Running, At
<1>1. /\ again' \subseteq unsettled' /\ \A k \in Media : ~Saves(p, k)
      /\ \A k \in Media : Made(k)' => Made(k)
  BY <1>0 DEF Kept, Saves, At, Made, texts
<1>2. /\ proc'[p].mem = proc[p].mem /\ proc'[p].seen = proc[p].seen /\ proc'[p].kind = proc[p].kind
      /\ proc'[p].pc \in {"next", "transcribe"}
      /\ proc'[p].pc = "transcribe" => proc'[p].on = m /\ media[m] # None
  BY <1>0 DEF Take, ProcStates, At
<1>3. proc'[p].pc = "transcribe" /\ proc'[p].kind # "reprocess" => media[m] \notin proc[p].seen
  <2>1. proc'[p].pc = "transcribe" /\ proc'[p].kind # "reprocess" => ~Known(proc[p].mem, m)
    BY <1>2 DEF Take
  <2> QED
    BY <1>0, <2>1 DEF Known, Remembers, MarkedIn
<1>4. Remembers(p)'
  BY <1>0, <1>2, <1>3 DEF Remembers, At, MarkedIn
<1>5. proc'[p].mem \in Live
  BY <1>0, <1>2 DEF Live
<1> QED
  BY <1>0, <1>1, <1>2, <1>4, <1>5, OrdinaryStep

\* What it transcribes it did not see marked, and it is about to save that.
LEMMA TranscribeKept ==
  ASSUME CInv, Kept, NEW p \in Processes, Transcribe(p)
  PROVE  Kept'
<1>0. /\ proc \in [Processes -> ProcStates] /\ proc[p] \in ProcStates
      /\ Step(p) /\ Remembers(p) /\ Placed(p) /\ p \in Running /\ At(p, "transcribe")
      /\ UNCHANGED <<media, origin, cut, file, saved, done, retryable, replaced>>
      /\ unsettled \subseteq unsettled'
  BY DEF CInv, TInv, TypeOK, ProcStates, Step, Transcribe, Kept, Running, At
<1>1. \A k \in Media : ~Saves(p, k) /\ (Made(k)' => Made(k))
  BY <1>0 DEF Saves, Made, At
<1>2. CASE proc' = [proc EXCEPT ![p] = NextFile(p)] /\ UNCHANGED again
  <2>1. /\ proc'[p].mem = proc[p].mem /\ proc'[p].seen = proc[p].seen
        /\ proc'[p].pc = "next"
    BY <1>0, <1>2 DEF ProcStates, NextFile
  <2>2. Remembers(p)' /\ proc'[p].mem \in Live /\ again' \subseteq unsettled'
    BY <1>0, <1>2, <2>1 DEF Remembers, At, MarkedIn, Live, Kept
  <2> QED
    BY <1>0, <1>1, <1>2, <2>1, <2>2, OrdinaryStep
<1>3. CASE /\ proc' = [proc EXCEPT ![p].pc = "write", ![p].heard = media[proc[p].on]]
           /\ again' = IF media[proc[p].on] \in proc[p].seen /\ proc[p].kind # "reprocess"
                       THEN again \cup {proc[p].on} ELSE again
  <2>1. /\ proc'[p].mem = proc[p].mem /\ proc'[p].seen = proc[p].seen
        /\ proc'[p].pc = "write" /\ proc'[p].on = proc[p].on /\ proc[p].on \in Media
    BY <1>0, <1>3 DEF ProcStates, Placed, Busy, At
  <2>2. Remembers(p)' /\ proc'[p].mem \in Live
    BY <1>0, <2>1 DEF Remembers, At, MarkedIn, Live
  <2>3. again' \subseteq unsettled'
    BY <1>0, <1>3 DEF Remembers, Kept
  <2> QED
    BY <1>0, <1>1, <2>1, <2>2, <2>3, OrdinaryStep
<1> QED
  BY <1>2, <1>3 DEF Transcribe

\* A text is written under the name it is about to be saved for.
LEMMA WriteTextKept ==
  ASSUME CInv, Kept, NEW p \in Processes, WriteText(p)
  PROVE  Kept'
<1>0. /\ proc \in [Processes -> ProcStates] /\ proc[p] \in ProcStates
      /\ Step(p) /\ Remembers(p) /\ Placed(p) /\ Busied(p) /\ p \in Running /\ At(p, "write")
      /\ UNCHANGED <<media, file, saved, done, again, retryable, unsettled, replaced>>
      /\ text \in [Texts -> Contents \cup {None, Torn}] /\ (\A r \in Processes : Busied(r)') /\ TInv
  BY BusiedStep DEF CInv, TInv, TypeOK, ProcStates, Step, WriteText, Kept, Running, At
<1>1. /\ proc'[p].mem = proc[p].mem /\ proc'[p].seen = proc[p].seen
      /\ proc'[p].pc \in {"next", "route", "mark"} /\ proc[p].on \in Media
      /\ proc'[p].pc # "next" => proc'[p].on = proc[p].on
      /\ proc'[p].pc = "next" => Transcript[proc[p].on] \in cut'
  <2>1. proc[p].on \in Media
    BY <1>0 DEF Placed, Busy, At
  <2>2. CASE proc' = [proc EXCEPT ![p] = NextFile(p)] /\ TornBy(proc[p].on)
    BY <1>0, <2>1, <2>2 DEF NextFile, ProcStates, TornBy
  <2>3. CASE proc' = [proc EXCEPT ![p].heard = None,
                       ![p].pc = IF proc[p].kind = "master" THEN "route" ELSE "mark"]
    BY <1>0, <2>1, <2>3 DEF ProcStates
  <2> QED
    BY <2>2, <2>3 DEF WriteText
<1>2. Remembers(p)' /\ proc'[p].mem \in Live /\ again' \subseteq unsettled'
  BY <1>0, <1>1 DEF Remembers, At, MarkedIn, Live, Kept
<1>3. \A m \in Media : Made(m)' => Made(m) \/ (Saves(p, m)' /\ Fresh(m)')
  <2>1. SUFFICES ASSUME NEW m \in Media, Made(m)', ~Made(m)
                 PROVE  Saves(p, m)' /\ Fresh(m)'
    OBVIOUS
  <2>2. proc[p].on = m /\ Transcript[m] \notin cut'
    <3>1. Transcript[m] \notin cut'
      BY <2>1 DEF Made
    <3> QED
      BY <1>0, <2>1, <3>1, MadeBy
  <2>3. proc'[p].pc \in {"route", "mark"} /\ proc'[p].on = m
    BY <1>1, <2>2
  <2>4. Busied(p)'
    BY <1>0
  <2> QED
    BY <2>3, <2>4 DEF Saves, Busied
<1>4. \A m \in Media : ~Saves(p, m)
  BY <1>0 DEF Saves, At
<1> QED
  BY <1>0, <1>1, <1>2, <1>3, <1>4, OrdinaryStep

\* A handler's error excuses its file until a handler is done with it.
LEMMA RouteKept ==
  ASSUME CInv, Kept, NEW p \in Processes, Route(p)
  PROVE  Kept'
<1>0. /\ proc \in [Processes -> ProcStates] /\ proc[p] \in ProcStates
      /\ Step(p) /\ Remembers(p) /\ Placed(p) /\ p \in Running /\ At(p, "route")
      /\ UNCHANGED <<media, texts, cut, file, saved, done, again, unsettled, replaced>>
  BY DEF CInv, TInv, TypeOK, ProcStates, Step, Route, disk, texts, Kept, Running, At
<1>5. \A m \in Media : Made(m)' => Made(m)
  BY <1>0 DEF Made, texts
<1>1. /\ proc'[p].mem = proc[p].mem /\ proc'[p].seen = proc[p].seen
      /\ proc'[p].pc \in {"next", "mark"} /\ proc[p].on \in Media
      /\ proc'[p].pc = "mark" => proc'[p].on = proc[p].on /\ retryable' = retryable \ {proc[p].on}
      /\ proc'[p].pc = "next" => retryable' = retryable \cup {proc[p].on}
  <2>1. proc[p].on \in Media
    BY <1>0 DEF Placed, Busy, At
  <2>2. CASE proc' = [proc EXCEPT ![p].pc = "mark"] /\ retryable' = retryable \ {proc[p].on}
    BY <1>0, <2>1, <2>2 DEF ProcStates
  <2>3. CASE proc' = [proc EXCEPT ![p] = NextFile(p)] /\ retryable' = retryable \cup {proc[p].on}
    BY <1>0, <2>1, <2>3 DEF NextFile, ProcStates
  <2> QED
    BY <2>2, <2>3 DEF Route
<1>2. Remembers(p)' /\ proc'[p].mem \in Live /\ again' \subseteq unsettled'
  BY <1>0, <1>1 DEF Remembers, At, MarkedIn, Live, Kept
<1>3. \A m \in Media : Saves(p, m) => Saves(p, m)' \/ m \in retryable'
  BY <1>1 DEF Saves
<1>4. \A m \in Media : m \in retryable \ retryable' => Saves(p, m)'
  BY <1>1 DEF Saves
<1> QED
  BY <1>0, <1>5, <1>1, <1>2, <1>3, <1>4, OrdinaryStep

\* A file is marked with the bytes that were transcribed.
LEMMA MarkKept ==
  ASSUME CInv, Kept, NEW p \in Processes, Mark(p)
  PROVE  Kept'
<1>0. /\ proc \in [Processes -> ProcStates] /\ proc[p] \in ProcStates /\ proc[p].mem \in Databases
      /\ Step(p) /\ Remembers(p) /\ Placed(p) /\ Busied(p) /\ p \in Running /\ At(p, "mark")
      /\ UNCHANGED <<media, texts, cut, file, saved, done, again, retryable, unsettled, replaced>>
      /\ proc[p].on \in Media
  BY DEF CInv, TInv, TypeOK, ProcStates, Step, Mark, disk, texts, history, Kept, Running, At, Placed, Busy
<1>5. \A m \in Media : Made(m)' => Made(m)
  BY <1>0 DEF Made, texts
<1>1. again' \subseteq unsettled'
  BY <1>0 DEF Kept
<1>2. CASE media[proc[p].on] = None /\ proc' = [proc EXCEPT ![p] = NextFile(p)]
  <2>1. /\ proc'[p].mem = proc[p].mem /\ proc'[p].seen = proc[p].seen
        /\ proc'[p].pc = "next"
    BY <1>0, <1>2 DEF ProcStates, NextFile
  <2>2. Remembers(p)' /\ proc'[p].mem \in Live
    BY <1>0, <2>1 DEF Remembers, At, MarkedIn, Live
  <2>3. \A m \in Media : Made(m)' /\ Saves(p, m) => m \in unsettled'
    BY <1>0, <1>2, <1>5 DEF CInv, NoOrphans, Saves
  <2> QED
    BY <1>0, <1>1, <1>5, <2>1, <2>2, <2>3, OrdinaryStep
<1>3. CASE /\ media[proc[p].on] # None
           /\ proc' = [proc EXCEPT ![p].pc = "open", ![p].mem = Marked(@, proc[p].on)]
  <2>1. /\ proc'[p].mem = Marked(proc[p].mem, proc[p].on) /\ proc'[p].seen = proc[p].seen
        /\ proc'[p].pc = "open" /\ proc'[p].on = proc[p].on
    BY <1>0, <1>3 DEF ProcStates
  <2>2. /\ \A c \in Contents : proc[p].mem.hash[c] # None => proc'[p].mem.hash[c] # None
        /\ \A k \in Media : proc[p].mem.path[k] # None => proc'[p].mem.path[k] # None
    BY <1>0, <1>3, <2>1, MarkedLemma, ConstantsAssumption DEF CInv, TInv
  <2>3. Remembers(p)'
    BY <1>0, <2>1, <2>2 DEF Remembers, At, MarkedIn
  <2>4. Right(proc[p].mem)
    BY <1>0 DEF Kept, Live
  <2>5. Fresh(proc[p].on)
    BY <1>0 DEF Busied, At
  <2>6. \A db : db = proc'[p].mem => Right(db)'
    BY <1>0, <1>3, <2>1, <2>4, <2>5, MarkedRight
  <2>7. \A m \in Media : Saves(p, m) => Saves(p, m)'
    BY <2>1 DEF Saves
  <2> QED
    BY <1>0, <1>1, <1>5, <2>2, <2>3, <2>6, <2>7, OrdinaryStep
<1> QED
  BY <1>2, <1>3 DEF Mark

\* A process that opens the file has not saved anything yet.
LEMMA OpenKept ==
  ASSUME CInv, Kept, NEW p \in Processes, OpenFile(p)
  PROVE  Kept'
<1>0. /\ proc \in [Processes -> ProcStates] /\ proc[p] \in ProcStates
      /\ Step(p) /\ Remembers(p) /\ p \in Running
      /\ file' = Torn
      /\ UNCHANGED <<media, texts, cut, saved, done, again, retryable, unsettled, replaced>>
  BY DEF CInv, TInv, TypeOK, ProcStates, Step, OpenFile, history, Kept, Running, At
<1>5. \A m \in Media : Made(m)' => Made(m)
  BY <1>0 DEF Made, texts
<1>1. /\ proc'[p].mem = proc[p].mem /\ proc'[p].seen = proc[p].seen
      /\ proc'[p].pc = "dump" /\ proc'[p].on = proc[p].on
  BY <1>0 DEF OpenFile, ProcStates
<1>2. Remembers(p)' /\ proc'[p].mem \in Live /\ again' \subseteq unsettled'
  BY <1>0, <1>1 DEF Remembers, At, MarkedIn, Live, Kept
<1>3. \A m \in Media : Saves(p, m) => Saves(p, m)'
  BY <1>1 DEF Saves
<1> QED
  BY <1>0, <1>5, <1>1, <1>2, <1>3, OrdinaryStep

\* A process that finishes saves nothing more, a stop on a name is noted.
LEMMA StopKept ==
  ASSUME CInv, Kept, NEW p \in Processes, Finish(p) \/ Crash(p)
  PROVE  Kept'
<1>0. /\ proc \in [Processes -> ProcStates] /\ proc[p] \in ProcStates
      /\ Step(p) /\ unsettled \subseteq unsettled'
      /\ proc' = [proc EXCEPT ![p] = Idle]
      /\ UNCHANGED <<media, origin, file, saved, done, again, retryable, replaced>>
      /\ cut \subseteq cut'
  BY DEF CInv, TInv, TypeOK, ProcStates, Step, Finish, Crash, TornBy, disk, texts, history
<1>1. p \notin Running' /\ again' \subseteq unsettled'
  BY <1>0 DEF Running, Idle, Kept
<1>3. Remembers(p)'
  BY <1>0 DEF Idle, Remembers, At
<1>2. \A m \in Media : Saves(p, m) => m \in unsettled'
  BY ConstantsAssumption DEF Saves, Finish, Crash, At
<1>4. \A m \in Media : Made(m)' => Made(m)
  BY <1>0 DEF Made
<1> QED
  BY <1>0, <1>1, <1>2, <1>3, <1>4, OrdinaryStep

\* A scan starts from what the file was last left with, less what is gone.
LEMMA StartKept ==
  ASSUME CInv, Kept, NEW p \in Processes,
         NEW kind \in {"master", "scan", "reprocess"}, Start(p, kind), ~forgotten'
  PROVE  Kept'
<1>0. /\ proc \in [Processes -> ProcStates] /\ proc[p].pc = "idle" /\ Step(p)
      /\ UNCHANGED <<media, texts, cut, file, again, retryable, unsettled, replaced>>
      /\ TInv /\ \A r \in Processes : Busied(r)
      /\ \A r \in Processes \ {p} : proc'[r] = proc[r]
  BY Frame DEF CInv, TInv, TypeOK, ProcStates, Step, Start, disk, texts, At
<1>1. file # Torn /\ file \in Databases /\ Loaded = file /\ file \in Live
  BY DEF Start, Loaded, CInv, TInv, TypeOK, Live
<1>2a. PICK mem \in Cleaned(Loaded) \cup {Loaded} : \E todo :
        /\ done' = done \ (MarkedIn(Loaded) \ MarkedIn(mem))
        /\ saved' = IF mem = Loaded THEN saved ELSE mem
        /\ proc' = [proc EXCEPT ![p] = [Idle EXCEPT
                      !.pc = IF mem = Loaded THEN "next" ELSE "open", !.kind = kind, !.mem = mem,
                      !.todo = todo, !.seen = done']]
  <2>1. CASE kind = "scan"
    BY <2>1, Zenon DEF Start
  <2>2. CASE kind # "scan"
    BY <2>2, Zenon DEF Start
  <2> QED
    BY <2>1, <2>2
<1>2. PICK todo :
        /\ done' = done \ (MarkedIn(Loaded) \ MarkedIn(mem))
        /\ saved' = IF mem = Loaded THEN saved ELSE mem
        /\ proc' = [proc EXCEPT ![p] = [Idle EXCEPT
                      !.pc = IF mem = Loaded THEN "next" ELSE "open", !.kind = kind, !.mem = mem,
                      !.todo = todo, !.seen = done']]
  BY <1>2a
<1>3. mem \in Databases /\ Within(file, mem) /\ \A m \in Media : media[m] # None => mem.path[m] = file.path[m]
  <2>1. CASE mem = file
    BY <1>1, <2>1 DEF Within, Databases
  <2>2. CASE mem \in Cleaned(Loaded)
    BY <1>1, <2>2, CleanedLemma DEF CInv, TInv
  <2> QED
    BY <1>1, <1>2, <2>1, <2>2
<1>4. /\ proc'[p].mem = mem /\ proc'[p].seen = done' /\ proc'[p].on = None
      /\ proc'[p].pc \in {"next", "open"}
  <2> DEFINE pc == IF mem = Loaded THEN "next" ELSE "open"
  <2>1. pc \in {"next", "open"}
    OBVIOUS
  <2>2. proc' = [proc EXCEPT ![p] = [Idle EXCEPT !.pc = pc, !.kind = kind, !.mem = mem,
                                              !.todo = todo, !.seen = done']]
    BY <1>2
  <2> HIDE DEF pc
  <2> QED
    BY <1>0, <2>1, <2>2 DEF Idle
<1>5. Within(file, saved) /\ done \subseteq MarkedIn(saved) /\ MarkedIn(saved) \subseteq MarkedIn(file)
  BY <1>1 DEF Kept, Within, MarkedIn
<1>6. file' # Torn => Within(file', saved')
  BY <1>0, <1>1, <1>2, <1>3, <1>5
<1>7. done' \subseteq MarkedIn(mem) /\ done' \subseteq MarkedIn(saved')
  BY <1>1, <1>2, <1>5
<1>8. \A r \in Processes : Remembers(r)'
  <2>1. Remembers(p)'
    BY <1>4, <1>7 DEF Remembers, At, MarkedIn
  <2>2. \A r \in Processes \ {p} : Remembers(r)'
    BY <1>0 DEF Kept, Remembers, At, MarkedIn
  <2> QED
    BY <2>1, <2>2
<1>9. \A m \in Media \ unsettled :
        Made(m) /\ saved.path[m] # None => saved'.path[m] # None /\ mem.path[m] # None
  BY <1>1, <1>2, <1>3, <1>5 DEF CInv, NoOrphans, Within
<1>10. ASSUME NEW m \in Media, Made(m)'
       PROVE  Saved(m)'
  <2>1. Saved(m) /\ Made(m)
    BY <1>0, <1>10 DEF Kept, Made, texts
  <2>2. \A r \in Processes : Saves(r, m) => Saves(r, m)'
    BY <1>0 DEF Saves
  <2> QED
    BY <1>0, <1>9, <2>1, <2>2 DEF Saved
<1>11. ASSUME NEW m \in Media, Made(m)'
       PROVE  Judged(m)'
  <2>1. Judged(m) /\ Made(m)
    BY <1>0, <1>11 DEF Kept, Made, texts
  <2>2. Fresh(m) => Fresh(m)'
    BY <1>0, FreshStays
  <2>3. m \in unsettled => Fresh(m)'
    BY <1>0 DEF Fresh
  <2>4. ASSUME m \notin unsettled, saved.path[m] # None, \A r \in Running : proc[r].mem.path[m] # None
        PROVE  saved'.path[m] # None /\ \A r \in Running' : proc'[r].mem.path[m] # None
    BY <1>0, <1>4, <1>9, <2>1, <2>4 DEF Running
  <2> QED
    BY <1>0, <2>1, <2>2, <2>3, <2>4 DEF Judged
<1>12. ASSUME NEW db \in Live'
       PROVE  Right(db)'
  <2>1. db \in Live => Right(db)'
    BY <1>0, LiveLemma, RightStays DEF Kept
  <2>2. Right(mem)
    <3>1. Right(file)
      BY <1>1 DEF Kept
    <3>2. /\ \A c \in Contents : mem.hash[c] \in {None, file.hash[c]}
          /\ \A m \in Media : mem.path[m] \in {None, file.path[m]}
      BY <1>3 DEF Within
    <3> QED
      BY <3>1, <3>2 DEF Right
  <2>3. db = mem => Right(db)'
    BY <1>0, <1>3, <2>2, RightStays
  <2>4. db \in Live \/ db = mem
    BY <1>0, <1>4 DEF Live, Running
  <2> QED
    BY <2>1, <2>3, <2>4
<1>13. again' \subseteq unsettled'
  BY <1>0 DEF Kept
<1> QED
  BY <1>6, <1>7, <1>8, <1>10, <1>11, <1>12, <1>13 DEF Kept

\* What is saved is all that was, and the name it is saved for.
LEMMA DumpKept ==
  ASSUME CInv, Kept, NEW p \in Processes, DumpFile(p), ~forgotten'
  PROVE  Kept'
<1>0. /\ proc \in [Processes -> ProcStates] /\ proc[p] \in ProcStates /\ Step(p)
      /\ proc[p].mem \in Databases /\ p \in Running
      /\ UNCHANGED <<media, texts, cut, again, retryable, unsettled, replaced>>
      /\ TInv /\ \A r \in Processes : Busied(r)
      /\ \A r \in Processes \ {p} : proc'[r] = proc[r]
      /\ At(p, "dump") /\ Placed(p) /\ Busied(p)
  BY Frame DEF CInv, TInv, TypeOK, ProcStates, Step, DumpFile, At, Running
<1>1. file' # Torn /\ ~Forgets(proc[p].mem, saved)
  BY Zenon DEF DumpFile
<1>2. file' = proc[p].mem /\ saved' = proc[p].mem /\ done' = done \cup MarkedIn(proc[p].mem)
  BY <1>1 DEF DumpFile
<1>3. /\ proc'[p].mem = proc[p].mem /\ proc'[p].seen = proc[p].seen /\ proc'[p].pc = "next"
  BY <1>0 DEF DumpFile, NextFile, ProcStates
<1>4. /\ \A m \in Media : saved.path[m] # None => saved'.path[m] # None
      /\ \A c \in Contents : saved.hash[c] # None => saved'.hash[c] # None
  BY <1>1, <1>2 DEF Forgets
<1>5. Within(file', saved')
  BY <1>0, <1>2 DEF Within, Databases
<1>6. done' \subseteq MarkedIn(saved')
  BY <1>2, <1>4 DEF Kept, MarkedIn
<1>7. \A r \in Processes : Remembers(r)'
  <2>1. Remembers(p)'
    BY <1>0, <1>3 DEF Kept, Remembers, At, MarkedIn
  <2>2. \A r \in Processes \ {p} : Remembers(r)'
    BY <1>0 DEF Kept, Remembers, At, MarkedIn
  <2> QED
    BY <2>1, <2>2
<1>8. ASSUME NEW m \in Media, Made(m)'
      PROVE  Saved(m)'
  <2>1. Saved(m)
    BY <1>0, <1>8 DEF Kept, Made, texts
  <2>2. Saves(p, m) => saved'.path[m] # None
    BY <1>0, <1>2, ConstantsAssumption DEF Saves, Busied, At
  <2>3. \A r \in Processes \ {p} : Saves(r, m) => Saves(r, m)'
    BY <1>0 DEF Saves
  <2> QED
    BY <1>0, <1>4, <2>1, <2>2, <2>3 DEF Saved
<1>9. ASSUME NEW m \in Media, Made(m)'
      PROVE  Judged(m)'
  <2>1. Judged(m)
    BY <1>0, <1>9 DEF Kept, Made, texts
  <2>2. Fresh(m) => Fresh(m)'
    BY <1>0, FreshStays
  <2>3. ASSUME saved.path[m] # None, \A r \in Running : proc[r].mem.path[m] # None
        PROVE  saved'.path[m] # None /\ \A r \in Running' : proc'[r].mem.path[m] # None
    BY <1>0, <1>3, <1>4, <2>3 DEF Running
  <2> QED
    BY <1>0, <2>1, <2>2, <2>3 DEF Judged
<1>10. ASSUME NEW db \in Live'
       PROVE  Right(db)'
  <2>1. db \in Live
    BY <1>0, <1>2, <1>3 DEF Live, Running
  <2> QED
    BY <1>0, <2>1, LiveLemma, RightStays DEF Kept
<1>11. again' \subseteq unsettled'
  BY <1>0 DEF Kept
<1> QED
  BY <1>5, <1>6, <1>7, <1>8, <1>9, <1>10, <1>11 DEF Kept

\* Whatever process makes the step.
LEMMA ProcessKept ==
  ASSUME CInv, Kept, NEW p \in Processes, Step(p), ~forgotten'
  PROVE  Kept'
BY SkipKept, TakeKept, TranscribeKept, WriteTextKept, RouteKept, MarkKept, OpenKept, StopKept,
   StartKept, DumpKept DEF Step

-----------------------------------------------------------------------------
(* Users.                                                                  *)

\* The bytes a user replaces are noted as replaced, and a name that changes while
\* a process runs as unsettled.
LEMMA PutStep ==
  ASSUME IInv, NEW m \in Media, NEW c \in Contents, Put(m, c)
  PROVE  IInv'
<1>0. /\ TInv /\ TInv' /\ NoOrphans /\ \A r \in Processes : Busied(r)
      /\ UNCHANGED <<text, origin, cut, file, proc, saved, done, again, retryable, forgotten>>
      /\ unsettled \subseteq unsettled' /\ replaced \subseteq replaced'
      /\ \A k \in Media \ {m} : media'[k] = media[k]
      /\ media'[m] # None /\ (media[m] # None => media[m] \in replaced')
  BY UserTypes, ConstantsAssumption DEF IInv, Put, Disturb, texts, TInv, TypeOK
<1>1. ASSUME NEW k \in Media, k # m \/ Running # {}, Fresh(k)
      PROVE  Fresh(k)'
  BY <1>0, <1>1 DEF Fresh, Own, Written, Writes, At, Put, Disturb
<1>2. Running # {} => m \in unsettled'
  BY DEF Put, Disturb
<1>3. NoOrphans' /\ \A t \in Texts : Authored(t)'
  BY <1>0 DEF IInv, NoOrphans, Made, Authored, Written, Writes, At
<1>4. ASSUME NEW r \in Processes
      PROVE  Busied(r)'
  <2>1. Busied(r) /\ Placed(r) /\ proc'[r] = proc[r] /\ (Busy(r) => r \in Running)
    BY <1>0 DEF TInv, Busy, Running
  <2>2. At(r, "write") => proc[r].on \in unsettled' \/ proc[r].heard = media'[proc[r].on]
    BY <1>0, <1>2, <2>1 DEF Busied, Placed, Busy, At
  <2>3. proc[r].pc \in {"route", "mark"} => Fresh(proc[r].on)'
    <3>1. SUFFICES ASSUME proc[r].pc \in {"route", "mark"} PROVE Fresh(proc[r].on)'
      OBVIOUS
    <3>2. PICK k \in Media : k = proc[r].on
      BY <2>1, <3>1 DEF Placed, Busy
    <3>3. Fresh(k)'
      BY <1>1, <2>1, <3>1, <3>2 DEF Busied, Busy
    <3> QED
      BY <2>1, <3>2, <3>3
  <2> QED
    BY <2>1, <2>2, <2>3 DEF Busied, At
<1>5. ASSUME Kept
      PROVE  Kept'
  <2>1. ASSUME NEW k \in Media, Made(k)'
        PROVE  Saved(k)'
    BY <1>0, <1>5, <2>1 DEF Kept, Made, Saved, Saves
  <2>2. ASSUME NEW k \in Media, Made(k)'
        PROVE  Judged(k)'
    <3>1. Saved(k) /\ Judged(k)
      BY <1>0, <1>5, <2>2 DEF Kept, Made
    <3>2. CASE k # m \/ Running # {}
      BY <1>0, <1>1, <3>1, <3>2 DEF Judged, Running
    <3>3. CASE Running = {}
      <4>1. \A r \in Processes : ~Saves(r, k)
        BY <3>3 DEF Saves, Running
      <4>2. k \in unsettled' => Fresh(k)'
        BY DEF Fresh
      <4>3. Running' = {}
        BY <1>0, <3>3 DEF Running
      <4> QED
        BY <1>0, <3>1, <4>1, <4>2, <4>3 DEF Saved, Judged
    <3> QED
      BY <3>2, <3>3
  <2>3. ASSUME NEW n \in Media, NEW b \in Contents \ replaced', Backed(n, b)
        PROVE  Backed(n, b)'
    <3>1. n = m => n \in unsettled'
      BY <1>0, <2>3, ConstantsAssumption DEF Backed
    <3>2. n \in unsettled' => Fresh(n)'
      BY DEF Fresh
    <3> QED
      BY <1>0, <1>1, <2>3, <3>1, <3>2 DEF Backed
  <2>4. ASSUME NEW db \in Live'
        PROVE  Right(db)'
    <3>1. db \in Live /\ db \in Databases
      BY <1>0, LiveLemma DEF Live, Running
    <3>2. Right(db)
      BY <1>5, <3>1 DEF Kept
    <3>3. /\ \A b \in Contents : db.hash[b] # None => db.hash[b] \in Media
          /\ \A n \in Media : db.path[n] # None => db.path[n] \in Contents
      BY <3>1 DEF Databases
    <3> QED
      BY <1>0, <2>3, <3>2, <3>3 DEF Right
  <2>5. \A r \in Processes : Remembers(r)'
    BY <1>0, <1>2, <1>5 DEF Kept, Remembers, At, MarkedIn, Running, TInv, Placed, Busy
  <2> QED
    BY <1>0, <1>5, <2>1, <2>2, <2>4, <2>5 DEF Kept, Within, MarkedIn
<1> QED
  BY <1>0, <1>3, <1>4, <1>5 DEF IInv

\* A deletion takes the transcripts with it; those of other names, and the name
\* itself while a process runs, are noted as unsettled.
LEMMA DeleteStep ==
  ASSUME IInv, NEW m \in Media, Delete(m)
  PROVE  IInv'
<1> DEFINE gone == Companions(m)
<1>0. /\ TInv /\ TInv' /\ NoOrphans /\ \A r \in Processes : Busied(r)
      /\ UNCHANGED <<proc, again, retryable, forgotten, replaced>>
      /\ unsettled \subseteq unsettled'
      /\ media' = [media EXCEPT ![m] = None] /\ media \in [Media -> Contents \cup {None}]
      /\ \A t \in Texts : Authored(t)
  BY UserTypes DEF IInv, Delete, TInv, TypeOK
<1>8. /\ \A t \in Texts : text'[t] = IF t \in gone THEN None ELSE text[t]
      /\ \A t \in Texts : origin'[t] = IF t \in gone THEN None ELSE origin[t]
      /\ \A t \in Texts : t \in cut' <=> (t \in cut /\ t \notin gone)
  BY DEF Delete
<1>9. /\ \A k \in Media \ {m} : Transcript[k] \in gone => k \in unsettled'
      /\ \A k \in Namesakes(m) \ {m} : k \in unsettled'
      /\ m \in Namesakes(m)
  BY DEF Delete, Namesakes
<1>1. Running # {} => m \in unsettled'
  BY DEF Delete
<1>10. text[Transcript[m]] # None => Transcript[m] \in gone
  BY DEF Companions
<1> HIDE DEF gone
<1>2. text'[Transcript[m]] = None /\ Transcript[m] \in Texts
  BY <1>8, <1>10, ConstantsAssumption
<1>3. ASSUME NEW k \in Media
      PROVE  Fresh(k) => Fresh(k)'
  <2>1. CASE k = m
    BY <1>0, <1>2, <2>1 DEF Fresh
  <2>2. CASE k # m /\ Transcript[k] \in gone
    BY <1>9, <2>2 DEF Fresh
  <2>3. CASE k # m /\ Transcript[k] \notin gone
    <3>1. Transcript[k] \in Texts
      BY ConstantsAssumption
    <3> QED
      BY <1>0, <1>8, <2>3, <3>1 DEF Fresh, Own, Written, Writes, At
  <2> QED
    BY <2>1, <2>2, <2>3
<1>7. ASSUME NEW k \in Media, Made(k)'
      PROVE  k # m /\ Made(k)
  <2>1. Transcript[k] \in Texts /\ Transcript[k] \notin gone /\ k # None
    BY <1>7, <1>8, ConstantsAssumption DEF Made
  <2>2. Made(k)
    BY <1>7, <1>8, <2>1 DEF Made
  <2>3. text[Transcript[k]] # None
    BY <1>0, <2>1, <2>2 DEF Made, Authored
  <2> QED
    BY <1>10, <2>1, <2>2, <2>3
<1>4. NoOrphans' /\ \A t \in Texts : Authored(t)'
  <2>1. NoOrphans'
    BY <1>0, <1>7 DEF NoOrphans
  <2>2. ASSUME NEW t \in Texts
        PROVE  Authored(t)'
    BY <1>0, <1>8 DEF Authored, Written, Writes, At
  <2> QED
    BY <2>1, <2>2
<1>5. ASSUME NEW r \in Processes
      PROVE  Busied(r)'
  <2>1. Busied(r) /\ Placed(r) /\ proc'[r] = proc[r] /\ (Busy(r) => r \in Running)
    BY <1>0 DEF TInv, Busy, Running
  <2>2. At(r, "write") => proc[r].on \in unsettled' \/ proc[r].heard = media'[proc[r].on]
    BY <1>0, <1>1, <2>1 DEF Busied, Placed, Busy, At
  <2>3. proc[r].pc \in {"route", "mark"} => Fresh(proc[r].on)'
    <3>1. SUFFICES ASSUME proc[r].pc \in {"route", "mark"} PROVE Fresh(proc[r].on)'
      OBVIOUS
    <3>2. PICK k \in Media : k = proc[r].on
      BY <2>1, <3>1 DEF Placed, Busy
    <3>3. Fresh(k)'
      BY <1>3, <2>1, <3>1, <3>2 DEF Busied
    <3> QED
      BY <2>1, <3>2, <3>3
  <2> QED
    BY <2>1, <2>2, <2>3 DEF Busied, At
<1>6. ASSUME Kept
      PROVE  Kept'
  <2>0. /\ file \in Databases \cup {Torn} /\ saved \in Databases
        /\ file # Torn => Within(file, saved)
        /\ done \subseteq MarkedIn(saved) /\ done \subseteq Contents
    BY <1>0, <1>6 DEF Kept, TInv, TypeOK
  <2>1. /\ file' # Torn => Within(file', saved')
        /\ done' \subseteq MarkedIn(saved')
        /\ \A k \in Media \ unsettled' : k # m => saved'.path[k] = saved.path[k]
    <3>1. CASE file = Torn
      <4>1. file' = Torn /\ saved' = saved /\ done' = done
        BY <3>1 DEF Delete
      <4> QED
        BY <2>0, <4>1
    <3>2. CASE file # Torn
      <4>1. /\ file' = Without(file, m) /\ saved' = Without(saved, m) /\ file \in Databases
            /\ done' = done \ (MarkedIn(file) \ MarkedIn(Without(file, m)))
        BY <2>0, <3>2 DEF Delete
      <4>2. /\ \A c \in Contents : saved.hash[c] \in {None, file.hash[c]}
            /\ \A k \in Media : saved.path[k] \in {None, file.path[k]}
        BY <2>0, <3>2 DEF Within
      <4>3. Within(file', saved')
        BY <2>0, <4>1, <4>2, WithoutLemma DEF Within
      <4>4. \A c \in done' : c \in Contents /\ saved.hash[c] # None /\ Without(file, m).hash[c] # None
        BY <2>0, <4>1, <4>2, WithoutLemma DEF MarkedIn
      <4>5. \A c \in done' : Without(saved, m).hash[c] # None
        BY <2>0, <4>1, <4>2, <4>4, WithoutLemma
      <4> QED
        <5>1. done' \subseteq MarkedIn(saved')
          BY <4>1, <4>4, <4>5 DEF MarkedIn
        <5>2. \A k \in Media \ unsettled' : k # m => saved'.path[k] = saved.path[k]
          BY <1>9, <2>0, <4>1, WithoutLemma
        <5> QED
          BY <4>3, <5>1, <5>2
    <3> QED
      BY <3>1, <3>2
  <2>2. ASSUME NEW k \in Media, Made(k)'
        PROVE  k # m /\ Made(k) /\ Saved(k)'
    <3>1. k # m /\ Made(k)
      BY <1>7, <2>2
    <3>2. Saved(k)
      BY <1>6, <3>1 DEF Kept
    <3> QED
      BY <1>0, <2>1, <3>1, <3>2 DEF Saved, Saves
  <2>3. ASSUME NEW k \in Media, Made(k)'
        PROVE  Judged(k)'
    <3>1. k # m /\ Judged(k)
      BY <1>6, <2>2, <2>3 DEF Kept
    <3>2. k \in unsettled' => Fresh(k)'
      BY DEF Fresh
    <3> QED
      BY <1>0, <1>3, <2>1, <3>1, <3>2 DEF Judged, Running
  <2>4. ASSUME NEW n \in Media \ {m}, NEW c, Backed(n, c)
        PROVE  Backed(n, c)'
    BY <1>0, <1>3, <2>4 DEF Backed
  <2>5. Running # {} => \A c : Backed(m, c)'
    BY <1>1 DEF Backed, Fresh
  <2>6. ASSUME NEW db \in Live'
        PROVE  Right(db)'
    <3>1. CASE db \in {proc[r].mem : r \in Running}
      <4>1. Running # {} /\ db \in Live /\ db \in Databases
        BY <1>0, <3>1, LiveLemma DEF Live
      <4>2. Right(db)
        BY <1>6, <4>1 DEF Kept
      <4>3. /\ \A c \in Contents : db.hash[c] # None => db.hash[c] \in Media
            /\ \A n \in Media : db.path[n] # None => db.path[n] \in Contents
        BY <4>1 DEF Databases
      <4> QED
        BY <1>0, <2>4, <2>5, <4>1, <4>2, <4>3 DEF Right
    <3>2. CASE db = file' /\ file' # Torn
      <4>1. file # Torn /\ file \in Databases /\ file \in Live /\ db = Without(file, m)
        BY <2>0, <3>2 DEF Delete, Live
      <4>2. Right(file)
        BY <1>6, <4>1 DEF Kept
      <4>3. /\ \A c \in Contents : file.hash[c] # None => file.hash[c] \in Media
            /\ \A n \in Media : file.path[n] # None => file.path[n] \in Contents
        BY <4>1 DEF Databases
      <4>4. /\ \A c \in Contents : db.hash[c] # None => db.hash[c] = file.hash[c] /\ db.hash[c] # m
            /\ \A n \in Media : db.path[n] # None => db.path[n] = file.path[n] /\ n # m
        BY <1>9, <4>1, WithoutLemma
      <4> QED
        BY <1>0, <2>4, <4>2, <4>3, <4>4 DEF Right
    <3>3. Running' = Running /\ \A r \in Running : proc'[r].mem = proc[r].mem
      BY <1>0 DEF Running
    <3> QED
      BY <3>1, <3>2, <3>3 DEF Live
  <2>7. \A r \in Processes : Remembers(r)'
    BY <1>0, <1>1, <1>6 DEF Kept, Remembers, At, MarkedIn, Running, TInv, Placed, Busy
  <2>8. again' \subseteq unsettled'
    BY <1>0, <1>6 DEF Kept
  <2> QED
    BY <2>1, <2>2, <2>3, <2>6, <2>7, <2>8 DEF Kept
<1> QED
  BY <1>0, <1>4, <1>5, <1>6 DEF IInv

-----------------------------------------------------------------------------

\* Nothing is transcribed, marked or saved at first.
LEMMA InvInit == Init => IInv
<1> SUFFICES ASSUME Init PROVE IInv
  OBVIOUS
<1>1. TInv
  BY TypeInit
<1>2. \A p \in Processes : proc[p] = Idle
  BY DEF Init
<1>7. /\ \A m \in Media : ~Made(m)
      /\ \A t \in Texts : Authored(t)
  BY ConstantsAssumption DEF Init, Made, Authored
<1>3. NoOrphans /\ \A p \in Processes : Busied(p)
  BY <1>2, <1>7 DEF NoOrphans, Busied, Idle, At
<1>4. \A p \in Processes : Remembers(p)
  BY <1>2 DEF Remembers, Idle, At, MarkedIn
<1>5. \A db \in Live : Right(db)
  <2>1. \A db \in Live : db = Empty
    BY <1>2 DEF Init, Live, Running, Idle
  <2> QED
    BY <2>1 DEF Right, Empty
<1>6. Within(file, saved) /\ done \subseteq MarkedIn(saved) /\ again \subseteq unsettled
  BY DEF Init, Within, Empty, MarkedIn
<1> QED
  BY <1>1, <1>3, <1>4, <1>5, <1>6, <1>7 DEF IInv, Kept

\* The invariant is inductive.
LEMMA InvNext == IInv /\ [Next]_vars => IInv'
<1> SUFFICES ASSUME IInv, [Next]_vars PROVE IInv'
  OBVIOUS
<1>1. ASSUME NEW p \in Processes, Step(p)
      PROVE  IInv'
  <2>1. CInv /\ TInv'
    BY <1>1, StepTypes DEF IInv, CInv
  <2>2. NoOrphans' /\ (\A t \in Texts : Authored(t)') /\ \A r \in Processes : Busied(r)'
    BY <1>1, <2>1, OrphansStep, AuthoredStep, BusiedStep DEF CInv
  <2>3. ~forgotten' => ~forgotten
    BY <1>1, <2>1, Frame DEF CInv
  <2>4. ~forgotten' => Kept'
    BY <1>1, <2>1, <2>3, ProcessKept DEF IInv
  <2> QED
    BY <2>1, <2>2, <2>4 DEF IInv
<1>2. CASE UNCHANGED vars
  BY <1>2
     DEF IInv, TInv, TypeOK, Placed, Busy, At, NoOrphans, Busied, Fresh, Own, Made, Authored, Written,
         Writes, Kept, Remembers,
         MarkedIn, Within, Saved, Saves, Judged, Running, Live, Right, Backed,
         vars, disk, texts, bounds, history
<1> QED
  BY <1>1, <1>2, PutStep, DeleteStep DEF Next

\* What the next scan would skip is transcribed completely, and what a scan saw
\* marked it does not transcribe again, as long as no entry was forgotten.
THEOREM ScansAreSafe == Spec => []ScanSafe
<1>1. ASSUME IInv
      PROVE  SkippedIsComplete
  <2>1. SUFFICES ASSUME AtRest, ~forgotten, NEW m \in Media \ (unsettled \cup retryable),
                        media[m] \notin replaced \cup {None},
                        Known(file, m) \/ TranscriptCounts(file, m)
                 PROVE  \E n \in {m, file.hash[media[m]]} \ {None} :
                          Own(n) /\ n \notin unsettled \cup retryable => text[Transcript[n]] = media[m]
    BY DEF SkippedIsComplete
  <2>2. Running = {} /\ file # Torn /\ file \in Databases /\ media[m] \in Contents \ replaced /\ m # None
    BY <1>1, <2>1, ConstantsAssumption DEF AtRest, IInv, TInv, TypeOK
  <2>3. Right(file) /\ Within(file, saved)
    BY <1>1, <2>1, <2>2 DEF IInv, Kept, Live
  <2>4. \A p \in Processes : ~At(p, "write")
    BY <2>2 DEF Running, At
  <2>5. \A n \in Media :
          Fresh(n) => n \in unsettled \/ ~Own(n) \/ text[Transcript[n]] = media[n]
    BY <2>4 DEF Fresh, Written, Writes
  <2>6. CASE file.hash[media[m]] # None
    <3>1. Backed(file.hash[media[m]], media[m]) /\ file.hash[media[m]] \in Media
      BY <2>2, <2>3, <2>6 DEF Right, Databases
    <3> QED
      BY <2>5, <2>6, <3>1 DEF Backed
  <2>7. CASE file.path[m] = media[m]
    <3>1. Backed(m, media[m])
      BY <2>1, <2>2, <2>3, <2>7 DEF Right
    <3> QED
      BY <2>1, <2>2, <2>5, <3>1 DEF Backed
  <2>8. CASE TranscriptCounts(file, m)
    <3>1. /\ file.path[m] = None /\ text[Transcript[m]] # None /\ Authored(Transcript[m])
          /\ Made(m) => Judged(m)
      BY <1>1, <2>1, <2>8, ConstantsAssumption DEF IInv, Kept, TranscriptCounts
    <3>2. saved.path[m] = None
      BY <2>3, <3>1 DEF Within
    <3>3. m \in retryable \/ Fresh(m)
      BY <3>1, <3>2, NotMade DEF Judged
    <3> QED
      BY <2>1, <2>2, <2>5, <3>3
  <2> QED
    BY <2>1, <2>6, <2>7, <2>8 DEF Known
<1>2. IInv => ScanSafe
  BY <1>1 DEF IInv, Kept, ScanSafe, TranscribedOnce
<1> QED
  BY <1>2, InvInit, InvNext, PTL DEF Spec

-----------------------------------------------------------------------------
(* The handlers, see ProjectHandlers.                                      *)

Marks  == {None, "auto_detected", "completed", "completed_routed", "failed_routed"}

\* What plans consist of, and who writes notes.
Items   == {"frames", "documents", "transcript.md", "context.md", "summary.md",
            "Interview_Log.md", "Offer.md", "Summary.md", "Study_Guide.md"}
Writers == {"handler", "template", "answer", "torn", "user"}

Fields  == {"pc", "left", "todo", "took", "errors", "on", "project", "kind", "folder", "plan",
            "frame", "last", "contexts", "missed"}

\* Whatever a run has of project, folder and text, the rest of it has its types.
IsRun(x) ==
  /\ x = [f \in Fields |-> x[f]]
  /\ x.pc \in {"idle", "organize", "next", "route", "work"}
  /\ x.left \subseteq Recordings /\ x.todo \subseteq Recordings /\ x.took \subseteq Recordings
  /\ x.errors \in BOOLEAN /\ x.missed \in BOOLEAN
  /\ x.on \in Recordings \cup {None} /\ x.kind \in H!Kinds \cup {None}
  /\ x.plan \in Seq(Items) /\ x.frame \in Nat \ {0} /\ x.contexts \in Seq(Nat)

Handles == run.pc \in {"route", "work"}

Placing ==
  /\ H!TypeOK /\ IsRun(run)
  /\ files \in [DOMAIN files -> [of : Recordings, by : Writers]]
  /\ DOMAIN given = Recordings
  /\ Handles => run.on \in transcribed /\ run.on \in run.took /\ marked[run.on] = None
  /\ run.pc = "work" => run.kind \in H!Kinds /\ <<run.folder, run.on, run.kind>> \in visits

\* Handlers write where a project with their name and a usable output says.
Foldered ==
  /\ H!OutputsSafe
  /\ \A r \in Recordings : given[r] # None => \E i \in H!Loaded :
       /\ setup.projects[i].name = given[r].name
       /\ setup.projects[i].output = given[r].folder[1]
  /\ run.pc = "work" => \E i \in H!Loaded :
       /\ setup.projects[i].name = run.project.name
       /\ setup.projects[i].output = run.folder[1]

Ended == {"completed", "completed_routed"}

\* What a run without errors took is brought to an end, but for the one at hand.
Brought ==
  /\ ~run.errors => \A r \in run.took : marked[r] \in Ended \/ (Handles /\ r = run.on)
  /\ H!VerdictIsHonest /\ verdict.took \subseteq Recordings

\* Notes are of a recording handled in their folder; one that is torn is of a
\* recording that will not be handled again.
Owned ==
  \A path \in DOMAIN files :
    LET r == files[path].of IN
    /\ \E v \in visits : v[1] = path[1] /\ v[2] = r
    /\ files[path].by = "torn" =>
         r \in transcribed /\ marked[r] # "completed_routed" /\ ~(Handles /\ run.on = r)

\* The notes a plan no longer has are there.
There ==
  /\ run.pc = "work" => \A note \in H!Notes(run.kind) :
       note \in H!ToSet(run.plan) \/ <<run.folder, note>> \in DOMAIN files
  /\ \A r \in Recordings : marked[r] = "completed_routed" =>
       \A note \in H!Notes(given[r].kind) : <<given[r].folder, note>> \in DOMAIN files

Edited == kept \subseteq DOMAIN files /\ H!EditsKept

\* The first f - 1 frames, of which s are the texts, were looked at; c are those
\* described, and the text kept is that of the last one.
Alike(s, g, h) == \A k \in g .. h : s[k] = s[g]

Looked(s, f, last, c, missed) ==
  /\ f \in 1 .. Len(s) + 1
  /\ last = IF f = 1 THEN "blank" ELSE s[f - 1]
  /\ Len(c) <= MaxAnalyses
  /\ \A i \in DOMAIN c : c[i] \in 1 .. f - 1
  /\ \A i, j \in DOMAIN c : i < j => c[i] < c[j]
  /\ \A i, j \in DOMAIN c : i < j /\ Alike(s, c[i], c[j]) => s[c[i]] = "blank"
  /\ ~missed => \A h \in 1 .. f - 1 : \E i \in DOMAIN c : c[i] <= h /\ Alike(s, c[i], h)

Watched ==
  run.pc = "work" => Looked(H!Screens, run.frame, run.last, run.contexts, run.missed)

HInv ==
  /\ Placing /\ Foldered /\ Brought /\ Owned /\ There /\ Edited /\ Watched
  /\ H!PolicyKept

-----------------------------------------------------------------------------
(* Lemmas about the operators.                                             *)

\* A set of numbers has a least one.
LEMMA LeastOne ==
  ASSUME NEW N \in SUBSET Nat, N # {}
  PROVE  \E n \in N : \A m \in N : n <= m
<1>1. \E n \in N : \A m \in N : <<m, n>> \notin OpToRel(<, Nat)
  BY NatLessThanWellFounded, WFMin
<1>2. \A i, j \in Nat : <<j, i>> \notin OpToRel(<, Nat) => i <= j
  BY DEF OpToRel
<1> QED
  BY <1>1, <1>2

\* A set of numbers up to n has a greatest one.
LEMMA GreatestOne ==
  ASSUME NEW n \in Nat, NEW S \in SUBSET (1 .. n), S # {}
  PROVE  \E i \in S : \A j \in S : j <= i
<1> DEFINE N == {n - i : i \in S}
<1>1. N \in SUBSET Nat /\ N # {}
  <2>1. \A i \in S : n - i \in Nat
    OBVIOUS
  <2>2. PICK i \in S : TRUE
    OBVIOUS
  <2>3. n - i \in N
    BY <2>2
  <2> QED
    BY <2>1, <2>3
<1>2. PICK k \in N : \A m \in N : k <= m
  BY <1>1, LeastOne
<1>3. PICK i \in S : k = n - i
  OBVIOUS
<1>4. ASSUME NEW j \in S PROVE j <= i
  <2>1. n - j \in N
    OBVIOUS
  <2>2. n - i <= n - j
    BY <1>2, <1>3, <2>1
  <2>3. i \in Int /\ j \in Int
    OBVIOUS
  <2> HIDE DEF N
  <2> QED
    BY <2>2, <2>3
<1> QED
  BY <1>4

\* The types of a setup.
LEMMA SetupLemma ==
  ASSUME H!TypeOK
  PROVE  /\ setup.projects \in Seq(H!Entries)
         /\ setup.settings \in H!Settings
         /\ \A r \in Recordings : /\ setup.recordings[r].screens \in Seq(STRING)
                                  /\ setup.recordings[r].video \in BOOLEAN
<1>1. setup \in [projects : Seq(H!Entries), settings : H!Settings, documents : BOOLEAN,
                 recordings : [Recordings -> [place : STRING, stem : Seq(STRING), video : BOOLEAN,
                                              screens : Seq(STRING)]]]
  BY HandlersAssumption DEF H!HandlersAssumption, H!TypeOK
<1> QED
  BY <1>1

\* The handler of a project is one that a project of its name says.
LEMMA HandlerLemma ==
  ASSUME H!TypeOK, NEW name, H!Handler(name) # None
  PROVE  \E i \in H!Loaded :
           /\ setup.projects[i].name = name /\ H!Usable(setup.projects[i])
           /\ H!Handler(name) = [kind |-> setup.projects[i].handler,
                                 base |-> setup.projects[i].output]
<1> DEFINE S == {i \in H!Loaded : setup.projects[i].name = name /\ H!Usable(setup.projects[i])}
<1>1. S # {}
  BY DEF H!Handler
<1>2. PICK n \in Nat : S \in SUBSET (1 .. n)
  <2>1. Len(setup.projects) \in Nat /\ DOMAIN setup.projects = 1 .. Len(setup.projects)
    BY SetupLemma
  <2> QED
    BY <2>1 DEF H!Loaded
<1>3. \E i \in S : \A j \in S : j <= i
  BY <1>1, <1>2, GreatestOne
<1> DEFINE i == CHOOSE i \in S : \A j \in S : j <= i
<1>4. i \in S
  BY <1>3
<1>5. H!Handler(name) = [kind |-> setup.projects[i].handler, base |-> setup.projects[i].output]
  BY <1>1 DEF H!Handler
<1> QED
  BY <1>4, <1>5

\* An output that may be used in a container is in a root that was allowed.
LEMMA OutputLemma ==
  ASSUME H!TypeOK, NEW i \in H!Loaded, H!Usable(setup.projects[i]), setup.settings.container
  PROVE  setup.projects[i].output.root \in {"data", "export"}
<1> PICK q : q = setup.projects[i].output
  OBVIOUS
<1>1. q \in H!Outputs
  <2>1. setup.projects[i] \in H!Entries
    BY SetupLemma DEF H!Loaded
  <2>2. q \in H!Outputs \cup {None, Odd}
    BY <2>1 DEF H!Entries
  <2> QED
    BY <2>2 DEF H!Loaded, H!Formed, H!Usable
<1>2. q.kind \in {"relative", "absolute"}
  BY <1>1 DEF H!Outputs
<1>3. H!Resolved(q)
  BY DEF H!Usable
<1>4. CASE q.kind = "relative"
  BY <1>3, <1>4, Zenon DEF H!Resolved
<1>5. CASE q.kind = "absolute"
  BY <1>3, <1>5, Zenon DEF H!Resolved
<1> QED
  BY <1>2, <1>4, <1>5

\* The handler of a project that is loaded is one there is.
LEMMA KindLemma ==
  ASSUME NEW i \in H!Loaded, H!Usable(setup.projects[i])
  PROVE  setup.projects[i].handler \in H!Kinds
BY DEF H!Loaded, H!Formed, H!Usable

\* Folders are below the output of the project.
LEMMA FolderLemma ==
  ASSUME NEW kind, NEW base, NEW p, NEW r
  PROVE  H!FolderOf(kind, base, p, r)[1] = base
BY DEF H!FolderOf

\* What is left of a plan, after its first item.
LEMMA TailLemma ==
  ASSUME NEW S, NEW s \in Seq(S), s # <<>>
  PROVE  /\ Tail(s) \in Seq(S)
         /\ \A x : x \in H!ToSet(s) <=> x = Head(s) \/ x \in H!ToSet(Tail(s))
<1>1. Len(s) \in Nat \ {0} /\ Tail(s) \in Seq(S) /\ Len(Tail(s)) = Len(s) - 1
  OBVIOUS
<1>2. DOMAIN Tail(s) = 1 .. Len(s) - 1 /\ \A i \in 1 .. Len(s) - 1 : Tail(s)[i] = s[i + 1]
  OBVIOUS
<1>3. ASSUME NEW x, x \in H!ToSet(s)
      PROVE  x = Head(s) \/ x \in H!ToSet(Tail(s))
  <2>1. PICK i \in 1 .. Len(s) : x = s[i]
    BY <1>3 DEF H!ToSet
  <2>2. CASE i = 1
    BY <2>1, <2>2
  <2>3. CASE i # 1
    <3>1. i - 1 \in 1 .. Len(s) - 1 /\ Tail(s)[i - 1] = x
      BY <1>1, <1>2, <2>1, <2>3
    <3> QED
      BY <1>2, <3>1 DEF H!ToSet
  <2> QED
    BY <2>2, <2>3
<1>4. ASSUME NEW x, x = Head(s) \/ x \in H!ToSet(Tail(s))
      PROVE  x \in H!ToSet(s)
  <2>1. CASE x = Head(s)
    BY <1>1, <2>1 DEF H!ToSet
  <2>2. CASE x \in H!ToSet(Tail(s))
    <3>1. PICK i \in 1 .. Len(s) - 1 : x = Tail(s)[i]
      BY <1>1, <2>2 DEF H!ToSet
    <3>2. i + 1 \in 1 .. Len(s) /\ x = s[i + 1]
      BY <1>1, <1>2, <3>1
    <3> QED
      BY <3>2 DEF H!ToSet
  <2> QED
    BY <1>4, <2>1, <2>2
<1> QED
  BY <1>1, <1>3, <1>4

\* The plans of the handlers.
LEMMA PlanKinds ==
  /\ \A video : H!PlanOf("client_meeting", video) = <<"transcript.md", "summary.md">>
  /\ \A video : H!PlanOf("zo", video) =
                  <<"Interview_Log.md", "Offer.md", "Summary.md", "Study_Guide.md">>
  /\ \A video : H!PlanOf("meeting_dev", video) =
                  IF video THEN <<"frames", "documents", "context.md", "summary.md">>
                  ELSE <<"documents", "context.md", "summary.md">>
BY DEF H!PlanOf

\* Members are what is in a sequence.
Members(seq, all) == H!ToSet(seq) = all

\* Sequences of two, of three and of four, and what is in them.
LEMMA Two ==
  ASSUME NEW S, NEW a \in S, NEW b \in S
  PROVE  <<a, b>> \in Seq(S) /\ Members(<<a, b>>, {a, b})
<1> PICK s : s = <<a, b>>
  OBVIOUS
<1>1. s \in [1 .. 2 -> S]
  OBVIOUS
<1>2. s \in Seq(S)
  BY <1>1
<1>3. DOMAIN s = {1, 2} /\ s[1] = a /\ s[2] = b
  OBVIOUS
<1>4. Members(s, {a, b})
  BY <1>3 DEF Members, H!ToSet
<1> QED
  BY <1>2, <1>4

\* See Two.
LEMMA Three ==
  ASSUME NEW S, NEW a \in S, NEW b \in S, NEW c \in S
  PROVE  <<a, b, c>> \in Seq(S) /\ Members(<<a, b, c>>, {a, b, c})
<1> PICK s : s = <<a, b, c>>
  OBVIOUS
<1>1. s \in [1 .. 3 -> S]
  OBVIOUS
<1>2. s \in Seq(S)
  BY <1>1
<1>3. DOMAIN s = {1, 2, 3} /\ s[1] = a /\ s[2] = b /\ s[3] = c
  OBVIOUS
<1>4. Members(s, {a, b, c})
  BY <1>3 DEF Members, H!ToSet
<1> QED
  BY <1>2, <1>4

\* See Two.
LEMMA Four ==
  ASSUME NEW S, NEW a \in S, NEW b \in S, NEW c \in S, NEW d \in S
  PROVE  <<a, b, c, d>> \in Seq(S) /\ Members(<<a, b, c, d>>, {a, b, c, d})
<1> PICK s : s = <<a, b, c, d>>
  OBVIOUS
<1>1. s \in [1 .. 4 -> S]
  OBVIOUS
<1>2. s \in Seq(S)
  BY <1>1
<1>3. DOMAIN s = {1, 2, 3, 4} /\ s[1] = a /\ s[2] = b /\ s[3] = c /\ s[4] = d
  OBVIOUS
<1>4. Members(s, {a, b, c, d})
  BY <1>3 DEF Members, H!ToSet
<1> QED
  BY <1>2, <1>4

\* Every note is planned; frames and documents are no notes.
LEMMA PlanLemma ==
  ASSUME NEW kind \in H!Kinds, NEW video \in BOOLEAN
  PROVE  /\ H!PlanOf(kind, video) \in Seq(Items)
         /\ \A note \in H!Notes(kind) : note \in H!ToSet(H!PlanOf(kind, video))
         /\ "frames" \notin H!Notes(kind) /\ "documents" \notin H!Notes(kind)
<1> PICK plan : plan = H!PlanOf(kind, video)
  OBVIOUS
<1> PICK bare : bare = H!PlanOf(kind, FALSE)
  OBVIOUS
<1> PICK planned : planned = H!ToSet(plan)
  OBVIOUS
<1> PICK notes : notes = H!ToSet(bare)
  OBVIOUS
<1>1. SUFFICES /\ plan \in Seq(Items)
               /\ \A note \in notes \ {"documents"} : note \in planned
               /\ "frames" \notin notes
  BY DEF H!Notes
<1>2. /\ "frames" \in Items /\ "documents" \in Items /\ "transcript.md" \in Items
      /\ "context.md" \in Items /\ "summary.md" \in Items /\ "Interview_Log.md" \in Items
      /\ "Offer.md" \in Items /\ "Summary.md" \in Items /\ "Study_Guide.md" \in Items
  BY DEF Items
<1>3. CASE kind = "client_meeting"
  <2>1. plan = <<"transcript.md", "summary.md">> /\ bare = plan
    BY <1>3, PlanKinds
  <2>2. <<"transcript.md", "summary.md">> \in Seq(Items)
    BY <1>2, Two, Zenon
  <2>3. Members(<<"transcript.md", "summary.md">>, {"transcript.md", "summary.md"})
    BY <1>2, Two, Zenon
  <2>4. plan \in Seq(Items) /\ planned = {"transcript.md", "summary.md"} /\ notes = planned
    BY <2>1, <2>2, <2>3, Zenon DEF Members
  <2>5. "frames" \notin planned
    BY <2>4
  <2> QED
    BY <2>4, <2>5
<1>4. CASE kind = "zo"
  <2>1. /\ plan = <<"Interview_Log.md", "Offer.md", "Summary.md", "Study_Guide.md">>
        /\ bare = plan
    BY <1>4, PlanKinds
  <2>2. /\ "Interview_Log.md" \in Items /\ "Offer.md" \in Items
        /\ "Summary.md" \in Items /\ "Study_Guide.md" \in Items
    BY <1>2
  <2>3. <<"Interview_Log.md", "Offer.md", "Summary.md", "Study_Guide.md">> \in Seq(Items)
    BY <2>2, Four, Zenon
  <2>4. Members(<<"Interview_Log.md", "Offer.md", "Summary.md", "Study_Guide.md">>,
                {"Interview_Log.md", "Offer.md", "Summary.md", "Study_Guide.md"})
    BY <2>2, Four, Zenon
  <2>5. /\ plan \in Seq(Items) /\ notes = planned
        /\ planned = {"Interview_Log.md", "Offer.md", "Summary.md", "Study_Guide.md"}
    BY <2>1, <2>3, <2>4, Zenon DEF Members
  <2>6. "frames" \notin planned
    BY <2>5
  <2> QED
    BY <2>5, <2>6
<1>5. CASE kind = "meeting_dev"
  <2>1. bare = <<"documents", "context.md", "summary.md">>
    BY <1>5, PlanKinds
  <2>2. <<"documents", "context.md", "summary.md">> \in Seq(Items)
    BY <1>2, Three, Zenon
  <2>3. Members(<<"documents", "context.md", "summary.md">>,
                {"documents", "context.md", "summary.md"})
    BY <1>2, Three, Zenon
  <2>4. bare \in Seq(Items) /\ notes = {"documents", "context.md", "summary.md"}
    BY <2>1, <2>2, <2>3, Zenon DEF Members
  <2>5. "frames" \notin notes
    BY <2>4
  <2>6. CASE video
    <3>1. plan = <<"frames", "documents", "context.md", "summary.md">>
      BY <1>5, <2>6, PlanKinds
    <3>2. /\ "frames" \in Items /\ "documents" \in Items
          /\ "context.md" \in Items /\ "summary.md" \in Items
      BY <1>2
    <3>3. <<"frames", "documents", "context.md", "summary.md">> \in Seq(Items)
      BY <3>2, Four, Zenon
    <3>4. Members(<<"frames", "documents", "context.md", "summary.md">>,
                {"frames", "documents", "context.md", "summary.md"})
      BY <3>2, Four, Zenon
    <3>5. /\ plan \in Seq(Items)
          /\ planned = {"frames", "documents", "context.md", "summary.md"}
      BY <3>1, <3>3, <3>4, Zenon DEF Members
    <3> QED
      BY <2>4, <2>5, <3>5
  <2>7. CASE ~video
    <3>1. plan = bare
      BY <1>5, <2>1, <2>7, PlanKinds
    <3> QED
      BY <2>4, <2>5, <3>1
  <2> QED
    BY <2>6, <2>7
<1> QED
  BY <1>3, <1>4, <1>5 DEF H!Kinds

-----------------------------------------------------------------------------
(* Steps.                                                                  *)

\* What was set up stays; transcripts, notes and handled folders only become
\* more, and a mark stays.
LEMMA Grows ==
  ASSUME Placing, H!Next \/ UNCHANGED H!handling
  PROVE  /\ setup' = setup /\ visits \subseteq visits' /\ transcribed \subseteq transcribed'
         /\ DOMAIN files \subseteq DOMAIN files'
         /\ \A r \in Recordings : marked[r] # None => marked'[r] = marked[r]
<1>1. marked \in [Recordings -> Marks]
  BY DEF Placing, H!TypeOK, Marks
<1>2. CASE H!Start \/ H!List \/ H!End \/ H!Halt \/ H!NextDay
  BY <1>2 DEF H!Start, H!List, H!End, H!Halt, H!NextDay, H!outside
<1>3. CASE H!Look \/ H!Looked \/ H!Documents
  BY <1>3 DEF H!Look, H!Looked, H!Documents, H!outside, H!aside
<1>4. CASE H!Write \/ H!Summarize \/ H!WriteFails
  BY <1>4 DEF H!Write, H!Summarize, H!WriteFails, H!Put, H!outside, H!aside
<1>5. CASE H!Route \/ H!Finish \/ H!OddAnswer
  <2>1. marked[run.on] = None
    BY <1>5 DEF H!Route, H!Finish, H!OddAnswer, H!Does, Placing, Handles
  <2>2. \A r \in Recordings : marked[r] # None => marked'[r] = marked[r]
    BY <1>1, <1>5, <2>1 DEF H!Route, H!Finish, H!OddAnswer, H!Mark
  <2> QED
    BY <1>5, <2>2 DEF H!Route, H!Finish, H!OddAnswer, H!outside
<1>6. CASE \E r \in Recordings : H!Organize(r) \/ H!Skip(r) \/ H!Transcribe(r)
  BY <1>1, <1>6 DEF H!Organize, H!Skip, H!Transcribe, H!outside
<1>7. CASE \E path \in DOMAIN files : H!Edit(path)
  BY <1>7 DEF H!Edit
<1>8. CASE UNCHANGED H!handling
  BY <1>8 DEF H!handling
<1> QED
  BY <1>2, <1>3, <1>4, <1>5, <1>6, <1>7, <1>8 DEF H!Next

\* A recording is either done, or given to a handler that begins with a folder.
LEMMA RouteLemma ==
  ASSUME Placing, H!Route
  PROVE  \/ H!Mark("completed") /\ run' = [run EXCEPT !.pc = "next"] /\ UNCHANGED visits
         \/ /\ UNCHANGED marked /\ IsRun(run)' /\ run'.pc = "work"
            /\ run'.on = run.on /\ run'.took = run.took /\ run'.errors = run.errors
            /\ visits' = visits \cup {<<run'.folder, run.on, run'.kind>>}
            /\ run'.kind \in H!Kinds
            /\ \E video \in BOOLEAN : run'.plan = H!PlanOf(run'.kind, video)
            /\ run'.frame = 1 /\ run'.last = "blank" /\ run'.contexts = <<>> /\ ~run'.missed
            /\ \E i \in H!Loaded :
                 /\ setup.projects[i].name = run'.project.name
                 /\ setup.projects[i].output = run'.folder[1]
                 /\ H!Usable(setup.projects[i])
<1> PICK p : p = H!Matched(run.on)
  OBVIOUS
<1> PICK h : h = IF p = None THEN None ELSE H!Handler(p.name)
  OBVIOUS
<1>1. CASE h = None
  BY <1>1 DEF H!Route
<1>2. CASE h # None
  <2>1. h = H!Handler(p.name) /\ H!Handler(p.name) # None
    BY <1>2
  <2>2. PICK i \in H!Loaded :
          /\ setup.projects[i].name = p.name /\ H!Usable(setup.projects[i])
          /\ h = [kind |-> setup.projects[i].handler, base |-> setup.projects[i].output]
    BY <2>1, HandlerLemma DEF Placing
  <2>3. h.kind \in H!Kinds /\ h.base = setup.projects[i].output
    BY <2>2, KindLemma
  <2> PICK folder : folder = H!FolderOf(h.kind, h.base, p, run.on)
    OBVIOUS
  <2>4. folder[1] = setup.projects[i].output
    BY <2>3, FolderLemma
  <2> PICK video : video = setup.recordings[run.on].video
    OBVIOUS
  <2>5. run.on \in Recordings /\ video \in BOOLEAN
    BY SetupLemma DEF Placing, H!Route, Handles, H!TypeOK
  <2> PICK plan : plan = H!PlanOf(h.kind, video)
    OBVIOUS
  <2>6. plan \in Seq(Items)
    BY <2>3, <2>5, PlanLemma
  <2>7. /\ run' = [run EXCEPT !.pc = "work", !.project = p, !.kind = h.kind, !.folder = folder,
                     !.plan = plan, !.frame = 1, !.last = "blank", !.contexts = <<>>,
                     !.missed = FALSE]
        /\ visits' = visits \cup {<<folder, run.on, h.kind>>}
        /\ UNCHANGED marked
    BY <1>2 DEF H!Route
  <2>8. IsRun(run)
    BY DEF Placing
  <2>9. /\ run'.pc = "work" /\ run'.project = p /\ run'.kind = h.kind /\ run'.folder = folder
        /\ run'.plan = plan /\ run'.frame = 1 /\ run'.last = "blank" /\ run'.contexts = <<>>
        /\ run'.missed = FALSE /\ run'.on = run.on /\ run'.took = run.took
        /\ run'.errors = run.errors
    BY <2>7, <2>8 DEF IsRun, Fields
  <2>10. IsRun(run)'
    <3>1. run' = [f \in Fields |-> run'[f]]
      BY <2>7, <2>8 DEF IsRun, Fields
    <3>2. run'.left = run.left /\ run'.todo = run.todo
      BY <2>7, <2>8 DEF IsRun, Fields
    <3>3. run'.plan \in Seq(Items) /\ run'.contexts \in Seq(Nat) /\ run'.kind \in H!Kinds
      BY <2>3, <2>6, <2>9
    <3>4. run'.pc \in {"idle", "organize", "next", "route", "work"} /\ run'.missed \in BOOLEAN
      BY <2>9, Zenon
    <3>5. run'.frame \in Nat \ {0}
      <4>1. run'.frame = 1
        BY <2>9
      <4> QED
        BY <4>1
    <3>6. /\ run'.left \subseteq Recordings /\ run'.todo \subseteq Recordings
          /\ run'.took \subseteq Recordings /\ run'.errors \in BOOLEAN
          /\ run'.on \in Recordings \cup {None}
      BY <2>8, <2>9, <3>2 DEF IsRun
    <3> QED
      BY <3>1, <3>3, <3>4, <3>5, <3>6, Zenon DEF IsRun
  <2> QED
    BY <2>2, <2>3, <2>4, <2>5, <2>7, <2>9, <2>10
<1> QED
  BY <1>1, <1>2

\* A run that is where it was, with the same recording, handler and folder.
Stays ==
  /\ IsRun(run)'
  /\ run'.pc = run.pc /\ run'.on = run.on /\ run'.took = run.took /\ run'.errors = run.errors
  /\ run'.kind = run.kind /\ run'.folder = run.folder /\ run'.project = run.project

\* What is left of the plan once the item at hand is dealt with.
LEMMA OnwardLemma ==
  ASSUME Placing, run.plan # <<>>, run' = H!Onward
  PROVE  /\ Stays /\ run'.plan = Tail(run.plan)
         /\ run'.frame = run.frame /\ run'.last = run.last
         /\ run'.contexts = run.contexts /\ run'.missed = run.missed
<1>1. IsRun(run)
  BY DEF Placing
<1>2. Tail(run.plan) \in Seq(Items)
  BY <1>1, TailLemma DEF IsRun, Fields
<1> QED
  BY <1>1, <1>2 DEF H!Onward, IsRun, Fields, Stays

\* What becomes of a frame.
LEMMA LookLemma ==
  ASSUME Placing, H!Look
  PROVE  /\ run.pc = "work" /\ Stays /\ run'.plan = run.plan
         /\ run.frame \in 1 .. Len(H!Screens) /\ Len(run.contexts) < MaxAnalyses
         /\ run'.frame = run.frame + 1
         /\ \/ /\ ~H!Changed(run.frame) /\ run'.last = run.last
               /\ run'.contexts = run.contexts /\ run'.missed = run.missed
            \/ /\ H!Changed(run.frame) /\ run'.last = H!Screens[run.frame]
               /\ run'.contexts = Append(run.contexts, run.frame) /\ run'.missed = run.missed
            \/ /\ H!Changed(run.frame) /\ run'.last = H!Screens[run.frame]
               /\ run'.contexts = run.contexts /\ run'.missed = TRUE
<1>1. IsRun(run) /\ run.pc = "work" /\ run.on \in Recordings
  BY DEF Placing, Handles, H!Look, H!Does, H!TypeOK
<1>2. run.frame \in Nat \ {0} /\ run.contexts \in Seq(Nat)
  BY <1>1 DEF IsRun, Fields
<1>3. H!Screens \in Seq(STRING)
  BY <1>1, SetupLemma DEF Placing, H!Screens
<1>4. run.frame <= Len(H!Screens) /\ Len(run.contexts) < MaxAnalyses
  BY DEF H!Look
<1>5. run.frame \in 1 .. Len(H!Screens) 
  BY <1>2, <1>3, <1>4
<1> PICK words : words = H!Screens[run.frame]
  OBVIOUS
<1> PICK more : more = Append(run.contexts, run.frame)
  OBVIOUS
<1>6. more \in Seq(Nat) /\ run.frame + 1 \in Nat \ {0}
  BY <1>2, <1>5
<1>7. \/ ~H!Changed(run.frame) /\ run' = [run EXCEPT !.frame = run.frame + 1]
      \/ /\ H!Changed(run.frame)
         /\ run' = [run EXCEPT !.frame = run.frame + 1, !.last = words, !.contexts = more]
      \/ /\ H!Changed(run.frame)
         /\ run' = [run EXCEPT !.frame = run.frame + 1, !.last = words, !.missed = TRUE]
  <2>1. [H!Seen(run.frame) EXCEPT !.contexts = Append(@, run.frame)] =
          [run EXCEPT !.frame = run.frame + 1, !.last = words, !.contexts = more]
    BY <1>1 DEF H!Seen, IsRun, Fields
  <2>2. [H!Seen(run.frame) EXCEPT !.missed = TRUE] =
          [run EXCEPT !.frame = run.frame + 1, !.last = words, !.missed = TRUE]
    BY <1>1 DEF H!Seen, IsRun, Fields
  <2> QED
    BY <2>1, <2>2 DEF H!Look
<1>8. CASE ~H!Changed(run.frame) /\ run' = [run EXCEPT !.frame = run.frame + 1]
  BY <1>1, <1>4, <1>5, <1>6, <1>8 DEF IsRun, Fields, Stays
<1>9. CASE /\ H!Changed(run.frame)
           /\ run' = [run EXCEPT !.frame = run.frame + 1, !.last = words, !.contexts = more]
  BY <1>1, <1>4, <1>5, <1>6, <1>9 DEF IsRun, Fields, Stays
<1>10. CASE /\ H!Changed(run.frame)
            /\ run' = [run EXCEPT !.frame = run.frame + 1, !.last = words, !.missed = TRUE]
  BY <1>1, <1>4, <1>5, <1>6, <1>10 DEF IsRun, Fields, Stays
<1> QED
  BY <1>7, <1>8, <1>9, <1>10

\* Where runs begin and end.
LEMMA RestingLemma ==
  /\ IsRun(H!Resting) /\ H!Resting.pc = "idle" /\ H!Resting.took = {}
  /\ H!Resting.errors = FALSE
<1>1. H!Resting = [f \in Fields |-> H!Resting[f]]
  BY DEF H!Resting, Fields
<1>2. /\ H!Resting.pc = "idle" /\ H!Resting.left = {} /\ H!Resting.todo = {}
      /\ H!Resting.took = {} /\ H!Resting.errors = FALSE /\ H!Resting.missed = FALSE
      /\ H!Resting.on = None /\ H!Resting.kind = None /\ H!Resting.plan = <<>>
      /\ H!Resting.frame = 1 /\ H!Resting.contexts = <<>>
  BY DEF H!Resting
<1> PICK rest : rest = H!Resting
  OBVIOUS
<1>3. rest.plan \in Seq(Items) /\ rest.contexts \in Seq(Nat)
  BY <1>2
<1>4. rest.frame \in Nat \ {0}
  <2>1. rest.frame = 1
    BY <1>2
  <2> QED
    BY <2>1
<1>5. /\ rest.pc \in {"idle", "organize", "next", "route", "work"}
      /\ rest.errors \in BOOLEAN /\ rest.missed \in BOOLEAN
      /\ rest.on \in Recordings \cup {None} /\ rest.kind \in H!Kinds \cup {None}
  BY <1>2, Zenon
<1>6. /\ rest.left \subseteq Recordings /\ rest.todo \subseteq Recordings
      /\ rest.took \subseteq Recordings
  BY <1>2, Zenon
<1>7. IsRun(rest)
  BY <1>1, <1>3, <1>4, <1>5, <1>6, Zenon DEF IsRun
<1> QED
  BY <1>2, <1>7

\* A step of the run, from where it is.
LEMMA RunStep ==
  ASSUME Placing, H!Next \/ UNCHANGED H!handling
  PROVE  /\ IsRun(run)'
         /\ \/ run.pc = "work" /\ Stays /\ UNCHANGED <<marked, given>>
            \/ run' = run /\ UNCHANGED <<marked, given>>
            \/ H!Route
            \/ \E r \in Recordings : H!Transcribe(r)
            \/ run'.pc \notin {"route", "work"}
<1>1. IsRun(run)
  BY DEF Placing
<1>2. CASE H!Start
  <2> PICK rest : rest = H!Resting
    OBVIOUS
  <2>1. IsRun(rest)
    BY RestingLemma
  <2> PICK L : L = {r \in Recordings : place[r] = "inbox"}
    OBVIOUS
  <2>2. run' = [rest EXCEPT !.pc = "organize", !.left = L]
    BY <1>2 DEF H!Start
  <2>3. run' = [f \in Fields |-> run'[f]]
    BY <2>1, <2>2 DEF IsRun, Fields
  <2>4. /\ run'.pc = "organize" /\ run'.left = L /\ run'.todo = rest.todo
        /\ run'.took = rest.took /\ run'.errors = rest.errors /\ run'.missed = rest.missed
        /\ run'.on = rest.on /\ run'.kind = rest.kind /\ run'.plan = rest.plan
        /\ run'.frame = rest.frame /\ run'.contexts = rest.contexts
    BY <2>1, <2>2 DEF IsRun, Fields
  <2>5. L \subseteq Recordings
    OBVIOUS
  <2> QED
    BY <2>1, <2>3, <2>4, <2>5 DEF IsRun
<1>3. CASE H!List
  BY <1>1, <1>3 DEF H!List, IsRun, Fields
<1>4. CASE H!End \/ H!Halt
  <2>1. run' = H!Resting
    BY <1>4 DEF H!End, H!Halt
  <2> QED
    BY <2>1, RestingLemma
<1>5. CASE H!NextDay \/ (\E path \in DOMAIN files : H!Edit(path)) \/ UNCHANGED H!handling
  BY <1>1, <1>5 DEF H!NextDay, H!Edit, H!handling, IsRun, Fields
<1>6. CASE H!Write \/ H!Summarize \/ H!Looked \/ H!Documents
  <2>1. run.pc = "work" /\ run.plan # <<>> /\ run' = H!Onward /\ UNCHANGED <<marked, given>>
    BY <1>6 DEF H!Write, H!Summarize, H!Looked, H!Documents, H!Does, H!aside
  <2> QED
    BY <2>1, OnwardLemma DEF Stays
<1>7. CASE H!Look
  BY <1>7, LookLemma DEF Stays, H!Look, H!aside
<1>8. CASE H!Finish \/ H!WriteFails \/ H!OddAnswer
  BY <1>1, <1>8 DEF H!Finish, H!WriteFails, H!OddAnswer, IsRun, Fields
<1>9. CASE H!Route
  BY <1>1, <1>9, RouteLemma DEF IsRun, Fields
<1>10. CASE \E r \in Recordings : H!Organize(r) \/ H!Skip(r)
  <2>1. PICK r \in Recordings : H!Organize(r) \/ H!Skip(r)
    BY <1>10
  <2>2. CASE H!Organize(r)
    <3>1. run' = [run EXCEPT !.left = @ \ {r}] /\ run.pc = "organize"
      BY <2>2 DEF H!Organize
    <3> QED
      BY <1>1, <3>1 DEF IsRun, Fields
  <2>3. CASE H!Skip(r)
    <3>1. run' = [run EXCEPT !.todo = @ \ {r}] /\ run.pc = "next"
      BY <2>3 DEF H!Skip
    <3> QED
      BY <1>1, <3>1 DEF IsRun, Fields
  <2> QED
    BY <2>1, <2>2, <2>3
<1>11. CASE \E r \in Recordings : H!Transcribe(r)
  <2>1. PICK r \in Recordings : H!Transcribe(r)
    BY <1>11
  <2>2. IsRun(run)'
    <3>1. CASE run' = [run EXCEPT !.pc = "route", !.todo = @ \ {r}, !.took = @ \cup {r}, !.on = r]
      <4>1. run' = [f \in Fields |-> run'[f]]
        BY <1>1, <3>1 DEF IsRun, Fields
      <4>2. /\ run'.pc = "route" /\ run'.left = run.left /\ run'.todo = run.todo \ {r}
            /\ run'.took = run.took \cup {r} /\ run'.errors = run.errors
            /\ run'.missed = run.missed /\ run'.on = r /\ run'.kind = run.kind
            /\ run'.plan = run.plan /\ run'.frame = run.frame /\ run'.contexts = run.contexts
        BY <1>1, <3>1 DEF IsRun, Fields
      <4> QED
        BY <1>1, <4>1, <4>2 DEF IsRun
    <3>2. CASE run' = [run EXCEPT !.todo = @ \ {r}, !.took = @ \cup {r}, !.errors = TRUE]
      <4>1. run' = [f \in Fields |-> run'[f]]
        BY <1>1, <3>2 DEF IsRun, Fields
      <4>2. /\ run'.pc = run.pc /\ run'.left = run.left /\ run'.todo = run.todo \ {r}
            /\ run'.took = run.took \cup {r} /\ run'.errors = TRUE
            /\ run'.missed = run.missed /\ run'.on = run.on /\ run'.kind = run.kind
            /\ run'.plan = run.plan /\ run'.frame = run.frame /\ run'.contexts = run.contexts
        BY <1>1, <3>2 DEF IsRun, Fields
      <4> QED
        BY <1>1, <4>1, <4>2 DEF IsRun
    <3> QED
      BY <2>1, <3>1, <3>2 DEF H!Transcribe
  <2> QED
    BY <1>11, <2>2
<1> QED
  BY <1>2, <1>3, <1>4, <1>5, <1>6, <1>7, <1>8, <1>9, <1>10, <1>11 DEF H!Next

\* The recording at hand stays at hand, until another one gets its transcript.
LEMMA OnStep ==
  ASSUME Placing, H!Next \/ UNCHANGED H!handling, Handles'
  PROVE  \/ Handles /\ run'.on = run.on /\ run'.took = run.took /\ run'.errors = run.errors
            /\ UNCHANGED marked
         \/ /\ run'.on \in Recordings \ transcribed /\ run'.on \in transcribed'
            /\ marked[run'.on] = None /\ UNCHANGED marked /\ ~Handles
            /\ run'.took = run.took \cup {run'.on} /\ run'.errors = run.errors
<1>1. CASE run.pc = "work" /\ Stays /\ UNCHANGED <<marked, given>>
  BY <1>1 DEF Stays, Handles
<1>2. CASE run' = run /\ UNCHANGED <<marked, given>>
  BY <1>2 DEF Handles
<1>3. CASE H!Route
  <2>1. IsRun(run) /\ run.pc = "route"
    BY <1>3 DEF Placing, H!Route
  <2>2. run' # [run EXCEPT !.pc = "next"]
    BY <2>1 DEF Handles, IsRun, Fields
  <2> QED
    BY <1>3, <2>1, <2>2, RouteLemma DEF Handles
<1>4. CASE \E r \in Recordings : H!Transcribe(r)
  <2>1. PICK r \in Recordings : H!Transcribe(r)
    BY <1>4
  <2>2. IsRun(run) /\ run.pc = "next" /\ ~H!Processed(r) /\ UNCHANGED marked
    BY <2>1 DEF Placing, H!Transcribe
  <2>3. CASE run' = [run EXCEPT !.todo = @ \ {r}, !.took = @ \cup {r}, !.errors = TRUE]
    BY <2>2, <2>3 DEF Handles, IsRun, Fields
  <2>4. CASE /\ transcribed' = transcribed \cup {r}
             /\ run' = [run EXCEPT !.pc = "route", !.todo = @ \ {r}, !.took = @ \cup {r}, !.on = r]
    BY <2>2, <2>4 DEF Handles, IsRun, Fields, H!Processed
  <2> QED
    BY <2>1, <2>3, <2>4 DEF H!Transcribe
<1>5. CASE run'.pc \notin {"route", "work"}
  BY <1>5 DEF Handles
<1> QED
  BY <1>1, <1>2, <1>3, <1>4, <1>5, RunStep

\* A handler goes on in its folder, or begins.
LEMMA WorkStep ==
  ASSUME Placing, H!Next \/ UNCHANGED H!handling, run'.pc = "work"
  PROVE  \/ /\ run.pc = "work" /\ run'.on = run.on /\ run'.kind = run.kind
            /\ run'.folder = run.folder /\ run'.project = run.project
         \/ H!Route /\ UNCHANGED marked /\ ~(run' = [run EXCEPT !.pc = "next"])
<1>1. IsRun(run)
  BY DEF Placing
<1>2. CASE \E r \in Recordings : H!Transcribe(r)
  BY <1>1, <1>2 DEF H!Transcribe, IsRun, Fields
<1>3. CASE H!Route
  BY <1>1, <1>3, RouteLemma DEF IsRun, Fields
<1> QED
  BY <1>2, <1>3, RunStep DEF Stays

\* Notes are written where the handler has come to, or by a user.
Puts(by) ==
  /\ run.pc = "work" /\ run.plan # <<>> /\ ~H!Spared
  /\ H!Put(H!Path, by) /\ UNCHANGED <<marked, transcribed, visits, given, kept>>
  /\ \/ by # "torn" /\ Stays
     \/ by = "torn" /\ run'.pc = "next"

\* Notes change where a handler or a user writes, and nowhere else.
LEMMA FilesStep ==
  ASSUME Placing, H!Next \/ UNCHANGED H!handling
  PROVE  \/ UNCHANGED <<files, kept>>
         \/ \E by \in {"handler", "template", "answer", "torn"} : Puts(by)
         \/ \E path \in DOMAIN files : H!Edit(path)
<1>1. CASE H!Write \/ H!Summarize
  <2>1. run.pc = "work" /\ run.plan # <<>> /\ run' = H!Onward
    BY <1>1 DEF H!Write, H!Summarize, H!Does
  <2>2. Stays
    BY <2>1, OnwardLemma
  <2> QED
    BY <1>1, <2>1, <2>2 DEF H!Write, H!Summarize, H!aside, Puts
<1>2. CASE H!WriteFails
  <2>1. IsRun(run) /\ run' = [run EXCEPT !.pc = "next", !.errors = TRUE]
    BY <1>2 DEF Placing, H!WriteFails
  <2>2. run'.pc = "next"
    BY <2>1 DEF IsRun, Fields
  <2> QED
    BY <1>2, <2>2 DEF H!WriteFails, H!Does, H!aside, Puts
<1>3. CASE H!Start \/ H!List \/ H!End \/ H!Halt \/ H!NextDay \/ UNCHANGED H!handling
  BY <1>3 DEF H!Start, H!List, H!End, H!Halt, H!NextDay, H!handling
<1>4. CASE H!Look \/ H!Looked \/ H!Documents \/ H!Route \/ H!Finish \/ H!OddAnswer
  BY <1>4 DEF H!Look, H!Looked, H!Documents, H!Route, H!Finish, H!OddAnswer, H!aside
<1>5. CASE \E r \in Recordings : H!Organize(r) \/ H!Skip(r) \/ H!Transcribe(r)
  BY <1>5 DEF H!Organize, H!Skip, H!Transcribe
<1> QED
  BY <1>1, <1>2, <1>3, <1>4, <1>5 DEF H!Next

\* A note that is put there.
LEMMA PutLemma ==
  ASSUME Placing, NEW by \in Writers, NEW path, H!Put(path, by), run.on \in Recordings
  PROVE  /\ DOMAIN files' = DOMAIN files \cup {path}
         /\ files'[path] = [of |-> run.on, by |-> by]
         /\ \A x \in DOMAIN files \ {path} : files'[x] = files[x]
         /\ files' \in [DOMAIN files' -> [of : Recordings, by : Writers]]
<1>1. files' = [x \in DOMAIN files \cup {path} |->
                  IF x = path THEN [of |-> run.on, by |-> by] ELSE files[x]]
  BY DEF H!Put
<1>2. \A x \in DOMAIN files : files[x] \in [of : Recordings, by : Writers]
  BY DEF Placing
<1>3. [of |-> run.on, by |-> by] \in [of : Recordings, by : Writers]
  OBVIOUS
<1> QED
  BY <1>1, <1>2, <1>3

\* A note that a user writes in.
LEMMA EditLemma ==
  ASSUME Placing, NEW path \in DOMAIN files, H!Edit(path)
  PROVE  /\ DOMAIN files' = DOMAIN files
         /\ files'[path] = [of |-> files[path].of, by |-> "user"]
         /\ \A x \in DOMAIN files \ {path} : files'[x] = files[x]
         /\ files' \in [DOMAIN files' -> [of : Recordings, by : Writers]]
<1>1. files \in [DOMAIN files -> [of : Recordings, by : Writers]]
  BY DEF Placing
<1> PICK note : note = [of |-> files[path].of, by |-> "user"]
  OBVIOUS
<1>2. note \in [of : Recordings, by : Writers]
  BY <1>1 DEF Writers
<1>3. files' = [files EXCEPT ![path] = note]
  <2>1. [files[path] EXCEPT !.by = "user"] = note
    BY <1>1
  <2> QED
    BY <2>1 DEF H!Edit
<1>4. /\ DOMAIN files' = DOMAIN files /\ files'[path] = note
      /\ \A x \in DOMAIN files \ {path} : files'[x] = files[x]
  BY <1>1, <1>3
<1>5. files' \in [DOMAIN files' -> [of : Recordings, by : Writers]]
  BY <1>1, <1>2, <1>3
<1> QED
  BY <1>4, <1>5

\* Types.
LEMMA PlacingStep ==
  ASSUME Placing, H!Next \/ UNCHANGED H!handling
  PROVE  Placing'
<1>1. IsRun(run)'
  BY RunStep
<1>2. files' \in [DOMAIN files' -> [of : Recordings, by : Writers]]
  <2>1. CASE UNCHANGED <<files, kept>>
    BY <2>1 DEF Placing
  <2>2. CASE \E by \in {"handler", "template", "answer", "torn"} : Puts(by)
    <3>1. PICK by \in {"handler", "template", "answer", "torn"} : Puts(by)
      BY <2>2
    <3>2. run.on \in Recordings /\ H!Put(H!Path, by) /\ by \in Writers
      BY <3>1 DEF Puts, Placing, Handles, H!TypeOK, Writers
    <3> QED
      BY <3>2, PutLemma
  <2>3. CASE \E path \in DOMAIN files : H!Edit(path)
    BY <2>3, EditLemma
  <2> QED
    BY <2>1, <2>2, <2>3, FilesStep
<1>3. Handles' => /\ run'.on \in transcribed' /\ run'.on \in run'.took /\ marked'[run'.on] = None
  <2> SUFFICES ASSUME Handles' PROVE /\ run'.on \in transcribed' /\ run'.on \in run'.took
                                     /\ marked'[run'.on] = None
    OBVIOUS
  <2> QED
    BY OnStep, Grows DEF Placing
<1>4. run'.pc = "work" =>
        run'.kind \in H!Kinds /\ <<run'.folder, run'.on, run'.kind>> \in visits'
  <2> SUFFICES ASSUME run'.pc = "work"
               PROVE  run'.kind \in H!Kinds /\ <<run'.folder, run'.on, run'.kind>> \in visits'
    OBVIOUS
  <2>1. CASE /\ run.pc = "work" /\ run'.on = run.on /\ run'.kind = run.kind
             /\ run'.folder = run.folder
    BY <2>1, Grows DEF Placing
  <2>2. CASE H!Route /\ ~(run' = [run EXCEPT !.pc = "next"])
    BY <2>2, RouteLemma
  <2> QED
    BY <2>1, <2>2, WorkStep
<1>5. DOMAIN given' = Recordings
  <2>1. H!Finish \/ given' = given
    BY DEF H!Next, H!Start, H!List, H!Route, H!Write, H!Summarize, H!Look, H!Looked, H!Documents,
           H!WriteFails, H!OddAnswer, H!End, H!Halt, H!NextDay, H!Organize, H!Skip, H!Transcribe,
           H!Edit, H!handling, H!aside
  <2> QED
    BY <2>1 DEF H!Finish, Placing
<1>6. H!TypeOK'
  <2>1. /\ run'.pc \in {"idle", "organize", "next", "route", "work"}
        /\ run'.left \cup run'.todo \cup run'.took \subseteq Recordings
    BY <1>1 DEF IsRun, Fields
  <2>2. setup' \in Setups
    BY Grows DEF Placing, H!TypeOK
  <2>3. DOMAIN place' = Recordings
    <3>1. (\E r \in Recordings : H!Organize(r)) \/ place' = place
      BY DEF H!Next, H!Start, H!List, H!Route, H!Write, H!Summarize, H!Look, H!Looked, H!Documents,
             H!WriteFails, H!OddAnswer, H!End, H!Halt, H!NextDay, H!Finish, H!Skip, H!Transcribe,
             H!Edit, H!handling, H!aside
    <3> QED
      BY <3>1 DEF H!Organize, Placing, H!TypeOK
  <2>4. transcribed' \subseteq Recordings
    <3>1. (\E r \in Recordings : H!Transcribe(r)) \/ transcribed' = transcribed
      BY DEF H!Next, H!Start, H!List, H!Route, H!Write, H!Summarize, H!Look, H!Looked, H!Documents,
             H!WriteFails, H!OddAnswer, H!End, H!Halt, H!NextDay, H!Finish, H!Skip, H!Organize,
             H!Edit, H!handling, H!aside
    <3> QED
      BY <3>1 DEF H!Transcribe, Placing, H!TypeOK
  <2>5. marked' \in [Recordings -> Marks]
    <3>1. \/ marked' = marked \/ (\E r \in Recordings : H!Skip(r))
          \/ \E how \in Marks : H!Mark(how)
      BY DEF H!Next, H!Start, H!List, H!Route, H!Write, H!Summarize, H!Look, H!Looked, H!Documents,
             H!WriteFails, H!OddAnswer, H!End, H!Halt, H!NextDay, H!Finish, H!Transcribe,
             H!Organize, H!Edit, H!handling, H!aside, Marks
    <3>2. marked \in [Recordings -> Marks]
      BY DEF Placing, H!TypeOK, Marks
    <3> QED
      BY <3>1, <3>2 DEF H!Mark, H!Skip, Marks
  <2>6. day' \in 1 .. MaxDays /\ passes' \in 0 .. MaxPasses /\ edits' \in 0 .. MaxEdits
        /\ halts' \in 0 .. MaxHalts
    <3>1. {MaxPasses, MaxDays, MaxEdits, MaxHalts} \subseteq Nat
      BY HandlersAssumption DEF H!HandlersAssumption
    <3>2. /\ day \in 1 .. MaxDays /\ passes \in 0 .. MaxPasses /\ edits \in 0 .. MaxEdits
          /\ halts \in 0 .. MaxHalts
      BY DEF Placing, H!TypeOK
    <3>3. /\ day' = day \/ (day < MaxDays /\ day' = day + 1)
          /\ passes' = passes \/ (passes < MaxPasses /\ passes' = passes + 1)
          /\ edits' = edits \/ (edits < MaxEdits /\ edits' = edits + 1)
          /\ halts' = halts \/ (halts < MaxHalts /\ halts' = halts + 1)
      BY DEF H!Next, H!Start, H!List, H!Route, H!Write, H!Summarize, H!Look, H!Looked, H!Documents,
             H!WriteFails, H!OddAnswer, H!End, H!Halt, H!NextDay, H!Finish, H!Skip, H!Organize,
             H!Transcribe, H!Edit, H!handling, H!aside, H!outside
    <3> QED
      BY <3>1, <3>2, <3>3
  <2> QED
    BY <2>1, <2>2, <2>3, <2>4, <2>5, <2>6 DEF H!TypeOK, Marks
<1> QED
  BY <1>1, <1>2, <1>3, <1>4, <1>5, <1>6 DEF Placing

\* Folders are below the output of a project that was named.
LEMMA FolderedStep ==
  ASSUME Placing, Foldered, H!Next \/ UNCHANGED H!handling
  PROVE  Foldered'
<1>1. setup' = setup /\ H!Loaded' = H!Loaded
  BY Grows DEF H!Loaded, H!Formed
<1>2. H!OutputsSafe'
  <2>1. ASSUME setup.settings.container, NEW v \in visits', v \notin visits
        PROVE  v[1][1].root \in {"data", "export"}
    <3>1. H!Route
      BY <2>1 DEF H!Next, H!Start, H!List, H!Write, H!Summarize, H!Look, H!Looked, H!Documents,
             H!WriteFails, H!OddAnswer, H!End, H!Halt, H!NextDay, H!Finish, H!Skip, H!Organize,
             H!Transcribe, H!Edit, H!handling, H!aside
    <3>2. PICK i \in H!Loaded : /\ setup.projects[i].output = run'.folder[1]
                                /\ H!Usable(setup.projects[i])
      BY <2>1, <3>1, RouteLemma
    <3>3. v[1][1] = setup.projects[i].output
      BY <2>1, <3>1, <3>2, RouteLemma
    <3> QED
      BY <2>1, <3>2, <3>3, OutputLemma DEF Placing
  <2> QED
    BY <1>1, <2>1 DEF Foldered, H!OutputsSafe
<1>3. \A r \in Recordings : given'[r] # None => \E i \in H!Loaded :
        /\ setup.projects[i].name = given'[r].name
        /\ setup.projects[i].output = given'[r].folder[1]
  <2>1. CASE given' = given
    BY <2>1 DEF Foldered
  <2>2. CASE H!Finish
    BY <2>2 DEF Foldered, Placing, H!Finish
  <2>3. H!Finish \/ given' = given
    BY DEF H!Next, H!Start, H!List, H!Route, H!Write, H!Summarize, H!Look, H!Looked, H!Documents,
           H!WriteFails, H!OddAnswer, H!End, H!Halt, H!NextDay, H!Organize, H!Skip, H!Transcribe,
           H!Edit, H!handling, H!aside
  <2> QED
    BY <2>1, <2>2, <2>3
<1>4. run'.pc = "work" => \E i \in H!Loaded :
        /\ setup.projects[i].name = run'.project.name
        /\ setup.projects[i].output = run'.folder[1]
  <2> SUFFICES ASSUME run'.pc = "work"
               PROVE  \E i \in H!Loaded : /\ setup.projects[i].name = run'.project.name
                                          /\ setup.projects[i].output = run'.folder[1]
    OBVIOUS
  <2>1. CASE run.pc = "work" /\ run'.folder = run.folder /\ run'.project = run.project
    BY <2>1 DEF Foldered
  <2>2. CASE H!Route /\ ~(run' = [run EXCEPT !.pc = "next"])
    BY <2>2, RouteLemma
  <2> QED
    BY <2>1, <2>2, WorkStep
<1> QED
  BY <1>1, <1>2, <1>3, <1>4 DEF Foldered

\* What a run without errors took is brought to an end.
LEMMA BroughtStep ==
  ASSUME Placing, Brought, H!Next \/ UNCHANGED H!handling
  PROVE  Brought'
<1>1. None \notin Ended
  BY HandlersAssumption DEF H!HandlersAssumption, Ended
<1>2. \A r \in Recordings : marked[r] \in Ended => marked'[r] \in Ended
  BY <1>1, Grows
<1>3. IsRun(run) /\ run.took \subseteq Recordings
  BY DEF Placing, IsRun, Fields
<1>4. ASSUME ~run'.errors, NEW r \in run'.took
      PROVE  marked'[r] \in Ended \/ (Handles' /\ r = run'.on)
  <2>1. CASE Handles'
    <3>1. CASE Handles /\ run'.on = run.on /\ run'.took = run.took /\ run'.errors = run.errors
      BY <1>2, <1>3, <1>4, <2>1, <3>1 DEF Brought
    <3>2. CASE ~Handles /\ run'.took = run.took \cup {run'.on} /\ run'.errors = run.errors
      BY <1>2, <1>3, <1>4, <2>1, <3>2 DEF Brought
    <3> QED
      BY <2>1, <3>1, <3>2, OnStep
  <2>2. CASE ~Handles'
    <3>1. CASE H!Start \/ H!End \/ H!Halt
      <4> PICK rest : rest = H!Resting
        OBVIOUS
      <4>1. IsRun(rest) /\ rest.took = {}
        BY RestingLemma
      <4>2. run'.took = {}
        <5>1. CASE H!Start
          <6>1. run' = [rest EXCEPT !.pc = "organize",
                                    !.left = {q \in Recordings : place[q] = "inbox"}]
            BY <5>1 DEF H!Start
          <6> QED
            BY <4>1, <6>1 DEF IsRun, Fields
        <5>2. CASE H!End \/ H!Halt
          BY <4>1, <5>2 DEF H!End, H!Halt
        <5> QED
          BY <3>1, <5>1, <5>2
      <4> QED
        BY <1>4, <4>2
    <3>2. CASE H!Finish \/ H!Route
      <4>1. marked'[run.on] \in Ended /\ run'.took = run.took /\ run'.errors = run.errors
        <5>1. run.on \in Recordings /\ marked \in [Recordings -> Marks]
          BY <3>2 DEF Placing, Handles, H!Finish, H!Route, H!TypeOK, Marks
        <5>2. CASE H!Finish
          BY <1>3, <5>1, <5>2 DEF H!Finish, H!Mark, IsRun, Fields, Ended
        <5>3. CASE H!Route
          <6>1. H!Mark("completed") /\ run' = [run EXCEPT !.pc = "next"]
            BY <2>2, <5>3, RouteLemma DEF Handles
          <6> QED
            BY <1>3, <5>1, <6>1 DEF H!Mark, IsRun, Fields, Ended
        <5> QED
          BY <3>2, <5>2, <5>3
      <4> QED
        BY <1>2, <1>3, <1>4, <4>1 DEF Brought
    <3>3. CASE H!WriteFails \/ H!OddAnswer
      BY <1>3, <1>4, <3>3 DEF H!WriteFails, H!OddAnswer, IsRun, Fields
    <3>4. CASE H!List \/ (\E q \in Recordings : H!Organize(q) \/ H!Skip(q))
      <4>1. run'.took = run.took /\ run'.errors = run.errors /\ ~Handles
        BY <1>3, <3>4 DEF H!List, H!Organize, H!Skip, IsRun, Fields, Handles
      <4> QED
        BY <1>2, <1>3, <1>4, <4>1 DEF Brought
    <3>5. CASE \E q \in Recordings : H!Transcribe(q)
      BY <1>3, <1>4, <2>2, <3>5 DEF H!Transcribe, IsRun, Fields, Handles
    <3>6. CASE H!NextDay \/ (\E path \in DOMAIN files : H!Edit(path)) \/ UNCHANGED H!handling
      <4>1. run' = run
        BY <3>6 DEF H!NextDay, H!Edit, H!handling
      <4> QED
        BY <1>2, <1>3, <1>4, <2>2, <4>1 DEF Brought, Handles
    <3>7. CASE H!Write \/ H!Summarize \/ H!Look \/ H!Looked \/ H!Documents
      <4>1. run.pc = "work"
        BY <3>7 DEF H!Write, H!Summarize, H!Look, H!Looked, H!Documents, H!Does
      <4>2. CASE H!Look
        BY <2>2, <4>1, <4>2, LookLemma DEF Stays, Handles
      <4>3. CASE H!Write \/ H!Summarize \/ H!Looked \/ H!Documents
        BY <2>2, <4>1, <4>3, OnwardLemma
          DEF Stays, Handles, H!Write, H!Summarize, H!Looked, H!Documents, H!Does
      <4> QED
        BY <3>7, <4>2, <4>3
    <3> QED
      BY <3>1, <3>2, <3>3, <3>4, <3>5, <3>6, <3>7 DEF H!Next
  <2> QED
    BY <2>1, <2>2
<1>5. H!VerdictIsHonest' /\ verdict'.took \subseteq Recordings
  <2>1. CASE verdict' = verdict
    BY <1>2, <2>1 DEF Brought, H!VerdictIsHonest, Ended
  <2>2. CASE H!End
    <3>1. verdict' = [ok |-> ~run.errors, took |-> run.took] /\ marked' = marked /\ ~Handles
      BY <2>2 DEF H!End, Handles
    <3> QED
      BY <1>3, <3>1 DEF Brought, H!VerdictIsHonest, Ended
  <2>3. H!End \/ verdict' = verdict
    BY DEF H!Next, H!Start, H!List, H!Route, H!Write, H!Summarize, H!Look, H!Looked, H!Documents,
           H!WriteFails, H!OddAnswer, H!Finish, H!Halt, H!NextDay, H!Organize, H!Skip, H!Transcribe,
           H!Edit, H!handling, H!aside
  <2> QED
    BY <2>1, <2>2, <2>3
<1> QED
  BY <1>4, <1>5 DEF Brought

\* Only a handler that comes to its end marks a recording as routed.
LEMMA RoutedStep ==
  ASSUME Placing, H!Next \/ UNCHANGED H!handling,
         NEW r \in Recordings, marked'[r] = "completed_routed"
  PROVE  \/ marked[r] = "completed_routed" /\ given'[r] = given[r]
         \/ H!Finish /\ Handles /\ r = run.on
<1>1. marked \in [Recordings -> Marks] /\ DOMAIN given = Recordings
  BY DEF Placing, H!TypeOK, Marks
<1>2. CASE H!Finish
  <2>1. Handles /\ marked[run.on] = None /\ run.on \in Recordings
    BY <1>2 DEF H!Finish, Handles, Placing, H!TypeOK
  <2>2. CASE r # run.on
    BY <1>1, <1>2, <2>1, <2>2 DEF H!Finish, H!Mark
  <2> QED
    BY <1>2, <2>1, <2>2
<1>3. CASE H!Route \/ H!OddAnswer
  BY <1>1, <1>3 DEF H!Route, H!OddAnswer, H!Mark
<1>4. CASE \E q \in Recordings : H!Skip(q)
  BY <1>1, <1>4 DEF H!Skip
<1>5. CASE UNCHANGED <<marked, given>>
  BY <1>5
<1>6. \/ H!Finish \/ H!Route \/ H!OddAnswer \/ (\E q \in Recordings : H!Skip(q))
      \/ UNCHANGED <<marked, given>>
  BY DEF H!Next, H!Start, H!List, H!Write, H!Summarize, H!Look, H!Looked, H!Documents,
         H!WriteFails, H!End, H!Halt, H!NextDay, H!Organize, H!Transcribe,
         H!Edit, H!handling, H!aside
<1> QED
  BY <1>2, <1>3, <1>4, <1>5, <1>6

\* Whose the notes are.
LEMMA OwnedStep ==
  ASSUME Placing, Owned, H!Next \/ UNCHANGED H!handling
  PROVE  Owned'
<1> DEFINE Whose(r, by, folder) ==
             /\ \E v \in visits' : v[1] = folder /\ v[2] = r
             /\ by = "torn" => r \in transcribed' /\ marked'[r] # "completed_routed"
                                /\ ~(Handles' /\ run'.on = r)
<1>1. \A path \in DOMAIN files : files[path].of \in Recordings
  BY DEF Placing
<1>2. ASSUME NEW path \in DOMAIN files
      PROVE  Whose(files[path].of, files[path].by, path[1])
  <2> PICK r : r = files[path].of
    OBVIOUS
  <2>1. r \in Recordings
    BY <1>1
  <2>2. \E v \in visits' : v[1] = path[1] /\ v[2] = r
    BY Grows DEF Owned
  <2>3. ASSUME files[path].by = "torn"
        PROVE  r \in transcribed' /\ marked'[r] # "completed_routed" /\ ~(Handles' /\ run'.on = r)
    <3>1. r \in transcribed /\ marked[r] # "completed_routed" /\ ~(Handles /\ run.on = r)
      BY <2>3 DEF Owned
    <3>2. r \in transcribed'
      BY <3>1, Grows
    <3>3. marked'[r] # "completed_routed"
      BY <2>1, <3>1, RoutedStep
    <3>4. ~(Handles' /\ run'.on = r)
      BY <3>1, OnStep
    <3> QED
      BY <3>2, <3>3, <3>4
  <2> QED
    BY <2>2, <2>3
<1>3. ASSUME NEW path \in DOMAIN files'
      PROVE  Whose(files'[path].of, files'[path].by, path[1])
  <2>1. CASE UNCHANGED <<files, kept>>
    BY <1>2, <2>1
  <2>2. CASE \E by \in {"handler", "template", "answer", "torn"} : Puts(by)
    <3>1. PICK by \in {"handler", "template", "answer", "torn"} : Puts(by)
      BY <2>2
    <3>2. run.on \in Recordings /\ run.on \in transcribed /\ marked[run.on] = None
      BY <3>1 DEF Puts, Placing, Handles, H!TypeOK
    <3>3. /\ DOMAIN files' = DOMAIN files \cup {H!Path}
          /\ files'[H!Path] = [of |-> run.on, by |-> by]
          /\ \A x \in DOMAIN files \ {H!Path} : files'[x] = files[x]
      <4>1. by \in Writers /\ H!Put(H!Path, by)
        BY <3>1 DEF Puts, Writers
      <4> QED
        BY <3>2, <4>1, PutLemma
    <3>4. CASE path # H!Path
      BY <1>2, <3>3, <3>4
    <3>5. CASE path = H!Path
      <4>1. path[1] = run.folder
        BY <3>5 DEF H!Path
      <4>2. <<run.folder, run.on, run.kind>> \in visits'
        BY <3>1, Grows DEF Puts, Placing
      <4>3. by = "torn" => /\ run.on \in transcribed' /\ marked'[run.on] # "completed_routed"
                           /\ ~Handles'
        <5>1. None # "completed_routed"
          BY HandlersAssumption DEF H!HandlersAssumption
        <5> QED
          BY <3>1, <3>2, <5>1 DEF Puts, Handles
      <4>4. files'[path].of = run.on /\ files'[path].by = by
        BY <3>3, <3>5
      <4>5. \E v \in visits' : v[1] = path[1] /\ v[2] = run.on
        BY <4>1, <4>2
      <4> QED
        BY <4>3, <4>4, <4>5
    <3> QED
      BY <3>4, <3>5
  <2>3. CASE \E e \in DOMAIN files : H!Edit(e)
    <3>1. PICK e \in DOMAIN files : H!Edit(e)
      BY <2>3
    <3>2. /\ DOMAIN files' = DOMAIN files
          /\ files'[e] = [of |-> files[e].of, by |-> "user"]
          /\ \A x \in DOMAIN files \ {e} : files'[x] = files[x]
      BY <3>1, EditLemma
    <3>3. CASE path # e
      BY <1>2, <3>2, <3>3
    <3>4. CASE path = e
      <4>1. files'[path].of = files[e].of /\ files'[path].by = "user"
        BY <3>2, <3>4
      <4>2. Whose(files[e].of, files[e].by, e[1])
        BY <1>2
      <4> QED
        BY <3>4, <4>1, <4>2
    <3> QED
      BY <3>3, <3>4
  <2> QED
    BY <2>1, <2>2, <2>3, FilesStep
<1> QED
  BY <1>3 DEF Owned

\* The notes a plan no longer has are there.
LEMMA ThereStep ==
  ASSUME Placing, There, H!Next \/ UNCHANGED H!handling
  PROVE  There'
<1>1. DOMAIN files \subseteq DOMAIN files'
  BY Grows
<1>2. ASSUME run'.pc = "work", NEW note \in H!Notes(run'.kind)
      PROVE  note \in H!ToSet(run'.plan) \/ <<run'.folder, note>> \in DOMAIN files'
  <2>1. CASE H!Route /\ ~(run' = [run EXCEPT !.pc = "next"])
    <3>1. /\ run'.kind \in H!Kinds
          /\ \E video \in BOOLEAN : run'.plan = H!PlanOf(run'.kind, video)
      BY <2>1, RouteLemma
    <3> QED
      BY <1>2, <3>1, PlanLemma
  <2>2. CASE run.pc = "work" /\ run'.kind = run.kind /\ run'.folder = run.folder
    <3>1. note \in H!ToSet(run.plan) \/ <<run.folder, note>> \in DOMAIN files
      BY <1>2, <2>2 DEF There
    <3>2. IsRun(run) /\ run.kind \in H!Kinds
      BY <2>2 DEF Placing
    <3>3. CASE H!Write \/ H!Summarize
      <4>1. run.plan # <<>> /\ run' = H!Onward
        BY <3>3 DEF H!Write, H!Summarize, H!Does
      <4>2. /\ run'.plan = Tail(run.plan) /\ run.plan \in Seq(Items)
        BY <3>2, <4>1, OnwardLemma DEF IsRun, Fields
      <4>3. H!Path \in DOMAIN files'
        BY <3>3, <1>1 DEF H!Write, H!Summarize, H!Spared, H!Put
      <4>4. CASE note = Head(run.plan)
        BY <2>2, <4>3, <4>4 DEF H!Path, H!Doing
      <4>5. CASE note # Head(run.plan)
        BY <1>1, <2>2, <3>1, <4>1, <4>2, <4>5, TailLemma
      <4> QED
        BY <4>4, <4>5
    <3>4. CASE H!Looked \/ H!Documents
      <4>1. run.plan # <<>> /\ run' = H!Onward /\ Head(run.plan) \in {"frames", "documents"}
        BY <3>4 DEF H!Looked, H!Documents, H!Does, H!Doing
      <4>2. /\ run'.plan = Tail(run.plan) /\ run.plan \in Seq(Items)
        BY <3>2, <4>1, OnwardLemma DEF IsRun, Fields
      <4>3. note # Head(run.plan)
        BY <1>2, <2>2, <3>2, <4>1, PlanLemma
      <4> QED
        BY <1>1, <2>2, <3>1, <4>1, <4>2, <4>3, TailLemma
    <3>5. CASE H!Look
      BY <1>1, <2>2, <3>1, <3>5, LookLemma
    <3>6. CASE H!NextDay \/ (\E path \in DOMAIN files : H!Edit(path)) \/ UNCHANGED H!handling
      <4>1. run' = run
        BY <3>6 DEF H!NextDay, H!Edit, H!handling
      <4> QED
        BY <1>1, <3>1, <4>1
    <3>7. CASE H!Start \/ H!List \/ H!End \/ H!Halt
      BY <1>2, <2>2, <3>2, <3>7 DEF H!Start, H!List, H!End, H!Halt, H!Resting, IsRun, Fields
    <3>8. CASE H!Route \/ H!Finish \/ H!WriteFails \/ H!OddAnswer
      BY <1>2, <2>2, <3>2, <3>8 DEF H!Route, H!Finish, H!WriteFails, H!OddAnswer, IsRun, Fields
    <3>9. CASE \E q \in Recordings : H!Organize(q) \/ H!Skip(q) \/ H!Transcribe(q)
      BY <2>2, <3>9 DEF H!Organize, H!Skip, H!Transcribe
    <3> QED
      BY <3>3, <3>4, <3>5, <3>6, <3>7, <3>8, <3>9 DEF H!Next
  <2> QED
    BY <1>2, <2>1, <2>2, WorkStep
<1>3. ASSUME NEW r \in Recordings, marked'[r] = "completed_routed",
             NEW note \in H!Notes(given'[r].kind)
      PROVE  <<given'[r].folder, note>> \in DOMAIN files'
  <2>1. CASE marked[r] = "completed_routed" /\ given'[r] = given[r]
    BY <1>1, <1>3, <2>1 DEF There
  <2>2. CASE H!Finish /\ r = run.on
    <3>1. given'[r].kind = run.kind /\ given'[r].folder = run.folder
      BY <2>2 DEF H!Finish, Placing
    <3>2. note \notin H!ToSet(run.plan)
      BY <2>2 DEF H!Finish, H!ToSet
    <3> QED
      BY <1>1, <1>3, <2>2, <3>1, <3>2 DEF There, H!Finish
  <2> QED
    BY <1>3, <2>1, <2>2, RoutedStep
<1> QED
  BY <1>2, <1>3 DEF There

\* What users wrote.
LEMMA EditedStep ==
  ASSUME Placing, Edited, H!Next \/ UNCHANGED H!handling
  PROVE  Edited'
<1>1. DOMAIN files \subseteq DOMAIN files' /\ visits \subseteq visits'
  BY Grows
<1>2. ASSUME NEW path \in kept,
             \A v \in visits' : v[1] = path[1] => path[2] \in H!Kept(v[3])
      PROVE  files[path].by = "user" /\ path \in DOMAIN files
  BY <1>1, <1>2 DEF Edited, H!EditsKept
<1>3. CASE UNCHANGED <<files, kept>>
  BY <1>1, <1>2, <1>3 DEF Edited, H!EditsKept
<1>4. CASE \E by \in {"handler", "template", "answer", "torn"} : Puts(by)
  <2>1. PICK by \in {"handler", "template", "answer", "torn"} : Puts(by)
    BY <1>4
  <2>2. run.on \in Recordings
    BY <2>1 DEF Puts, Placing, Handles, H!TypeOK
  <2>3. /\ DOMAIN files' = DOMAIN files \cup {H!Path}
        /\ \A x \in DOMAIN files \ {H!Path} : files'[x] = files[x]
        /\ kept' = kept
    <3>1. by \in Writers /\ H!Put(H!Path, by) /\ kept' = kept
      BY <2>1 DEF Puts, Writers
    <3> QED
      BY <2>2, <3>1, PutLemma
  <2>4. ASSUME NEW path \in kept,
               \A v \in visits' : v[1] = path[1] => path[2] \in H!Kept(v[3])
        PROVE  files'[path].by = "user"
    <3>1. CASE path # H!Path
      BY <1>2, <2>3, <2>4, <3>1
    <3>2. CASE path = H!Path
      <4>1. path[1] = run.folder /\ path[2] = H!Doing
        BY <3>2 DEF H!Path
      <4>2. <<run.folder, run.on, run.kind>> \in visits'
        BY <1>1, <2>1 DEF Puts, Placing
      <4>3. H!Doing \in H!Kept(run.kind)
        BY <2>4, <4>1, <4>2
      <4>4. H!Spared
        BY <1>2, <2>4, <3>2, <4>3 DEF H!Spared
      <4> QED
        BY <2>1, <4>4 DEF Puts
    <3> QED
      BY <3>1, <3>2
  <2> QED
    BY <1>1, <2>3, <2>4 DEF Edited, H!EditsKept
<1>5. CASE \E e \in DOMAIN files : H!Edit(e)
  <2>1. PICK e \in DOMAIN files : H!Edit(e)
    BY <1>5
  <2>2. /\ DOMAIN files' = DOMAIN files
        /\ files'[e].by = "user"
        /\ \A x \in DOMAIN files \ {e} : files'[x] = files[x]
        /\ kept' = kept \cup {e}
    BY <2>1, EditLemma DEF H!Edit
  <2> QED
    BY <1>2, <2>2 DEF Edited, H!EditsKept
<1> QED
  BY <1>3, <1>4, <1>5, FilesStep

\* A frame that did not change is covered by what covers the one before; one
\* that did is described after all others, or missed.
LEMMA LookedLemma ==
  ASSUME MaxAnalyses \in Nat,
         NEW s \in Seq(STRING), NEW c \in Seq(Nat), NEW f \in 1 .. Len(s), NEW last,
         NEW missed \in BOOLEAN, Looked(s, f, last, c, missed)
  PROVE  /\ last # "blank" /\ s[f] = last => Looked(s, f + 1, last, c, missed)
         /\ (last = "blank" \/ s[f] # last) /\ Len(c) < MaxAnalyses =>
              Looked(s, f + 1, s[f], Append(c, f), missed)
         /\ Looked(s, f + 1, s[f], c, TRUE)
<1>1. /\ Len(s) \in Nat /\ Len(c) \in Nat /\ DOMAIN c = 1 .. Len(c)
      /\ \A i \in DOMAIN c : c[i] \in Nat
  OBVIOUS
<1>2. /\ last = IF f = 1 THEN "blank" ELSE s[f - 1]
      /\ Len(c) <= MaxAnalyses
      /\ \A i \in DOMAIN c : c[i] \in 1 .. f - 1
      /\ \A i, j \in DOMAIN c : i < j => c[i] < c[j]
      /\ \A i, j \in DOMAIN c : i < j /\ Alike(s, c[i], c[j]) => s[c[i]] = "blank"
      /\ ~missed => \A h \in 1 .. f - 1 : \E i \in DOMAIN c : c[i] <= h /\ Alike(s, c[i], h)
  BY DEF Looked
<1> DEFINE Covered(h) == \E i \in DOMAIN c : c[i] <= h /\ Alike(s, c[i], h)
<1>2a. ASSUME ~missed, NEW h \in 1 .. f, h # f
      PROVE  Covered(h)
  <2>1. h \in 1 .. f - 1
    BY <1>2a
  <2>2. \A g \in 1 .. f - 1 : Covered(g)
    BY <1>2a, <1>2, Zenon
  <2> QED
    BY <2>1, <2>2
<1>3. f + 1 \in 1 .. Len(s) + 1 /\ (f + 1) - 1 = f /\ f + 1 # 1
  BY <1>1
<1>4. \A i \in DOMAIN c : c[i] \in 1 .. f
  BY <1>1, <1>2
<1>5. Looked(s, f + 1, s[f], c, TRUE)
  BY <1>2, <1>3, <1>4 DEF Looked
<1>6. ASSUME last # "blank", s[f] = last
      PROVE  Looked(s, f + 1, last, c, missed)
  <2>1. f # 1 /\ s[f] = s[f - 1] /\ f - 1 \in 1 .. f - 1
    BY <1>2, <1>6
  <2>2. ASSUME ~missed, NEW h \in 1 .. f
        PROVE  \E i \in DOMAIN c : c[i] <= h /\ Alike(s, c[i], h)
    <3>1. CASE h # f
      BY <1>2a, <2>2, <3>1
    <3>2. CASE h = f
      <4>1. PICK i \in DOMAIN c : c[i] <= f - 1 /\ Alike(s, c[i], f - 1)
        BY <1>2, <2>1, <2>2
      <4>2. Alike(s, c[i], f)
        BY <1>1, <2>1, <4>1 DEF Alike
      <4> QED
        BY <1>1, <3>2, <4>1, <4>2
    <3> QED
      BY <3>1, <3>2
  <2> QED
    BY <1>2, <1>3, <1>4, <1>6, <2>2 DEF Looked
<1>7. ASSUME last = "blank" \/ s[f] # last, Len(c) < MaxAnalyses
      PROVE  Looked(s, f + 1, s[f], Append(c, f), missed)
  <2> PICK d : d = Append(c, f)
    OBVIOUS
  <2>1. /\ d \in Seq(Nat) /\ Len(d) = Len(c) + 1 /\ DOMAIN d = 1 .. Len(c) + 1
        /\ d[Len(c) + 1] = f /\ \A i \in DOMAIN c : i \in DOMAIN d /\ d[i] = c[i]
    BY <1>1
  <2>2. \A i \in DOMAIN d : i \in DOMAIN c \/ i = Len(c) + 1
    BY <1>1, <2>1
  <2>3. Len(d) <= MaxAnalyses
    BY <1>1, <1>7, <2>1
  <2>4. \A i \in DOMAIN d : d[i] \in 1 .. f
    BY <1>4, <2>1, <2>2
  <2>5. ASSUME NEW i \in DOMAIN d, NEW j \in DOMAIN d, i < j
        PROVE  d[i] < d[j] /\ (Alike(s, d[i], d[j]) => s[d[i]] = "blank")
    <3>1. CASE j \in DOMAIN c
      <4>1. i \in DOMAIN c
        BY <1>1, <2>1, <2>5, <3>1
      <4> QED
        BY <1>2, <2>1, <2>5, <3>1, <4>1
    <3>2. CASE j = Len(c) + 1
      <4>1. i \in DOMAIN c /\ d[i] = c[i] /\ d[j] = f /\ c[i] \in 1 .. f - 1
        BY <1>1, <1>2, <2>1, <2>5, <3>2
      <4>2. ASSUME Alike(s, c[i], f)
            PROVE  s[c[i]] = "blank"
        <5>1. f # 1 /\ f - 1 \in c[i] .. f /\ f \in c[i] .. f
          BY <4>1
        <5>2. s[f - 1] = s[c[i]] /\ s[f] = s[c[i]]
          BY <4>2, <5>1 DEF Alike
        <5>3. last = s[f - 1]
          BY <1>2, <5>1
        <5> QED
          BY <1>7, <5>2, <5>3
      <4> QED
        BY <4>1, <4>2
    <3> QED
      BY <2>2, <3>1, <3>2
  <2>6. ASSUME ~missed, NEW h \in 1 .. f
        PROVE  \E i \in DOMAIN d : d[i] <= h /\ Alike(s, d[i], h)
    <3>1. CASE h # f
      <4>1. PICK i \in DOMAIN c : c[i] <= h /\ Alike(s, c[i], h)
        BY <1>2a, <2>6, <3>1
      <4> QED
        BY <2>1, <4>1
    <3>2. CASE h = f
      <4>1. Len(c) + 1 \in DOMAIN d /\ Alike(s, f, f)
        BY <1>1, <2>1 DEF Alike
      <4> QED
        BY <2>1, <3>2, <4>1
    <3> QED
      BY <3>1, <3>2
  <2> QED
    BY <1>3, <2>3, <2>4, <2>5, <2>6 DEF Looked
<1> QED
  BY <1>5, <1>6, <1>7

\* The frames a handler has looked at.
LEMMA WatchedStep ==
  ASSUME Placing, Watched, H!Next \/ UNCHANGED H!handling
  PROVE  Watched'
<1>1. setup' = setup /\ MaxAnalyses \in Nat
  BY Grows, HandlersAssumption DEF H!HandlersAssumption
<1> SUFFICES ASSUME run'.pc = "work"
             PROVE  Looked(H!Screens', run'.frame, run'.last, run'.contexts, run'.missed)
  BY DEF Watched
<1>2. run'.on = run.on
  <2>1. CASE H!Route /\ ~(run' = [run EXCEPT !.pc = "next"])
    BY <2>1, RouteLemma
  <2> QED
    BY <2>1, WorkStep
<1>3. H!Screens' = H!Screens
  BY <1>1, <1>2 DEF H!Screens
<1>4. IsRun(run)
  BY DEF Placing
<1>5. H!Screens \in Seq(STRING)
  <2>1. run'.on \in Recordings
    BY PlacingStep DEF Placing, Handles, H!TypeOK
  <2> QED
    BY <1>2, <2>1, SetupLemma DEF Placing, H!Screens
<1>6. CASE H!Route /\ ~(run' = [run EXCEPT !.pc = "next"])
  <2>1. run'.frame = 1 /\ run'.last = "blank" /\ run'.contexts = <<>> /\ ~run'.missed
    BY <1>6, RouteLemma
  <2>2. Len(H!Screens) \in Nat
    BY <1>5
  <2>3. \A missed : Looked(H!Screens, 1, "blank", <<>>, missed)
    BY <1>1, <2>2 DEF Looked
  <2> QED
    BY <1>3, <2>1, <2>3
<1>7. CASE run.pc = "work"
  <2>1. Looked(H!Screens, run.frame, run.last, run.contexts, run.missed)
    BY <1>7 DEF Watched
  <2>2. CASE H!Look
    <3>1. /\ run.frame \in 1 .. Len(H!Screens) /\ Len(run.contexts) < MaxAnalyses
          /\ run.contexts \in Seq(Nat) /\ run.missed \in BOOLEAN
      BY <1>4, <2>2, LookLemma DEF IsRun, Fields
    <3>2. H!Changed(run.frame) <=> run.last = "blank" \/ H!Screens[run.frame] # run.last
      BY DEF H!Changed
    <3> PICK s : s = H!Screens
      OBVIOUS
    <3> PICK f : f = run.frame
      OBVIOUS
    <3> PICK c : c = run.contexts
      OBVIOUS
    <3>3. /\ run.last # "blank" /\ s[f] = run.last => Looked(s, f + 1, run.last, c, run.missed)
          /\ (run.last = "blank" \/ s[f] # run.last) /\ Len(c) < MaxAnalyses =>
               Looked(s, f + 1, s[f], Append(c, f), run.missed)
          /\ Looked(s, f + 1, s[f], c, TRUE)
      BY <1>1, <1>5, <2>1, <3>1, LookedLemma
    <3>4. CASE ~H!Changed(f) /\ run'.last = run.last /\ run'.contexts = c
               /\ run'.missed = run.missed /\ run'.frame = f + 1
      BY <1>3, <3>2, <3>3, <3>4
    <3>5. CASE H!Changed(f) /\ run'.last = s[f] /\ run'.contexts = Append(c, f)
               /\ run'.missed = run.missed /\ run'.frame = f + 1
      BY <1>3, <3>1, <3>2, <3>3, <3>5
    <3>6. CASE run'.last = s[f] /\ run'.contexts = c /\ run'.missed = TRUE /\ run'.frame = f + 1
      BY <1>3, <3>3, <3>6
    <3> QED
      BY <2>2, <3>4, <3>5, <3>6, LookLemma
  <2>3. CASE H!Write \/ H!Summarize \/ H!Looked \/ H!Documents
    <3>1. run.plan # <<>> /\ run' = H!Onward
      BY <2>3 DEF H!Write, H!Summarize, H!Looked, H!Documents, H!Does
    <3> QED
      BY <1>3, <2>1, <3>1, OnwardLemma
  <2>4. CASE H!NextDay \/ (\E path \in DOMAIN files : H!Edit(path)) \/ UNCHANGED H!handling
    <3>1. run' = run
      BY <2>4 DEF H!NextDay, H!Edit, H!handling
    <3> QED
      BY <1>3, <2>1, <3>1
  <2>5. CASE H!Start \/ H!List \/ H!End \/ H!Halt
    BY <1>4, <1>7, <2>5 DEF H!Start, H!List, H!End, H!Halt, H!Resting, IsRun, Fields
  <2>6. CASE H!Route \/ H!Finish \/ H!WriteFails \/ H!OddAnswer
    BY <1>4, <1>7, <2>6 DEF H!Route, H!Finish, H!WriteFails, H!OddAnswer, IsRun, Fields
  <2>7. CASE \E q \in Recordings : H!Organize(q) \/ H!Skip(q) \/ H!Transcribe(q)
    BY <1>7, <2>7 DEF H!Organize, H!Skip, H!Transcribe
  <2> QED
    BY <2>2, <2>3, <2>4, <2>5, <2>6, <2>7 DEF H!Next
<1> QED
  BY <1>6, <1>7, WorkStep

\* What the policy permits of what is sent.
Permitted(s) ==
  /\ s.remote => setup.settings.external /\ ~s.confidential /\ ~s.secret
  /\ s.what # "text" => setup.settings.descriptions /\ (s.remote => setup.settings.images)

\* What is told a model is permitted.
LEMMA ToldLemma ==
  ASSUME H!TypeOK, NEW p, NEW what \in {"text", "frame", "document"}, H!MaySend(p),
         what # "text" => H!MaySendImages(p)
  PROVE  Permitted(H!Told(what, p)) /\ Permitted([H!Told(what, p) EXCEPT !.secret = FALSE])
<1>1. setup.settings.remote \in BOOLEAN
  BY SetupLemma DEF H!Settings
<1> QED
  BY <1>1 DEF Permitted, H!Told, H!MaySend, H!MaySendImages

\* What is sent stays within the policy.
LEMMA PolicyStep ==
  ASSUME Placing, H!PolicyKept, H!Next \/ UNCHANGED H!handling
  PROVE  H!PolicyKept'
<1>1. setup' = setup
  BY Grows
<1>2. H!PolicyKept <=> \A s \in sent : Permitted(s)
  BY DEF H!PolicyKept, Permitted
<1>3. (\A s \in sent' : Permitted(s)) => H!PolicyKept'
  BY <1>1 DEF H!PolicyKept, Permitted
<1>4. H!TypeOK /\ (\A p : H!MaySendImages(p) => H!MaySend(p))
  BY DEF Placing, H!MaySendImages
<1>5. \A s \in H!Asked : Permitted(s)
  BY <1>2, <1>4, ToldLemma DEF H!Asked
<1>6. CASE H!Summarize \/ H!WriteFails
  BY <1>2, <1>3, <1>5, <1>6 DEF H!Summarize, H!WriteFails
<1>7. CASE H!Look \/ H!OddAnswer
  <2>1. CASE sent' = sent
    BY <1>2, <1>3, <2>1
  <2>2. CASE H!MaySendImages(run.project) /\ sent' = sent \cup {H!Told("frame", run.project)}
    <3>1. H!MaySend(run.project)
      BY <1>4, <2>2
    <3>2. Permitted(H!Told("frame", run.project))
      BY <1>4, <2>2, <3>1, ToldLemma
    <3> QED
      BY <1>2, <1>3, <2>2, <3>2
  <2> QED
    BY <1>7, <2>1, <2>2 DEF H!Look, H!OddAnswer
<1>8. CASE H!Documents
  BY <1>2, <1>3, <1>4, <1>8, ToldLemma DEF H!Documents
<1>9. CASE sent' = sent
  BY <1>2, <1>3, <1>9
<1>10. H!Summarize \/ H!WriteFails \/ H!Look \/ H!OddAnswer \/ H!Documents \/ sent' = sent
  BY DEF H!Next, H!Start, H!List, H!Route, H!Write, H!Looked, H!Finish, H!End, H!Halt, H!NextDay,
         H!Organize, H!Skip, H!Transcribe, H!Edit, H!handling, H!aside
<1> QED
  BY <1>6, <1>7, <1>8, <1>9, <1>10

\* At the beginning.
LEMMA HandlersInit == H!Init => HInv
<1> SUFFICES ASSUME H!Init
             PROVE  HInv
  OBVIOUS
<1>1. None \notin {"auto_detected", "completed", "completed_routed", "failed_routed"}
      /\ {MaxAnalyses, MaxPasses, MaxDays, MaxEdits, MaxHalts} \subseteq Nat /\ MaxDays > 0
  BY HandlersAssumption DEF H!HandlersAssumption
<1>2. run = H!Resting /\ files = <<>> /\ DOMAIN files = {}
  BY DEF H!Init
<1>3. Placing
  <2>1. IsRun(run) /\ ~Handles
    BY <1>2, RestingLemma DEF Handles
  <2>2. H!TypeOK
    BY <1>1, <1>2 DEF H!Init, H!TypeOK, H!Resting
  <2>3. files \in [DOMAIN files -> [of : Recordings, by : Writers]]
    BY <1>2
  <2> QED
    BY <1>2, <2>1, <2>2, <2>3 DEF Placing, Handles, H!Init
<1>4. Foldered
  BY <1>2 DEF Foldered, H!Init, H!Resting, H!OutputsSafe
<1>5. Brought
  BY <1>2 DEF Brought, H!Init, H!Resting, H!VerdictIsHonest
<1>6. Owned /\ Edited
  BY <1>2 DEF Owned, Edited, H!EditsKept, H!Init
<1>7. There
  BY <1>1, <1>2 DEF There, H!Init, H!Resting
<1>8. Watched
  BY <1>2 DEF Watched, H!Resting
<1>9. H!PolicyKept
  BY DEF H!PolicyKept, H!Init
<1> QED
  BY <1>3, <1>4, <1>5, <1>6, <1>7, <1>8, <1>9 DEF HInv

\* Every step keeps the invariant.
LEMMA HandlersNext ==
  ASSUME HInv, H!Next \/ UNCHANGED H!handling
  PROVE  HInv'
BY PlacingStep, FolderedStep, BroughtStep, OwnedStep, ThereStep, EditedStep, WatchedStep,
   PolicyStep DEF HInv

\* The invariant says what is claimed.
LEMMA HandlersImply == ASSUME HInv PROVE H!TypeOK /\ H!HandlersSafe
<1>1. H!CompletedIsThere
  <2>1. ASSUME NEW r \in Recordings, marked[r] = "completed_routed",
               NEW note \in H!Notes(given[r].kind)
        PROVE  /\ <<given[r].folder, note>> \in DOMAIN files
               /\ H!Alone(r, given[r].folder) =>
                    /\ files[<<given[r].folder, note>>].of = r
                    /\ files[<<given[r].folder, note>>].by # "torn"
    <3> PICK path : path = <<given[r].folder, note>>
      OBVIOUS
    <3>1. path \in DOMAIN files /\ path[1] = given[r].folder
      BY <2>1 DEF HInv, There
    <3>2. /\ \E v \in visits : v[1] = path[1] /\ v[2] = files[path].of
          /\ files[path].by = "torn" => marked[files[path].of] # "completed_routed"
      BY <3>1 DEF HInv, Owned
    <3> QED
      BY <2>1, <3>1, <3>2 DEF H!Alone
  <2> QED
    BY <2>1 DEF H!CompletedIsThere
<1>2. H!OwnFolder
  BY DEF HInv, Foldered, H!OwnFolder
<1>3. H!FramesCovered
  BY DEF HInv, Watched, Looked, Alike, H!FramesCovered, H!Same
<1> QED
  BY <1>1, <1>2, <1>3 DEF HInv, Placing, Foldered, Brought, Edited, H!HandlersSafe

\* Whatever the projects, settings and recordings, the bounds, the failures, the stops,
\* the days and the notes that users edit: what handlers send was allowed; what is
\* reported as done is there, its own and whole; edits stay; notes go where their
\* project says; and frames are described in their order, none left out.
THEOREM HandlersAreSafe == EitherSpec => []HandlersSafe
<1>1. EitherInit => (part = "handlers" => HInv)
  BY HandlersInit DEF EitherInit
<1>2. (part = "handlers" => HInv) /\ [EitherNext]_<<part, vars, handling>> =>
        (part = "handlers" => HInv)'
  <2> SUFFICES ASSUME part = "handlers" => HInv, [EitherNext]_<<part, vars, handling>>,
                      part' = "handlers"
               PROVE  HInv'
    OBVIOUS
  <2>1. part = "handlers" /\ (H!Next \/ UNCHANGED H!handling)
    BY DEF EitherNext, handling, H!handling
  <2> QED
    BY <2>1, HandlersNext
<1>3. (part = "handlers" => HInv) => HandlersSafe
  BY HandlersImply DEF HandlersSafe
<1> QED
  BY <1>1, <1>2, <1>3, PTL DEF EitherSpec

=============================================================================
