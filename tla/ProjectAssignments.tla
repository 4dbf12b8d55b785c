------------------------- MODULE ProjectAssignments -------------------------
(***************************************************************************)
(* The projects of the library and the media assigned to them by hand:     *)
(* projects.json, project_overrides.json, and the transcripts that are     *)
(* saved together with an assignment.  Requests of the dashboard load a    *)
(* file, change what they loaded and replace the file, without a lock; a   *)
(* request that fails puts back the snapshots it took.                     *)
(*                                                                         *)
(* Simplifications.                                                        *)
(*  - A project is its name: its rules only matter to media without an     *)
(*    assignment.                                                          *)
(*  - A transcript is the number of the request that wrote it last; its    *)
(*    text and its segments are two files.                                 *)
(*  - The snapshots of a request are taken in one step with the load of    *)
(*    the file they are of.                                                *)
(*  - The resolution of a project that ends a saved transcript and begins  *)
(*    a deletion is a request of its own.                                  *)
(***************************************************************************)
EXTENDS Integers, FiniteSets

CONSTANTS
  Clients,     \* requests of the dashboard
  Media,       \* media files
  Names,       \* names of projects
  Longer,      \* medium -> the media whose names begin with its name, itself too
  MaxRequests, \* bound: requests made
  MaxFailures, \* bound: failed writes and stops of the dashboard
  None

VARIABLES
  projects,   \* projects.json
  overrides,  \* project_overrides.json
  library,    \* media files that are there
  text,       \* each medium's transcript
  segments,   \* the text in its segments file
  client,     \* each request: its kind, its step and its locals
  \* history
  made, failures,  \* counters
  kept,       \* assignments acknowledged to a request that met no writer
  mixed,      \* some request met a writer
  broken      \* a stop or a failed rollback may have left one file of two changed

stored == <<projects, overrides, library, text, segments>>
avars  == <<stored, client, made, failures, kept, mixed, broken>>

Books == [Media -> Names \cup {None}]
Texts == [Media -> 0 .. MaxRequests]

Away == [kind |-> "none", step |-> "idle", on |-> None, name |-> None, to |-> None,
         projects |-> {}, book |-> [m \in Media |-> None], text |-> 0, segments |-> 0,
         number |-> 0, alone |-> TRUE]

TypeOK ==
  /\ projects \subseteq Names /\ overrides \in Books /\ library \subseteq Media
  /\ text \in Texts /\ segments \in Texts
  /\ client \in [Clients ->
       [kind : {"none", "create", "rename", "delete", "resolve", "assign", "remove"},
        step : {"idle", "load", "check", "projects", "text", "segments", "overrides",
                "unlink", "undo", "undo overrides"},
        on : Media \cup {None}, name : Names \cup {None}, to : Names \cup {None},
        projects : SUBSET Names, book : Books, text : 0 .. MaxRequests,
        segments : 0 .. MaxRequests, number : 0 .. MaxRequests, alone : BOOLEAN]]
  /\ made \in 0 .. MaxRequests /\ failures \in 0 .. MaxFailures
  /\ kept \in Books /\ {mixed, broken} \subseteq BOOLEAN

Init ==
  /\ projects \in SUBSET Names /\ overrides = [m \in Media |-> None]
  /\ library = Media
  /\ text = [m \in Media |-> 0] /\ segments = [m \in Media |-> 0]
  /\ client = [c \in Clients |-> Away]
  /\ made = 0 /\ failures = 0
  /\ kept = [m \in Media |-> None] /\ mixed = FALSE /\ broken = FALSE

-----------------------------------------------------------------------------
(* A request begins, and ends.                                             *)

Writers == {"create", "rename", "delete", "assign", "remove"}

\* A request meets the writers at work; a writer also meets the readers, who
\* may write too.
Asks(c, ask) ==
  LET writing == ask.kind \in Writers
      met(d) == client[d].kind # "none" /\ (writing \/ client[d].kind \in Writers)
  IN /\ client[c].kind = "none" /\ made < MaxRequests
     /\ made' = made + 1
     /\ client' = [d \in Clients |->
          IF d = c THEN [ask EXCEPT !.number = made + 1, !.alone = ~\E e \in Clients : met(e)]
          ELSE IF met(d) THEN [client[d] EXCEPT !.alone = FALSE] ELSE client[d]]
     /\ mixed' = (mixed \/ \E e \in Clients : met(e))
     /\ UNCHANGED <<stored, failures, kept, broken>>

Turn(c, step) == client' = [client EXCEPT ![c].step = step]

Done(c) == client' = [client EXCEPT ![c] = Away]

Goes(c, kind, step) == client[c].kind = kind /\ client[c].step = step

-----------------------------------------------------------------------------
(* api_projects_update.                                                    *)

\* The projects are loaded when the request begins.
UpdateProjects(c) ==
  \E n \in Names :
    \/ n \notin projects
       /\ Asks(c, [Away EXCEPT !.kind = "create", !.step = "load", !.to = n,
                               !.projects = projects])
    \/ n \in projects
       /\ Asks(c, [Away EXCEPT !.kind = "delete", !.step = "load", !.name = n,
                               !.projects = projects])
    \/ \E new \in (Names \ projects) \cup {n} :
         /\ n \in projects
         /\ Asks(c, [Away EXCEPT !.kind = "rename", !.step = "load", !.name = n, !.to = new,
                                 !.projects = projects])

\* The overrides are loaded next.
LoadOverrides(c) ==
  /\ client[c].step = "load"
  /\ client' = [client EXCEPT ![c].book = overrides,
       ![c].step = IF client[c].kind = "resolve" THEN "check" ELSE "projects"]
  /\ UNCHANGED <<stored, made, failures, kept, mixed, broken>>

NewProjects(q) == (q.projects \ {q.name}) \cup ({q.to} \ {None})

\* Mutant of NewBook: a renamed project leaves its media to the old name.
NewBookAsBefore(q) == q.book

\* The assignments follow a renamed project and go with a deleted one.
NewBook(q) ==
  [m \in Media |-> IF q.name # None /\ q.book[m] = q.name THEN q.to ELSE q.book[m]]

\* What a request that met a writer changes for a while is no longer vouched for.
Doubted(q) ==
  IF q.alone THEN kept
  ELSE [m \in Media |-> IF m = q.on \/ kept[m] = q.name THEN None ELSE kept[m]]

SaveProjects(c) ==
  /\ client[c].step = "projects"
  /\ projects' = NewProjects(client[c])
  /\ IF NewBook(client[c]) = client[c].book THEN Done(c) ELSE Turn(c, "overrides")
  /\ kept' = Doubted(client[c])
  /\ UNCHANGED <<overrides, library, text, segments, made, failures, mixed, broken>>

\* What was acknowledged follows the projects.
SaveOverrides(c) ==
  /\ client[c].step = "overrides" /\ client[c].kind \in {"rename", "delete"}
  /\ overrides' = NewBook(client[c])
  /\ kept' = [m \in Media |-> IF kept[m] # client[c].name THEN kept[m]
                              ELSE IF client[c].alone THEN client[c].to ELSE None]
  /\ Done(c)
  /\ UNCHANGED <<projects, library, text, segments, made, failures, mixed, broken>>

-----------------------------------------------------------------------------
(* _effective_project, which every page and most requests call.            *)

Resolve(c) ==
  \E m \in Media : Asks(c, [Away EXCEPT !.kind = "resolve", !.step = "load", !.on = m])

\* An assignment whose project does not exist is dropped.
CheckProject(c) ==
  LET q == client[c] IN
  /\ Goes(c, "resolve", "check")
  /\ IF q.book[q.on] \in projects \cup {None} THEN Done(c) ELSE Turn(c, "overrides")
  /\ UNCHANGED <<stored, made, failures, kept, mixed, broken>>

DropOverride(c) ==
  LET q == client[c] IN
  /\ Goes(c, "resolve", "overrides")
  /\ overrides' = [q.book EXCEPT ![q.on] = None]
  /\ Done(c)
  /\ UNCHANGED <<projects, library, text, segments, made, failures, kept, mixed, broken>>

-----------------------------------------------------------------------------
(* api_transcription_save: text, segments and assignment of a medium.      *)

\* None unassigns (the project "auto").
SaveTranscription(c) ==
  \E m \in library, n \in projects \cup {None} :
    Asks(c, [Away EXCEPT !.kind = "assign", !.step = "text", !.on = m, !.to = n,
                         !.text = text[m], !.segments = segments[m], !.book = overrides])

WriteText(c) ==
  LET q == client[c] IN
  /\ Goes(c, "assign", "text")
  /\ text' = [text EXCEPT ![q.on] = q.number]
  /\ Turn(c, "segments")
  /\ UNCHANGED <<projects, overrides, library, segments, made, failures, kept, mixed, broken>>

WriteSegments(c) ==
  LET q == client[c] IN
  /\ Goes(c, "assign", "segments")
  /\ segments' = [segments EXCEPT ![q.on] = q.number]
  /\ Turn(c, "overrides")
  /\ UNCHANGED <<projects, overrides, library, text, made, failures, kept, mixed, broken>>

AssignProject(c) ==
  LET q == client[c] IN
  /\ Goes(c, "assign", "overrides")
  /\ overrides' = [q.book EXCEPT ![q.on] = q.to]
  /\ kept' = [kept EXCEPT ![q.on] = IF q.alone THEN q.to ELSE None]
  /\ Done(c)
  /\ UNCHANGED <<projects, library, text, segments, made, failures, mixed, broken>>

-----------------------------------------------------------------------------
(* api_delete_file: the assignment first, then the file.                   *)

DeleteFile(c) ==
  \E m \in library :
    Asks(c, [Away EXCEPT !.kind = "remove", !.on = m, !.book = overrides,
               !.step = IF overrides[m] = None THEN "unlink" ELSE "overrides"])

ForgetProject(c) ==
  LET q == client[c] IN
  /\ Goes(c, "remove", "overrides")
  /\ overrides' = [q.book EXCEPT ![q.on] = None]
  /\ Turn(c, "unlink")
  /\ UNCHANGED <<projects, library, text, segments, made, failures, kept, mixed, broken>>

\* The file goes, and every transcript whose name begins with its name; one
\* that is gone already is a failure like any other.
Unlink(c) ==
  LET q == client[c] IN
  /\ Goes(c, "remove", "unlink") /\ q.on \in library
  /\ library' = library \ {q.on}
  /\ text' = [m \in Media |-> IF m \in Longer[q.on] THEN 0 ELSE text[m]]
  /\ segments' = [m \in Media |-> IF m \in Longer[q.on] THEN 0 ELSE segments[m]]
  /\ kept' = [kept EXCEPT ![q.on] = None]
  /\ Done(c)
  /\ UNCHANGED <<projects, overrides, made, failures, mixed, broken>>

-----------------------------------------------------------------------------
(* Failures: the snapshots are put back one after the other.               *)

\* Where the rollback begins; a request that heals only logs.
Undoing(q) == CASE q.kind = "resolve" -> "idle"
                [] q.kind = "remove" /\ q.step = "overrides" -> "idle"
                [] q.kind = "remove" /\ q.step = "unlink" ->
                     IF q.book[q.on] = None THEN "idle" ELSE "undo overrides"
                [] OTHER -> "undo"

WriteFails(c) ==
  LET q == client[c] IN
  /\ q.step \in {"projects", "text", "segments", "overrides", "unlink"}
  /\ \/ failures < MaxFailures /\ failures' = failures + 1
     \/ q.step = "unlink" /\ q.on \notin library /\ UNCHANGED failures
  /\ IF Undoing(q) = "idle" THEN Done(c) ELSE Turn(c, Undoing(q))
  /\ UNCHANGED <<stored, made, kept, mixed, broken>>

\* projects.json, or the transcript and its segments.
UndoFirst(c) ==
  LET q == client[c] IN
  /\ q.step = "undo"
  /\ IF q.kind = "assign"
       THEN /\ text' = [text EXCEPT ![q.on] = q.text]
            /\ segments' = [segments EXCEPT ![q.on] = q.segments]
            /\ UNCHANGED projects
       ELSE projects' = q.projects /\ UNCHANGED <<text, segments>>
  /\ Turn(c, "undo overrides")
  /\ UNCHANGED <<overrides, library, made, failures, kept, mixed, broken>>

UndoOverrides(c) ==
  /\ client[c].step = "undo overrides"
  /\ overrides' = client[c].book
  /\ kept' = Doubted(client[c])
  /\ Done(c)
  /\ UNCHANGED <<projects, library, text, segments, made, failures, mixed, broken>>

\* The dashboard stops, or a write of a rollback fails.
UndoFails(c) ==
  /\ failures < MaxFailures /\ failures' = failures + 1
  /\ client[c].step \in {"undo", "undo overrides"}
  /\ broken' = TRUE
  /\ IF client[c].step = "undo" THEN Turn(c, "undo overrides") ELSE Done(c)
  /\ UNCHANGED <<stored, made, kept, mixed>>

Stop ==
  /\ failures < MaxFailures /\ failures' = failures + 1
  /\ \E c \in Clients : client[c].kind # "none"
  /\ client' = [c \in Clients |-> Away]
  /\ broken' = TRUE
  /\ UNCHANGED <<stored, made, kept, mixed>>

-----------------------------------------------------------------------------
Step(c) ==
  \/ UpdateProjects(c) \/ LoadOverrides(c) \/ SaveProjects(c) \/ SaveOverrides(c)
  \/ Resolve(c) \/ CheckProject(c) \/ DropOverride(c)
  \/ SaveTranscription(c) \/ WriteText(c) \/ WriteSegments(c) \/ AssignProject(c)
  \/ DeleteFile(c) \/ ForgetProject(c) \/ Unlink(c)
  \/ WriteFails(c) \/ UndoFirst(c) \/ UndoOverrides(c) \/ UndoFails(c)

Next == Stop \/ \E c \in Clients : Step(c)

Spec == Init /\ [][Next]_avars

-----------------------------------------------------------------------------
(* Properties.                                                             *)

Quiet == \A c \in Clients : client[c].kind = "none"

\* An assignment acknowledged to a request that met no writer is kept: renamed
\* with its project, and otherwise there until it is changed, or the project or
\* the medium goes.
AssignmentKept ==
  Quiet /\ ~broken =>
    \A m \in Media : kept[m] # None => overrides[m] = kept[m] /\ kept[m] \in projects

\* A request changes all of its files or none: at rest, while no request met a
\* writer, a transcript agrees with its segments, and assignments are of media
\* and projects there are.
FilesAgree ==
  Quiet /\ ~broken /\ ~mixed =>
    \A m \in Media :
      /\ text[m] = segments[m]
      /\ overrides[m] # None => overrides[m] \in projects /\ m \in library

AssignmentsSafe == AssignmentKept /\ FilesAgree

=============================================================================
