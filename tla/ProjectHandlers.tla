-------------------------- MODULE ProjectHandlers --------------------------
(***************************************************************************)
(* A run of the master processor: recordings are moved from the inbox into *)
(* the library, transcribed, and routed to the handler of the project they *)
(* match, which writes a folder of notes and asks a language model for     *)
(* what the privacy settings let leave the machine.                        *)
(*                                                                         *)
(* Simplifications.                                                        *)
(*  - A name is a sequence of words, and a folder's name one word; prefix, *)
(*    keyword and folder rules are sets of words.                          *)
(*  - A text holds a secret of a known shape, which redaction removes.     *)
(*  - Retries are within a request; what is converted of documents is left *)
(*    out, but not that they are sent.                                     *)
(*  - Frames are alike when their texts are equal; something is said in    *)
(*    every recording.                                                     *)
(*  - Users write in notes that are there, and not while one is made.      *)
(*  - The file tracker and the transcripts are in MediaProcessor: here a   *)
(*    recording is marked, or has its transcript, once.                    *)
(***************************************************************************)
EXTENDS Integers, Sequences, FiniteSets, SequencesExt

CONSTANTS
  Setups,       \* projects, settings and recordings
  Recordings,
  MaxAnalyses,  \* MEETING_MAX_SCREEN_ANALYSES
  MaxPasses,    \* bound: runs
  MaxDays, MaxEdits, MaxHalts,  \* bounds: days, files edited, stops of the process
  None, Odd     \* absent; of the wrong type

Kinds == {"client_meeting", "zo", "meeting_dev"}

Outputs == [kind : {"relative", "absolute"}, root : STRING]

\* Entries of projects.json, well formed or not.
Entries ==
  [name : STRING \cup {None, Odd}, handler : STRING \cup {None},
   classification : STRING \cup {None},
   folders : SUBSET STRING, prefixes : SUBSET STRING, words : SUBSET STRING,
   output : Outputs \cup {None, Odd}, subfolder : STRING \cup {None}]

Settings == [remote : BOOLEAN, external : BOOLEAN, descriptions : BOOLEAN, images : BOOLEAN,
             key : BOOLEAN, container : BOOLEAN]

HandlersAssumption ==
  /\ {MaxAnalyses, MaxPasses, MaxDays, MaxEdits, MaxHalts} \subseteq Nat /\ MaxDays > 0
  /\ None \notin {"auto_detected", "completed", "completed_routed", "failed_routed"}
  /\ Setups \subseteq
       [projects : Seq(Entries), settings : Settings, documents : BOOLEAN,
        recordings : [Recordings -> [place : STRING, stem : Seq(STRING), video : BOOLEAN,
                                     screens : Seq(STRING)]]]

VARIABLES
  setup,        \* [projects, settings, recordings, documents]
  place,        \* where each recording is: "inbox" or a folder
  transcribed,  \* recordings with a transcript
  marked,       \* how each is marked as processed
  files,        \* notes: <<folder, name>> -> of whom, and by whom
  sent,         \* what was given to the model
  run,          \* the run under way
  day, passes, edits, halts,
  \* history
  verdict,      \* of the last run: what it said, and what it took
  visits,       \* folders, the recordings handled in them, and by which handler
  given,        \* recordings whose handler was done: their folder and handler
  kept          \* notes edited by users

handling == <<setup, place, transcribed, marked, files, sent, run, day, passes, edits, halts,
              verdict, visits, given, kept>>

Resting == [pc |-> "idle", left |-> {}, todo |-> {}, took |-> {}, errors |-> FALSE, on |-> None,
            project |-> None, kind |-> None, folder |-> <<>>, plan |-> <<>>,
            frame |-> 1, last |-> "blank", contexts |-> <<>>, missed |-> FALSE]

-----------------------------------------------------------------------------
(* Projects.                                                               *)

\* validate_project.
Formed(p) ==
  /\ p.name \notin {None, Odd} /\ p.output # Odd
  /\ p.handler \in Kinds \cup {None}
  /\ p.classification \in {None, "public", "internal", "confidential"}

\* load_projects: the places of those that are well formed.
Loaded == {i \in DOMAIN setup.projects : Formed(setup.projects[i])}

\* resolve_project_output_path: a folder in the data root, or, where the
\* project is trusted, anywhere; it must be there.
Resolved(output) ==
  CASE output.kind = "relative" -> output.root = "data"
    [] output.kind = "absolute" ->
         /\ setup.settings.container => output.root \in {"data", "export"}
         /\ output.root # "missing"

Usable(p) == p.handler # None /\ p.output # None /\ Resolved(p.output)

\* Handlers are known by the name of their project: the last one counts.
Handler(name) ==
  LET of == {i \in Loaded : setup.projects[i].name = name /\ Usable(setup.projects[i])}
  IN IF of = {} THEN None
     ELSE LET p == setup.projects[CHOOSE i \in of : \A j \in of : j <= i]
          IN [kind |-> p.handler, base |-> p.output]

Words(r) == ToSet(setup.recordings[r].stem)

\* The first project with a rule that applies.
Fits(p, r) ==
  \/ place[r] \in p.folders
  \/ Head(setup.recordings[r].stem) \in p.prefixes
  \/ Words(r) \cap p.words # {}

Matched(r) ==
  LET fit == {i \in Loaded : Fits(setup.projects[i], r)}
  IN IF fit = {} THEN None ELSE setup.projects[CHOOSE i \in fit : \A j \in fit : i <= j]

\* Prefixes move a recording wherever they are in its name.
Moves(p, r) == p.subfolder # None /\ Words(r) \cap (p.prefixes \cup p.words) # {}

Targets(r) ==
  LET fit == {i \in Loaded : Moves(setup.projects[i], r)}
  IN IF fit = {} THEN {}
     ELSE {setup.projects[CHOOSE i \in fit : \A j \in fit : i <= j].subfolder}

-----------------------------------------------------------------------------
(* The privacy of what is sent.                                            *)

Confidential(p) == p.classification = "confidential"

\* Mutant of MaySend: the classification is not looked at.
MaySendAnyProject(p) == setup.settings.remote => setup.settings.external

\* PrivacyGuard.check: a local model may be told everything.
MaySend(p) == setup.settings.remote => setup.settings.external /\ ~Confidential(p)

MaySendImages(p) ==
  /\ setup.settings.descriptions
  /\ MaySend(p)
  /\ setup.settings.remote => setup.settings.images

\* Texts are redacted for a remote model.
Told(what, p) ==
  [what |-> what, remote |-> setup.settings.remote, secret |-> ~setup.settings.remote,
   confidential |-> Confidential(p)]

-----------------------------------------------------------------------------
(* The notes of a recording.                                               *)

Without(stem, words) == SelectSeq(stem, LAMBDA w : w \notin words)

\* What is left of the name, or what stands for it.
CleanName(kind, p, r) ==
  LET stem == setup.recordings[r].stem
      left == CASE kind = "client_meeting" -> Without(stem, p.prefixes \cup p.folders)
                [] kind = "zo" -> Without(stem, {"interview", "entrevista"})
                [] kind = "meeting_dev" -> Without(stem, {"meeting", "junta", "reunion"})
  IN CASE left # <<>> -> left
       [] left = <<>> /\ kind = "client_meeting" -> stem
       [] OTHER -> <<kind, day>>

\* Interviews have a folder of their own, meetings one of the day.
FolderOf(kind, base, p, r) ==
  IF kind = "zo" THEN <<base, CleanName(kind, p, r)>>
  ELSE <<base, "meetings", day, CleanName(kind, p, r)>>

PlanOf(kind, video) ==
  CASE kind = "client_meeting" -> <<"transcript.md", "summary.md">>
    [] kind = "zo" -> <<"Interview_Log.md", "Offer.md", "Summary.md", "Study_Guide.md">>
    [] kind = "meeting_dev" -> IF video THEN <<"frames", "documents", "context.md", "summary.md">>
                               ELSE <<"documents", "context.md", "summary.md">>

Notes(kind) == ToSet(PlanOf(kind, FALSE)) \ {"documents"}

\* Notes that are left alone when they are there.
Kept(kind) ==
  CASE kind = "client_meeting" -> {"summary.md"}
    [] kind = "zo" -> {"Offer.md", "Summary.md", "Study_Guide.md"}
    [] kind = "meeting_dev" -> {}

Summaries == {"summary.md", "Summary.md"}

Put(path, by) ==
  files' = [x \in DOMAIN files \cup {path} |->
              IF x = path THEN [of |-> run.on, by |-> by] ELSE files[x]]

-----------------------------------------------------------------------------
Init ==
  /\ setup \in Setups
  /\ place = [r \in Recordings |-> setup.recordings[r].place]
  /\ transcribed = {} /\ marked = [r \in Recordings |-> None]
  /\ files = <<>> /\ sent = {} /\ run = Resting
  /\ day = 1 /\ passes = 0 /\ edits = 0 /\ halts = 0
  /\ verdict = [ok |-> FALSE, took |-> {}] /\ visits = {}
  /\ given = [r \in Recordings |-> None] /\ kept = {}

outside == <<setup, day, edits, halts>>

Start ==
  /\ run.pc = "idle" /\ passes < MaxPasses /\ passes' = passes + 1
  /\ run' = [Resting EXCEPT !.pc = "organize", !.left = {r \in Recordings : place[r] = "inbox"}]
  /\ UNCHANGED <<outside, place, transcribed, marked, files, sent, verdict, visits, given, kept>>

\* A file with no target, or whose name is taken there, stays; so does one
\* that cannot be moved.
Organize(r) ==
  /\ run.pc = "organize" /\ r \in run.left
  /\ run' = [run EXCEPT !.left = @ \ {r}]
  /\ \/ UNCHANGED place
     \/ \E to \in Targets(r) :
          /\ \A q \in Recordings :
               place[q] = to => setup.recordings[q].stem # setup.recordings[r].stem
          /\ place' = [place EXCEPT ![r] = to]
  /\ UNCHANGED <<outside, transcribed, marked, files, sent, passes, verdict, visits, given, kept>>

List ==
  /\ run.pc = "organize" /\ run.left = {}
  /\ run' = [run EXCEPT !.pc = "next", !.todo = {r \in Recordings : place[r] # "inbox"}]
  /\ UNCHANGED <<outside, place, transcribed, marked, files, sent, passes, verdict, visits, given,
                 kept>>

Processed(r) == marked[r] # None \/ r \in transcribed

\* A transcript without a mark is marked now.
Skip(r) ==
  /\ run.pc = "next" /\ r \in run.todo /\ Processed(r)
  /\ run' = [run EXCEPT !.todo = @ \ {r}]
  /\ marked' = [marked EXCEPT ![r] = IF @ = None THEN "auto_detected" ELSE @]
  /\ UNCHANGED <<outside, place, transcribed, files, sent, passes, verdict, visits, given, kept>>

Transcribe(r) ==
  /\ run.pc = "next" /\ r \in run.todo /\ ~Processed(r)
  /\ \/ /\ transcribed' = transcribed \cup {r}
        /\ run' = [run EXCEPT !.pc = "route", !.todo = @ \ {r}, !.took = @ \cup {r}, !.on = r]
     \/ \* the transcription fails
        /\ run' = [run EXCEPT !.todo = @ \ {r}, !.took = @ \cup {r}, !.errors = TRUE]
        /\ UNCHANGED transcribed
  /\ UNCHANGED <<outside, place, marked, files, sent, passes, verdict, visits, given, kept>>

Mark(how) == marked' = [marked EXCEPT ![run.on] = how]

\* The handler of the project begins with a folder; without one the recording
\* is done.
Route ==
  /\ run.pc = "route"
  /\ LET p == Matched(run.on)
         h == IF p = None THEN None ELSE Handler(p.name)
     IN IF h = None
        THEN /\ Mark("completed") /\ run' = [run EXCEPT !.pc = "next"]
             /\ UNCHANGED visits
        ELSE LET folder == FolderOf(h.kind, h.base, p, run.on)
             IN /\ run' = [run EXCEPT !.pc = "work", !.project = p, !.kind = h.kind,
                             !.folder = folder,
                             !.plan = PlanOf(h.kind, setup.recordings[run.on].video),
                             !.frame = 1, !.last = "blank", !.contexts = <<>>, !.missed = FALSE]
                /\ visits' = visits \cup {<<folder, run.on, h.kind>>}
                /\ UNCHANGED marked
  /\ UNCHANGED <<outside, place, transcribed, files, sent, passes, verdict, given, kept>>

Doing == Head(run.plan)
Does(what) == run.pc = "work" /\ run.plan # <<>> /\ Doing \in what
Onward == [run EXCEPT !.plan = Tail(@)]

aside == <<outside, place, transcribed, marked, passes, verdict, visits, given, kept>>

Path == <<run.folder, Doing>>

Spared == Doing \in Kept(run.kind) /\ Path \in DOMAIN files

\* A note that is there may be one to leave alone; the others are made of the
\* transcript or a template.
Write ==
  /\ Does(Notes(run.kind) \ Summaries)
  /\ IF Spared THEN UNCHANGED files ELSE Put(Path, "handler")
  /\ run' = Onward
  /\ UNCHANGED <<aside, sent>>

Asked ==
  IF Doing \in Summaries /\ MaySend(run.project) THEN sent \cup {Told("text", run.project)} ELSE sent

\* A summary is asked for where that is allowed; whatever fails leaves a
\* template.
Summarize ==
  /\ Does(Notes(run.kind) \cap Summaries)
  /\ \/ Spared /\ UNCHANGED <<files, sent>>
     \/ ~Spared /\ Put(Path, "template") /\ sent' = Asked
     \/ ~Spared /\ MaySend(run.project) /\ Put(Path, "answer") /\ sent' = Asked
  /\ run' = Onward
  /\ UNCHANGED aside

Screens == setup.recordings[run.on].screens

\* The text of the frame before, as far as it was looked at, decides.
Changed(f) == run.last = "blank" \/ Screens[f] # run.last

Seen(f) == [run EXCEPT !.frame = f + 1, !.last = Screens[f]]

\* A frame: one that did not change is passed over; one that did is described,
\* or nothing comes of it.
Look ==
  /\ Does({"frames"})
  /\ run.frame <= Len(Screens) /\ Len(run.contexts) < MaxAnalyses
  /\ LET f == run.frame
         described == [Seen(f) EXCEPT !.contexts = Append(@, f)]
         nothing   == [Seen(f) EXCEPT !.missed = TRUE]
     IN \/ ~Changed(f) /\ run' = [run EXCEPT !.frame = f + 1] /\ UNCHANGED sent
        \/ Changed(f) /\ ~setup.settings.key /\ run' = described /\ UNCHANGED sent
        \/ /\ Changed(f) /\ setup.settings.key /\ ~MaySendImages(run.project)
           /\ run' = nothing /\ UNCHANGED sent
        \/ /\ Changed(f) /\ setup.settings.key /\ MaySendImages(run.project)
           /\ run' \in {described, nothing}
           /\ sent' = sent \cup {Told("frame", run.project)}
  /\ UNCHANGED <<aside, files>>

\* All were looked at, or as many as may be described, or none was extracted.
Looked ==
  /\ Does({"frames"})
  /\ run.frame \in {1, Len(Screens) + 1} \/ Len(run.contexts) >= MaxAnalyses
  /\ run' = Onward
  /\ UNCHANGED <<aside, files, sent>>

\* The documents beside the recording, whosever they are; no text goes with
\* what is sent of them.
Documents ==
  /\ Does({"documents"})
  /\ sent' = IF setup.documents /\ setup.settings.key /\ MaySendImages(run.project)
             THEN sent \cup {[Told("document", run.project) EXCEPT !.secret = FALSE]}
             ELSE sent
  /\ run' = Onward
  /\ UNCHANGED <<aside, files>>

Finish ==
  /\ run.pc = "work" /\ run.plan = <<>>
  /\ Mark("completed_routed")
  /\ given' = [given EXCEPT ![run.on] = [folder |-> run.folder, kind |-> run.kind,
                                         name |-> run.project.name]]
  /\ run' = [run EXCEPT !.pc = "next"]
  /\ UNCHANGED <<outside, place, transcribed, files, sent, passes, verdict, visits, kept>>

\* A note cannot be written, or only in part, whatever was asked for it: the
\* recording is left unmarked.
WriteFails ==
  /\ Does(Notes(run.kind)) /\ ~Spared
  /\ UNCHANGED files \/ Put(Path, "torn")
  /\ sent' = Asked
  /\ run' = [run EXCEPT !.pc = "next", !.errors = TRUE]
  /\ UNCHANGED aside

\* The description of a frame is JSON, but no object: the handler has failed.
OddAnswer ==
  /\ Does({"frames"})
  /\ run.frame <= Len(Screens) /\ Len(run.contexts) < MaxAnalyses
  /\ Changed(run.frame) /\ setup.settings.key /\ MaySendImages(run.project)
  /\ sent' = sent \cup {Told("frame", run.project)}
  /\ Mark("failed_routed")
  /\ run' = [run EXCEPT !.pc = "next", !.errors = TRUE]
  /\ UNCHANGED <<outside, place, transcribed, files, passes, verdict, visits, given, kept>>

End ==
  /\ run.pc = "next" /\ run.todo = {}
  /\ verdict' = [ok |-> ~run.errors, took |-> run.took]
  /\ run' = Resting
  /\ UNCHANGED <<outside, place, transcribed, marked, files, sent, passes, visits, given, kept>>

Halt ==
  /\ run.pc # "idle" /\ halts < MaxHalts /\ halts' = halts + 1
  /\ run' = Resting
  /\ UNCHANGED <<setup, day, edits, place, transcribed, marked, files, sent, passes, verdict,
                 visits, given, kept>>

\* A user writes in a note.
Edit(path) ==
  /\ edits < MaxEdits /\ edits' = edits + 1
  /\ files' = [files EXCEPT ![path].by = "user"]
  /\ kept' = kept \cup {path}
  /\ UNCHANGED <<setup, day, halts, place, transcribed, marked, sent, run, passes, verdict, visits,
                 given>>

NextDay ==
  /\ day < MaxDays /\ day' = day + 1
  /\ UNCHANGED <<setup, edits, halts, place, transcribed, marked, files, sent, run, passes, verdict,
                 visits, given, kept>>

Next ==
  \/ Start \/ List \/ Route \/ Write \/ Summarize \/ Look \/ Looked \/ Documents \/ Finish
  \/ WriteFails \/ OddAnswer \/ End \/ Halt \/ NextDay
  \/ \E r \in Recordings : Organize(r) \/ Skip(r) \/ Transcribe(r)
  \/ \E path \in DOMAIN files : Edit(path)

Spec == Init /\ [][Next]_handling

-----------------------------------------------------------------------------
(* Properties.                                                             *)

\* Nothing of a confidential project leaves the machine, nothing does unless
\* that was allowed, no picture unless pictures were; and no known secret.
PolicyKept ==
  \A s \in sent :
    /\ s.remote => setup.settings.external /\ ~s.confidential /\ ~s.secret
    /\ s.what # "text" =>
         setup.settings.descriptions /\ (s.remote => setup.settings.images)

\* Notes of recording r in a folder where no other recording was handled.
Alone(r, folder) == \A v \in visits : v[1] = folder => v[2] = r

\* A recording marked as routed has every note of its handler; they are its own
\* and whole, unless another recording's name comes to the same folder.
CompletedIsThere ==
  \A r \in Recordings : marked[r] = "completed_routed" =>
    LET g == given[r]
    IN \A note \in Notes(g.kind) :
         /\ <<g.folder, note>> \in DOMAIN files
         /\ Alone(r, g.folder) => LET f == files[<<g.folder, note>>] IN f.of = r /\ f.by # "torn"

\* What a user wrote in a note that the handlers of its folder leave alone stays.
EditsKept ==
  \A path \in kept :
    (\A v \in visits : v[1] = path[1] => path[2] \in Kept(v[3])) => files[path].by = "user"

\* In a container nothing is written outside the data root and the roots that
\* were allowed.
OutputsSafe ==
  setup.settings.container => \A v \in visits : v[1][1].root \in {"data", "export"}

\* A recording's notes go where its project says, if no other has its name.
OwnFolder ==
  \A r \in Recordings : given[r] # None =>
    LET of == {i \in Loaded : setup.projects[i].name = given[r].name}
    IN Cardinality(of) = 1 => \E i \in of : setup.projects[i].output = given[r].folder[1]

\* Frames are described in their order, as many as may be, and a screen that
\* stays is described once, but for one without a text; none is left out that
\* the limit allows, unless its description failed.
Same(f, g) == \A h \in f .. g : Screens[h] = Screens[f]

FramesCovered ==
  run.pc = "work" /\ run.kind = "meeting_dev" =>
    LET c == run.contexts
    IN /\ Len(c) <= MaxAnalyses
       /\ \A i, j \in DOMAIN c : i < j => c[i] < c[j]
       /\ \A i, j \in DOMAIN c : i < j /\ Same(c[i], c[j]) => Screens[c[i]] = "blank"
       /\ ~run.missed => \A f \in 1 .. run.frame - 1 :
            \E i \in DOMAIN c : c[i] <= f /\ Same(c[i], f)

\* A run that reports no error has brought all it took to an end.
VerdictIsHonest ==
  verdict.ok => \A r \in verdict.took : marked[r] \in {"completed", "completed_routed"}

HandlersSafe ==
  /\ PolicyKept /\ CompletedIsThere /\ EditsKept /\ OutputsSafe /\ OwnFolder /\ FramesCovered
  /\ VerdictIsHonest

TypeOK ==
  /\ setup \in Setups /\ DOMAIN place = Recordings /\ transcribed \subseteq Recordings
  /\ marked \in [Recordings -> {None, "auto_detected", "completed", "completed_routed",
                                "failed_routed"}]
  /\ run.pc \in {"idle", "organize", "next", "route", "work"}
  /\ run.left \cup run.todo \cup run.took \subseteq Recordings
  /\ day \in 1 .. MaxDays /\ passes \in 0 .. MaxPasses /\ edits \in 0 .. MaxEdits
  /\ halts \in 0 .. MaxHalts

=============================================================================
