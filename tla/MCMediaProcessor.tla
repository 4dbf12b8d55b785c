-------------------------- MODULE MCMediaProcessor --------------------------
(***************************************************************************)
(* Instances of MediaProcessor and of ProjectHandlers for TLC.  They share *)
(* no state; `part' chooses which is explored.                             *)
(***************************************************************************)
EXTENDS MediaProcessor, Sequences, TLC

CONSTANTS
  clip, copy, clip2,
  r1, r2, Recordings, Setups, MaxAnalyses, MaxPasses, MaxDays, MaxEdits, MaxHalts, Odd

VARIABLES
  part,
  setup, place, transcribed, marked, files, sent, run, day, passes, edits, halts, verdict, visits,
  given, kept

handling == <<setup, place, transcribed, marked, files, sent, run, day, passes, edits, halts,
              verdict, visits, given, kept>>

\* audio/clip.mp4, Videos/clip.mp4 and audio/clip2.mp4.
Clips     == {clip, copy, clip2}
ClipTexts == {"clip", "clip2"}
ClipOf    == [m \in Media |-> IF m = clip2 THEN "clip2" ELSE "clip"]
OneStarts == {<<"clip", "clip2">>}

-----------------------------------------------------------------------------
(* Projects, settings and recordings.                                      *)

Relative(root) == [kind |-> "relative", root |-> root]
Absolute(root) == [kind |-> "absolute", root |-> root]

Project(name, handler, classification, words, output) ==
  [name |-> name, handler |-> handler, classification |-> classification, folders |-> {},
   prefixes |-> {}, words |-> words, output |-> output, subfolder |-> None]

Recorded(where, stem, screens) ==
  [place |-> where, stem |-> stem, video |-> screens # <<>>, screens |-> screens]

Settings(remote, external, descriptions, images, key) ==
  [remote |-> remote, external |-> external, descriptions |-> descriptions, images |-> images,
   key |-> key, container |-> FALSE]

Open == Settings(TRUE, TRUE, TRUE, TRUE, TRUE)
NoCalls  == [Open EXCEPT !.external = FALSE]
NoFrames == [Open EXCEPT !.descriptions = FALSE]
NoImages == [Open EXCEPT !.images = FALSE]
NoKey    == [Open EXCEPT !.key = FALSE]
Local    == Settings(FALSE, FALSE, TRUE, FALSE, TRUE)

Setup(projects, settings, one, two) ==
  [projects |-> projects, settings |-> settings, documents |-> TRUE,
   recordings |-> r1 :> one @@ r2 :> two]

\* Meetings of a client, by prefix and by folder: both are called plan.
Client(settings, class) ==
  Setup(<<[Project("client", "client_meeting", class, {}, Relative("data")) EXCEPT
             !.folders = {"acme"}, !.prefixes = {"acme"}]>>, settings,
        Recorded("Videos", <<"acme", "plan">>, <<>>), Recorded("acme", <<"plan">>, <<>>))

\* Interviews, found in the inbox; the second has no other name.
Interviews(settings, class) ==
  Setup(<<[Project("zo", "zo", class, {"interview", "entrevista"}, Relative("data")) EXCEPT
             !.subfolder = "jobs"]>>, settings,
        Recorded("inbox", <<"interview", "bank">>, <<>>), Recorded("inbox", <<"bank", "entrevista">>, <<>>))

\* A meeting with a shared screen, and one without a name.
Meetings(settings, class) ==
  Setup(<<Project("dev", "meeting_dev", class, {"meeting"}, Relative("data"))>>, settings,
        Recorded("Videos", <<"meeting", "sprint">>, <<"A", "A", "blank", "blank", "B">>),
        Recorded("Videos", <<"meeting">>, <<>>))

\* In a container: a malformed entry, and two that may not write where they want.
Escapes ==
  Setup(<<Project(Odd, "zo", None, {"plan"}, Relative("data")),
          Project("a", "zo", None, {"plan"}, Absolute("outside")),
          Project("b", "zo", None, {"talk"}, Relative("outside"))>>,
        [Open EXCEPT !.container = TRUE],
        Recorded("Videos", <<"plan">>, <<>>), Recorded("Videos", <<"talk">>, <<>>))

\* Two projects of one name, of which the second has no rules.
Doubles ==
  Setup(<<Project("a", "zo", None, {"plan", "talk"}, Absolute("data")),
          Project("a", "client_meeting", None, {}, Absolute("export"))>>,
        [Open EXCEPT !.container = TRUE],
        Recorded("Videos", <<"plan">>, <<>>), Recorded("Videos", <<"talk">>, <<>>))

\* Two files of one name in the inbox.
Twins ==
  Setup(<<[Project("client", "client_meeting", None, {}, Absolute("outside")) EXCEPT
             !.prefixes = {"acme"}, !.subfolder = "jobs"]>>, NoCalls,
        Recorded("inbox", <<"old", "acme">>, <<>>), Recorded("inbox", <<"old", "acme">>, <<>>))

SomeSetups ==
  {Client(Open, None), Client(Local, "confidential"), Interviews(Open, None),
   Escapes, Doubles, Twins}
  \cup {Meetings(settings, None) : settings \in {Open, NoFrames, NoImages, NoKey}}
  \cup {Meetings(Open, "confidential")}

H == INSTANCE ProjectHandlers

ASSUME HandlersAssumption == H!HandlersAssumption

-----------------------------------------------------------------------------
NoHandlers ==
  /\ setup = None /\ place = None /\ transcribed = None /\ marked = None /\ files = None
  /\ sent = None /\ run = None /\ day = None /\ passes = None /\ edits = None /\ halts = None
  /\ verdict = None /\ visits = None /\ given = None /\ kept = None

EitherInit ==
  /\ Init
  /\ \/ part = "scans" /\ NoHandlers
     \/ part = "handlers" /\ H!Init

EitherNext ==
  /\ part' = part
  /\ \/ part = "scans" /\ Next /\ UNCHANGED handling
     \/ part = "handlers" /\ H!Next /\ UNCHANGED vars

EitherSpec == EitherInit /\ [][EitherNext]_<<part, vars, handling>>

Symmetry == Permutations(Processes) \cup Permutations(Contents) \cup Permutations({clip, copy})

\* Nothing is claimed of the scans once an entry is forgotten; one deletion or
\* one stop, and then a third scan only where one file was put.
Remembered ==
  /\ ~forgotten /\ deletes + crashes <= 1
  /\ runs < 3 \/ deletes + crashes = 0 \/ puts <= 1

-----------------------------------------------------------------------------
\* What the handlers send is allowed, and what they report as done is there
\* (see ProjectHandlers).
HandlersSafe == part = "handlers" => H!TypeOK /\ H!HandlersSafe

=============================================================================
