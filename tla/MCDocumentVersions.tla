------------------------- MODULE MCDocumentVersions -------------------------
(***************************************************************************)
(* Instances of DocumentVersions and of ManualSynthesis for TLC.  They     *)
(* share no state; `part' chooses which is explored.                       *)
(***************************************************************************)
EXTENDS DocumentVersions, Sequences, TLC

CONSTANTS
  Excerpt, Target, Hard, MaxBlocks, ChunkUnits, PerSection, MaxPicks, MaxRuns, MaxStops

VARIABLES
  part,
  recording, config, steps, evidence, report, document, manual, package, published, run, runs,
  stops, torn

synthesis == <<recording, config, steps, evidence, report, document, manual, package, published,
               run, runs, stops, torn>>

-----------------------------------------------------------------------------
(* Recordings.                                                             *)

Text(words, size) == [words |-> words, size |-> size, part |-> 0]
Hello == Text("hello", 1)
Mid   == Text("mid", 2)
Long  == Text("long", 3)

Segment(from, to, text) == [from |-> from, to |-> to, text |-> text]

Frame(at, segments, text, screen, picture) ==
  [at |-> at, segments |-> segments, text |-> text, screen |-> screen, picture |-> picture]

Recording(saved, frames, full, late) ==
  [saved |-> saved, frames |-> frames, full |-> full, late |-> late, duration |-> 5]

Recordings ==
  { \* A saved segment, cut in two; two frames, the second with nothing to show.
    Recording(<<Segment(0, 5, Long)>>,
              <<Frame(1, <<>>, None, "A", "p"), Frame(3, <<>>, None, None, "p")>>, None, None),
    \* A segment near two frames that show the same.
    Recording(<<>>, <<Frame(1, <<Segment(0, 2, Hello)>>, Hello, "A", "p"),
                      Frame(2, <<Segment(0, 2, Hello), Segment(2, 4, Mid)>>, Mid, "A", "q")>>,
              Mid, None),
    \* A long segment near a frame.
    Recording(<<>>, <<Frame(1, <<Segment(0, 2, Long)>>, Long, None, "p")>>, Long, None),
    \* A long text mapped to two frames.
    Recording(<<>>, <<Frame(1, <<>>, Long, "A", "p"), Frame(2, <<>>, Long, "B", "p"),
                      Frame(4, <<>>, None, None, "q")>>, None, None),
    \* The whole transcript only, of less than an excerpt.
    Recording(<<>>, <<>>, Mid, None),
    \* A segment that ends after the video.
    Recording(<<Segment(0, 6, Hello)>>, <<>>, Hello, Long),
    \* A silent video with the transcript of its session.
    Recording(<<>>, <<Frame(1, <<>>, None, None, "p")>>, None, Long) }

Configs == [mode : {"auto"}, enabled : BOOLEAN, provider : {"open", "blocked", "none"}, brain : {TRUE}]

M == INSTANCE ManualSynthesis

ASSUME SynthesisAssumption == M!SynthesisAssumption

-----------------------------------------------------------------------------
EitherInit ==
  /\ Init /\ M!Init /\ part \in {"versions", "synthesis"}
  /\ part = "versions" =>
       /\ recording = CHOOSE r \in Recordings : TRUE
       /\ config = CHOOSE c \in Configs : TRUE

EitherNext ==
  /\ part' = part
  /\ \/ part = "versions" /\ Next /\ UNCHANGED synthesis
     \/ part = "synthesis" /\ M!Next /\ UNCHANGED vars

EitherSpec == EitherInit /\ [][EitherNext]_<<part, vars, synthesis>>

\* Threads are interchangeable.
ThreadSymmetry == Permutations(Threads)

-----------------------------------------------------------------------------
EitherTypeOK == IF part = "versions" THEN TypeOK ELSE M!TypeOK

\* What is written from a recording rests on it, and a good manual stays until a better
\* one comes (see ManualSynthesis).
SynthesisSafe == [](part = "synthesis" => M!SynthesisSound) /\ M!LastGoodManual

\* The pieces of a long text keep its order (see ManualSynthesis).
ExcerptsInOrder == M!ExcerptsInOrder

=============================================================================
