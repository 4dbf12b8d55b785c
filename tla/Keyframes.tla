------------------------------ MODULE Keyframes ------------------------------
(***************************************************************************)
(* The frames of a tutorial: KeyframeExtractor finds the times at which    *)
(* the screen changes, writes one frame for each, drops those that look    *)
(* like the one before, crops the rest and maps every frame to its time.   *)
(* The folder of a video is never emptied: a later extraction, with        *)
(* another method or after one that was killed, finds its frames.          *)
(*                                                                         *)
(* Simplifications.                                                        *)
(*  - interval differs from iframe in the command and in that its times    *)
(*    are estimates; only iframe is modelled.                              *)
(*  - A frame can be deleted; renaming replaces a file (not on Windows).   *)
(*  - A frame of which only a part was cropped counts as cropped.          *)
(***************************************************************************)
EXTENDS Naturals, Sequences, FiniteSets

CONSTANTS
  Times,          \* times at which anything changes: 1 .. n
  Cooldown,       \* SMART_SCENE_COOLDOWN
  MaxFrames,      \* max_frames
  MaxExtractions, \* bound: extractions of the video
  None

KeyframesAssumption ==
  /\ IsFiniteSet(Times) /\ Times = 1 .. Cardinality(Times)
  /\ {Cooldown, MaxFrames} \subseteq Nat \ {0} /\ MaxExtractions \in Nat

Names == 0 .. Cardinality(Times)     \* frame_%04d

VARIABLES
  looks,      \* what the screen shows from each time on
  stage,      \* "off", "extract", "dedupe", "limit", "crop", "map"
  method,     \* "scene", "smart_scene", "iframe"
  cropping,   \* a region was given
  plan,       \* times of the frames to be written
  index,      \* the next of them, from 0
  stamps,     \* pts_map: the time of each frame written
  frames,     \* the folder: time, extraction and number of crops of each frame
  originals,  \* the folder of the originals
  tocrop,     \* frames yet to be cropped
  mapping,    \* frame_mapping.json: frames and their times
  extractions

kvars == <<looks, stage, method, cropping, plan, index, stamps, frames, originals, tocrop,
           mapping, extractions>>

Methods == {"scene", "smart_scene", "iframe"}
Frames  == [time : Times, extraction : Nat, crops : 0 .. MaxExtractions]

Present == {n \in Names : frames[n] # None}
Least(S) == CHOOSE x \in S : \A y \in S : x <= y
Firsts(S, k) == {n \in S : Cardinality({m \in S : m < n}) < k}

\* A frame that an earlier extraction left.
Left == {n \in Present : frames[n].extraction # extractions}

TypeOK ==
  /\ looks \in [Times -> {"a", "b"}]
  /\ stage \in {"off", "extract", "dedupe", "limit", "crop", "map"}
  /\ method \in Methods /\ cropping \in BOOLEAN
  /\ \A i \in DOMAIN plan : plan[i] \in Times
  /\ index \in 0 .. Len(plan)
  /\ stamps \in [Names -> Times \cup {None}]
  /\ frames \in [Names -> Frames \cup {None}] /\ originals \in [Names -> Frames \cup {None}]
  /\ tocrop \subseteq Names
  /\ extractions \in 0 .. MaxExtractions

Empty == [n \in Names |-> None]

Estimate == 0    \* a time that was not measured

Init ==
  /\ looks \in [Times -> {"a", "b"}]
  /\ stage = "off" /\ method = "scene" /\ cropping = FALSE
  /\ plan = <<>> /\ index = 0 /\ stamps = Empty
  /\ frames = Empty /\ originals = Empty /\ tocrop = {}
  /\ mapping = None /\ extractions = 0

-----------------------------------------------------------------------------
(* The times.                                                              *)

Ascending(S) == [i \in 1 .. Cardinality(S) |->
                   CHOOSE x \in S : Cardinality({y \in S : y < x}) = i - 1]

\* Every change is found by scene and iframe; smart_scene overlooks any of them.
\* Then it waits: the next time it takes is at least Cooldown later.
Cooled(found) ==
  LET Take[t \in 0 .. Cardinality(Times)] ==
        IF t = 0 THEN {}
        ELSE Take[t - 1] \cup
             {x \in found \cap {t} : \A y \in Take[t - 1] : x - y >= Cooldown}
  IN  Take[Cardinality(Times)]

\* At most MaxFrames of them: pts_list[int(i * step)].
Spread(times) ==
  IF Len(times) <= MaxFrames THEN times
  ELSE [i \in 1 .. MaxFrames |-> times[(((i - 1) * Len(times)) \div MaxFrames) + 1]]

-----------------------------------------------------------------------------
(* extract_keyframes.                                                      *)

Begin ==
  /\ stage = "off" /\ extractions < MaxExtractions
  /\ extractions' = extractions + 1
  /\ cropping' \in BOOLEAN
  /\ index' = 0 /\ stamps' = Empty /\ stage' = "extract"
  /\ \/ method' = "iframe" /\ plan' = Ascending(Times)
     \/ method' = "scene" /\ plan' = Spread(Ascending(Times))
     \/ method' = "smart_scene" /\ \E found \in SUBSET Times :
                                     plan' = Spread(Ascending(Cooled(found)))
  /\ UNCHANGED <<looks, frames, originals, tocrop, mapping>>

\* ffmpeg numbers its frames from 1, _extract_frames_at_pts from 0.
Name == IF method = "iframe" THEN index + 1 ELSE index

Writes(n, t) ==
  frames' = [frames EXCEPT ![n] = [time |-> t, extraction |-> extractions, crops |-> 0]]

\* A frame is written; or the command fails; or it succeeds without a frame, and
\* one that was there is taken for it.
ExtractOne ==
  LET n == Name
      t == plan[index + 1]
  IN
  /\ stage = "extract" /\ index < Len(plan)
  /\ index' = index + 1
  /\ \/ Writes(n, t) /\ stamps' = [stamps EXCEPT ![n] = t]
     \/ method # "iframe" /\ UNCHANGED <<frames, stamps>>
     \/ method # "iframe" /\ n \in Present
        /\ stamps' = [stamps EXCEPT ![n] = t] /\ UNCHANGED frames
  /\ UNCHANGED <<looks, stage, method, cropping, plan, originals, tocrop, mapping, extractions>>

\* After the last one; an iframe command fails as a whole and leaves what it wrote.
Extracted ==
  /\ stage = "extract" /\ (index = Len(plan) \/ method = "iframe")
  /\ stage' = CASE method = "smart_scene" /\ plan # <<>> -> "dedupe"
                [] method = "iframe" /\ index = Len(plan) -> "limit"
                [] OTHER -> "crop"
  /\ tocrop' = Present
  /\ UNCHANGED <<looks, method, cropping, plan, index, stamps, frames, originals, mapping,
                 extractions>>

Look(n) == looks[frames[n].time]

\* Mutant of Kept: the last of them.
KeptLast == {n \in Present : \A m \in Present :
               (n < m /\ \A k \in Present : ~(n < k /\ k < m)) => Look(m) # Look(n)}

\* Of frames in a row that look alike, the first.
Kept == {n \in Present : \A m \in Present :
           (m < n /\ \A k \in Present : ~(m < k /\ k < n)) => Look(m) # Look(n)}

Removes(gone) ==
  /\ frames' = [n \in Names |-> IF n \in gone THEN None ELSE frames[n]]
  /\ stamps' = [n \in Names |-> IF n \in gone THEN None ELSE stamps[n]]

\* _deduplicate_by_hash, unless the library is missing.
Dedupe ==
  /\ stage = "dedupe" /\ stage' = "limit"
  /\ \/ Removes(Present \ Kept)
     \/ UNCHANGED <<frames, stamps>>
  /\ UNCHANGED <<looks, method, cropping, plan, index, originals, tocrop, mapping, extractions>>

\* _limit_frames.
Limit ==
  /\ stage = "limit" /\ stage' = "crop"
  /\ Removes(Present \ Firsts(Present, MaxFrames))
  /\ tocrop' = Firsts(Present, MaxFrames)
  /\ UNCHANGED <<looks, method, cropping, plan, index, originals, mapping, extractions>>

\* The frame itself becomes the original.
SetAside(n) == frames[n]

\* apply_crop_to_frames: the frame becomes the original and is cropped back to its
\* place, or returned to it if it cannot be.
CropOne ==
  /\ stage = "crop" /\ cropping /\ tocrop # {}
  /\ LET n == Least(tocrop)
     IN  /\ tocrop' = tocrop \ {n}
         /\ \/ /\ originals' = [originals EXCEPT ![n] = SetAside(n)]
               /\ frames' = [frames EXCEPT ![n].crops = @ + 1]
            \/ originals' = [originals EXCEPT ![n] = None] /\ UNCHANGED frames
  /\ UNCHANGED <<looks, stage, method, cropping, plan, index, stamps, mapping, extractions>>

Cropped ==
  /\ stage = "crop" /\ (~cropping \/ tocrop = {})
  /\ stage' = "map" /\ tocrop' = {}
  /\ UNCHANGED <<looks, method, cropping, plan, index, stamps, frames, originals, mapping,
                 extractions>>

\* The i-th frame is taken to show the i-th change.
InOrder(n) == Cardinality({m \in Present : m < n}) + 1

\* The time of every frame is known.
Known == \A n \in Present : stamps[n] # None

Estimates(S) == S \X {Estimate}

\* _extract_frame_timestamps: ffprobe lists the times of the first k frames and the
\* others are estimated; or what it lists cannot be read, and all are estimated after
\* those that could; or it exits with an error, and there are none.
Listings ==
  {{}} \cup UNION {LET S == Firsts(Present, k)
                      L == {<<n, InOrder(n)>> : n \in S}
                  IN  {L \cup Estimates(Present \ S), L \cup Estimates(Present)} :
                  k \in 0 .. Cardinality(Present)}

\* _create_frame_mapping: frames and their times.
Map ==
  /\ stage = "map" /\ stage' = "off"
  /\ \E entries \in CASE method = "iframe" -> Listings
                      [] method # "iframe" /\ Known -> {{<<n, stamps[n]>> : n \in Present}}
                      [] OTHER -> {Estimates(Present)} :
       mapping' = [extraction |-> extractions, left |-> Left # {}, entries |-> entries]
  /\ UNCHANGED <<looks, method, cropping, plan, index, stamps, frames, originals, tocrop,
                 extractions>>

\* A command takes too long, or the process ends, between the frames.
Abandon ==
  /\ stage \in {"extract", "dedupe", "crop", "map"} /\ stage' = "off"
  /\ tocrop' = {}
  /\ UNCHANGED <<looks, method, cropping, plan, index, stamps, frames, originals, mapping,
                 extractions>>

Next ==
  \/ Begin \/ ExtractOne \/ Extracted \/ Dedupe \/ Limit \/ CropOne \/ Cropped \/ Map
  \/ Abandon

Spec == Init /\ [][Next]_kvars

-----------------------------------------------------------------------------
(* Properties.                                                             *)

\* The mapping gives every frame its own time: frames dropped in between, failed
\* commands and crops do not shift it, only frames left by an earlier extraction do.
\* For iframe a time may be an estimate, and there may be none of them at all.
MappingIsReal ==
  stage = "off" /\ mapping # None /\ mapping.extraction = extractions /\ ~mapping.left =>
    /\ \A e \in mapping.entries :
         /\ e[1] \in Present
         /\ e[2] = frames[e[1]].time \/ (method = "iframe" /\ e[2] = Estimate)
    /\ \/ {e[1] : e \in mapping.entries} = Present
       \/ method = "iframe" /\ mapping.entries = {}

\* The original of a frame that was cropped is that frame, uncropped, until a later
\* extraction crops what it finds.
OriginalKept ==
  \A n \in Present \ Left : frames[n].crops > 0 =>
    originals[n] = [frames[n] EXCEPT !.crops = 0]

\* The times chosen are in order, as many as there may be, and for smart_scene apart.
PlanIsSpread ==
  stage = "extract" =>
    /\ \A i \in 1 .. Len(plan) - 1 :
         plan[i + 1] - plan[i] >= IF method = "smart_scene" THEN Cooldown ELSE 1
    /\ method # "iframe" /\ plan # <<>> => Len(plan) <= MaxFrames
    /\ method = "scene" => Len(plan) > 0 /\ plan[1] = 1

\* What a screen shows is not lost with the frames that look like others: each
\* that is dropped has one before it that looks the same.
NothingLost ==
  [][stage = "dedupe" /\ stage' = "limit" =>
       \A n \in Present : \E m \in Present :
         m <= n /\ frames'[m] # None /\ Look(m) = Look(n)]_kvars

\* Frames have their times and their originals, and none is dropped for nothing.
FramesSafe == [](MappingIsReal /\ OriginalKept /\ PlanIsSpread) /\ NothingLost

=============================================================================
