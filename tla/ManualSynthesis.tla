--------------------------- MODULE ManualSynthesis ---------------------------
(***************************************************************************)
(* One run of documentation over a recorded video: the evidence timeline   *)
(* that is resolved from what earlier work persisted, its compaction into  *)
(* blocks, a bounded number of requests per block, the check that what     *)
(* came back is grounded in the evidence, and the manual, the AI package   *)
(* and the publication made of it, in the order of                         *)
(* generate_documentation_v2.                                              *)
(*                                                                         *)
(* Simplifications.                                                        *)
(*  - A text is its words and a length: 1 is up to the 200 characters      *)
(*    below which a transcript is no secret, Excerpt is MAX_EXCERPT_CHARS. *)
(*  - A frame's name is its number; frames come sorted by time.  What is   *)
(*    on the screen of a frame, and its picture, are values that are alike *)
(*    when they are equal.                                                 *)
(*  - A response is one section, one procedure or one glossary, of units   *)
(*    that cite evidence; every other shape is "malformed".                *)
(*  - A score has no text density and no centrality; a unit of a chunk     *)
(*    has length 1.                                                        *)
(*  - The files of a bundle change at once, and so do the two bundles made *)
(*    of the steps.                                                        *)
(*  - Reviewers come between runs; what happens when they come in the      *)
(*    middle of one, or stop in theirs, is in DocumentVersions.            *)
(***************************************************************************)
EXTENDS Integers, Sequences, FiniteSets, SequencesExt

CONSTANTS
  Recordings,            \* what frame_mapping.json and the segments file may hold
  Configs,               \* settings of the project and of the provider
  Excerpt,               \* longest text of an item
  Target, Hard,          \* sizes of a block
  MaxBlocks,             \* most blocks, so most first requests
  ChunkUnits,            \* most units of a chunk
  PerSection, MaxPicks,  \* screenshots of a section, and of a document
  MaxRuns, MaxStops,     \* bounds: runs; stops of the process
  None

SynthesisAssumption ==
  /\ {Excerpt, Target, ChunkUnits, PerSection, MaxPicks} \subseteq Nat \ {0}
  /\ Hard \in Nat /\ Target <= Hard
  /\ {MaxBlocks, MaxRuns, MaxStops} \subseteq Nat

Ways  == {"process", "regenerate", "evidence"}
Kinds == {"claims", "steps", "terms"}
Stages == {"idle", "evidence", "steps", "mode", "ask", "merge", "refuse", "manual", "package",
           "publish", "bundles"}

VARIABLES
  recording,  \* the video, as earlier work left it
  config,     \* [mode, enabled, provider, brain]
  steps,      \* manual/steps.json: frame -> [screen, reviewed]
  evidence,   \* evidence/evidence.jsonl and the review queue
  report,     \* manual/synthesis-validation.json
  document,   \* manual/knowledge-document.json
  manual,     \* what MANUAL.md shows: the document, the steps, or nothing
  package,    \* ai-package/: chunks and screenshots of the same
  published,  \* what the outbox was given last
  run,        \* the run under way, its locals
  runs, stops,
  torn        \* history: where a run stopped that had written its manual

outputs   == <<document, manual, package, published>>
synthesis == <<recording, config, steps, evidence, report, outputs, run, runs, stops, torn>>

Idle == [pc |-> "idle", how |-> "process", items |-> <<>>, steps |-> <<>>, blocks |-> <<>>,
         fragments |-> <<>>, again |-> FALSE, wrong |-> FALSE, calls |-> 0]

-----------------------------------------------------------------------------
(* The evidence timeline.                                                  *)

Part(t, i) == [t EXCEPT !.part = i,
                        !.size = IF i * Excerpt <= t.size THEN Excerpt ELSE t.size % Excerpt]

\* A text in pieces that fit an item.
Pieces(t) == IF t.size <= Excerpt THEN <<t>>
             ELSE [i \in 1 .. (t.size + Excerpt - 1) \div Excerpt |-> Part(t, i)]

Entry(from, to, text, screen, frame, reviewed) ==
  [from |-> from, to |-> to, text |-> text, screen |-> screen, frame |-> frame,
   reviewed |-> reviewed, untimed |-> FALSE]

StepOf(seen, f) == IF f \in DOMAIN seen THEN seen[f] ELSE [screen |-> None, reviewed |-> FALSE]

\* Segments near several frames, and texts mapped to several, count once; a
\* frame that shows or says nothing leaves a place for a reviewer.
AddFrame(rec, seen, acc, f) ==
  LET frame == rec.frames[f]
      step  == StepOf(seen, f)
      segments == IF rec.saved = <<>> THEN frame.segments ELSE <<>>
      fresh == SelectSeq(segments, LAMBDA s : s \notin acc.segments)
      said  == frame.text # None /\ rec.saved = <<>>
      Own(text, screen) == <<Entry(frame.at, frame.at, text, screen, f, step.reviewed)>>
      shown == IF step.screen = None THEN <<>> ELSE Own(None, step.screen)
      new   == CASE segments # <<>> ->
                      [i \in DOMAIN fresh |-> Entry(fresh[i].from, fresh[i].to, fresh[i].text,
                                                    step.screen, f, step.reviewed)] \o shown
                 [] segments = <<>> /\ said /\ frame.text \notin acc.texts ->
                      Own(frame.text, step.screen)
                 [] segments = <<>> /\ said /\ frame.text \in acc.texts -> shown
                 [] OTHER -> Own(None, step.screen)
  IN [entries  |-> acc.entries \o new,
      segments |-> acc.segments \cup ToSet(segments),
      texts    |-> acc.texts \cup IF segments = <<>> /\ said THEN {frame.text} ELSE {}]

\* The whole transcript, or that of the session, when nothing was said at a time.
Untimed(rec, text) ==
  IF text = None THEN <<>>
  ELSE <<[Entry(0, rec.duration, text, None, 0, FALSE) EXCEPT !.untimed = TRUE]>>

RawEntries(rec, seen) ==
  LET saved  == [i \in DOMAIN rec.saved |->
                   Entry(rec.saved[i].from, rec.saved[i].to, rec.saved[i].text, None, 0, FALSE)]
      framed == FoldLeft(LAMBDA acc, f : AddFrame(rec, seen, acc, f),
                         [entries |-> saved, segments |-> {}, texts |-> {}],
                         [f \in DOMAIN rec.frames |-> f]).entries
      spoken == \E i \in DOMAIN framed : framed[i].text # None
  IN IF spoken THEN framed ELSE framed \o Untimed(rec, rec.full) \o Untimed(rec, rec.late)

\* Only the first piece keeps the frame and what is on it.
Expand(e) ==
  IF e.text = None \/ e.text.size <= Excerpt THEN <<e>>
  ELSE [i \in DOMAIN Pieces(e.text) |->
          IF i = 1 THEN [e EXCEPT !.text = Pieces(e.text)[1]]
          ELSE [e EXCEPT !.text = Pieces(e.text)[i], !.screen = None, !.frame = 0]]

Earlier(e, f) ==
  \/ e.from < f.from
  \/ e.from = f.from /\ e.to < f.to
  \/ e.from = f.from /\ e.to = f.to /\ e.frame < f.frame

\* Sorted stably; the number of an item is its evidence id.
Chronological(es) ==
  LET order == SortSeq([i \in DOMAIN es |-> i],
                       LAMBDA i, j : Earlier(es[i], es[j]) \/ (~Earlier(es[j], es[i]) /\ i < j))
  IN [n \in DOMAIN es |-> es[order[n]]]

Timeline(rec, seen) ==
  Chronological(FlattenSeq([i \in DOMAIN RawEntries(rec, seen) |->
                              Expand(RawEntries(rec, seen)[i])]))

Facts(items) == {n \in DOMAIN items : items[n].text # None \/ items[n].screen # None}

-----------------------------------------------------------------------------
(* Compaction into blocks of evidence ids.                                 *)

Size(items, n, shown) ==
  (IF items[n].text = None THEN 0 ELSE items[n].text.size)
    + IF n \in shown /\ items[n].screen # None THEN 1 ELSE 0

\* What a screen shows is sent once.
FirstShown(items) ==
  {n \in Facts(items) : \A m \in Facts(items) : m < n => items[m].screen # items[n].screen}

\* A block is closed where the next fact would exceed the target.
AddFact(items, acc, n) ==
  LET size == Size(items, n, FirstShown(items))
  IN IF acc.blocks # <<>> /\ acc.size + size <= Target
     THEN [acc EXCEPT !.blocks[Len(acc.blocks)] = Append(@, n), !.size = @ + size]
     ELSE [acc EXCEPT !.blocks = Append(@, <<n>>), !.size = size,
                      !.cut = @ \/ Size(items, n, {}) > Hard]

Compacted(items) ==
  FoldLeft(LAMBDA acc, n : AddFact(items, acc, n), [blocks |-> <<>>, size |-> 0, cut |-> FALSE],
           SetToSortSeq(Facts(items), <))

CoverageComplete(items) == ~Compacted(items).cut /\ Len(Compacted(items).blocks) <= MaxBlocks

-----------------------------------------------------------------------------
(* Requests, and what is made of the responses.                            *)

\* A response of one kind: a unit that cites something, nothing or what is not in the
\* block, two units, or a claim that calls itself reviewed or recites the transcript.
Fragments(items) ==
  LET one == {<<{n}>> : n \in DOMAIN items}
      two == {<<{n}, {n + 1}>> : n \in 1 .. Len(items) - 1}
  IN [kind : Kinds, refs : one \cup two \cup {<<{}>>}, reviewed : {FALSE}, dump : {FALSE}]
     \cup [kind : {"claims"}, refs : one, reviewed : {TRUE}, dump : {recording.full # None}]

\* Mutant of WellShaped: evidence of the whole timeline may be cited.
WellShapedAnyId(fragment, block) ==
  \A i \in DOMAIN fragment.refs : fragment.refs[i] # {}

\* Every unit cites evidence, all of it of this block.
WellShaped(fragment, block) ==
  \A i \in DOMAIN fragment.refs :
    fragment.refs[i] # {} /\ fragment.refs[i] \subseteq ToSet(block)

\* Generated claims are never reviewed.
Coerced(fragment) == [fragment EXCEPT !.reviewed = FALSE]

Cited(fragment) == UNION ToSet(fragment.refs)

\* The whole transcript, longer than 200 characters, is in a string of the document:
\* in what was written, or in the excerpt of an item of the evidence index.
EmbedsTranscript(rec, items, fragments) ==
  /\ rec.full # None /\ rec.full.size > 1
  /\ \/ \E i \in DOMAIN fragments : fragments[i].dump
     \/ \E n \in DOMAIN items :
          items[n].text # None /\ items[n].text.words = rec.full.words /\ items[n].text.part = 0

Grounded(rec, items, fragments) ==
  /\ \A i \in DOMAIN fragments : \A j \in DOMAIN fragments[i].refs :
       LET refs == fragments[i].refs[j]
       IN /\ fragments[i].kind = "terms" \/ (refs # {} /\ refs \subseteq DOMAIN items)
          /\ fragments[i].kind = "claims" =>
               refs \cap Facts(items) # {} /\ ~fragments[i].reviewed
  /\ \A n \in DOMAIN items :
       /\ 0 <= items[n].from /\ items[n].from <= items[n].to
       /\ rec.duration > 0 => items[n].to <= rec.duration
  /\ ~EmbedsTranscript(rec, items, fragments)

-----------------------------------------------------------------------------
(* Screenshots and chunks.                                                 *)

\* Transcript and both rank high, a screen alone medium; reviewed adds one.
Score(item) == (IF item.text # None THEN 3 ELSE IF item.screen # None THEN 2 ELSE 1)
                 + (IF item.reviewed THEN 1 ELSE 0) + (IF item.screen # None THEN 1 ELSE 0)

Better(items, m, n) ==
  Score(items[m]) > Score(items[n]) \/ (Score(items[m]) = Score(items[n]) /\ m < n)

\* One section takes its best candidates, no picture like one already taken.
AddSection(rec, items, fragments, acc, i) ==
  LET candidates == {n \in Cited(fragments[i]) : items[n].frame # 0}
      Picture(n) == rec.frames[items[n].frame].picture
      Take(taken, n) ==
        IF Cardinality({p \in ToSet(taken) : p[1] = i}) >= PerSection
           \/ \E p \in ToSet(taken) : Picture(p[2]) = Picture(n)
        THEN taken ELSE Append(taken, <<i, n>>)
  IN FoldLeft(Take, acc, SetToSortSeq(candidates, LAMBDA m, n : Better(items, m, n)))

\* The sections of a document, then its procedures.
Parts(fragments) ==
  LET Of(kind) == SelectSeq([i \in DOMAIN fragments |-> i], LAMBDA i : fragments[i].kind = kind)
  IN Of("claims") \o Of("steps")

\* Above the cap of the document the lowest are dropped, of equals those of sections
\* (named "section-...", after "procedure-...").
Selection(rec, items, fragments) ==
  LET parts == Parts(fragments)
      picks == FoldLeft(LAMBDA acc, i : AddSection(rec, items, fragments, acc, i), <<>>, parts)
      byName == SelectSeq(parts, LAMBDA i : fragments[i].kind = "steps")
                  \o SelectSeq(parts, LAMBDA i : fragments[i].kind = "claims")
      Higher(p, q) ==
        \/ Score(items[p[2]]) > Score(items[q[2]])
        \/ Score(items[p[2]]) = Score(items[q[2]])
             /\ \/ LET At(x) == CHOOSE k \in DOMAIN byName : byName[k] = x
                   IN At(p[1]) < At(q[1])
                \/ p[1] = q[1] /\ p[2] < q[2]
      ranked == SetToSortSeq(ToSet(picks), Higher)
  IN {ranked[i] : i \in {j \in DOMAIN ranked : j <= MaxPicks}}

\* Split between units, never within one.
Split(units) ==
  [k \in 1 .. (Len(units) + ChunkUnits - 1) \div ChunkUnits |->
     SubSeq(units, (k - 1) * ChunkUnits + 1,
            IF k * ChunkUnits <= Len(units) THEN k * ChunkUnits ELSE Len(units))]

\* Those of a section are numbered by part, those of a procedure by the chunks so far.
AddChunks(fragments, acc, i) ==
  LET parts == Split(fragments[i].refs)
      number(k) == IF fragments[i].kind = "claims" THEN k ELSE Len(acc) + k
  IN acc \o [k \in DOMAIN parts |-> [of |-> i, number |-> number(k), units |-> parts[k]]]

Chunks(fragments) ==
  FoldLeft(LAMBDA acc, i : AddChunks(fragments, acc, i), <<>>, Parts(fragments))

-----------------------------------------------------------------------------
(* The stages of a run.                                                    *)

Go(pc) == run' = [run EXCEPT !.pc = pc]

\* Processing reads the screens; a regeneration takes the steps that are there, or
\* derives them without looking at any frame.
StepsFor(how) ==
  CASE how = "process" ->
         [f \in DOMAIN recording.frames |-> [screen |-> recording.frames[f].screen, reviewed |-> FALSE]]
    [] how # "process" /\ steps # None -> steps
    [] OTHER -> [f \in DOMAIN recording.frames |-> [screen |-> None, reviewed |-> FALSE]]

Begin(how) ==
  /\ run.pc = "idle" /\ runs < MaxRuns
  /\ runs' = runs + 1
  /\ run' = [Idle EXCEPT !.pc = "evidence", !.how = how, !.steps = StepsFor(how),
                         !.items = Timeline(recording, StepsFor(how))]
  /\ UNCHANGED <<recording, config, steps, evidence, report, outputs, stops, torn>>

WriteEvidence ==
  /\ run.pc = "evidence"
  /\ evidence' = run.items
  /\ Go("steps")
  /\ UNCHANGED <<recording, config, steps, report, outputs, runs, stops, torn>>

WriteSteps ==
  /\ run.pc = "steps"
  /\ steps' = run.steps
  /\ Go("mode")
  /\ UNCHANGED <<recording, config, evidence, report, outputs, runs, stops, torn>>

\* An explicit AUTO asks the provider first, behind the same guard.
Classifies ==
  config.mode = "auto" /\ config.enabled /\ run.how # "evidence" /\ config.provider = "open"

Allowed == run.how # "evidence" /\ config.enabled /\ config.provider = "open"

\* Synthesis is not wanted, not available, blocked, without facts, too large, or begins.
ResolveMode ==
  /\ run.pc = "mode"
  /\ LET facts == Facts(run.items)
         pc == IF ~Allowed THEN "bundles"
               ELSE IF ~CoverageComplete(run.items) THEN "refuse"
               ELSE IF facts = {} THEN "bundles" ELSE "ask"
     IN run' = [run EXCEPT !.pc = pc, !.calls = IF Classifies THEN 1 ELSE 0,
                           !.wrong = pc = "refuse",
                           !.blocks = IF pc = "ask" THEN Compacted(run.items).blocks ELSE <<>>]
  /\ UNCHANGED <<recording, config, steps, evidence, report, outputs, runs, stops, torn>>

\* The block whose turn it is: one fragment, or a gap, for each before it.
Block == Len(run.fragments) + 1

\* One request, and one more when the answer has not the shape; the next block is
\* asked for even when this one failed; then nothing will be made of the fragments.
Answer(fragment) ==
  LET next == IF Block = Len(run.blocks) THEN "merge" ELSE "ask"
      good == fragment # None /\ WellShaped(fragment, run.blocks[Block])
  IN run' = [run EXCEPT !.calls = @ + 1, !.again = FALSE, !.pc = next,
                        !.wrong = @ \/ ~good,
                        !.fragments = IF good /\ ~run.wrong THEN Append(@, Coerced(fragment))
                                      ELSE [i \in 1 .. Block |-> None]]

Ask ==
  /\ run.pc = "ask"
  /\ \/ Answer(None)                                      \* the transport fails
     \/ \E fragment \in Fragments(run.items) :
          \/ WellShaped(fragment, run.blocks[Block]) /\ Answer(fragment)
          \/ /\ ~WellShaped(fragment, run.blocks[Block])
             /\ IF run.again THEN Answer(None)
                ELSE run' = [run EXCEPT !.again = TRUE, !.calls = @ + 1]
  /\ UNCHANGED <<recording, config, steps, evidence, report, outputs, runs, stops, torn>>

\* Every block was answered, or there is no document; a document is checked against
\* the evidence and the report of the check is saved.
Merge ==
  /\ run.pc = "merge"
  /\ IF run.wrong
     THEN Go("refuse") /\ UNCHANGED report
     ELSE LET valid == Grounded(recording, run.items, run.fragments)
          IN /\ report' = [valid |-> valid, blames |-> IF valid THEN "nothing" ELSE "grounding"]
             /\ Go(IF valid THEN "manual" ELSE "refuse")
  /\ UNCHANGED <<recording, config, steps, evidence, outputs, runs, stops,
                 torn>>

\* The errors of synthesis replace the report, those of the check with it.
Refuse ==
  /\ run.pc = "refuse"
  /\ report' = [valid |-> FALSE, blames |-> IF run.wrong THEN "synthesis" ELSE "nothing"]
  /\ Go("bundles")
  /\ UNCHANGED <<recording, config, steps, evidence, outputs, runs, stops,
                 torn>>

Document == [fragments |-> run.fragments, items |-> run.items, blocks |-> run.blocks]

WriteManual ==
  /\ run.pc = "manual"
  /\ document' = Document /\ manual' = "document"
  /\ torn' = "no"
  /\ Go("package")
  /\ UNCHANGED <<recording, config, steps, evidence, report, package, published, runs, stops>>

WritePackage ==
  /\ run.pc = "package"
  /\ package' = [of |-> "document", fragments |-> run.fragments,
                 chunks |-> Chunks(run.fragments),
                 picks |-> Selection(recording, run.items, run.fragments)]
  /\ Go("publish")
  /\ UNCHANGED <<recording, config, steps, evidence, report, document, manual, published, runs, stops,
                 torn>>

\* The package of an enabled second brain goes to the outbox.
Publish ==
  /\ run.pc = "publish"
  /\ published' = IF config.brain THEN run.fragments ELSE published
  /\ run' = Idle
  /\ UNCHANGED <<recording, config, steps, evidence, report, document, manual, package, runs, stops, torn>>

\* Both bundles are made of the steps.
RenderSteps ==
  /\ manual' = "steps"
  /\ package' = [of |-> "steps", fragments |-> <<>>, chunks |-> <<>>, picks |-> {}]

\* A document is there: a run does not replace what was made of it by the steps.
KeepsManual == document # None

WriteBundles ==
  /\ run.pc = "bundles"
  /\ run' = Idle
  /\ IF KeepsManual THEN UNCHANGED <<manual, package>> ELSE RenderSteps
  /\ UNCHANGED <<recording, config, steps, evidence, report, document, published, runs, stops, torn>>

\* A reviewer approves or removes a step, or has the bundles rebuilt: they are made of
\* the steps, where a document is there too, which stays.
UpdateStep(f) == ~steps[f].reviewed /\ steps' = [steps EXCEPT ![f].reviewed = TRUE]

RemoveStep(f) == steps' = [g \in DOMAIN steps \ {f} |-> steps[g]]

Review ==
  /\ run.pc = "idle" /\ steps # None /\ runs < MaxRuns
  /\ \/ \E f \in DOMAIN steps : UpdateStep(f) \/ RemoveStep(f)
     \/ UNCHANGED steps
  /\ RenderSteps
  /\ UNCHANGED <<recording, config, evidence, report, document, published, run, runs, stops, torn>>

Stop ==
  /\ run.pc # "idle" /\ stops < MaxStops
  /\ stops' = stops + 1
  /\ torn' = IF run.pc \in {"package", "publish"} THEN run.pc ELSE torn
  /\ run' = Idle
  /\ UNCHANGED <<recording, config, steps, evidence, report, outputs, runs>>

Init ==
  /\ recording \in Recordings /\ config \in Configs
  /\ steps = None /\ evidence = None /\ report = None /\ document = None /\ manual = None /\ package = None
  /\ published = <<>> /\ run = Idle /\ runs = 0 /\ stops = 0 /\ torn = "no"

Next ==
  \/ \E how \in Ways : Begin(how)
  \/ WriteEvidence \/ WriteSteps \/ ResolveMode \/ Ask \/ Merge \/ Refuse
  \/ WriteManual \/ WritePackage \/ Publish \/ WriteBundles \/ Review \/ Stop

Spec == Init /\ [][Next]_synthesis

-----------------------------------------------------------------------------
TypeOK ==
  /\ recording \in Recordings /\ config \in Configs
  /\ run.pc \in Stages /\ run.how \in Ways
  /\ runs \in 0 .. MaxRuns /\ stops \in 0 .. MaxStops /\ torn \in {"no", "package", "publish"}

\* What was said, by segment when segments were saved, else near frames.
Heard(rec) ==
  IF rec.saved # <<>> THEN ToSet(rec.saved)
  ELSE UNION {ToSet(rec.frames[f].segments) : f \in DOMAIN rec.frames}

\* build_evidence_timeline: every piece of every segment is in the timeline once, at the
\* time of its segment; every screen in the steps is in it, with its frame; and
\* items that are no facts are frames that show and say nothing.
EvidenceSound ==
  run.pc # "idle" =>
    /\ \A s \in Heard(recording) : \A p \in ToSet(Pieces(s.text)) :
         Cardinality({n \in DOMAIN run.items :
           run.items[n].text = p /\ run.items[n].from = s.from /\ run.items[n].to = s.to}) = 1
    /\ \A f \in DOMAIN recording.frames : StepOf(run.steps, f).screen # None =>
         \E n \in DOMAIN run.items :
           run.items[n].frame = f /\ run.items[n].screen = run.steps[f].screen
    /\ \A n \in DOMAIN run.items : n \in Facts(run.items) \/
         LET f == run.items[n].frame
         IN f # 0 /\ StepOf(run.steps, f).screen = None

\* synthesize: no request leaves for a provider the guard blocks, and at most two per
\* block and one to choose the mode.
RequestsBounded ==
  /\ config.provider # "open" => run.calls = 0
  /\ run.calls <= 2 * Len(run.blocks) + 1 /\ Len(run.blocks) <= MaxBlocks

\* A document rests on all facts of its timeline, cut into blocks in order; what was
\* written about a block cites facts of that block and of no other, is not marked
\* reviewed, and does not give the transcript away.
DocumentGrounded ==
  document # None =>
    /\ FlattenSeq(document.blocks) = SetToSortSeq(Facts(document.items), <)
    /\ Len(document.fragments) = Len(document.blocks)
    /\ \A i \in DOMAIN document.fragments :
         LET fragment == document.fragments[i]
         IN /\ ~fragment.reviewed
            /\ fragment.dump => recording.full = None \/ recording.full.size <= 1
            /\ \A j \in DOMAIN fragment.refs :
                 fragment.refs[j] # {} /\ fragment.refs[j] \subseteq ToSet(document.blocks[i])
                 /\ \A n \in fragment.refs[j] :
                      document.items[n].text # None \/ document.items[n].screen # None

\* Manual and package show the same, the document or the steps, unless a run is or was
\* stopped between them.
BundlesAgree ==
  manual # None =>
    run.pc = "package" \/ torn = "package" \/ (package # None /\ package.of = manual)

\* A package of a document is of the one that is there, but for the same runs; its
\* chunks have names of their own and hold each claim and each step once;
\* screenshots are of frames their section cites, no two of them alike, within
\* both caps.
PackageSound ==
  package # None /\ package.of = "document" =>
    /\ run.pc = "package" \/ torn = "package" \/ package.fragments = document.fragments
    /\ \A k, l \in DOMAIN package.chunks : k # l =>
         \/ package.chunks[k].of # package.chunks[l].of
         \/ package.chunks[k].number # package.chunks[l].number
    /\ \A i \in DOMAIN package.fragments : package.fragments[i].kind # "terms" =>
         LET mine == SelectSeq(package.chunks, LAMBDA c : c.of = i)
         IN FlattenSeq([k \in DOMAIN mine |-> mine[k].units]) = package.fragments[i].refs
    /\ Cardinality(package.picks) <= MaxPicks
    /\ \A i \in DOMAIN package.fragments :
         Cardinality({p \in package.picks : p[1] = i}) <= PerSection
    /\ \A p \in package.picks : p[2] \in Cited(package.fragments[p[1]])

\* Only a complete package of a grounded document reaches the outbox.
PublishedIsGrounded ==
  published # <<>> /\ run.pc \in {"idle", "evidence"} /\ torn = "no" =>
    document # None /\ (config.brain => published = document.fragments)

SynthesisSound ==
  EvidenceSound /\ RequestsBounded /\ DocumentGrounded /\ BundlesAgree /\ PackageSound
    /\ PublishedIsGrounded

\* A document is replaced by another one only, and that by a run all of whose blocks
\* were answered; a run never puts the steps in place of a manual that shows a document
\* (last-good protection), though a reviewer of the steps does.
LastGoodManual ==
  [][ /\ document # None => document' # None
      /\ document' # document => ~run.wrong /\ report.valid
      /\ manual = "document" /\ run.pc # "idle" => manual' = "document" ]_synthesis

\* What DELTA-ZMI-DOCS-V2-004 asks of a text too long for one item: its pieces are
\* in the timeline in its order.  They are not when the text belongs to a frame.
ExcerptsInOrder ==
  \A m, n \in DOMAIN run.items :
    m < n /\ run.items[m].text # None /\ run.items[n].text # None
      /\ run.items[m].text.words = run.items[n].text.words
      /\ run.items[m].from = run.items[n].from
    => run.items[m].text.part < run.items[n].text.part

=============================================================================
