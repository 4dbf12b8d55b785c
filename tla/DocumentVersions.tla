-------------------------- MODULE DocumentVersions --------------------------
(***************************************************************************)
(* The documentation of one video: manual/ (steps.json, MANUAL.md and      *)
(* knowledge-document.json), ai-package/ and evidence/, which the          *)
(* dashboard's review of steps, the generation at the end of processing,   *)
(* the generations a user asks for and the batch write in place, and the   *)
(* frozen copies under documentation_versions/.                            *)
(*                                                                         *)
(* Simplifications.                                                        *)
(*  - Content is where it came from: a version of frame_mapping.json and   *)
(*    the review edits applied since.  All files of a bundle change at     *)
(*    once, except that steps.json is written (truncated, then filled)     *)
(*    apart from the rest of manual/, and that the evidence is written     *)
(*    just before it in one step.                                          *)
(*  - What synthesis answers and whether the document is grounded is a     *)
(*    choice; so is whether the batch finds a video up to date.            *)
(*  - A restore removes and puts back manual/ in two steps and the other   *)
(*    two folders with the second.                                         *)
(*  - One batch runs at a time.                                            *)
(*  - The entry point the upstream guard replaces stands for all of them.  *)
(***************************************************************************)
EXTENDS Integers, FiniteSets, FiniteSetsExt

CONSTANTS
  Threads,      \* requests of the dashboard and runs of the batch
  MaxOps,       \* bound: operations begun
  MaxMappings,  \* bound: versions of frame_mapping.json
  MaxFaults,    \* bound: failed writes and stops of a process
  None, Torn    \* a file that is not there; one cut off in the middle

ASSUME ConstantsAssumption ==
  /\ IsFiniteSet(Threads)
  /\ MaxOps \in Nat /\ MaxMappings \in Nat \ {0} /\ MaxFaults \in Nat

Reviews   == {"edit", "rebuild"}        \* update_step, remove_step; regenerate_from_steps
Firsts    == {"generate", "process"}    \* generate_documentation
Versioned == {"regenerate", "batch"}    \* regenerate_versioned
Claiming  == {"generate", "regenerate"} \* take _doc_generation_inflight
Guarding  == {"regenerate", "other"}    \* patch the dashboard's process

Steps     == [from : 1 .. MaxMappings, edits : SUBSET (1 .. MaxOps)]
Evidences == [map : 1 .. MaxMappings, steps : Steps]
Bundles   == [kind : {"steps", "semantic"}, map : 0 .. MaxMappings, steps : Steps]
Outputs   == [steps : Steps \cup {None, Torn}, manual : Bundles \cup {None},
              document : BOOLEAN, package : Bundles \cup {None},
              evidence : Evidences \cup {None}]

VARIABLES
  mapping,    \* version of frame_mapping.json
  out,        \* the three output folders
  versions,   \* documentation_versions: number -> frozen copy and, if it
              \* met nobody, what its maker wrote
  orphans,    \* numbers of complete staging folders that were left behind
  task,       \* each thread: what it does, where it is, its locals
  inflight,   \* the video is in _doc_generation_inflight
  entry,      \* what the guarded entry point is: "original" or "deny"
  \* history
  ops, faults,  \* counters
  kept,       \* edits acknowledged to a request that met nobody
  lostSteps,  \* an operation found steps.json unreadable
  mixed,      \* the bundles may be of different operations
  stacked     \* the guard was installed over the guard of another video

outputs == <<out, versions, orphans>>
shared  == <<inflight, entry>>
history == <<kept, lostSteps, mixed, stacked>>
vars    == <<mapping, outputs, task, shared, ops, faults, history>>

Nothing == [steps |-> None, manual |-> None, document |-> FALSE,
            package |-> None, evidence |-> None]

Idle == [op |-> "none", pc |-> "idle", base |-> None, map |-> 0, kind |-> "keep",
         number |-> 0, saved |-> Nothing, staged |-> Nothing, undo |-> "original",
         met |-> FALSE, ok |-> TRUE]

Made   == [kind : {"semantic", "steps", "keep"}, steps : Steps]
Frozen == [out : Outputs, made : Made \cup {None}]

TypeOK ==
  /\ mapping \in 1 .. MaxMappings
  /\ out \in Outputs
  /\ DOMAIN versions \subseteq 1 .. MaxOps
  /\ \A n \in DOMAIN versions : versions[n] \in Frozen
  /\ orphans \subseteq 1 .. MaxOps
  /\ task \in [Threads ->
       [op : Reviews \cup Firsts \cup Versioned \cup {"other", "none"},
        pc : {"idle", "load", "steps", "synthesize", "manual", "package",
              "lift", "stage", "place", "restore", "putback"},
        base : Steps \cup {None}, map : 0 .. MaxMappings,
        kind : {"semantic", "steps", "keep"}, number : 0 .. MaxOps,
        saved : Outputs, staged : Outputs, undo : {"original", "deny"}, met : BOOLEAN, ok : BOOLEAN]]
  /\ inflight \in BOOLEAN /\ entry \in {"original", "deny"}
  /\ ops \in 0 .. MaxOps /\ faults \in 0 .. MaxFaults
  /\ kept \subseteq 1 .. MaxOps
  /\ {lostSteps, mixed, stacked} \subseteq BOOLEAN

Init ==
  /\ mapping = 1 /\ out = Nothing /\ versions = <<>> /\ orphans = {}
  /\ task = [t \in Threads |-> Idle]
  /\ inflight = FALSE /\ entry = "original"
  /\ ops = 0 /\ faults = 0
  /\ kept = {} /\ lostSteps = FALSE /\ mixed = FALSE /\ stacked = FALSE

-----------------------------------------------------------------------------
(* Who is at work.                                                         *)

Working(t) == task[t].op \notin {"none", "other"}

\* A thread begins: it meets those at work on the video, and they meet it.
Begin(t, new) ==
  LET company == new.op # "other" /\ \E u \in Threads : Working(u)
  IN /\ task[t].op = "none" /\ ops < MaxOps
     /\ ops' = ops + 1
     /\ task' = [u \in Threads |->
                   CASE u = t -> [new EXCEPT !.met = company]
                     [] u # t /\ company /\ Working(u) -> [task[u] EXCEPT !.met = TRUE]
                     [] OTHER -> task[u]]
     /\ mixed' = (mixed \/ company)
     /\ UNCHANGED <<faults, stacked>>

Go(t, pc) == task' = [task EXCEPT ![t].pc = pc]

\* A thread ends, and the video may be documented by another.
End(t) ==
  /\ task' = [task EXCEPT ![t] = Idle]
  /\ inflight' = (inflight /\ task[t].op \notin Claiming)

\* The operation wrote both bundles and met nobody: they are of one making.
Settle(t) == mixed' = (mixed /\ (task[t].met \/ task[t].kind = "keep" \/ ~task[t].ok))

Readable(steps) == steps \notin {None, Torn}

-----------------------------------------------------------------------------
(* The review of steps and the first generation.                           *)

\* update_step and remove_step change what load_steps returned and write
\* steps.json first; regenerate_from_steps writes the manual first.
StartReview(t) ==
  /\ Readable(out.steps)
  /\ \/ Begin(t, [Idle EXCEPT !.op = "edit", !.pc = "steps", !.kind = "steps",
                     !.base = [out.steps EXCEPT !.edits = @ \cup {ops + 1}]])
     \/ Begin(t, [Idle EXCEPT !.op = "rebuild", !.pc = "manual", !.kind = "steps",
                     !.base = out.steps])
  /\ UNCHANGED <<mapping, outputs, shared, kept, lostSteps>>

\* Steps built from frame_mapping.json, without OCR when no folder is given.
BuildSteps(map) == [from |-> map, edits |-> {}]

Claimable == ~inflight

\* api_documentation_generate, refused while the video is being documented,
\* and the processor, which is not and has mapped the frames anew.  Both read
\* the frames, so while the upstream guard is in place they fail before they
\* write any documentation.
StartFirst(t, op) ==
  /\ entry = "original"
  /\ op \in Claiming => Claimable
  /\ op = "process" => mapping < MaxMappings
  /\ mapping' = mapping + (IF op = "process" THEN 1 ELSE 0)
  /\ Begin(t, [Idle EXCEPT !.op = op, !.pc = "steps", !.map = mapping',
                           !.base = BuildSteps(mapping')])
  /\ inflight' = (inflight \/ op \in Claiming)
  /\ UNCHANGED <<outputs, entry, kept, lostSteps>>

\* The processor's generation is refused by the guard, and is passed over.
Remap ==
  /\ entry = "deny" /\ mapping < MaxMappings
  /\ mapping' = mapping + 1
  /\ UNCHANGED <<outputs, task, shared, ops, faults, history>>

-----------------------------------------------------------------------------
(* Versions.                                                               *)

\* list_versions finds the published versions and any folder of staging that
\* already holds its version.json.
Listed == DOMAIN versions \cup orphans
            \cup {task[u].number : u \in {u \in Threads : task[u].pc = "place"}}

\* Mutant of Number: the first version is numbered with the default.
NumberFromZero == IF Listed = {} THEN 0 ELSE Max(Listed) + 1

Number == IF Listed = {} THEN 1 ELSE Max(Listed) + 1

\* A run of the batch that finds the newest version made from the same mapping,
\* evidence and profile changes nothing.
\* regenerate_versioned: number the version and back up the outputs.
StartVersioned(t, op) ==
  /\ op \in Claiming => Claimable
  /\ op = "batch" => \A u \in Threads : task[u].op # "batch"
  /\ Begin(t, [Idle EXCEPT !.op = op, !.pc = "load", !.number = Number, !.saved = out])
  /\ inflight' = (inflight \/ op \in Claiming)
  /\ UNCHANGED <<mapping, outputs, entry, kept, lostSteps>>

\* The dashboard regenerates another video.
StartOther(t) ==
  /\ Begin(t, [Idle EXCEPT !.op = "other", !.pc = "load"])
  /\ UNCHANGED <<mapping, outputs, shared, kept, lostSteps>>

\* install_upstream_guard: remember what the entry point is and replace it.
Installed(t) ==
  /\ entry' = IF task[t].op \in Guarding THEN "deny" ELSE entry
  /\ stacked' = (stacked \/ (task[t].op \in Guarding /\ \E u \in Threads :
                               /\ task[u].pc \notin {"idle", "load", "stage", "place",
                                                     "restore", "putback"}
                               /\ {task[t].op, task[u].op} \subseteq Guarding
                               /\ "other" \in {task[t].op, task[u].op}))

\* load_persisted_steps, or steps derived from the mapping.
Persisted == IF Readable(out.steps) THEN out.steps ELSE BuildSteps(mapping)

Load(t) ==
  /\ task[t].pc = "load"
  /\ Installed(t)
  /\ task' = [task EXCEPT ![t].undo = IF task[t].op \in Guarding THEN entry ELSE @, ![t].map = mapping,
                ![t].base = IF Working(t) THEN Persisted ELSE None,
                ![t].pc = IF Working(t) THEN "steps" ELSE "lift"]
  /\ lostSteps' = (lostSteps \/ (Working(t) /\ ~Readable(out.steps)))
  /\ UNCHANGED <<mapping, outputs, inflight, ops, faults, kept, mixed>>

-----------------------------------------------------------------------------
(* generate_documentation_v2.                                              *)

Evidence(t) == IF task[t].op \in Reviews THEN out.evidence
               ELSE [map |-> task[t].map, steps |-> task[t].base]

\* write_evidence_outputs then _write_steps_json; a review writes its steps
\* only.  A first generation knows of no edit.
WriteSteps(t) ==
  /\ task[t].pc = "steps"
  /\ out' = [out EXCEPT !.steps = task[t].base, !.evidence = Evidence(t)]
  /\ kept' = IF task[t].op \in Firsts THEN {} ELSE kept
  /\ Go(t, IF task[t].op \in Reviews THEN "manual" ELSE "synthesize")
  /\ UNCHANGED <<mapping, versions, orphans, shared, ops, faults, lostSteps, mixed, stacked>>

\* Mutant of Compatible: the bundles of the steps are written in any case.
CompatibleAlways == "steps"

\* Without a document the bundles of the steps are written, unless there is a
\* valid semantic manual.
Compatible == IF out.document THEN "keep" ELSE "steps"

Statuses == {"OK", "INVALID", "UNAVAILABLE", "BLOCKED"}

\* validate_knowledge_document: only a document of synthesis can be grounded.
Verdicts(status) == IF status = "OK" THEN BOOLEAN ELSE {FALSE}

\* Synthesis and grounding, and what is going to be written.
Synthesize(t) ==
  /\ task[t].pc = "synthesize"
  /\ \E status \in Statuses : \E grounded \in Verdicts(status) :
       task' = [task EXCEPT ![t].kind = IF grounded THEN "semantic" ELSE Compatible,
                            ![t].pc = "manual"]
  /\ UNCHANGED <<mapping, outputs, shared, ops, faults, history>>

Bundle(t) == [kind |-> task[t].kind, map |-> IF task[t].kind = "semantic" THEN task[t].map ELSE 0,
              steps |-> task[t].base]

Keeps(t) == task[t].kind = "keep"

\* write_manual or write_semantic_manual.  regenerate_from_steps writes
\* steps.json with the manual.
WriteManual(t) ==
  /\ task[t].pc = "manual"
  /\ out' = IF Keeps(t) THEN out
            ELSE [out EXCEPT !.manual = Bundle(t),
                             !.document = @ \/ task[t].kind = "semantic",
                             !.steps = IF task[t].op = "rebuild" THEN task[t].base ELSE @]
  /\ Go(t, "package")
  /\ UNCHANGED <<mapping, versions, orphans, shared, ops, faults, history>>

\* The guard is lifted, in the dashboard, then the version made or given up.
Leaving(t, ok) == CASE task[t].op \in Guarding -> "lift"
                    [] task[t].op \notin Guarding /\ ok -> "stage"
                    [] OTHER -> "restore"

\* write_ai_package or write_semantic_ai_package, the end of every operation
\* that makes no version.
WritePackage(t) ==
  /\ task[t].pc = "package"
  /\ out' = IF Keeps(t) THEN out ELSE [out EXCEPT !.package = Bundle(t)]
  /\ IF task[t].op \in Versioned THEN Go(t, Leaving(t, task[t].ok)) /\ UNCHANGED <<inflight, mixed>>
     ELSE End(t) /\ Settle(t)
  /\ kept' = kept \cup (IF task[t].op = "edit" /\ ~task[t].met
                        THEN task[t].base.edits ELSE {})
  /\ UNCHANGED <<mapping, versions, orphans, entry, ops, faults, lostSteps, stacked>>

\* undo_guard puts back what was found.
Undone(t) == task[t].undo

Lift(t) ==
  /\ task[t].pc = "lift"
  /\ entry' = Undone(t)
  /\ IF Working(t) THEN Go(t, IF task[t].ok THEN "stage" ELSE "restore") /\ UNCHANGED inflight
     ELSE End(t)
  /\ UNCHANGED <<mapping, outputs, ops, faults, history>>

-----------------------------------------------------------------------------
(* Publishing a version, or going back.                                    *)

\* Copy the outputs there are now, and version.json into the staging folder.
Stage(t) ==
  /\ task[t].pc = "stage"
  /\ task' = [task EXCEPT ![t].pc = "place", ![t].staged = out]
  /\ UNCHANGED <<mapping, outputs, shared, ops, faults, history>>

\* Mutant of Taken: the folder of another version is replaced.
TakenNever(n) == FALSE

Taken(n) == n \in DOMAIN versions

\* staging.replace(final_dir), which fails on a folder that is there.
Place(t) ==
  /\ task[t].pc = "place"
  /\ ~Taken(task[t].number)
  /\ versions' = [n \in DOMAIN versions \cup {task[t].number} |->
                    IF n = task[t].number
                      THEN [out |-> task[t].staged,
                            made |-> IF task[t].met THEN None
                                     ELSE [kind |-> task[t].kind, steps |-> task[t].base]]
                      ELSE versions[n]]
  /\ End(t) /\ Settle(t)
  /\ UNCHANGED <<mapping, out, orphans, entry, ops, faults, kept, lostSteps, stacked>>

PlaceFails(t) ==
  /\ task[t].pc = "place"
  /\ Taken(task[t].number)
  /\ task' = [task EXCEPT ![t].pc = "restore", ![t].ok = FALSE]
  /\ UNCHANGED <<mapping, outputs, shared, ops, faults, history>>

\* The exception handler removes each folder and copies the backup of it back.
Wipe(t) ==
  /\ task[t].pc = "restore"
  /\ out' = [out EXCEPT !.steps = None, !.manual = None, !.document = FALSE]
  /\ Go(t, "putback")
  /\ UNCHANGED <<mapping, versions, orphans, shared, ops, faults, history>>

\* A folder there was no backup of stays removed.
Restored(saved) == saved

PutBack(t) ==
  /\ task[t].pc = "putback"
  /\ out' = Restored(task[t].saved)
  /\ End(t)
  /\ UNCHANGED <<mapping, versions, orphans, entry, ops, faults, history>>

-----------------------------------------------------------------------------
(* Failed writes and stops.                                                *)

\* What a write that does not end leaves at the start of those of thread t:
\* nothing, the evidence, or the evidence and steps.json cut off.
CutOff(t) ==
  IF task[t].pc # "steps" THEN {out}
  ELSE {out, [out EXCEPT !.evidence = Evidence(t)],
        [out EXCEPT !.evidence = Evidence(t), !.steps = Torn]}

\* The copies into the staging folder fail.
StageFails(t) ==
  /\ faults < MaxFaults /\ faults' = faults + 1
  /\ task[t].pc = "stage"
  /\ task' = [task EXCEPT ![t].pc = "restore", ![t].ok = FALSE]
  /\ UNCHANGED <<mapping, outputs, shared, ops, history>>

\* A write fails.  The pipeline passes over one of the bundles of the steps;
\* anything else ends the operation, and a version's outputs are restored.
WriteFails(t) ==
  /\ faults < MaxFaults /\ faults' = faults + 1
  /\ task[t].pc \in {"steps", "manual", "package"}
  /\ out' \in CutOff(t)
  /\ LET passed == task[t].pc \in {"manual", "package"} /\ task[t].kind = "steps"
                     /\ task[t].op \notin Reviews
     IN IF task[t].op \in Versioned
          THEN /\ task' = [task EXCEPT ![t].pc = Leaving(t, passed), ![t].ok = passed,
                                      ![t].kind = "keep"]
               /\ mixed' = (mixed \/ passed) /\ UNCHANGED inflight
          ELSE End(t) /\ mixed' = TRUE
  /\ UNCHANGED <<mapping, versions, orphans, entry, ops, kept, lostSteps, stacked>>

\* A process stops: the dashboard with all its threads, or a batch.
Stops(gone) ==
  /\ faults < MaxFaults /\ faults' = faults + 1
  /\ \E u \in gone : task[u].op # "none"
  /\ \E u \in gone : out' \in CutOff(u)
  /\ orphans' = orphans \cup {task[u].number : u \in {u \in gone : task[u].pc = "place"}}
  /\ task' = [t \in Threads |-> IF t \in gone THEN Idle ELSE task[t]]
  /\ mixed' = (mixed \/ \E u \in gone : Working(u))
  /\ UNCHANGED <<mapping, versions, ops, kept, lostSteps, stacked>>

StopDashboard ==
  /\ Stops({t \in Threads : task[t].op # "batch"})
  /\ inflight' = FALSE /\ entry' = "original"

StopBatch(t) == task[t].op = "batch" /\ Stops({t}) /\ UNCHANGED shared

-----------------------------------------------------------------------------
Step(t) ==
  \/ StartReview(t)
  \/ \E op \in Firsts : StartFirst(t, op)
  \/ \E op \in Versioned : StartVersioned(t, op)
  \/ StartOther(t)
  \/ Load(t)
  \/ WriteSteps(t)
  \/ Synthesize(t)
  \/ WriteManual(t)
  \/ WritePackage(t)
  \/ Lift(t)
  \/ Stage(t)
  \/ Place(t)
  \/ PlaceFails(t)
  \/ Wipe(t)
  \/ PutBack(t)
  \/ StageFails(t)
  \/ WriteFails(t)
  \/ StopBatch(t)

Next == Remap \/ StopDashboard \/ \E t \in Threads : Step(t)

Spec == Init /\ [][Next]_vars

-----------------------------------------------------------------------------
(* Properties.                                                             *)

AtRest == \A t \in Threads : ~Working(t)

\* Published versions are numbered without a gap unless a stop left a staged
\* one behind, and one a generation alone made from a grounded document holds
\* what it wrote: the manual, the package and the evidence of the same steps.
PublishedSound ==
  /\ orphans = {} /\ AtRest => DOMAIN versions = 1 .. Cardinality(DOMAIN versions)
  /\ \A n \in DOMAIN versions : LET v == versions[n] IN
       v.made # None =>
         /\ v.out.steps = v.made.steps /\ v.out.evidence.steps = v.made.steps
         /\ v.made.kind = "semantic" =>
              /\ v.out.document /\ v.out.package = v.out.manual
              /\ v.out.manual = [kind |-> "semantic", map |-> v.out.evidence.map,
                                 steps |-> v.made.steps]

\* The versions are sound as numbered and made, and a published version is
\* never changed or removed.
VersionsSound ==
  /\ []PublishedSound
  /\ [][\A n \in DOMAIN versions :
         n \in DOMAIN versions' /\ versions'[n] = versions[n]]_vars

\* An edit acknowledged to a request that had met nobody stays in steps.json
\* until a first generation writes the steps anew, unless an operation found
\* the file cut off or gone.
EditKept == ~lostSteps /\ Readable(out.steps) => kept \subseteq out.steps.edits

\* At rest, unless operations overlapped or one was cut short, the package is
\* of the manual, and without a grounded document both are of the steps.
BundlesAgree ==
  AtRest /\ ~mixed =>
    /\ out.package = out.manual
    /\ ~out.document /\ out.manual # None => out.manual.steps = out.steps

\* What reviewers did and what readers see survive the generations: EditKept
\* and BundlesAgree.
OutputsAgree == EditKept /\ BundlesAgree

\* With no regeneration in the dashboard, nothing refuses upstream work,
\* unless the guards of two videos were installed one over the other.
GuardLifted ==
  (\A t \in Threads : task[t].op \notin Guarding) /\ ~stacked => entry = "original"

\* What a generation leaves behind: outputs that agree, and no guard.
LeftInOrder == OutputsAgree /\ GuardLifted

\* The rendering of the steps by a generation that met nobody never replaces a
\* grounded manual (a review of the steps does, and so may a restore).
GroundedKept ==
  [][\A t \in Threads :
       /\ task[t].pc = "manual" /\ task'[t].pc = "package"
       /\ task[t].op \notin Reviews /\ ~task[t].met /\ out.document
       => out'.manual.kind = "semantic" \/ out'.manual = out.manual]_vars

\* Generations leave LeftInOrder behind, and the last good manual.
LastGoodKept == []LeftInOrder /\ GroundedKept

=============================================================================
