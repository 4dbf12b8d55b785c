------------------------- MODULE KnowledgePackages -------------------------
(***************************************************************************)
(* The knowledge package that is made of one documented recording, and the *)
(* policy that decides whether and how: the `second_brain' block of the    *)
(* project, the identities of source, knowledge and package, the bounded   *)
(* excerpts, and the files written before the package is enqueued.  The    *)
(* package of a K'ab session is made of its steps; that of a video is made *)
(* of the synthesized document.                                            *)
(*                                                                         *)
(* Simplifications.                                                        *)
(*  - A hash is what is hashed.                                            *)
(*  - A recording has one piece of evidence; the texts are a word, what is *)
(*    excerpted also has a length.                                         *)
(*  - The constant parts of a package are left out: its version is always  *)
(*    1, as no caller passes an earlier package.                           *)
(*  - What the outbox does with a package is in KnowledgeOutbox.           *)
(***************************************************************************)
EXTENDS Naturals

CONSTANTS
  Projects,    \* entries of projects.json
  Contents,    \* what may be documented of the recording
  Times,       \* instants a documentation may bear
  Bound,       \* MAX_EVIDENCE_EXCERPT_CHARS
  MaxBuilds,   \* bound: packages begun
  MaxTurns,    \* bound: changes of the project or of the recording
  None,        \* absent
  Odd          \* no boolean for `enabled', but not null or 0; null elsewhere

Texts == [word : STRING, size : Nat]

PackagesAssumption ==
  /\ {Bound, MaxBuilds, MaxTurns} \subseteq Nat
  /\ \A c \in Contents : {c.heard, c.shown} \subseteq Texts \cup {None}
  /\ Odd \notin BOOLEAN /\ Odd \notin {None, "KT", "REFERENCE", "of the mode"}

VARIABLES
  kind,       \* "steps" or "document"
  project,    \* the entry of the recording's project
  content,    \* what is documented
  onFile,     \* knowledge-package.json
  procedure,  \* procedure.json
  sent,       \* packages enqueued, each with what it was made of
  build,      \* the publication under way
  builds, turns,
  torn        \* history: the last publication ended before its files were written

packages == <<kind, project, content, onFile, procedure, sent, build, builds, turns, torn>>

Away == [pc |-> "idle", package |-> None]

-----------------------------------------------------------------------------
(* The policy.                                                             *)

Given(value, default) == IF value = None THEN default ELSE value

Blank(text) == text \in {None, Odd, "blank"}

Classification(p) == Given(p.classification, "internal")
Scope(b)          == Given(b.scope, "PROJECT")

\* What an enabled block needs.
Enabled(p) ==
  /\ ~Blank(p.brain.domain)
  /\ Scope(p.brain) = "PROJECT" => ~Blank(p.brain.project)
  /\ ~(Scope(p.brain) = "GLOBAL" /\ Classification(p) = "confidential")

\* load_projects skips an entry that is not accepted; the dashboard does not.
Accepted(p) ==
  /\ Classification(p) \in {"public", "internal", "confidential"}
  /\ p.brain # None =>
       /\ p.brain # Odd /\ Given(p.brain.enabled, FALSE) \in BOOLEAN
       /\ Scope(p.brain) \in {"PROJECT", "GLOBAL"}
       /\ Given(p.brain.artifact, "KT") # Odd
       /\ Given(p.brain.actionability, "REFERENCE") # Odd
       /\ p.brain.enabled = TRUE => Enabled(p)

Publishes(p) == p.brain \notin {None, Odd} /\ p.brain.enabled \in {TRUE, Odd}

\* K'ab sessions and processes look at accepted entries, the dashboard, which
\* documents videos only, at all.
Seen(p) == kind = "document" \/ Accepted(p)

Context(p) ==
  [scope |-> Scope(p.brain), project |-> p.brain.project, domain |-> p.brain.domain,
   classification |-> Classification(p),
   artifact |-> IF kind = "steps" THEN Given(p.brain.artifact, "KT")
                ELSE IF p.brain.artifact = Odd THEN "of the mode"
                ELSE Given(p.brain.artifact, "of the mode"),
   actionability |-> Given(p.brain.actionability, "REFERENCE")]

\* Checked again where a package is built: anything else is an exception.
Allowed(c) ==
  /\ c.scope \in {"PROJECT", "GLOBAL"}
  /\ c.scope = "PROJECT" => ~Blank(c.project)
  /\ ~Blank(c.domain)
  /\ ~(c.scope = "GLOBAL" /\ c.classification = "confidential")
  /\ c.artifact # Odd /\ c.actionability # Odd

-----------------------------------------------------------------------------
(* Identities, and the package.                                            *)

Clipped(text) ==
  IF text = None \/ text.size <= Bound THEN text ELSE [text EXCEPT !.size = Bound]

\* Of steps, what they say and whether they were reviewed; of a document, all
\* but when it was made, and the first text of its evidence.
Derived(c) ==
  IF kind = "steps"
  THEN [said |-> c.said, reviewed |-> c.reviewed]
  ELSE [said |-> c.said, procedural |-> c.procedural,
        heard |-> Clipped(IF c.heard # None THEN c.heard ELSE c.shown)]

\* Both identities rest on what was derived, under one name and one route.
KnowledgeId(c) == Derived(c)

\* Steps are one procedure; a document has those that were synthesized.
HasProcedure(c) == kind = "steps" \/ c.procedural

Step(c) == [said |-> c.said, heard |-> Clipped(c.heard), shown |-> Clipped(c.shown),
            reviewed |-> c.reviewed]

Procedure(c) ==
  IF HasProcedure(c) THEN [knowledge |-> KnowledgeId(c), step |-> Step(c)] ELSE None

\* Mutant of Body: a document keeps the time it was made at.
BodyTimed(c, at, context) ==
  [context |-> context, knowledge |-> KnowledgeId(c), procedure |-> Procedure(c),
   evidence |-> IF kind = "steps" THEN None ELSE Step(c), generated |-> at]

\* Everything but the package's own identity.
Body(c, at, context) ==
  [context |-> context, knowledge |-> KnowledgeId(c), procedure |-> Procedure(c),
   evidence |-> IF kind = "steps" THEN None ELSE Step(c),
   generated |-> IF kind = "steps" THEN at ELSE None]

\* The steps are embedded first, and the identity computed over the whole.
Package(c, at, context) ==
  LET body == Body(c, at, context)
  IN [id |-> body, body |-> body]

-----------------------------------------------------------------------------
Init ==
  /\ kind \in {"steps", "document"}
  /\ project \in Projects /\ content \in Contents
  /\ onFile = None /\ procedure = None /\ sent = {}
  /\ build = Away /\ builds = 0 /\ turns = 0 /\ torn = FALSE

\* Documentation is generated: the package is built of it, or nothing is.
Begin ==
  /\ build.pc = "idle" /\ builds < MaxBuilds /\ builds' = builds + 1
  /\ Seen(project) /\ Publishes(project) /\ Allowed(Context(project))
  /\ \E at \in Times :
       build' = [pc |-> "package", package |-> Package(content, at, Context(project)),
                 of |-> content, at |-> at]
  /\ UNCHANGED <<kind, project, content, onFile, procedure, sent, turns, torn>>

WritePackage ==
  /\ build.pc = "package"
  /\ onFile' = build.package /\ torn' = TRUE
  /\ build' = [build EXCEPT !.pc = "procedure"]
  /\ UNCHANGED <<kind, project, content, procedure, sent, builds, turns>>

\* Without a procedure the file that is there stays.
WriteProcedure ==
  /\ build.pc = "procedure"
  /\ procedure' = IF build.package.body.procedure = None THEN procedure
                  ELSE build.package.body.procedure
  /\ build' = [build EXCEPT !.pc = "enqueue"] /\ torn' = FALSE
  /\ UNCHANGED <<kind, project, content, onFile, sent, builds, turns>>

Enqueue ==
  /\ build.pc = "enqueue"
  /\ sent' = sent \cup {[package |-> build.package, of |-> build.of, at |-> build.at]}
  /\ build' = Away
  /\ UNCHANGED <<kind, project, content, onFile, procedure, builds, turns, torn>>

\* The process stops, or a write fails, which the hook swallows.
GiveUp ==
  /\ build.pc # "idle" /\ build' = Away
  /\ UNCHANGED <<kind, project, content, onFile, procedure, sent, builds, turns, torn>>

Turn == turns < MaxTurns /\ turns' = turns + 1
        /\ UNCHANGED <<kind, onFile, procedure, sent, build, builds, torn>>

\* A user changes the project.
Configure == Turn /\ project' \in Projects \ {project} /\ UNCHANGED content

\* The recording is documented anew, or a step is edited or reviewed.
Revise == Turn /\ content' \in Contents \ {content} /\ UNCHANGED project

Next == Begin \/ WritePackage \/ WriteProcedure \/ Enqueue \/ GiveUp \/ Configure \/ Revise

Spec == Init /\ [][Next]_packages

-----------------------------------------------------------------------------
(* Properties.                                                             *)

\* What projects.json was accepted with is never refused where packages are
\* built: the two checks were written apart.
AcceptedIsBuilt == Accepted(project) /\ Publishes(project) => Allowed(Context(project))

\* No confidential project publishes to everyone, and what is a project's
\* names it, whether the entry was accepted or not.
ScopeSafe ==
  \A s \in sent :
    LET context == s.package.body.context
    IN /\ context.scope = "GLOBAL" => context.classification # "confidential"
       /\ context.scope = "PROJECT" => ~Blank(context.project)
       /\ ~Blank(context.domain)

\* A package bears the identity of all it holds.
IdIsOfBody == \A s \in sent : s.package.id = s.package.body

\* The same documentation under the same project is the same package, whenever
\* it is made; of a K'ab session, if it ended at the same time.
SameAgain ==
  \A s, t \in sent :
    /\ s.of = t.of /\ s.package.body.context = t.package.body.context
    /\ kind = "steps" => s.at = t.at
    => s.package.id = t.package.id

\* One knowledge id stands for one documentation, but for what it leaves out:
\* the excerpts of steps, and the reviews of a document's evidence.
KnowledgeTells ==
  \A s, t \in sent :
    s.package.body.knowledge = t.package.body.knowledge =>
      /\ s.of.said = t.of.said
      /\ kind = "steps" => s.of.reviewed = t.of.reviewed
      /\ kind = "document" => s.of.procedural = t.of.procedural

\* Neither file nor outbox ever holds a text longer than an excerpt may be.
ExcerptsBounded ==
  \A p \in {s.package.body.procedure : s \in sent} \cup {procedure} : p # None =>
    \A text \in {p.step.heard, p.step.shown} : text # None => text.size <= Bound

\* The procedure next to a package is the package's, unless the package has
\* none, or the publication ended between the two.
ProcedureIsOfPackage ==
  onFile # None /\ ~torn /\ onFile.body.procedure # None => procedure = onFile.body.procedure

PackagesSafe ==
  /\ AcceptedIsBuilt /\ ScopeSafe /\ IdIsOfBody /\ SameAgain /\ KnowledgeTells
  /\ ExcerptsBounded /\ ProcedureIsOfPackage

TypeOK ==
  /\ kind \in {"steps", "document"}
  /\ project \in Projects /\ content \in Contents
  /\ build.pc \in {"idle", "package", "procedure", "enqueue"}
  /\ builds \in 0 .. MaxBuilds /\ turns \in 0 .. MaxTurns /\ torn \in BOOLEAN

=============================================================================
