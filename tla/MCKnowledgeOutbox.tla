------------------------- MODULE MCKnowledgeOutbox -------------------------
(***************************************************************************)
(* Instances of KnowledgeOutbox and of KnowledgePackages for TLC.  They    *)
(* share no state; `part' chooses which is explored.                       *)
(***************************************************************************)
EXTENDS KnowledgeOutbox, TLC

CONSTANTS Projects, Contents, Times, Odd, Bound, MaxBuilds, MaxTurns

VARIABLES part, kind, project, content, onFile, procedure, sent, build, builds, turns, torn

packages == <<kind, project, content, onFile, procedure, sent, build, builds, turns, torn>>

-----------------------------------------------------------------------------
(* Projects and contents: a good one, and those that differ in one place.  *)

Brain == [enabled |-> TRUE, scope |-> "PROJECT", project |-> "p", domain |-> "d",
          artifact |-> "KT", actionability |-> "GUIDED"]

Good == [classification |-> "internal", brain |-> Brain]

Blanks == {None, Odd, "blank"}

OneOff ==
  [scope : {"GLOBAL", None, Odd}, project : {"p"}, domain : {"d"}]
    \cup [scope : {"PROJECT", "GLOBAL", None}, project : Blanks, domain : {"d"}]
    \cup [scope : {"PROJECT", "GLOBAL"}, project : {"p"}, domain : Blanks]

SomeProjects ==
  {Good, [Good EXCEPT !.brain = None], [Good EXCEPT !.brain = Odd]}
    \cup {[Good EXCEPT !.brain.enabled = e] : e \in {FALSE, None, Odd}}
    \cup {[Good EXCEPT !.brain = o @@ Brain] : o \in OneOff}
    \cup {[Good EXCEPT !.brain.artifact = a] : a \in {None, Odd}}
    \cup {[Good EXCEPT !.brain.actionability = a] : a \in {None, Odd}}
    \cup {[Good EXCEPT !.classification = c, !.brain.scope = s] :
            c \in {"public", "confidential", None, Odd}, s \in {"PROJECT", "GLOBAL"}}

Text(word, size) == [word |-> word, size |-> size]

Content(said, heard, shown, reviewed, procedural) ==
  [said |-> said, heard |-> heard, shown |-> shown, reviewed |-> reviewed,
   procedural |-> procedural]

SixContents ==
  {Content("a", Text("hear", 3), Text("see", 1), FALSE, TRUE),
   Content("b", Text("hear", 3), Text("see", 1), FALSE, TRUE),
   Content("a", None, Text("see", 3), FALSE, TRUE),
   Content("a", Text("hear", 3), Text("look", 1), FALSE, TRUE),
   Content("a", Text("hear", 3), Text("see", 1), TRUE, TRUE),
   Content("a", Text("hear", 3), Text("see", 1), FALSE, FALSE)}

K == INSTANCE KnowledgePackages

ASSUME PackagesAssumption == K!PackagesAssumption

-----------------------------------------------------------------------------
NoPackages ==
  /\ kind = None /\ project = None /\ content = None /\ onFile = None /\ procedure = None
  /\ sent = None /\ build = None /\ builds = None /\ turns = None /\ torn = None

EitherInit ==
  /\ Init
  /\ \/ part = "outbox" /\ NoPackages
     \/ part = "packages" /\ K!Init

EitherNext ==
  /\ part' = part
  /\ \/ part = "outbox" /\ Next /\ UNCHANGED packages
     \/ part = "packages" /\ K!Next /\ UNCHANGED vars

EitherSpec == EitherInit /\ [][EitherNext]_<<part, vars, packages>>

Symmetry == Permutations(Packages) \cup Permutations(Hooks)

-----------------------------------------------------------------------------
\* A package is one that may be published, identified by what it holds (see
\* KnowledgePackages).
PackagesSafe == part = "packages" => K!TypeOK /\ K!PackagesSafe

=============================================================================
