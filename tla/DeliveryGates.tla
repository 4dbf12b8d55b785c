---------------------------- MODULE DeliveryGates ----------------------------
(***************************************************************************)
(* The delivery wrapper: run_delivery.py executes the gates in a frozen    *)
(* order, docker_gate.py runs a Docker gate in the Compose project of the  *)
(* build and cleans up after it, summarize_gates.py collects the reports   *)
(* found in the folder of the build.  A delivery may be killed at any      *)
(* point; a later one of the same build finds the folder and the project   *)
(* as they were left.                                                      *)
(*                                                                         *)
(* Simplifications.                                                        *)
(*  - Two host gates stand for the five: quality, which only runs a        *)
(*    command, and e2e, which prepares data first.                         *)
(*  - A step of a Docker gate that fails or exhausts the time of the gate  *)
(*    may have taken effect.                                               *)
(***************************************************************************)
EXTENDS Naturals, Sequences

CONSTANTS
  MaxDeliveries,   \* bound: deliveries of the build
  None

DeliveryAssumption == MaxDeliveries \in Nat \ {0} /\ None \notin {"PASS", "FAIL", "SKIPPED"}

\* GATE_COMMANDS, PREREQUISITES and GATE_FUNCS.
Order == <<"quality", "config", "build", "smoke", "persistence", "asr", "e2e", "docker-e2e">>
Gates == {Order[i] : i \in DOMAIN Order}
Host  == {"quality", "e2e"}
Needs(g) == IF g = "build" THEN "config" ELSE "build"
Dependent(g) == g \notin Host \cup {"config"}

\* What a Docker gate does, in order.
SmokeScript       == <<"data", "up", "probe">>
PersistenceScript == <<"data", "up", "read", "down", "up", "read", "volume">>
AsrScript         == <<"data", "up", "transcribe", "cached", "down", "up", "cached", "transcribe">>
E2eScript         == <<"data", "up", "seed", "suite">>

Script(g) ==
  CASE g = "config"      -> <<"config">>
    [] g = "build"       -> <<"build">>
    [] g = "smoke"       -> SmokeScript
    [] g = "persistence" -> PersistenceScript
    [] g = "asr"         -> AsrScript
    [] g = "docker-e2e"  -> E2eScript

Effects == {"containers", "images", "volume", "model", "files", "report"}

VARIABLES
  at,          \* position in Order, 0 when no delivery runs
  pc,          \* within the gate: "begin", "work", "preserve", "down", "remove", "report"
  step,        \* position in Script
  status,      \* of the gate that runs
  world,       \* what the Compose project holds: a subset of Effects
  results,     \* of this delivery
  folder,      \* reports in the folder of the build, by file
  evidence,    \* the folder holds the report of the docker-e2e suite
  summary,     \* the rows of SUMMARY.json: <<gate, status>>
  deliveries,
  \* history
  reported     \* gates of this delivery that left a report

dvars == <<at, pc, step, status, world, results, folder, evidence, summary, deliveries, reported>>

Statuses == {"PASS", "FAIL", "SKIPPED"}

\* A gate writes docker-<its name>.json, the wrapper <its name>.json.
Files == {"gate", "wrapper"} \X Gates

TypeOK ==
  /\ at \in 0 .. Len(Order) + 1
  /\ pc \in {"begin", "work", "preserve", "down", "remove", "report"}
  /\ step \in 1 .. 9 /\ status \in {"PASS", "FAIL"}
  /\ world \subseteq Effects
  /\ results \in [Gates -> Statuses \cup {None}]
  /\ folder \in [Files -> Statuses \cup {None}]
  /\ evidence \in BOOLEAN
  /\ summary = None \/ summary \subseteq Gates \X (Statuses \cup {"MISSING"})
  /\ deliveries \in 0 .. MaxDeliveries
  /\ reported \subseteq Gates

Init ==
  /\ at = 0 /\ pc = "begin" /\ step = 1 /\ status = "PASS"
  /\ world = {} /\ results = [g \in Gates |-> None]
  /\ folder = [f \in Files |-> None] /\ evidence = FALSE
  /\ summary = None /\ deliveries = 0 /\ reported = {}

Gate == Order[at]
Running == at \in DOMAIN Order

-----------------------------------------------------------------------------
(* The wrapper.                                                            *)

Deliver ==
  /\ at = 0 /\ deliveries < MaxDeliveries
  /\ at' = 1 /\ pc' = "begin" /\ step' = 1 /\ status' = "PASS"
  /\ results' = [g \in Gates |-> None]
  /\ reported' = {} /\ deliveries' = deliveries + 1 /\ summary' = None
  /\ UNCHANGED <<world, folder, evidence>>

\* The next gate.
Pass(outcome) ==
  /\ results' = [results EXCEPT ![Gate] = outcome]
  /\ at' = at + 1 /\ pc' = "begin" /\ step' = 1 /\ status' = "PASS"

Write(writer, outcome) ==
  /\ folder' = [folder EXCEPT ![<<writer, Gate>>] = outcome]
  /\ reported' = reported \cup {Gate}

\* gate_runner.py leaves its report elsewhere.
HostGate ==
  /\ Running /\ pc = "begin" /\ Gate \in Host
  /\ \E outcome \in {"PASS", "FAIL"} : Pass(outcome)
  /\ UNCHANGED <<world, folder, evidence, summary, deliveries, reported>>

\* Data for the browser tests could not be prepared.
PrepareFails ==
  /\ Running /\ pc = "begin" /\ Gate = "e2e"
  /\ Write("wrapper", "FAIL") /\ Pass("FAIL")
  /\ UNCHANGED <<world, evidence, summary, deliveries>>

Blocked == Dependent(Gate) /\ results[Needs(Gate)] # "PASS"

Skip ==
  /\ Running /\ pc = "begin" /\ Blocked
  /\ Write("wrapper", "SKIPPED") /\ Pass("SKIPPED")
  /\ UNCHANGED <<world, evidence, summary, deliveries>>

\* summarize: every report of the folder, and the gates without any.
Collected ==
  LET found == {<<f[2], folder[f]>> : f \in {f \in Files : folder[f] # None}}
  IN  found \cup {<<g, "MISSING">> : g \in {g \in Gates : \A r \in found : r[1] # g}}

Summarize ==
  /\ at = Len(Order) + 1
  /\ summary' = Collected /\ at' = 0
  /\ UNCHANGED <<pc, step, status, world, results, folder, evidence, deliveries, reported>>

\* The delivery is killed; the last one only shows what a whole one does.
Kill ==
  /\ at # 0 /\ deliveries < MaxDeliveries
  /\ at' = 0 /\ pc' = "begin" /\ step' = 1 /\ status' = "PASS"
  /\ results' = [g \in Gates |-> None] /\ reported' = {}
  /\ UNCHANGED <<world, folder, evidence, summary, deliveries>>

-----------------------------------------------------------------------------
(* A Docker gate: run_gate.                                                *)

kept == <<at, results, folder, summary, deliveries, reported>>

BeginGate ==
  /\ Running /\ pc = "begin" /\ Gate \notin Host /\ ~Blocked
  /\ pc' = "work"
  /\ UNCHANGED <<step, status, world, evidence, kept>>

\* The name of the project or the port is not acceptable: no report.  All gates have
\* the same, so the first is refused.
Refuse ==
  /\ Running /\ pc = "begin" /\ Gate = "config"
  /\ Pass("FAIL")
  /\ UNCHANGED <<world, folder, evidence, summary, deliveries, reported>>

Todo == Script(Gate)[step]

\* What a step makes of the project.
After(todo) ==
  CASE todo = "build"      -> world \cup {"images"}
    [] todo = "data"       -> world \cup {"files"}
    [] todo = "up"         -> world \cup {"images", "containers", "volume"}
    [] todo = "transcribe" -> world \cup {"model"}
    [] todo = "down"       -> world \ {"containers"}
    [] todo = "suite"      -> world \cup {"report"}
    [] OTHER               -> world

\* What a step that only looks has to see.
Seen(todo) ==
  CASE todo \in {"probe", "read"} -> {"containers", "files"} \subseteq world
    [] todo = "cached"            -> {"containers", "model"} \subseteq world
    [] todo = "volume"            -> "volume" \in world
    [] OTHER                      -> TRUE

\* The evidence of the browser tests is copied however they end, once they began.
WhenOver ==
  CASE Gate = "docker-e2e" /\ Todo \in {"seed", "suite"} -> "preserve"
    [] Gate = "config" -> "report"
    [] OTHER -> "down"

Work ==
  /\ Running /\ pc = "work" /\ Seen(Todo)
  /\ world' = After(Todo)
  /\ IF step = Len(Script(Gate))
     THEN pc' = WhenOver /\ UNCHANGED step
     ELSE step' = step + 1 /\ UNCHANGED pc
  /\ UNCHANGED <<status, evidence, kept>>

\* A GateError, a timeout, or any other exception.
Break ==
  /\ Running /\ pc = "work"
  /\ world' \in {world, After(Todo)}
  /\ status' = "FAIL" /\ pc' = WhenOver
  /\ UNCHANGED <<step, evidence, kept>>

\* _preserve_e2e_artifacts.  It may fail too.
Preserve ==
  /\ pc = "preserve" /\ pc' = "down"
  /\ \/ evidence' = (evidence \/ "report" \in world) /\ UNCHANGED status
     \/ status' = "FAIL" /\ UNCHANGED evidence
  /\ UNCHANGED <<step, world, kept>>

\* What a step of the cleanup makes of the gate's status.
Downgraded(ok) == IF ok THEN status ELSE "FAIL"

\* docker compose down -v --rmi local.
ComposeDown ==
  /\ pc = "down" /\ pc' = "remove"
  /\ \E ok \in BOOLEAN :
       /\ world' = IF ok THEN world \ {"containers", "images", "volume", "model"} ELSE world
       /\ status' = Downgraded(ok)
  /\ UNCHANGED <<step, evidence, kept>>

\* scoped_rmtree.
RemoveData ==
  /\ pc = "remove" /\ pc' = "report"
  /\ \E ok \in BOOLEAN :
       /\ world' = IF ok THEN world \ {"files", "report"} ELSE world
       /\ status' = Downgraded(ok)
  /\ UNCHANGED <<step, evidence, kept>>

Report ==
  /\ pc = "report"
  /\ Write("gate", status) /\ Pass(status)
  /\ UNCHANGED <<world, evidence, summary, deliveries>>

Next ==
  \/ Deliver \/ HostGate \/ PrepareFails \/ Skip \/ Summarize \/ Kill
  \/ BeginGate \/ Refuse \/ Work \/ Break \/ Preserve \/ ComposeDown \/ RemoveData \/ Report

Spec == Init /\ [][Next]_dvars

-----------------------------------------------------------------------------
(* Properties.                                                             *)

\* A Docker gate that passed left nothing of the project behind, whatever killed
\* deliveries and failed gates before it had left there.
PassIsClean ==
  Running /\ at > 1 /\ pc = "begin" =>
    LET before == Order[at - 1]
    IN  before \notin Host \cup {"config"} /\ results[before] = "PASS" => world = {}

\* A gate passed only if what it needs passed in the same delivery.
PassIsFounded ==
  \A g \in Gates : Dependent(g) /\ results[g] = "PASS" => results[Needs(g)] = "PASS"

\* The summary tells what each gate that left a report came to; only an earlier
\* delivery of the same build adds rows that contradict it.
SummaryTells ==
  summary # None =>
    \A g \in reported :
      /\ <<g, results[g]>> \in summary
      /\ deliveries = 1 => \A r \in summary : r[1] = g => r[2] = results[g]

\* Evidence of a suite that passed is in the folder before the data goes.
EvidenceKept == results["docker-e2e"] = "PASS" => evidence

DeliverySafe == PassIsClean /\ PassIsFounded /\ SummaryTells /\ EvidenceKept

=============================================================================
