--------------------------- MODULE HeavyValidation ---------------------------
(***************************************************************************)
(* The release validation: heavy_validation_runner.py measures the memory, *)
(* provides the pinned environment (validation_env.py) and runs the heavy  *)
(* gates one after another through gate_runner.py, which leaves the report *)
(* of the last gate.  The runner may be killed at any point, and the lock  *)
(* file of the environment changes.                                        *)
(*                                                                         *)
(* Simplifications.                                                        *)
(*  - Three gates stand for the nine: security, whose script writes a list *)
(*    of checks, e2e, whose script writes one detail, and sonar, which has *)
(*    no script and may not be installed.                                  *)
(*  - A lock file does not return to an earlier content.                   *)
(***************************************************************************)
EXTENDS Naturals, Sequences

CONSTANTS
  MaxRuns,    \* bound: runs of the validation
  MaxLocks,   \* bound: contents of the lock file
  None

HeavyAssumption ==
  MaxRuns \in Nat \ {0} /\ MaxLocks \in Nat \ {0} /\ None \notin 1 .. MaxLocks

HeavyOrder == <<"security", "e2e", "sonar">>
Heavy      == {HeavyOrder[i] : i \in DOMAIN HeavyOrder}
Reporting  == {"security", "e2e"}

VARIABLES
  phase,      \* "off", "ensure", "clear", "install", "stamp", "measure", "gate"
  next,       \* position of the gate in HeavyOrder
  outcomes,   \* the results so far
  verdict,    \* heavy-validation.json
  lock,       \* content of the lock file
  stamp,      \* fingerprint recorded in the environment
  installed,  \* content that pip has installed
  latest,     \* latest.json
  report,     \* the report files: the run that wrote it and its status
  runs,
  \* history
  wrote,      \* the script of the last gate got as far as its report
  raced       \* the lock file changed while the environment was made

hvars == <<phase, next, outcomes, verdict, lock, stamp, installed, latest, report, runs, wrote,
           raced>>

environment == <<lock, stamp, installed, raced>>
gate        == <<latest, report, wrote>>

TypeOK ==
  /\ phase \in {"off", "ensure", "clear", "install", "stamp", "measure", "gate"}
  /\ next \in 1 .. Len(HeavyOrder) + 1
  /\ Len(outcomes) < next /\ \A i \in DOMAIN outcomes :
       outcomes[i] \in {"PASS", "FAIL", "NOT_CONFIGURED"}
  /\ verdict = None \/ verdict.state \in {"PASS", "FAIL", "BLOCKED", "ENV_BLOCKED"}
  /\ lock \in 1 .. MaxLocks
  /\ {stamp, installed} \subseteq 1 .. MaxLocks \cup {None}
  /\ report \in [Reporting -> [run : 1 .. MaxRuns, status : {"PASS", "FAIL"}] \cup {None}]
  /\ runs \in 0 .. MaxRuns /\ wrote \in BOOLEAN /\ raced \in BOOLEAN

Init ==
  /\ phase = "off" /\ next = 1 /\ outcomes = <<>> /\ verdict = None
  /\ lock = 1 /\ stamp = None /\ installed = None
  /\ latest = None /\ report = [g \in Reporting |-> None]
  /\ runs = 0 /\ wrote = FALSE /\ raced = FALSE

-----------------------------------------------------------------------------
(* The runner.                                                             *)

Conclude(state) ==
  /\ verdict' = [state |-> state, gates |-> outcomes]
  /\ phase' = "off"

Fresh == <<>>

\* What the measure of the memory may forbid: not known, or below MINIMUM_GIB.
Forbidden == {"BLOCKED", "ENV_BLOCKED"}

\* The memory is measured first: too little, or not known, ends the validation.
Start ==
  /\ phase = "off" /\ runs < MaxRuns
  /\ runs' = runs + 1 /\ next' = 1 /\ outcomes' = Fresh
  /\ \/ phase' = "ensure" /\ UNCHANGED verdict
     \/ /\ \E state \in Forbidden : verdict' = [state |-> state, gates |-> <<>>]
        /\ UNCHANGED phase
  /\ UNCHANGED <<environment, gate>>

Goes(to) == phase' = to /\ UNCHANGED <<next, outcomes, verdict, runs, gate>>

\* The stamp is the fingerprint of the lock file.
Ready == stamp = lock

Ensure ==
  /\ phase = "ensure"
  /\ Goes(IF Ready THEN "measure" ELSE "clear")
  /\ UNCHANGED environment

\* EnvBuilder(clear=True): what is there goes, in any order, ...
Clear ==
  /\ phase = "clear"
  /\ \/ stamp # None /\ stamp' = None /\ UNCHANGED installed
     \/ installed # None /\ installed' = None /\ UNCHANGED stamp
  /\ Goes("clear") /\ UNCHANGED <<lock, raced>>

Cleared ==
  /\ phase = "clear" /\ stamp = None /\ installed = None
  /\ Goes("install") /\ UNCHANGED environment

\* Mutant of Install: the fingerprint is recorded first.
InstallAfterStamp ==
  /\ phase = "install"
  /\ stamp' = lock
  /\ Goes("stamp") /\ UNCHANGED <<lock, installed, raced>>

\* ... pip installs what the lock file says, ...
Install ==
  /\ phase = "install"
  /\ installed' = lock
  /\ Goes("stamp") /\ UNCHANGED <<lock, stamp, raced>>

\* ... and its fingerprint is recorded.
WriteStamp ==
  /\ phase = "stamp"
  /\ stamp' = lock
  /\ Goes("measure") /\ UNCHANGED <<lock, installed, raced>>

EnsureFails ==
  /\ phase \in {"clear", "install", "stamp"}
  /\ Conclude("BLOCKED")
  /\ UNCHANGED <<next, outcomes, runs, environment, gate>>

\* Before each gate the memory is measured again.
Measure ==
  /\ phase = "measure" /\ next \in DOMAIN HeavyOrder
  /\ Goes("gate") /\ UNCHANGED environment

OutOfMemory ==
  /\ phase = "measure" /\ next \in DOMAIN HeavyOrder
  /\ \E state \in Forbidden : Conclude(state)
  /\ UNCHANGED <<next, outcomes, runs, environment, gate>>

Was(outcome) == \E i \in DOMAIN outcomes : outcomes[i] = outcome

Terminal ==
  IF Was("FAIL") THEN "FAIL" ELSE IF Was("PASS") THEN "PASS" ELSE "BLOCKED"

Finish ==
  /\ phase = "measure" /\ next > Len(HeavyOrder)
  /\ Conclude(Terminal)
  /\ UNCHANGED <<next, outcomes, runs, environment, gate>>

-----------------------------------------------------------------------------
(* gate_runner.py, in a process of its own.                                *)

G == HeavyOrder[next]

Ends(outcome, detail) ==
  /\ phase = "gate" /\ phase' = "measure"
  /\ outcomes' = Append(outcomes, outcome)
  /\ next' = next + 1
  /\ latest' = [gate |-> G, status |-> outcome, detail |-> detail]
  /\ UNCHANGED <<verdict, runs, environment>>

NotConfigured ==
  /\ phase = "gate" /\ G = "sonar"
  /\ wrote' = FALSE
  /\ Ends("NOT_CONFIGURED", runs) /\ UNCHANGED report

\* No browser could be installed.
NoChromium ==
  /\ phase = "gate" /\ G = "e2e"
  /\ wrote' = FALSE
  /\ Ends("FAIL", runs) /\ UNCHANGED report

\* _extract_structured_failure takes the detail from the report that is found, or
\* else from the output: the run it comes from.
Detail(found) ==
  IF found = None \/ (G = "security" /\ found.status = "PASS") THEN runs ELSE found.run

\* The script ends and has written its report.
ScriptEnds ==
  /\ phase = "gate" /\ G \in Reporting
  /\ wrote' = TRUE
  /\ \E outcome \in {"PASS", "FAIL"} :
       LET found == [run |-> runs, status |-> outcome]
       IN  /\ report' = [report EXCEPT ![G] = found]
           /\ Ends(outcome, runs)

\* It writes none, or stops before it: an exception, or no time left.
ScriptStops ==
  /\ phase = "gate"
  /\ wrote' = FALSE
  /\ Ends("FAIL", IF G \in Reporting THEN Detail(report[G]) ELSE runs)
  /\ UNCHANGED report

Scans ==
  /\ phase = "gate" /\ G = "sonar"
  /\ wrote' = FALSE
  /\ Ends("PASS", runs) /\ UNCHANGED report

-----------------------------------------------------------------------------

\* The lock file changes.
LockChanges ==
  /\ lock < MaxLocks
  /\ lock' = lock + 1
  /\ raced' = (raced \/ phase \in {"install", "stamp"})
  /\ UNCHANGED <<phase, next, outcomes, verdict, stamp, installed, runs, gate>>

\* The runner is killed.
Killed ==
  /\ phase # "off" /\ phase' = "off"
  /\ UNCHANGED <<next, outcomes, verdict, runs, environment, gate>>

Next ==
  \/ Start \/ Ensure \/ Clear \/ Cleared \/ Install \/ WriteStamp \/ EnsureFails
  \/ Measure \/ OutOfMemory \/ Finish
  \/ NotConfigured \/ NoChromium \/ ScriptEnds \/ ScriptStops \/ Scans
  \/ LockChanges \/ Killed

Spec == Init /\ [][Next]_hvars

-----------------------------------------------------------------------------
(* Properties.                                                             *)

\* A validation passes only with every gate run, none failed and one passed.
PassIsEarned ==
  verdict # None /\ verdict.state = "PASS" =>
    /\ Len(verdict.gates) = Len(HeavyOrder)
    /\ \A i \in DOMAIN verdict.gates : verdict.gates[i] # "FAIL"
    /\ \E i \in DOMAIN verdict.gates : verdict.gates[i] = "PASS"

\* No kill or failure leaves an environment that is taken for complete, unless the
\* lock file changed while it was made.
ReadyIsComplete == Ready /\ phase \notin {"clear"} => raced \/ installed = lock

\* The report of the last gate tells how that gate ended, and blames what this run
\* found, unless the script stopped before its own report.
LatestTells ==
  phase = "measure" /\ next > 1 =>
    /\ latest.gate = HeavyOrder[next - 1] /\ latest.status = outcomes[next - 1]
    /\ latest.detail = runs \/ ~wrote

ValidationSafe == PassIsEarned /\ ReadyIsComplete /\ LatestTells

=============================================================================
