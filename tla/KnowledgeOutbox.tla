-------------------------- MODULE KnowledgeOutbox --------------------------
(***************************************************************************)
(* The durable outbox of knowledge packages: payloads that move between    *)
(* four directories, a ledger in one JSON file, and the documentation      *)
(* hooks that enqueue a package and run one publish cycle.                 *)
(*                                                                         *)
(* A hook makes a KnowledgeOutbox, and with it a ledger lock, of its own:  *)
(* hooks of the dashboard and of the processor do not exclude each other,  *)
(* and a ledger update is a load and a write.  A hook can stop anywhere.   *)
(*                                                                         *)
(* Simplifications: a publisher is configured; the loops of reclaiming and *)
(* of claiming are one step each; no payload is corrupt, the disk does not *)
(* fail, and the ledger stays below its 5000 entries.                      *)
(***************************************************************************)
EXTENDS Naturals

CONSTANTS
  Packages,    \* package ids
  Hooks,       \* documentation runs that may overlap
  None,        \* no package
  MaxAttempts, \* MAX_ATTEMPTS
  MaxRuns,     \* bound: hooks that start
  MaxCrashes   \* bound: hooks that stop half-way

ASSUME ConstantsAssumption ==
  /\ None \notin Packages
  /\ MaxAttempts \in Nat \ {0} /\ MaxRuns \in Nat /\ MaxCrashes \in Nat

VARIABLES
  where,      \* the directories that hold each package's payload
  ledger,     \* ledger.json
  hook,       \* what each hook is doing
  runs,       \* bound
  crashes,    \* bound
  overlapped, \* history: two hooks have run at the same time
  tries,      \* history: deliveries of each package, until hooks overlap
  acks        \* history: those the receiver acknowledged

history == <<runs, crashes, overlapped, tries, acks>>
vars    == <<where, ledger, hook, history>>

Directories == {"pending", "publishing", "published", "failed"}
Terminal    == {"PUBLISHED", "FAILED"}

\* due: nextAttemptAt has passed, or there is none.
Entries ==
  [state : {"ABSENT", "PENDING"}, attempt : 0 .. MaxAttempts - 1, due : BOOLEAN]
    \cup [state : Terminal, attempt : 0 .. MaxAttempts + 1, due : BOOLEAN]

NoEntry   == [state |-> "ABSENT", attempt |-> 0, due |-> TRUE]
NoEntries == [p \in Packages |-> NoEntry]
Fresh     == [state |-> "PENDING", attempt |-> 0, due |-> TRUE]

Idle == [step |-> "idle", package |-> None, batch |-> {}, outcome |-> "none",
         entry |-> NoEntry, loaded |-> NoEntries]

TypeOK ==
  /\ where \in [Packages -> SUBSET Directories]
  /\ ledger \in [Packages -> Entries]
  /\ \A h \in Hooks :
       /\ hook[h].step \in {"idle", "look", "load", "write", "reclaim", "claim", "deliver", "mark"}
       /\ hook[h].package \in Packages \cup {None}
       /\ hook[h].batch \subseteq Packages
       /\ hook[h].outcome \in {"none", "ENQUEUE", "ACK", "TERMINAL", "RETRYABLE"}
       /\ hook[h].entry \in Entries
       /\ hook[h].loaded \in [Packages -> Entries]
  /\ runs \in 0 .. MaxRuns /\ crashes \in 0 .. MaxCrashes /\ overlapped \in BOOLEAN
  /\ tries \in [Packages -> Nat] /\ acks \in [Packages -> Nat]

Zero == [p \in Packages |-> 0]

Init ==
  /\ where = [p \in Packages |-> {}]
  /\ ledger = NoEntries
  /\ hook = [h \in Hooks |-> Idle]
  /\ runs = 0 /\ crashes = 0 /\ overlapped = FALSE /\ tries = Zero /\ acks = Zero

Move(p, from, to) == (where[p] \ {from}) \cup {to}

-----------------------------------------------------------------------------
(* enqueue                                                                 *)

Overlap(h) == overlapped \/ \E g \in Hooks \ {h} : hook[g].step # "idle"

\* Mutant of Settled: a package that failed is enqueued again.
SettledWhenPublished(p) == ledger[p].state = "PUBLISHED"

\* Enqueueing does nothing more.
Settled(p) == ledger[p].state \in Terminal

\* The hook of a settled package ends at once.  A queued package keeps its
\* schedule.
Enqueue(h, p) ==
  /\ hook[h].step = "idle" /\ ~Settled(p)
  /\ runs < MaxRuns /\ runs' = runs + 1
  /\ hook' = [hook EXCEPT ![h] =
       IF ledger[p].state = "PENDING" /\ "pending" \in where[p]
       THEN [Idle EXCEPT !.step = "reclaim"]
       ELSE [Idle EXCEPT !.step = "look", !.package = p, !.entry = ledger[p]]]
  /\ overlapped' = Overlap(h)
  /\ tries' = IF overlapped' THEN Zero ELSE tries
  /\ acks' = IF overlapped' THEN Zero ELSE acks
  /\ UNCHANGED <<where, ledger, crashes>>

\* Otherwise the payload is written, unless it is being published.
Look(h) ==
  /\ hook[h].step = "look"
  /\ LET p == hook[h].package
     IN  IF hook[h].entry.state = "PENDING" /\ "publishing" \in where[p]
         THEN /\ hook' = [hook EXCEPT ![h] = [Idle EXCEPT !.step = "reclaim"]]
              /\ UNCHANGED where
         ELSE /\ where' = [where EXCEPT ![p] = @ \cup {"pending"}]
              /\ hook' = [hook EXCEPT ![h] =
                   [@ EXCEPT !.step = "load", !.outcome = "ENQUEUE", !.entry = Fresh]]
  /\ UNCHANGED <<ledger, history>>

-----------------------------------------------------------------------------
(* KnowledgeLedger.upsert of the hook's entry                              *)

Load(h) ==
  /\ hook[h].step = "load"
  /\ hook' = [hook EXCEPT ![h].step = "write", ![h].loaded = ledger]
  /\ UNCHANGED <<where, ledger, history>>

Write(h) ==
  /\ hook[h].step = "write"
  /\ ledger' = [hook[h].loaded EXCEPT ![hook[h].package] = hook[h].entry]
  /\ hook' = [hook EXCEPT ![h] = [Idle EXCEPT
       !.step = IF hook[h].outcome = "ENQUEUE" THEN "reclaim" ELSE "deliver",
       !.batch = hook[h].batch]]
  /\ UNCHANGED <<where, history>>

-----------------------------------------------------------------------------
(* run_publish_cycle                                                       *)

\* Whatever is in publishing goes back to pending.
Reclaim(h) ==
  /\ hook[h].step = "reclaim"
  /\ where' = [p \in Packages |->
                 IF "publishing" \in where[p] THEN Move(p, "publishing", "pending") ELSE where[p]]
  /\ hook' = [hook EXCEPT ![h].step = "claim"]
  /\ UNCHANGED <<ledger, history>>

\* The payloads that are due are moved to publishing.
Claim(h) ==
  /\ hook[h].step = "claim"
  /\ LET due == {p \in Packages : "pending" \in where[p] /\ ledger[p].due}
     IN  /\ where' = [p \in Packages |->
                        IF p \in due THEN Move(p, "pending", "publishing") ELSE where[p]]
         /\ hook' = [hook EXCEPT ![h].step = "deliver", ![h].batch = due]
  /\ UNCHANGED <<ledger, history>>

\* One is delivered, or skipped because the time of the cycle is up.
Deliver(h) ==
  /\ hook[h].step = "deliver"
  /\ \E p \in hook[h].batch, outcome \in {"ACK", "TERMINAL", "RETRYABLE"}, sent \in BOOLEAN :
       /\ sent \/ outcome = "RETRYABLE"
       /\ hook' = [hook EXCEPT ![h] = [Idle EXCEPT
            !.step = "mark", !.package = p, !.batch = hook[h].batch \ {p}, !.outcome = outcome]]
       /\ tries' = IF sent /\ ~overlapped THEN [tries EXCEPT ![p] = @ + 1] ELSE tries
       /\ acks' = IF outcome = "ACK" /\ ~overlapped THEN [acks EXCEPT ![p] = @ + 1] ELSE acks
  /\ UNCHANGED <<where, ledger, runs, crashes, overlapped>>

\* Mutant of Exhausted: one attempt more.
ExhaustedLate(attempt) == attempt > MaxAttempts

\* No attempt is left.
Exhausted(attempt) == attempt >= MaxAttempts

\* One attempt more.  Numbers above MaxAttempts all mean the same.
Counted(attempt) == IF attempt > MaxAttempts THEN attempt ELSE attempt + 1

\* The entry after an attempt that may be repeated.
Retried(entry) ==
  LET n == Counted(entry.attempt)
  IN  IF Exhausted(n)
      THEN [state |-> "FAILED", attempt |-> n, due |-> entry.due]
      ELSE [state |-> "PENDING", attempt |-> n, due |-> FALSE]

\* The entry after a delivery.
Marked(entry, outcome) ==
  IF outcome = "ACK" THEN [entry EXCEPT !.state = "PUBLISHED"]
  ELSE IF outcome = "TERMINAL" THEN [entry EXCEPT !.state = "FAILED"]
  ELSE Retried(entry)

\* The directory of a package in a state.
Home(state) ==
  IF state = "PUBLISHED" THEN "published"
  ELSE IF state = "FAILED" THEN "failed" ELSE "pending"

\* Mutant of Mark: a payload that is gone is no error.
MarkMissingOk(h) ==
  /\ hook[h].step = "mark"
  /\ LET p     == hook[h].package
         entry == Marked(ledger[p], hook[h].outcome)
     IN  /\ where' = [where EXCEPT ![p] =
                        IF "publishing" \in @ THEN Move(p, "publishing", Home(entry.state)) ELSE @]
         /\ hook' = [hook EXCEPT ![h].step = "load", ![h].entry = entry]
  /\ UNCHANGED <<ledger, history>>

\* The payload moves first, then the ledger is updated; if another hook took
\* the payload, the error ends the hook.
Mark(h) ==
  /\ hook[h].step = "mark"
  /\ LET p     == hook[h].package
         entry == Marked(ledger[p], hook[h].outcome)
     IN  IF "publishing" \in where[p]
         THEN /\ where' = [where EXCEPT ![p] = Move(p, "publishing", Home(entry.state))]
              /\ hook' = [hook EXCEPT ![h].step = "load", ![h].entry = entry]
         ELSE /\ hook' = [hook EXCEPT ![h] = Idle]
              /\ UNCHANGED where
  /\ UNCHANGED <<ledger, history>>

Finish(h) ==
  /\ hook[h].step = "deliver" /\ hook[h].batch = {}
  /\ hook' = [hook EXCEPT ![h] = Idle]
  /\ UNCHANGED <<where, ledger, history>>

-----------------------------------------------------------------------------
(* The environment                                                         *)

\* The backoff of a package ends.
Elapse(p) ==
  /\ ~ledger[p].due
  /\ ledger' = [ledger EXCEPT ![p].due = TRUE]
  /\ UNCHANGED <<where, hook, history>>

Crash(h) ==
  /\ hook[h].step # "idle" /\ crashes < MaxCrashes
  /\ crashes' = crashes + 1
  /\ hook' = [hook EXCEPT ![h] = Idle]
  /\ UNCHANGED <<where, ledger, runs, overlapped, tries, acks>>

Next ==
  \/ \E h \in Hooks :
       \/ \E p \in Packages : Enqueue(h, p)
       \/ Look(h) \/ Load(h) \/ Write(h)
       \/ Reclaim(h) \/ Claim(h) \/ Deliver(h) \/ Mark(h) \/ Finish(h)
       \/ Crash(h)
  \/ \E p \in Packages : Elapse(p)

Spec == Init /\ [][Next]_vars

-----------------------------------------------------------------------------
(* Correctness                                                             *)

Directory == [PENDING |-> "pending", PUBLISHED |-> "published", FAILED |-> "failed"]

\* What the ledger calls published or failed is in that directory, even if
\* hooks overlap or stop half-way.
TerminalIsKept ==
  \A p \in Packages :
    ledger[p].state \in Terminal => Directory[ledger[p].state] \in where[p]

\* After hooks that ran one at a time and to the end, ledger and directories
\* agree on every package.
AgreeAtRest ==
  (crashes = 0 /\ ~overlapped /\ \A h \in Hooks : hook[h] = Idle) =>
    \A p \in Packages :
      where[p] = IF ledger[p] = NoEntry THEN {} ELSE {Directory[ledger[p].state]}

\* Only a crash makes a package be delivered again after its acknowledgement,
\* or more often than MaxAttempts, as long as hooks do not overlap; each crash
\* at most doubles, trebles, ... what was allowed without.
RepeatsCostACrash ==
  ~overlapped =>
    \A p \in Packages :
      /\ acks[p] <= 1 + crashes
      /\ tries[p] <= MaxAttempts * (1 + crashes)

\* Deliveries without overlaps: ledger and directories agree, repeats cost crashes.
DeliverySafe == AgreeAtRest /\ RepeatsCostACrash

\* What is published or failed stays so, as long as hooks do not overlap, and
\* the deliveries are safe.
TerminalIsFinal ==
  /\ []DeliverySafe
  /\ [][~overlapped' =>
          \A p \in Packages :
            ledger[p].state \in Terminal => ledger'[p] = ledger[p]]_vars

=============================================================================
