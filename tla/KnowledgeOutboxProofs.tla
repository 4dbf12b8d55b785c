----------------------- MODULE KnowledgeOutboxProofs -----------------------
(***************************************************************************)
(* Proofs about KnowledgeOutbox, for any number of packages and hooks, any *)
(* limit on the attempts and any number of runs and crashes, and about     *)
(* KnowledgePackages, for any bounds.                                      *)
(***************************************************************************)
EXTENDS MCKnowledgeOutbox, TLAPS

HookStates ==
  [step    : {"idle", "look", "load", "write", "reclaim", "claim", "deliver", "mark"},
   package : Packages \cup {None},
   batch   : SUBSET Packages,
   outcome : {"none", "ENQUEUE", "ACK", "TERMINAL", "RETRYABLE"},
   entry   : Entries,
   loaded  : [Packages -> Entries]]

\* An entry that calls package p published or failed is right.
Kept(entry, p) == entry.state \in Terminal => Directory[entry.state] \in where[p]

\* What a hook is about to write to the ledger is right.
Pending(h) ==
  /\ hook[h].step \in {"look", "load", "write", "mark"} => hook[h].package \in Packages
  /\ hook[h].step \in {"load", "write"} => Kept(hook[h].entry, hook[h].package)
  /\ hook[h].step = "write" => \A p \in Packages : Kept(hook[h].loaded[p], p)

\* The invariant by induction: TerminalIsKept does not say that stale copies of
\* the ledger, which a hook may yet write, are right, too.
IInv ==
  /\ where \in [Packages -> SUBSET Directories]
  /\ ledger \in [Packages -> Entries]
  /\ hook \in [Hooks -> HookStates]
  /\ TerminalIsKept
  /\ \A h \in Hooks : Pending(h)

-----------------------------------------------------------------------------

\* The entries that hooks make are entries of the ledger: mark_published and
\* the failures count attempts within the bounds.
LEMMA EntriesLemma ==
  /\ NoEntry \in Entries /\ Fresh \in Entries
  /\ \A entry \in Entries, outcome \in {"none", "ENQUEUE", "ACK", "TERMINAL", "RETRYABLE"} :
       /\ Marked(entry, outcome) \in Entries
       /\ Marked(entry, outcome).state \in {"PENDING"} \cup Terminal
<1>1. NoEntry \in Entries /\ Fresh \in Entries
  BY ConstantsAssumption DEF Entries, NoEntry, Fresh
<1>2. ASSUME NEW entry \in Entries, NEW outcome
      PROVE  /\ Marked(entry, outcome) \in Entries
             /\ Marked(entry, outcome).state \in {"PENDING"} \cup Terminal
  <2> DEFINE n == Counted(entry.attempt)
  <2>1. /\ entry.attempt \in 0 .. MaxAttempts + 1 /\ entry.due \in BOOLEAN
        /\ n \in 0 .. MaxAttempts + 1
        /\ ~Exhausted(n) => n \in 0 .. MaxAttempts - 1
    BY ConstantsAssumption DEF Entries, Counted, Exhausted
  <2>2. Retried(entry) \in Entries /\ Retried(entry).state \in {"PENDING", "FAILED"}
    BY <2>1 DEF Retried, Entries, Terminal
  <2>3. ASSUME NEW s \in Terminal
        PROVE  [entry EXCEPT !.state = s] \in Entries /\ [entry EXCEPT !.state = s].state = s
    BY <2>1 DEF Entries
  <2> QED
    BY <2>2, <2>3 DEF Marked, Terminal
<1> QED
  BY <1>1, <1>2

\* The directories and the ledger are empty.
LEMMA InitLemma == Init => IInv
<1> SUFFICES ASSUME Init PROVE IInv
  OBVIOUS
<1>1. NoEntry \in Entries /\ NoEntries \in [Packages -> Entries]
  BY EntriesLemma DEF NoEntries
<1>2. \A h \in Hooks : hook[h] = Idle
  BY DEF Init
<1>3. TerminalIsKept
  BY DEF Init, TerminalIsKept, NoEntries, NoEntry, Terminal
<1>4. \A h \in Hooks : Pending(h)
  BY <1>2 DEF Pending, Idle
<1> QED
  BY <1>1, <1>3, <1>4 DEF IInv, Init, Idle, HookStates, Directories

\* No payload leaves published or failed, so what was kept stays kept.
LEMMA KeptLemma ==
  ASSUME NEW entry \in Entries, NEW p \in Packages, Kept(entry, p),
         where[p] \cap {"published", "failed"} \subseteq where'[p]
  PROVE  Kept(entry, p)'
BY DEF Kept, Terminal, Directory

\* A step that leaves the ledger and all hooks but h alone.
LEMMA StepLemma ==
  ASSUME IInv, NEW h \in Hooks,
         where' \in [Packages -> SUBSET Directories],
         \A p \in Packages : where[p] \cap {"published", "failed"} \subseteq where'[p],
         UNCHANGED ledger,
         NEW next \in HookStates,
         hook' = [hook EXCEPT ![h] = next],
         Pending(h)'
  PROVE  IInv'
<1>1. TerminalIsKept'
  <2> SUFFICES ASSUME NEW p \in Packages PROVE Kept(ledger[p], p)'
    BY DEF Kept, TerminalIsKept
  <2>1. Kept(ledger[p], p)
    BY DEF IInv, TerminalIsKept, Kept
  <2> QED
    BY <2>1, KeptLemma DEF IInv, Kept, Terminal, Directory
<1>2. ASSUME NEW g \in Hooks, g # h
      PROVE  Pending(g)'
  <2>1. hook'[g] = hook[g] /\ Pending(g)
    BY <1>2 DEF IInv
  <2>2. /\ hook[g].entry \in Entries
        /\ \A p \in Packages : hook[g].loaded[p] \in Entries
    BY DEF IInv, HookStates
  <2> QED
    BY <2>1, <2>2 DEF Pending, Kept, Terminal, Directory
<1> QED
  BY <1>1, <1>2 DEF IInv

\* The copies of the ledger stay right: no step takes a payload out of a
\* terminal directory.
LEMMA NextLemma == IInv /\ [Next]_vars => IInv'
<1> SUFFICES ASSUME IInv, [Next]_vars PROVE IInv'
  OBVIOUS
<1> USE DEF HookStates
<1>1. /\ Idle \in HookStates /\ NoEntries \in [Packages -> Entries]
      /\ \A h \in Hooks : hook[h] \in HookStates
  BY EntriesLemma DEF Idle, NoEntries, IInv
<1>2. ASSUME NEW h \in Hooks, NEW p \in Packages, Enqueue(h, p)
      PROVE  IInv'
  <2> DEFINE next == IF ledger[p].state = "PENDING" /\ "pending" \in where[p]
                     THEN [Idle EXCEPT !.step = "reclaim"]
                     ELSE [Idle EXCEPT !.step = "look", !.package = p, !.entry = ledger[p]]
  <2>1. next \in HookStates
    BY <1>1 DEF IInv
  <2>2. hook' = [hook EXCEPT ![h] = next] /\ UNCHANGED <<where, ledger>>
    BY <1>2 DEF Enqueue
  <2>3. Pending(h)'
    BY <1>1, <2>2 DEF IInv, Pending, Idle
  <2> HIDE DEF next
  <2> QED
    BY <2>1, <2>2, <2>3, StepLemma DEF IInv
<1>3. ASSUME NEW h \in Hooks, Look(h)
      PROVE  IInv'
  <2> DEFINE p == hook[h].package
             writes == [hook[h] EXCEPT !.step = "load", !.outcome = "ENQUEUE", !.entry = Fresh]
  <2>1. p \in Packages
    BY <1>3 DEF Look, IInv, Pending
  <2>2. CASE hook' = [hook EXCEPT ![h] = [Idle EXCEPT !.step = "reclaim"]] /\ UNCHANGED where
    <3>1. [Idle EXCEPT !.step = "reclaim"] \in HookStates /\ Pending(h)'
      BY <1>1, <2>2 DEF Pending, IInv
    <3> QED
      BY <1>3, <2>2, <3>1, StepLemma DEF Look, IInv
  <2>3. CASE /\ where' = [where EXCEPT ![p] = @ \cup {"pending"}]
             /\ hook' = [hook EXCEPT ![h] = writes]
    <3>1. writes \in HookStates
      BY <1>1, EntriesLemma
    <3>2. Pending(h)'
      BY <1>1, <2>1, <2>3, <3>1 DEF Pending, IInv, Kept, Fresh, Terminal
    <3>3. /\ where' \in [Packages -> SUBSET Directories]
          /\ \A q \in Packages : where[q] \cap {"published", "failed"} \subseteq where'[q]
      BY <2>1, <2>3 DEF IInv, Directories
    <3> QED
      BY <1>3, <2>3, <3>1, <3>2, <3>3, StepLemma DEF Look
  <2> QED
    BY <1>3, <2>2, <2>3 DEF Look
<1>4. ASSUME NEW h \in Hooks, Load(h)
      PROVE  IInv'
  <2> DEFINE next == [hook[h] EXCEPT !.step = "write", !.loaded = ledger]
  <2>1. next \in HookStates /\ hook' = [hook EXCEPT ![h] = next]
    BY <1>1, <1>4 DEF Load, IInv
  <2>2. Pending(h)'
    BY <1>1, <1>4, <2>1 DEF Load, Pending, IInv, TerminalIsKept, Kept
  <2> HIDE DEF next
  <2> QED
    BY <1>4, <2>1, <2>2, StepLemma DEF Load, IInv
<1>5. ASSUME NEW h \in Hooks, Write(h)
      PROVE  IInv'
  <2>1. \A g \in Hooks : Pending(g)'
    <3> SUFFICES ASSUME NEW g \in Hooks PROVE Pending(g)'
      OBVIOUS
    <3>1. CASE g = h
      BY <1>1, <1>5, <3>1 DEF Write, Pending, Idle, IInv
    <3>2. CASE g # h
      BY <1>1, <1>5, <3>2 DEF Write, Pending, Kept, IInv
    <3> QED
      BY <3>1, <3>2
  <2>2. hook' \in [Hooks -> HookStates]
    BY <1>1, <1>5 DEF Write, IInv
  <2>3. ledger' \in [Packages -> Entries]
    BY <1>1, <1>5 DEF Write, IInv
  <2>4. TerminalIsKept'
    BY <1>1, <1>5 DEF Write, IInv, Pending, Kept, TerminalIsKept
  <2> QED
    BY <1>5, <2>1, <2>2, <2>3, <2>4 DEF Write, IInv
<1>6. ASSUME NEW h \in Hooks, Reclaim(h)
      PROVE  IInv'
  <2> DEFINE next == [hook[h] EXCEPT !.step = "claim"]
  <2>1. next \in HookStates /\ hook' = [hook EXCEPT ![h] = next]
    BY <1>1, <1>6 DEF Reclaim, IInv
  <2>2. Pending(h)'
    BY <1>1, <2>1 DEF Pending, IInv
  <2>3. /\ where' \in [Packages -> SUBSET Directories]
        /\ \A q \in Packages : where[q] \cap {"published", "failed"} \subseteq where'[q]
    BY <1>6 DEF Reclaim, Move, IInv, Directories
  <2> HIDE DEF next
  <2> QED
    BY <1>6, <2>1, <2>2, <2>3, StepLemma DEF Reclaim
<1>7. ASSUME NEW h \in Hooks, Claim(h)
      PROVE  IInv'
  <2> DEFINE due == {p \in Packages : "pending" \in where[p] /\ ledger[p].due}
             next == [hook[h] EXCEPT !.step = "deliver", !.batch = due]
  <2>1. next \in HookStates /\ hook' = [hook EXCEPT ![h] = next]
    BY <1>1, <1>7 DEF Claim, IInv
  <2>2. Pending(h)'
    BY <1>1, <2>1 DEF Pending, IInv
  <2>3. /\ where' \in [Packages -> SUBSET Directories]
        /\ \A q \in Packages : where[q] \cap {"published", "failed"} \subseteq where'[q]
    BY <1>7 DEF Claim, Move, IInv, Directories
  <2> HIDE DEF next
  <2> QED
    BY <1>7, <2>1, <2>2, <2>3, StepLemma DEF Claim
<1>8. ASSUME NEW h \in Hooks, Deliver(h)
      PROVE  IInv'
  <2>1. PICK p \in hook[h].batch, outcome \in {"ACK", "TERMINAL", "RETRYABLE"} :
          hook' = [hook EXCEPT ![h] = [Idle EXCEPT
            !.step = "mark", !.package = p, !.batch = hook[h].batch \ {p}, !.outcome = outcome]]
    BY <1>8 DEF Deliver
  <2> DEFINE next == [Idle EXCEPT
            !.step = "mark", !.package = p, !.batch = hook[h].batch \ {p}, !.outcome = outcome]
  <2>2. p \in Packages /\ next \in HookStates
    BY <1>1
  <2>3. Pending(h)'
    BY <1>1, <2>1, <2>2 DEF Pending, IInv
  <2> HIDE DEF next
  <2> QED
    BY <1>8, <2>1, <2>2, <2>3, StepLemma DEF Deliver, IInv, next
<1>9. ASSUME NEW h \in Hooks, Mark(h)
      PROVE  IInv'
  <2> DEFINE p     == hook[h].package
             entry == Marked(ledger[p], hook[h].outcome)
             next  == [hook[h] EXCEPT !.step = "load", !.entry = entry]
  <2>1. p \in Packages
    BY <1>9 DEF Mark, IInv, Pending
  <2>2. entry \in Entries /\ entry.state \in {"PENDING"} \cup Terminal
    <3>1. ledger[p] \in Entries
      BY <2>1 DEF IInv
    <3>2. hook[h].outcome \in {"none", "ENQUEUE", "ACK", "TERMINAL", "RETRYABLE"}
      BY <1>1
    <3> QED
      BY <3>1, <3>2, EntriesLemma
  <2> HIDE DEF entry
  <2>3. CASE "publishing" \in where[p]
    <3>1. /\ where' = [where EXCEPT ![p] = Move(p, "publishing", Home(entry.state))]
          /\ hook' = [hook EXCEPT ![h] = next]
      BY <1>9, <2>3 DEF Mark, entry
    <3>2. next \in HookStates
      BY <1>1, <2>2
    <3>3. Pending(h)'
      BY <1>1, <2>1, <2>2, <3>1, <3>2
         DEF IInv, Pending, Kept, Home, Directory, Terminal, Move
    <3>4. /\ where' \in [Packages -> SUBSET Directories]
          /\ \A q \in Packages : where[q] \cap {"published", "failed"} \subseteq where'[q]
      BY <2>1, <3>1 DEF IInv, Move, Home, Directories
    <3> HIDE DEF next
    <3> QED
      BY <1>9, <3>1, <3>2, <3>3, <3>4, StepLemma DEF Mark
  <2>4. CASE "publishing" \notin where[p]
    <3>1. hook' = [hook EXCEPT ![h] = Idle] /\ UNCHANGED <<where, ledger>>
      BY <1>9, <2>4 DEF Mark
    <3>2. Pending(h)'
      BY <3>1 DEF IInv, Pending, Idle
    <3> QED
      BY <1>1, <3>1, <3>2, StepLemma DEF IInv
  <2> QED
    BY <2>3, <2>4
<1>10. ASSUME NEW h \in Hooks, Finish(h) \/ Crash(h)
       PROVE  IInv'
  <2>1. hook' = [hook EXCEPT ![h] = Idle] /\ UNCHANGED <<where, ledger>>
    BY <1>10 DEF Finish, Crash
  <2>2. Pending(h)'
    BY <2>1 DEF IInv, Pending, Idle
  <2> QED
    BY <1>1, <2>1, <2>2, StepLemma DEF IInv
<1>11. ASSUME NEW p \in Packages, Elapse(p)
       PROVE  IInv'
  <2>1. /\ ledger' \in [Packages -> Entries]
        /\ \A q \in Packages : ledger'[q].state = ledger[q].state
    <3>1. ledger[p] \in Entries /\ ledger' = [ledger EXCEPT ![p] = [ledger[p] EXCEPT !.due = TRUE]]
      BY <1>11 DEF Elapse, IInv
    <3>2. /\ [ledger[p] EXCEPT !.due = TRUE] \in Entries
          /\ [ledger[p] EXCEPT !.due = TRUE].state = ledger[p].state
      BY <3>1 DEF Entries
    <3> QED
      BY <3>1, <3>2 DEF IInv
  <2>2. TerminalIsKept'
    BY <1>11, <2>1 DEF Elapse, IInv, TerminalIsKept
  <2>3. \A h \in Hooks : Pending(h)'
    BY <1>11 DEF Elapse, IInv, Pending, Kept
  <2> QED
    BY <1>11, <2>1, <2>2, <2>3 DEF Elapse, IInv
<1>12. CASE UNCHANGED vars
  BY <1>12 DEF vars, IInv, TerminalIsKept, Pending, Kept
<1> QED
  BY <1>2, <1>3, <1>4, <1>5, <1>6, <1>7, <1>8, <1>9, <1>10, <1>11, <1>12 DEF Next

\* What the ledger calls published or failed is in that directory, whichever
\* hooks overlap or stop half-way: mark_published and the failures move the
\* payload before they update the ledger.
THEOREM TerminalIsKeptTheorem == Spec => []TerminalIsKept
<1>1. IInv => TerminalIsKept
  BY DEF IInv
<1> QED
  BY InitLemma, NextLemma, <1>1, PTL DEF Spec

-----------------------------------------------------------------------------
(* Types.                                                                  *)

Bounds ==
  /\ runs \in 0 .. MaxRuns /\ crashes \in 0 .. MaxCrashes /\ overlapped \in BOOLEAN
  /\ tries \in [Packages -> Nat] /\ acks \in [Packages -> Nat]

\* The types and the bounds are those of TypeOK.
LEMMA TypeLemma == IInv /\ Bounds => TypeOK
BY DEF IInv, Bounds, HookStates, TypeOK

\* Nothing was delivered.
LEMMA BoundsInit == Init => Bounds
<1> SUFFICES ASSUME Init PROVE Bounds
  OBVIOUS
<1>1. runs = 0 /\ crashes = 0 /\ overlapped = FALSE
  BY DEF Init
<1>2. tries = Zero /\ acks = Zero /\ Zero \in [Packages -> Nat]
  BY DEF Init, Zero
<1>3. 0 \in 0 .. MaxRuns /\ 0 \in 0 .. MaxCrashes
  BY ConstantsAssumption
<1> QED
  BY <1>1, <1>2, <1>3, Zenon DEF Bounds

\* Each counter is guarded where it is increased.
LEMMA BoundsNext == Bounds /\ [Next]_vars => Bounds'
<1> SUFFICES ASSUME Bounds, [Next]_vars PROVE Bounds'
  OBVIOUS
<1> USE DEF Bounds
<1>1. ASSUME NEW h \in Hooks, NEW p \in Packages, Enqueue(h, p)
      PROVE  Bounds'
  <2>1. Overlap(h) \in BOOLEAN
    BY DEF Overlap
  <2> QED
    BY <1>1, <2>1, ConstantsAssumption DEF Enqueue, Zero
<1>2. ASSUME NEW h \in Hooks, Deliver(h)
      PROVE  Bounds'
  <2>1. PICK p \in hook[h].batch, outcome \in {"ACK", "TERMINAL", "RETRYABLE"}, delivered \in BOOLEAN :
          /\ tries' = IF delivered /\ ~overlapped THEN [tries EXCEPT ![p] = @ + 1] ELSE tries
          /\ acks' = IF outcome = "ACK" /\ ~overlapped THEN [acks EXCEPT ![p] = @ + 1] ELSE acks
    BY <1>2 DEF Deliver
  <2>2. /\ [tries EXCEPT ![p] = @ + 1] \in [Packages -> Nat]
        /\ [acks EXCEPT ![p] = @ + 1] \in [Packages -> Nat]
    <3>1. ASSUME NEW f \in [Packages -> Nat]
          PROVE  [f EXCEPT ![p] = @ + 1] \in [Packages -> Nat]
      <4>1. \A q \in Packages : [f EXCEPT ![p] = @ + 1][q] \in Nat
        OBVIOUS
      <4> QED
        BY <4>1
    <3> QED
      BY <3>1
  <2>3. tries' \in [Packages -> Nat] /\ acks' \in [Packages -> Nat]
    BY <2>1, <2>2, Zenon
  <2> QED
    BY <1>2, <2>3 DEF Deliver
<1>3. ASSUME NEW h \in Hooks, Crash(h)
      PROVE  Bounds'
  BY <1>3, ConstantsAssumption DEF Crash
<1>4. CASE UNCHANGED history
  BY <1>4 DEF history
<1> QED
  BY <1>1, <1>2, <1>3, <1>4
     DEF Next, Look, Load, Write, Reclaim, Claim, Mark, Finish, Elapse, vars

\* Types, for any number of packages, hooks, attempts, runs and crashes.
THEOREM TypeCorrect == Spec => []TypeOK
BY InitLemma, NextLemma, BoundsInit, BoundsNext, TypeLemma, PTL DEF Spec

-----------------------------------------------------------------------------
(* Hooks that run one at a time.                                           *)

\* A package that is settled is in no queue and has no backoff.
Held(p) ==
  /\ ledger[p].state \in Terminal => ledger[p].due /\ where[p] \cap {"pending", "publishing"} = {}
  /\ ledger[p].state = "ABSENT" => ledger[p] = NoEntry

\* A claimed package stays as it was claimed until it is marked.
Taken(p) ==
  /\ ledger[p].state \notin Terminal /\ ledger[p].due
  /\ where[p] \cap {"pending", "publishing"} = {"publishing"}

\* Before the claim.
Waiting(h) ==
  /\ hook[h].step = "look" =>
       LET p == hook[h].package
       IN  /\ ledger[p].state \notin Terminal /\ hook[h].entry.state = ledger[p].state
           /\ ledger[p].state = "PENDING" => "pending" \notin where[p]
  /\ hook[h].step \in {"idle", "look", "reclaim", "claim"} => hook[h].batch = {}
  /\ hook[h].step = "claim" => \A q \in Packages : "publishing" \notin where[q]

\* Between the claim and the last mark.
Marking(h) ==
  /\ \A q \in hook[h].batch : Taken(q)
  /\ hook[h].step = "mark" =>
       Taken(hook[h].package) /\ hook[h].outcome \in {"ACK", "TERMINAL", "RETRYABLE"}
  /\ hook[h].step \in {"mark", "load", "write"} => hook[h].package \notin hook[h].batch

\* The entry is the one due to its package, whose payload is where it belongs.
Upserting(h) ==
  hook[h].step \in {"load", "write"} =>
    LET p     == hook[h].package
        entry == hook[h].entry
    IN  /\ ledger[p].state \notin Terminal /\ entry.state # "ABSENT"
        /\ IF hook[h].outcome = "ENQUEUE"
           THEN entry = Fresh /\ hook[h].batch = {}
           ELSE /\ hook[h].outcome \in {"ACK", "TERMINAL", "RETRYABLE"}
                /\ entry = Marked(ledger[p], hook[h].outcome) /\ ledger[p].due
        /\ Home(entry.state) \in where[p]
        /\ entry.state \in Terminal => where[p] \cap {"pending", "publishing"} = {}

\* The loaded ledger differs from the stored one by backoffs that ended since.
Copied(h) ==
  hook[h].step = "write" =>
    \A q \in Packages :
      LET copy == hook[h].loaded[q]
      IN  /\ copy.state = ledger[q].state /\ copy.attempt = ledger[q].attempt
          /\ \/ copy = ledger[q]
             \/ ledger[q].state = "PENDING" /\ q \notin hook[h].batch

OneAtATime == \A g, h \in Hooks : hook[g].step # "idle" /\ hook[h].step # "idle" => g = h

Sequential ==
  /\ OneAtATime
  /\ \A p \in Packages : Held(p)
  /\ \A h \in Hooks : Waiting(h) /\ Marking(h) /\ Upserting(h) /\ Copied(h)

-----------------------------------------------------------------------------
(* The deliveries of a package that hook h, alone, has in its hands.       *)

\* Delivered, but not in the ledger yet.
Flying(h, p) ==
  hook[h].step \in {"mark", "load", "write"} /\ hook[h].package = p /\ hook[h].outcome # "ENQUEUE"

Enqueuing(h, p) ==
  hook[h].step \in {"load", "write"} /\ hook[h].package = p /\ hook[h].outcome = "ENQUEUE"

\* Without a crash an acknowledged package is called published soon.
AcksAre(p, flying) ==
  /\ acks[p] <= crashes + 1
  /\ acks[p] <= crashes \/ ledger[p].state = "PUBLISHED" \/ flying

\* What the ledger knows of the deliveries; nothing, if the payload has left the
\* queues and the ledger does not say so: that took a crash.
Spent(p) ==
  IF ledger[p].state \in Terminal THEN MaxAttempts
  ELSE IF where[p] \cap {"pending", "publishing"} = {} THEN 0 ELSE ledger[p].attempt

Allowed == MaxAttempts * crashes

AcksCounted(p) == AcksAre(p, \E h \in Hooks : Flying(h, p) /\ hook[h].outcome = "ACK")

TriesCounted(p) ==
  /\ (\A h \in Hooks : ~Flying(h, p)) => tries[p] <= Allowed + Spent(p)
  /\ (\E h \in Hooks : Flying(h, p)) => tries[p] <= Allowed + ledger[p].attempt + 1
  /\ (\E h \in Hooks : Enqueuing(h, p)) => tries[p] <= Allowed

Agrees(p) == where[p] = IF ledger[p] = NoEntry THEN {} ELSE {Directory[ledger[p].state]}

\* The payload is where the ledger says, or where the hook at work has put it.
InHand(h, p) ==
  \/ /\ p \in hook[h].batch \/ (hook[h].step = "mark" /\ hook[h].package = p)
     /\ where[p] = {"publishing"}
  \/ /\ hook[h].step \in {"load", "write"} /\ hook[h].package = p
     /\ where[p] = {Home(hook[h].entry.state)}

Accounted(p) == Agrees(p) \/ \E h \in Hooks : InHand(h, p)

\* What holds of hooks that run one at a time: DeliverySafe speaks of hooks at
\* rest, this of the one at work.
SInv ==
  ~overlapped =>
    /\ Sequential
    /\ \A p \in Packages : AcksCounted(p) /\ TriesCounted(p)
    /\ crashes = 0 => \A p \in Packages : Accounted(p)

Alone(h) == \A g \in Hooks \ {h} : hook[g].step = "idle" /\ hook[g].batch = {}

\* The same for the hook at work.
Work(h) ==
  /\ \A p \in Packages : Held(p)
  /\ Waiting(h) /\ Marking(h) /\ Upserting(h) /\ Copied(h)
  /\ \A p \in Packages :
       /\ AcksAre(p, Flying(h, p) /\ hook[h].outcome = "ACK")
       /\ ~Flying(h, p) => tries[p] <= Allowed + Spent(p)
       /\ Flying(h, p) => tries[p] <= Allowed + ledger[p].attempt + 1
       /\ Enqueuing(h, p) => tries[p] <= Allowed
       /\ crashes = 0 => Agrees(p) \/ InHand(h, p)

\* Of hooks that do not overlap, one is at work and the others hold nothing.
LEMMA AloneLemma ==
  ASSUME SInv, ~overlapped, NEW h \in Hooks,
         hook[h].step # "idle" \/ \A g \in Hooks : hook[g].step = "idle"
  PROVE  Alone(h) /\ Work(h)
<1>1. Alone(h)
  BY DEF SInv, Sequential, OneAtATime, Waiting, Alone
<1>2. ASSUME NEW g \in Hooks, NEW p \in Packages, g # h
      PROVE  ~Flying(g, p) /\ ~Enqueuing(g, p) /\ ~InHand(g, p)
  BY <1>1, <1>2 DEF Alone, Flying, Enqueuing, InHand
<1>3. ASSUME NEW p \in Packages
      PROVE  /\ AcksAre(p, Flying(h, p) /\ hook[h].outcome = "ACK")
             /\ ~Flying(h, p) => tries[p] <= Allowed + Spent(p)
             /\ Flying(h, p) => tries[p] <= Allowed + ledger[p].attempt + 1
             /\ Enqueuing(h, p) => tries[p] <= Allowed
             /\ crashes = 0 => Agrees(p) \/ InHand(h, p)
  BY <1>2, <1>3 DEF SInv, AcksCounted, AcksAre, TriesCounted, Accounted
<1> QED
  BY <1>1, <1>3 DEF SInv, Sequential, Work

\* A step of the hook at work.
LEMMA WorkLemma ==
  ASSUME IInv, NEW h \in Hooks, Alone(h), NEW next, hook' = [hook EXCEPT ![h] = next], Work(h)'
  PROVE  SInv'
<1>0. hook'[h] = next /\ \A g \in Hooks \ {h} : hook'[g] = hook[g]
  BY DEF IInv
<1>1. \A g \in Hooks \ {h} : hook'[g].step = "idle" /\ hook'[g].batch = {}
  BY <1>0 DEF Alone
<1>2. ASSUME NEW g \in Hooks, NEW p \in Packages, g # h
      PROVE  ~Flying(g, p)' /\ ~Enqueuing(g, p)' /\ ~InHand(g, p)'
  BY <1>1, <1>2 DEF Flying, Enqueuing, InHand
<1>3. Sequential'
  <2>1. OneAtATime'
    BY <1>1 DEF OneAtATime
  <2>2. ASSUME NEW g \in Hooks, g # h
        PROVE  Waiting(g)' /\ Marking(g)' /\ Upserting(g)' /\ Copied(g)'
    BY <1>1, <2>2 DEF Waiting, Marking, Upserting, Copied
  <2> QED
    BY <2>1, <2>2 DEF Sequential, Work
<1>4. ASSUME NEW p \in Packages
      PROVE  AcksCounted(p)' /\ TriesCounted(p)' /\ (crashes' = 0 => Accounted(p)')
  BY <1>2, <1>4 DEF Work, AcksCounted, AcksAre, TriesCounted, Accounted
<1> QED
  BY <1>3, <1>4 DEF SInv

-----------------------------------------------------------------------------
(* Each step, while hooks run one at a time.                               *)

\* What is needed to count: MaxAttempts for each crash.
LEMMA AllowedLemma ==
  ASSUME Bounds
  PROVE  /\ crashes \in Nat /\ MaxAttempts \in Nat /\ MaxAttempts >= 1 /\ Allowed \in Nat
         /\ \A c \in Nat : c = crashes + 1 => MaxAttempts * c = Allowed + MaxAttempts
         /\ crashes = 0 => Allowed = 0
         /\ \A p \in Packages : tries[p] \in Nat /\ acks[p] \in Nat
<1>1. crashes \in Nat /\ MaxAttempts \in Nat /\ MaxAttempts >= 1
  BY ConstantsAssumption DEF Bounds
<1>2. \A m, c \in Nat : m * c \in Nat /\ m * (c + 1) = m * c + m /\ m * 0 = 0
  OBVIOUS
<1> QED
  BY <1>1, <1>2 DEF Allowed, Bounds

\* A hook begins, alone, with a package whose entry it will write.
LEMMA EnqueueWorks ==
  ASSUME IInv, Bounds, SInv, NEW h \in Hooks, NEW p \in Packages, Enqueue(h, p), ~overlapped'
  PROVE  SInv'
<1> DEFINE next == IF ledger[p].state = "PENDING" /\ "pending" \in where[p]
                   THEN [Idle EXCEPT !.step = "reclaim"]
                   ELSE [Idle EXCEPT !.step = "look", !.package = p, !.entry = ledger[p]]
<1>1. /\ hook[h].step = "idle" /\ ledger[p].state \notin Terminal
      /\ hook' = [hook EXCEPT ![h] = next]
      /\ ~overlapped /\ \A g \in Hooks : hook[g].step = "idle"
      /\ UNCHANGED <<where, ledger, crashes, tries, acks>>
  BY DEF Enqueue, Settled, Overlap
<1>2. Alone(h) /\ Work(h)
  BY <1>1, AloneLemma
<1>3. hook'[h] = next
  BY <1>1 DEF IInv
<1>4. /\ hook'[h].batch = {}
      /\ \/ hook'[h].step = "reclaim"
         \/ /\ hook'[h].step = "look" /\ hook'[h].package = p /\ hook'[h].entry = ledger[p]
            /\ ~(ledger[p].state = "PENDING" /\ "pending" \in where[p])
  BY <1>3 DEF Idle
<1> HIDE DEF next
<1>5. \A q \in Packages : ~Flying(h, q) /\ ~InHand(h, q)
  BY <1>1, <1>2 DEF Flying, InHand, Work, Waiting
<1>6. \A q \in Packages : Held(q)'
  BY <1>1, <1>2 DEF Work, Held
<1>7. Waiting(h)' /\ Marking(h)' /\ Upserting(h)' /\ Copied(h)'
  BY <1>1, <1>4 DEF Waiting, Marking, Upserting, Copied
<1>8. \A q \in Packages : ~Flying(h, q)' /\ ~Enqueuing(h, q)'
  BY <1>4 DEF Flying, Enqueuing
<1>9. \A q \in Packages :
        /\ AcksAre(q, FALSE)' /\ tries'[q] <= Allowed' + Spent(q)'
        /\ crashes' = 0 => Agrees(q)'
  BY <1>1, <1>2, <1>5 DEF Work, AcksAre, Allowed, Spent, Agrees
<1>10. Work(h)'
  BY <1>6, <1>7, <1>8, <1>9 DEF Work, AcksAre
<1> QED
  BY <1>1, <1>2, <1>10, WorkLemma

\* Look, when the payload is on its way already, and Finish: nothing is in hand.
LEMMA RestWorks ==
  ASSUME IInv, Bounds, SInv, ~overlapped, NEW h \in Hooks, NEW next \in HookStates,
         hook[h].step \in {"look", "deliver"}, hook[h].batch = {},
         hook' = [hook EXCEPT ![h] = next], next.batch = {}, next.step \in {"idle", "reclaim"},
         UNCHANGED <<where, ledger, crashes, tries, acks>>
  PROVE  SInv'
<1>1. Alone(h) /\ Work(h)
  BY AloneLemma
<1>2. hook'[h] = next
  BY DEF IInv
<1>3. \A q \in Packages : ~Flying(h, q) /\ ~InHand(h, q) /\ ~Flying(h, q)' /\ ~Enqueuing(h, q)'
  BY <1>2 DEF Flying, InHand, Enqueuing
<1>4. Waiting(h)' /\ Marking(h)' /\ Upserting(h)' /\ Copied(h)'
  BY <1>2 DEF Waiting, Marking, Upserting, Copied
<1>5. \A q \in Packages :
        /\ Held(q)' /\ AcksAre(q, FALSE)' /\ tries'[q] <= Allowed' + Spent(q)'
        /\ crashes' = 0 => Agrees(q)'
  BY <1>1, <1>3 DEF Work, Held, AcksAre, Allowed, Spent, Agrees
<1>6. Work(h)'
  BY <1>3, <1>4, <1>5 DEF Work, AcksAre
<1> QED
  BY <1>1, <1>6, WorkLemma

\* The payload is put into pending/, unless it is in publishing/ already.
LEMMA LookWorks ==
  ASSUME IInv, Bounds, SInv, ~overlapped, NEW h \in Hooks, Look(h)
  PROVE  SInv'
<1>0. PICK p \in Packages : p = hook[h].package
  BY DEF Look, IInv, Pending
<1> DEFINE next == [hook[h] EXCEPT !.step = "load", !.outcome = "ENQUEUE", !.entry = Fresh]
<1>1. /\ hook[h].step = "look" /\ p = hook[h].package
      /\ UNCHANGED <<ledger, crashes, tries, acks>>
  BY <1>0 DEF Look, history
<1>2. Alone(h) /\ Work(h) /\ hook[h] \in HookStates /\ Idle \in HookStates
  BY <1>1, AloneLemma, EntriesLemma DEF IInv, Idle, NoEntries, HookStates
<1>3. CASE hook[h].entry.state = "PENDING" /\ "publishing" \in where[p]
  <2> DEFINE rest == [Idle EXCEPT !.step = "reclaim"]
  <2>1. hook' = [hook EXCEPT ![h] = rest] /\ UNCHANGED where
    BY <1>0, <1>3 DEF Look
  <2>2. rest \in HookStates /\ rest.batch = {} /\ rest.step = "reclaim"
    BY <1>2 DEF HookStates, Idle
  <2>3. hook[h].batch = {}
    BY <1>1, <1>2 DEF Work, Waiting
  <2> HIDE DEF rest
  <2> QED
    BY <1>1, <2>1, <2>2, <2>3, RestWorks
<1>4. CASE ~(hook[h].entry.state = "PENDING" /\ "publishing" \in where[p])
  <2>1. where' = [where EXCEPT ![p] = @ \cup {"pending"}] /\ hook' = [hook EXCEPT ![h] = next]
    BY <1>0, <1>4 DEF Look
  <2>2. /\ hook'[h].step = "load" /\ hook'[h].outcome = "ENQUEUE" /\ hook'[h].entry = Fresh
        /\ hook'[h].package = p /\ hook'[h].batch = hook[h].batch
    BY <1>1, <1>2, <2>1 DEF IInv, HookStates
  <2> HIDE DEF next
  <2>3. /\ where'[p] = where[p] \cup {"pending"}
        /\ \A q \in Packages \ {p} : where'[q] = where[q]
    BY <1>1, <2>1 DEF IInv
  <2>4. /\ hook[h].batch = {} /\ ledger[p].state \notin Terminal
        /\ ledger[p].state = "PENDING" => where[p] \cap {"pending", "publishing"} = {}
        /\ ledger[p].state # "PENDING" => ledger[p] = NoEntry
    <3>1. ledger[p].state \in {"ABSENT", "PENDING"} \cup Terminal
      BY <1>1 DEF IInv, Entries
    <3> QED
      BY <1>1, <1>2, <1>4, <3>1 DEF Work, Waiting, Held
  <2>5. \A q \in Packages : Held(q)'
    BY <1>1, <1>2, <2>3, <2>4 DEF Work, Held
  <2>6. Waiting(h)' /\ Marking(h)' /\ Upserting(h)' /\ Copied(h)'
    BY <1>1, <2>2, <2>3, <2>4
       DEF Waiting, Marking, Upserting, Copied, Fresh, Home, Terminal
  <2>7. \A q \in Packages : /\ ~Flying(h, q) /\ ~InHand(h, q) /\ ~Flying(h, q)'
                            /\ Enqueuing(h, q)' => q = p
    BY <1>1, <2>2, <2>4 DEF Flying, InHand, Enqueuing
  <2>8. \A q \in Packages : AcksAre(q, FALSE)'
    BY <1>1, <1>2, <2>7 DEF Work, AcksAre
  <2>9. /\ Spent(p) = 0 /\ Spent(p)' \in Nat /\ Allowed' = Allowed
        /\ \A q \in Packages \ {p} : Spent(q)' = Spent(q)
    <3>1. ledger[p].attempt \in Nat
      BY <1>1, ConstantsAssumption DEF IInv, Entries
    <3>2. Spent(p) = 0
      BY <2>4 DEF Spent, NoEntry
    <3>3. Spent(p)' \in Nat
      <4>1. Spent(p)' \in {MaxAttempts, 0, ledger[p].attempt}
        BY <1>1 DEF Spent
      <4> QED
        BY <3>1, <4>1, AllowedLemma
    <3> QED
      BY <1>1, <2>3, <3>2, <3>3 DEF Spent, Allowed
  <2>10. \A q \in Packages : tries[q] <= Allowed + Spent(q)
    BY <1>2, <2>7 DEF Work
  <2>11. tries'[p] <= Allowed'
    BY <1>1, <2>9, <2>10, AllowedLemma
  <2>12. \A q \in Packages : tries'[q] <= Allowed' + Spent(q)'
    <3>1. tries'[p] <= Allowed' + Spent(p)'
      BY <1>1, <2>9, <2>11, AllowedLemma
    <3> QED
      BY <1>1, <2>9, <2>10, <3>1
  <2>13. ASSUME crashes' = 0, NEW q \in Packages
         PROVE  Agrees(q)' \/ InHand(h, q)'
    <3>1. Agrees(q)
      BY <1>1, <1>2, <2>7, <2>13 DEF Work
    <3>2. CASE q = p
      <4>1. where[p] = {}
        BY <2>4, <3>1, <3>2 DEF Agrees, Directory
      <4> QED
        BY <2>2, <2>3, <3>2, <4>1 DEF InHand, Home, Fresh
    <3>3. CASE q # p
      BY <1>1, <2>3, <3>1, <3>3 DEF Agrees
    <3> QED
      BY <3>2, <3>3
  <2>14. Work(h)'
    BY <2>5, <2>6, <2>7, <2>8, <2>11, <2>12, <2>13 DEF Work, AcksAre
  <2> QED
    BY <1>2, <2>1, <2>14, WorkLemma
<1> QED
  BY <1>3, <1>4

\* The ledger that is loaded is the one there is, as nobody else writes.
LEMMA LoadWorks ==
  ASSUME IInv, Bounds, SInv, ~overlapped, NEW h \in Hooks, Load(h)
  PROVE  SInv'
<1> DEFINE next == [hook[h] EXCEPT !.step = "write", !.loaded = ledger]
<1>1. /\ hook[h].step = "load" /\ hook' = [hook EXCEPT ![h] = next]
      /\ UNCHANGED <<where, ledger, crashes, tries, acks>>
  BY DEF Load, IInv, HookStates, history
<1>2. Alone(h) /\ Work(h)
  BY <1>1, AloneLemma
<1>3. /\ hook'[h].step = "write" /\ hook'[h].loaded = ledger
      /\ hook'[h].package = hook[h].package /\ hook'[h].batch = hook[h].batch
      /\ hook'[h].outcome = hook[h].outcome /\ hook'[h].entry = hook[h].entry
  BY <1>1 DEF IInv, HookStates
<1> HIDE DEF next
<1>4. Waiting(h)' /\ Marking(h)' /\ Upserting(h)' /\ Copied(h)'
  <2>1. \A q : Taken(q)' <=> Taken(q)
    BY <1>1 DEF Taken
  <2>2. Marking(h)'
    BY <1>1, <1>2, <1>3, <2>1 DEF Work, Marking
  <2>3. Upserting(h)'
    BY <1>1, <1>2, <1>3 DEF Work, Upserting
  <2>4. Waiting(h)' /\ Copied(h)'
    BY <1>1, <1>3 DEF Waiting, Copied
  <2> QED
    BY <2>2, <2>3, <2>4
<1>5. \A q \in Packages :
        /\ Flying(h, q)' <=> Flying(h, q)
        /\ Enqueuing(h, q)' <=> Enqueuing(h, q)
        /\ InHand(h, q)' <=> InHand(h, q)
  BY <1>1, <1>3 DEF Flying, Enqueuing, InHand
<1>6. \A q \in Packages : Held(q)' /\ (Agrees(q)' <=> Agrees(q)) /\ Spent(q)' = Spent(q)
  BY <1>1, <1>2 DEF Work, Held, Agrees, Spent
<1>7. Allowed' = Allowed
  BY <1>1 DEF Allowed
<1>8. \A q \in Packages : AcksAre(q, Flying(h, q) /\ hook[h].outcome = "ACK")'
  BY <1>1, <1>2, <1>3, <1>5 DEF Work, AcksAre
<1>9. Work(h)'
  BY <1>1, <1>2, <1>4, <1>5, <1>6, <1>7, <1>8 DEF Work, AcksAre
<1> QED
  BY <1>1, <1>2, <1>9, WorkLemma

\* A payload left in publishing/ goes back to pending/; its attempts stay in
\* the ledger.
LEMMA ReclaimWorks ==
  ASSUME IInv, Bounds, SInv, ~overlapped, NEW h \in Hooks, Reclaim(h)
  PROVE  SInv'
<1> DEFINE next == [hook[h] EXCEPT !.step = "claim"]
<1>1. /\ hook[h].step = "reclaim" /\ hook' = [hook EXCEPT ![h] = next]
      /\ UNCHANGED <<ledger, crashes, tries, acks>>
  BY DEF Reclaim, IInv, HookStates, history
<1>2. Alone(h) /\ Work(h)
  BY <1>1, AloneLemma
<1>3. hook'[h].step = "claim" /\ hook'[h].batch = {} /\ hook[h].batch = {}
  BY <1>1, <1>2 DEF IInv, HookStates, Work, Waiting
<1> HIDE DEF next
<1>4. \A q \in Packages :
        /\ "publishing" \notin where'[q]
        /\ "publishing" \notin where[q] => where'[q] = where[q]
        /\ where[q] \cap {"pending", "publishing"} = {} => where'[q] = where[q]
        /\ where'[q] \cap {"pending", "publishing"} = {} => where'[q] = where[q]
  BY DEF Reclaim, Move, IInv
<1>5. Waiting(h)' /\ Marking(h)' /\ Upserting(h)' /\ Copied(h)'
  BY <1>3, <1>4 DEF Waiting, Marking, Upserting, Copied
<1>6. \A q \in Packages : ~Flying(h, q) /\ ~InHand(h, q) /\ ~Flying(h, q)' /\ ~Enqueuing(h, q)'
  BY <1>1, <1>3 DEF Flying, InHand, Enqueuing
<1>7. \A q \in Packages : Held(q)' /\ Spent(q)' = Spent(q)
  BY <1>1, <1>2, <1>4 DEF Work, Held, Spent
<1>8. \A q \in Packages : Agrees(q) => Agrees(q)'
  <2>1. \A q \in Packages : ledger[q].state \in {"ABSENT", "PENDING"} \cup Terminal
    BY DEF IInv, Entries
  <2>2. \A q \in Packages : Agrees(q) => "publishing" \notin where[q]
    BY <1>2, <2>1 DEF Agrees, Directory, Terminal, Work, Held
  <2> QED
    BY <1>1, <1>4, <2>2 DEF Agrees
<1>9. \A q \in Packages :
        /\ AcksAre(q, FALSE)' /\ tries'[q] <= Allowed' + Spent(q)'
        /\ crashes' = 0 => Agrees(q)'
  BY <1>1, <1>2, <1>6, <1>7, <1>8 DEF Work, AcksAre, Allowed
<1>10. Work(h)'
  BY <1>5, <1>6, <1>7, <1>9 DEF Work, AcksAre
<1> QED
  BY <1>1, <1>2, <1>10, WorkLemma

\* The batch of a hook are the payloads it has moved to publishing/.
LEMMA ClaimWorks ==
  ASSUME IInv, Bounds, SInv, ~overlapped, NEW h \in Hooks, Claim(h)
  PROVE  SInv'
<1>0. PICK due \in SUBSET Packages : due = {p \in Packages : "pending" \in where[p] /\ ledger[p].due}
  OBVIOUS
<1> DEFINE next == [hook[h] EXCEPT !.step = "deliver", !.batch = due]
<1>1. /\ hook[h].step = "claim" /\ hook' = [hook EXCEPT ![h] = next]
      /\ where' = [p \in Packages |->
                     IF p \in due THEN Move(p, "pending", "publishing") ELSE where[p]]
      /\ UNCHANGED <<ledger, crashes, tries, acks>>
  BY <1>0 DEF Claim, IInv, HookStates, history
<1>2. Alone(h) /\ Work(h)
  BY <1>1, AloneLemma
<1>3. hook'[h].step = "deliver" /\ hook'[h].batch = due /\ hook[h].batch = {}
  BY <1>1, <1>2 DEF IInv, HookStates, Work, Waiting
<1> HIDE DEF next
<1>4. \A q \in Packages :
        /\ "publishing" \notin where[q]
        /\ q \in due => /\ "pending" \in where[q] /\ ledger[q].due /\ ledger[q].state \notin Terminal
                        /\ where'[q] = (where[q] \ {"pending"}) \cup {"publishing"}
        /\ q \notin due => where'[q] = where[q]
  BY <1>0, <1>1, <1>2 DEF Move, Work, Waiting, Held
<1>5. Waiting(h)' /\ Marking(h)' /\ Upserting(h)' /\ Copied(h)'
  <2>1. \A q \in due : Taken(q)'
    BY <1>1, <1>4 DEF Taken
  <2> QED
    BY <1>3, <2>1 DEF Waiting, Marking, Upserting, Copied
<1>6. \A q \in Packages : ~Flying(h, q) /\ ~InHand(h, q) /\ ~Flying(h, q)' /\ ~Enqueuing(h, q)'
  BY <1>1, <1>3 DEF Flying, InHand, Enqueuing
<1>7. \A q \in Packages : Held(q)' /\ Spent(q)' = Spent(q)
  BY <1>1, <1>2, <1>4 DEF Work, Held, Spent
<1>8. ASSUME NEW q \in Packages, Agrees(q)
      PROVE  Agrees(q)' \/ InHand(h, q)'
  <2>1. CASE q \in due
    <3>1. where[q] = {"pending"}
      BY <1>4, <1>8, <2>1 DEF Agrees
    <3> QED
      BY <1>3, <1>4, <2>1, <3>1 DEF InHand
  <2>2. CASE q \notin due
    BY <1>1, <1>4, <1>8, <2>2 DEF Agrees
  <2> QED
    BY <2>1, <2>2
<1>9. \A q \in Packages :
        /\ AcksAre(q, FALSE)' /\ tries'[q] <= Allowed' + Spent(q)'
        /\ crashes' = 0 => Agrees(q)' \/ InHand(h, q)'
  BY <1>1, <1>2, <1>6, <1>7, <1>8 DEF Work, AcksAre, Allowed
<1>10. Work(h)'
  BY <1>5, <1>6, <1>7, <1>9 DEF Work, AcksAre
<1> QED
  BY <1>1, <1>2, <1>10, WorkLemma

\* A delivery is charged to the attempt that is under way.
LEMMA DeliverWorks ==
  ASSUME IInv, Bounds, SInv, ~overlapped, NEW h \in Hooks, Deliver(h)
  PROVE  SInv'
<1>0. PICK p \in hook[h].batch, outcome \in {"ACK", "TERMINAL", "RETRYABLE"}, delivered \in BOOLEAN :
        /\ hook' = [hook EXCEPT ![h] = [Idle EXCEPT
             !.step = "mark", !.package = p, !.batch = hook[h].batch \ {p}, !.outcome = outcome]]
        /\ tries' = IF delivered /\ ~overlapped THEN [tries EXCEPT ![p] = @ + 1] ELSE tries
        /\ acks' = IF outcome = "ACK" /\ ~overlapped THEN [acks EXCEPT ![p] = @ + 1] ELSE acks
  BY DEF Deliver
<1> DEFINE next == [Idle EXCEPT
             !.step = "mark", !.package = p, !.batch = hook[h].batch \ {p}, !.outcome = outcome]
<1>1. /\ hook[h].step = "deliver" /\ hook' = [hook EXCEPT ![h] = next] /\ p \in Packages
      /\ UNCHANGED <<where, ledger, crashes>>
  BY <1>0 DEF Deliver, IInv, HookStates
<1>2. Alone(h) /\ Work(h)
  BY <1>1, AloneLemma
<1>3. /\ hook'[h].step = "mark" /\ hook'[h].package = p /\ hook'[h].outcome = outcome
      /\ hook'[h].batch = hook[h].batch \ {p}
  BY <1>1 DEF IInv, HookStates, Idle
<1> HIDE DEF next
<1>4. Taken(p) /\ \A q : Taken(q)' <=> Taken(q)
  BY <1>0, <1>1, <1>2 DEF Work, Marking, Taken
<1>5. Waiting(h)' /\ Marking(h)' /\ Upserting(h)' /\ Copied(h)'
  BY <1>0, <1>2, <1>3, <1>4 DEF Work, Waiting, Marking, Upserting, Copied
<1>6. \A q \in Packages : /\ ~Flying(h, q) /\ (Flying(h, q)' <=> q = p) /\ ~Enqueuing(h, q)'
                          /\ InHand(h, q) => InHand(h, q)'
  BY <1>0, <1>1, <1>3 DEF Flying, InHand, Enqueuing
<1>7. \A q \in Packages : Held(q)' /\ Spent(q)' = Spent(q) /\ (Agrees(q) => Agrees(q)')
  BY <1>1, <1>2 DEF Work, Held, Spent, Agrees
<1>8. /\ Allowed' = Allowed /\ Spent(p) = ledger[p].attempt /\ ledger'[p].attempt \in Nat
      /\ ledger[p].state # "PUBLISHED"
  <2>1. Allowed' = Allowed
    BY <1>1 DEF Allowed
  <2>2. ledger[p].state \notin Terminal /\ Spent(p) = ledger[p].attempt
    BY <1>4 DEF Spent, Taken
  <2>3. ledger[p] \in Entries /\ ledger'[p] = ledger[p]
    BY <1>1 DEF IInv
  <2>4. ledger[p].attempt \in Nat
    BY <2>3, ConstantsAssumption DEF Entries
  <2> QED
    BY <2>1, <2>2, <2>3, <2>4 DEF Terminal
<1>9. /\ tries'[p] <= tries[p] + 1 /\ acks'[p] <= acks[p] + 1 /\ (outcome # "ACK" => acks'[p] = acks[p])
      /\ \A q \in Packages \ {p} : tries'[q] = tries[q] /\ acks'[q] = acks[q]
      /\ tries'[p] \in Nat /\ acks'[p] \in Nat
  BY <1>0, <1>1 DEF Bounds
<1>10. ASSUME NEW q \in Packages
       PROVE  AcksAre(q, Flying(h, q) /\ hook[h].outcome = "ACK")'
  <2>1. acks[q] <= crashes + 1 /\ (acks[q] <= crashes \/ ledger[q].state = "PUBLISHED")
    BY <1>2, <1>6 DEF Work, AcksAre
  <2>2. CASE q = p
    BY <1>1, <1>3, <1>6, <1>8, <1>9, <2>1, <2>2, AllowedLemma DEF AcksAre
  <2>3. CASE q # p
    BY <1>1, <1>6, <1>9, <2>1, <2>3 DEF AcksAre
  <2> QED
    BY <2>2, <2>3
<1>11. ASSUME NEW q \in Packages
       PROVE  /\ ~Flying(h, q)' => tries'[q] <= Allowed' + Spent(q)'
              /\ Flying(h, q)' => tries'[q] <= Allowed' + ledger'[q].attempt + 1
  <2>1. tries[q] <= Allowed + Spent(q)
    BY <1>2, <1>6 DEF Work
  <2>2. CASE q = p
    BY <1>1, <1>6, <1>8, <1>9, <2>1, <2>2, AllowedLemma
  <2>3. CASE q # p
    BY <1>1, <1>6, <1>7, <1>8, <1>9, <2>1, <2>3
  <2> QED
    BY <2>2, <2>3
<1>12. Work(h)'
  BY <1>1, <1>2, <1>5, <1>6, <1>7, <1>10, <1>11 DEF Work
<1> QED
  BY <1>1, <1>2, <1>12, WorkLemma

\* A payload is moved before the ledger says so, and the hook will say so.
LEMMA MarkWorks ==
  ASSUME IInv, Bounds, SInv, ~overlapped, NEW h \in Hooks, Mark(h)
  PROVE  SInv'
<1>0. PICK p \in Packages : p = hook[h].package
  BY DEF Mark, IInv, Pending
<1>a. PICK entry : entry = Marked(ledger[p], hook[h].outcome)
  OBVIOUS
<1> DEFINE next == [hook[h] EXCEPT !.step = "load", !.entry = entry]
<1>1. hook[h].step = "mark" /\ UNCHANGED <<ledger, crashes, tries, acks>>
  BY DEF Mark, history
<1>2. Alone(h) /\ Work(h)
  BY <1>1, AloneLemma
<1>3. Taken(p) /\ hook[h].outcome \in {"ACK", "TERMINAL", "RETRYABLE"}
  BY <1>0, <1>1, <1>2 DEF Work, Marking
<1>4. /\ hook' = [hook EXCEPT ![h] = next]
      /\ where' = [where EXCEPT ![p] = Move(p, "publishing", Home(entry.state))]
  BY <1>0, <1>a, <1>3 DEF Mark, Taken
<1>5. /\ hook'[h].step = "load" /\ hook'[h].entry = entry
      /\ hook'[h].package = p /\ hook'[h].batch = hook[h].batch
      /\ hook'[h].outcome = hook[h].outcome
  BY <1>0, <1>4 DEF IInv, HookStates
<1> HIDE DEF next
<1>6. /\ where'[p] = (where[p] \ {"publishing"}) \cup {Home(entry.state)}
      /\ \A q \in Packages \ {p} : where'[q] = where[q]
  BY <1>4 DEF IInv, Move
<1>7. entry.state \in {"PENDING"} \cup Terminal
  BY <1>a, <1>3, EntriesLemma DEF IInv
<1>8. p \notin hook[h].batch /\ \A q \in hook[h].batch : q \in Packages /\ Taken(q)'
  BY <1>0, <1>1, <1>2, <1>6 DEF Work, Marking, Taken, IInv, HookStates
<1>9. Upserting(h)'
  <2>1. Home(entry.state) \in {"pending", "published", "failed"}
    BY DEF Home
  <2>2. entry.state \in Terminal => where'[p] \cap {"pending", "publishing"} = {}
    BY <1>3, <1>6 DEF Taken, Home, Terminal
  <2> QED
    BY <1>1, <1>a, <1>3, <1>5, <1>6, <1>7, <2>1, <2>2 DEF Upserting, Taken, Terminal
<1>10. Waiting(h)' /\ Marking(h)' /\ Copied(h)'
  BY <1>5, <1>8 DEF Waiting, Marking, Copied
<1>11. \A q \in Packages :
         /\ Flying(h, q)' <=> Flying(h, q)
         /\ ~Enqueuing(h, q)' /\ (Flying(h, q) <=> q = p)
  BY <1>0, <1>1, <1>3, <1>5 DEF Flying, Enqueuing
<1>12. \A q \in Packages : Held(q)' /\ (q # p => Spent(q)' = Spent(q) /\ (Agrees(q) => Agrees(q)'))
  BY <1>1, <1>2, <1>3, <1>6 DEF Work, Held, Spent, Agrees, Taken
<1>13. ASSUME crashes' = 0, NEW q \in Packages
       PROVE  Agrees(q)' \/ InHand(h, q)'
  <2>1. Agrees(q) \/ InHand(h, q)
    BY <1>1, <1>2, <1>13 DEF Work
  <2>2. CASE q = p
    <3>1. ledger[p].state \in {"ABSENT", "PENDING"} \cup Terminal
      BY DEF IInv, Entries
    <3>2. ~Agrees(p)
      BY <1>2, <1>3, <3>1 DEF Agrees, Taken, Directory, Work, Held
    <3>3. where[p] = {"publishing"}
      BY <1>1, <2>1, <2>2, <3>2 DEF InHand
    <3> QED
      BY <1>5, <1>6, <2>2, <3>3 DEF InHand
  <2>3. CASE q # p
    BY <1>0, <1>1, <1>5, <1>6, <1>12, <2>1, <2>3 DEF InHand
  <2> QED
    BY <2>2, <2>3
<1>14. \A q \in Packages : AcksAre(q, Flying(h, q) /\ hook[h].outcome = "ACK")'
  BY <1>1, <1>2, <1>5, <1>11 DEF Work, AcksAre
<1>15. ASSUME NEW q \in Packages
       PROVE  /\ ~Flying(h, q)' => tries'[q] <= Allowed' + Spent(q)'
              /\ Flying(h, q)' => tries'[q] <= Allowed' + ledger'[q].attempt + 1
  BY <1>1, <1>2, <1>11, <1>12 DEF Work, Allowed
<1>16. Work(h)'
  BY <1>9, <1>10, <1>11, <1>12, <1>13, <1>14, <1>15 DEF Work
<1> QED
  BY <1>2, <1>4, <1>16, WorkLemma

\* The ledger says what the hook has done with the package.
LEMMA WriteWorks ==
  ASSUME IInv, Bounds, SInv, ~overlapped, NEW h \in Hooks, Write(h)
  PROVE  SInv'
<1>0. PICK p \in Packages : p = hook[h].package
  BY DEF Write, IInv, Pending
<1>a. PICK entry, outcome, batch, loaded :
        /\ entry = hook[h].entry /\ outcome = hook[h].outcome
        /\ batch = hook[h].batch /\ loaded = hook[h].loaded
  OBVIOUS
<1> DEFINE next == [Idle EXCEPT !.step = IF outcome = "ENQUEUE" THEN "reclaim" ELSE "deliver",
                                !.batch = batch]
<1>1. /\ hook[h].step = "write" /\ hook' = [hook EXCEPT ![h] = next]
      /\ ledger' = [loaded EXCEPT ![p] = entry]
      /\ UNCHANGED <<where, crashes, tries, acks>>
  BY <1>0, <1>a DEF Write, history
<1>2. Alone(h) /\ Work(h)
  BY <1>1, AloneLemma
<1>3. /\ hook'[h].step = IF outcome = "ENQUEUE" THEN "reclaim" ELSE "deliver"
      /\ hook'[h].batch = batch
  BY <1>1 DEF IInv, HookStates, Idle
<1> HIDE DEF next
<1>4. /\ ledger'[p] = entry /\ \A q \in Packages \ {p} : ledger'[q] = loaded[q]
      /\ batch \subseteq Packages
  BY <1>a, <1>1 DEF IInv, HookStates
<1>5. \A q \in Packages :
        /\ loaded[q].state = ledger[q].state /\ loaded[q].attempt = ledger[q].attempt
        /\ loaded[q] = ledger[q] \/ (ledger[q].state = "PENDING" /\ q \notin batch)
  BY <1>a, <1>1, <1>2 DEF Work, Copied
<1>6. /\ ledger[p].state \notin Terminal /\ entry.state # "ABSENT"
      /\ Home(entry.state) \in where[p]
      /\ entry.state \in Terminal => where[p] \cap {"pending", "publishing"} = {}
      /\ outcome = "ENQUEUE" => entry = Fresh /\ batch = {}
      /\ outcome # "ENQUEUE" => /\ outcome \in {"ACK", "TERMINAL", "RETRYABLE"}
                                /\ entry = Marked(ledger[p], outcome) /\ ledger[p].due
  BY <1>0, <1>a, <1>1, <1>2 DEF Work, Upserting
<1>7. p \notin batch /\ \A q \in batch : Taken(q)'
  <2>1. p \notin batch /\ \A q \in batch : Taken(q)
    BY <1>0, <1>a, <1>1, <1>2 DEF Work, Marking
  <2> QED
    BY <1>1, <1>4, <1>5, <2>1 DEF Taken
<1>8. /\ ledger[p].attempt \in 0 .. MaxAttempts - 1 /\ entry.state \in {"PENDING"} \cup Terminal
      /\ entry.attempt \in Nat
      /\ ledger[p] \in Entries /\ entry \in Entries
  BY <1>a, <1>6, ConstantsAssumption DEF IInv, Entries, HookStates, Terminal
<1>9. outcome # "ENQUEUE" =>
        /\ entry.state \in Terminal => entry.due
        /\ entry.state = "PENDING" => entry.attempt = ledger[p].attempt + 1
        /\ outcome = "ACK" => entry.state = "PUBLISHED"
  <2>1. Counted(ledger[p].attempt) = ledger[p].attempt + 1
    BY <1>8, ConstantsAssumption DEF Counted
  <2> HIDE DEF Counted
  <2>2. CASE outcome = "ACK"
    BY <1>6, <1>8, <2>2 DEF Marked, Entries
  <2>3. CASE outcome = "TERMINAL"
    BY <1>6, <1>8, <2>3 DEF Marked, Entries
  <2>4. CASE outcome = "RETRYABLE"
    <3>1. entry = Retried(ledger[p]) /\ ledger[p].due
      BY <1>6, <2>4 DEF Marked
    <3>2. \/ entry = [state |-> "FAILED", attempt |-> ledger[p].attempt + 1, due |-> ledger[p].due]
          \/ entry = [state |-> "PENDING", attempt |-> ledger[p].attempt + 1, due |-> FALSE]
      BY <2>1, <3>1 DEF Retried
    <3> QED
      BY <2>4, <3>1, <3>2 DEF Terminal
  <2> QED
    BY <1>6, <2>2, <2>3, <2>4
<1>10. Waiting(h)' /\ Marking(h)' /\ Upserting(h)' /\ Copied(h)'
  BY <1>3, <1>6, <1>7 DEF Waiting, Marking, Upserting, Copied
<1>11. \A q \in Packages :
         /\ ~Flying(h, q)' /\ ~Enqueuing(h, q)'
         /\ q # p => ~Flying(h, q) /\ (InHand(h, q) => InHand(h, q)')
  BY <1>0, <1>a, <1>1, <1>3, <1>6 DEF Flying, Enqueuing, InHand
<1>12. \A q \in Packages : Held(q)'
  <2>1. Held(p)'
    BY <1>1, <1>4, <1>6, <1>8, <1>9 DEF Held, Fresh, Terminal
  <2>2. ASSUME NEW q \in Packages, q # p
        PROVE  Held(q)'
    <3>1. Held(q) /\ ledger'[q] = loaded[q]
      BY <1>2, <1>4, <2>2 DEF Work
    <3> QED
      BY <1>1, <1>5, <3>1 DEF Held, Terminal
  <2> QED
    BY <2>1, <2>2
<1>13. \A q \in Packages \ {p} : Spent(q)' = Spent(q)
  BY <1>1, <1>4, <1>5 DEF Spent
<1>14. Allowed' = Allowed /\ tries' = tries
  BY <1>1 DEF Allowed
<1>15. tries[p] <= Allowed + Spent(p)'
  <2>1. CASE outcome = "ENQUEUE"
    <3>1. tries[p] <= Allowed
      BY <1>0, <1>a, <1>1, <1>2, <2>1 DEF Work, Enqueuing
    <3>2. Spent(p)' = 0
      BY <1>4, <1>6, <2>1 DEF Spent, Fresh, Terminal
    <3> QED
      BY <3>1, <3>2, AllowedLemma
  <2>2. CASE outcome # "ENQUEUE"
    <3>1. tries[p] <= Allowed + ledger[p].attempt + 1
      BY <1>0, <1>a, <1>1, <1>2, <2>2 DEF Work, Flying
    <3>2. CASE entry.state \in Terminal
      <4>1. Spent(p)' = MaxAttempts
        BY <1>4, <3>2 DEF Spent
      <4> QED
        BY <1>8, <3>1, <4>1, AllowedLemma
    <3>3. CASE entry.state = "PENDING"
      <4>1. "pending" \in where'[p]
        BY <1>1, <1>6, <3>3 DEF Home
      <4>2. Spent(p)' = ledger[p].attempt + 1
        BY <1>4, <1>9, <2>2, <3>3, <4>1 DEF Spent, Terminal
      <4> QED
        BY <1>8, <3>1, <4>2, AllowedLemma
    <3> QED
      BY <1>8, <3>2, <3>3
  <2> QED
    BY <2>1, <2>2
<1>16. ASSUME NEW q \in Packages
       PROVE  tries'[q] <= Allowed' + Spent(q)'
  <2>1. CASE q = p
    BY <1>14, <1>15, <2>1
  <2>2. CASE q # p
    BY <1>2, <1>11, <1>13, <1>14, <2>2 DEF Work
  <2> QED
    BY <2>1, <2>2
<1>17. ASSUME NEW q \in Packages
       PROVE  AcksAre(q, FALSE)'
  <2>1. AcksAre(q, Flying(h, q) /\ hook[h].outcome = "ACK")
    BY <1>2 DEF Work
  <2>2. CASE q = p
    BY <1>a, <1>1, <1>4, <1>6, <1>9, <2>1, <2>2 DEF AcksAre, Terminal
  <2>3. CASE q # p
    BY <1>1, <1>4, <1>5, <1>11, <2>1, <2>3 DEF AcksAre
  <2> QED
    BY <2>2, <2>3
<1>18. ASSUME crashes' = 0, NEW q \in Packages
       PROVE  Agrees(q)' \/ InHand(h, q)'
  <2>1. Agrees(q) \/ InHand(h, q)
    BY <1>1, <1>2, <1>18 DEF Work
  <2>2. CASE q = p
    <3>1. where[p] = {Home(entry.state)}
      <4>1. CASE Agrees(p)
        <5>1. ledger[p].state \in {"ABSENT", "PENDING"}
          BY <1>6, <1>8 DEF Entries, Terminal
        <5>2. where[p] \subseteq {"pending"}
          BY <1>2, <4>1, <5>1 DEF Agrees, Directory, Work, Held
        <5> QED
          BY <1>6, <5>2
      <4>2. CASE InHand(h, p)
        BY <1>0, <1>a, <1>1, <1>7, <4>2 DEF InHand
      <4> QED
        BY <2>1, <2>2, <4>1, <4>2
    <3>2. Agrees(p)'
      BY <1>1, <1>4, <1>6, <1>8, <3>1 DEF Agrees, Directory, Home, NoEntry, Terminal
    <3> QED
      BY <2>2, <3>2
  <2>3. CASE q # p
    <3>1. Held(q) /\ ledger'[q] = loaded[q] /\ loaded[q].state = ledger[q].state
      BY <1>2, <1>4, <1>5, <2>3 DEF Work
    <3>2. ledger'[q] = NoEntry <=> ledger[q] = NoEntry
      BY <1>5, <3>1 DEF Held, NoEntry
    <3>3. Agrees(q) => Agrees(q)'
      BY <1>1, <3>1, <3>2 DEF Agrees
    <3> QED
      BY <1>11, <2>1, <2>3, <3>3
  <2> QED
    BY <2>2, <2>3
<1>19. Work(h)'
  BY <1>10, <1>11, <1>12, <1>16, <1>17, <1>18 DEF Work, AcksAre
<1> QED
  BY <1>1, <1>2, <1>19, WorkLemma

\* What a stopped hook had in its hands is charged to the crash.
LEMMA CrashWorks ==
  ASSUME IInv, Bounds, SInv, ~overlapped, NEW h \in Hooks, Crash(h)
  PROVE  SInv'
<1>1. /\ hook[h].step # "idle" /\ hook' = [hook EXCEPT ![h] = Idle]
      /\ crashes' = crashes + 1 /\ UNCHANGED <<where, ledger, tries, acks>>
  BY DEF Crash
<1>2. Alone(h) /\ Work(h)
  BY <1>1, AloneLemma
<1>3. hook'[h] = Idle
  BY <1>1 DEF IInv
<1>4. Waiting(h)' /\ Marking(h)' /\ Upserting(h)' /\ Copied(h)'
  BY <1>3 DEF Waiting, Marking, Upserting, Copied, Idle
<1>5. \A q \in Packages : ~Flying(h, q)' /\ ~Enqueuing(h, q)'
  BY <1>3 DEF Flying, Enqueuing, Idle
<1>6. Allowed' = Allowed + MaxAttempts
  BY <1>1, AllowedLemma DEF Allowed
<1>7. ASSUME NEW q \in Packages
      PROVE  tries'[q] <= Allowed' + Spent(q)'
  <2>1. /\ ledger[q].attempt \in Nat /\ Spent(q)' = Spent(q)
        /\ ledger[q].state \notin Terminal => ledger[q].attempt <= MaxAttempts - 1
    BY <1>1, ConstantsAssumption DEF IInv, Entries, Spent, Terminal
  <2>2. Spent(q) \in Nat /\ Spent(q) <= MaxAttempts
    BY <2>1, AllowedLemma DEF Spent
  <2>3. CASE Flying(h, q)
    <3>1. ledger[q].state \notin Terminal
      BY <1>2, <2>3 DEF Work, Marking, Upserting, Taken, Flying
    <3>2. tries[q] <= Allowed + ledger[q].attempt + 1
      BY <1>2, <2>3 DEF Work
    <3> QED
      BY <1>1, <1>6, <2>1, <2>2, <3>1, <3>2, AllowedLemma
  <2>4. CASE ~Flying(h, q)
    <3>1. tries[q] <= Allowed + Spent(q)
      BY <1>2, <2>4 DEF Work
    <3> QED
      BY <1>1, <1>6, <2>1, <2>2, <3>1, AllowedLemma
  <2> QED
    BY <2>3, <2>4
<1>8. \A q \in Packages : AcksAre(q, FALSE)'
  BY <1>1, <1>2, AllowedLemma DEF Work, AcksAre
<1>9. \A q \in Packages : Held(q)'
  BY <1>1, <1>2 DEF Work, Held
<1>10. crashes' # 0
  BY <1>1, AllowedLemma
<1>11. Work(h)'
  BY <1>4, <1>5, <1>7, <1>8, <1>9, <1>10 DEF Work, AcksAre
<1> QED
  BY <1>1, <1>2, <1>11, WorkLemma

\* A hook that ends has nothing in its hands.
LEMMA FinishWorks ==
  ASSUME IInv, Bounds, SInv, ~overlapped, NEW h \in Hooks, Finish(h)
  PROVE  SInv'
<1>1. Idle \in HookStates /\ Idle.batch = {} /\ Idle.step = "idle"
  BY EntriesLemma DEF Idle, NoEntries, HookStates
<1>2. /\ hook[h].step = "deliver" /\ hook[h].batch = {} /\ hook' = [hook EXCEPT ![h] = Idle]
      /\ UNCHANGED <<where, ledger, crashes, tries, acks>>
  BY DEF Finish, history
<1> QED
  BY <1>1, <1>2, RestWorks

\* The end of a backoff changes nothing that hooks count on.
LEMMA ElapseWorks ==
  ASSUME IInv, Bounds, SInv, ~overlapped, NEW p \in Packages, Elapse(p)
  PROVE  SInv'
<1>1. /\ ~ledger[p].due /\ ledger' = [ledger EXCEPT ![p] = [ledger[p] EXCEPT !.due = TRUE]]
      /\ UNCHANGED <<where, hook, crashes, tries, acks>>
  BY DEF Elapse, history, IInv
<1>2. /\ \A q \in Packages \ {p} : ledger'[q] = ledger[q]
      /\ \A q \in Packages : ledger'[q].state = ledger[q].state /\ ledger'[q].attempt = ledger[q].attempt
  BY <1>1 DEF IInv, Entries
<1>3. ledger[p].state = "PENDING" /\ ledger[p] # NoEntry /\ ledger'[p] # NoEntry
  BY <1>1, <1>2 DEF SInv, Sequential, Held, IInv, Entries, NoEntry
<1>4. \A q \in Packages : Taken(q) => Taken(q)' /\ q # p
  BY <1>1, <1>2 DEF Taken
<1>5. \A q \in Packages : /\ Spent(q)' = Spent(q) /\ (Agrees(q)' <=> Agrees(q))
                          /\ Held(q)'
  BY <1>1, <1>2, <1>3 DEF Spent, Agrees, Held, SInv, Sequential, Terminal
<1>6. \A h \in Hooks, q \in Packages :
        /\ Flying(h, q)' <=> Flying(h, q)
        /\ Enqueuing(h, q)' <=> Enqueuing(h, q)
        /\ InHand(h, q)' <=> InHand(h, q)
  BY <1>1 DEF Flying, Enqueuing, InHand
<1>7. ASSUME NEW h \in Hooks
      PROVE  Waiting(h)' /\ Marking(h)' /\ Upserting(h)' /\ Copied(h)'
  <2>1. Waiting(h) /\ Marking(h) /\ Upserting(h) /\ Copied(h) /\ Pending(h)
    BY DEF SInv, Sequential, IInv
  <2>2. hook'[h] = hook[h] /\ hook[h].batch \subseteq Packages
    BY <1>1 DEF IInv, HookStates
  <2>3. Waiting(h)'
    BY <1>1, <1>2, <2>1, <2>2 DEF Waiting, Pending
  <2>4. Marking(h)'
    BY <1>1, <1>4, <2>1, <2>2 DEF Marking, Pending
  <2>5. Upserting(h)'
    <3>1. ASSUME hook[h].step \in {"load", "write"}, hook[h].outcome # "ENQUEUE"
          PROVE  hook[h].package # p
      BY <1>1, <2>1, <3>1 DEF Upserting
    <3> QED
      BY <1>1, <1>2, <2>1, <2>2, <3>1 DEF Upserting, Pending
  <2>6. Copied(h)'
    <3>1. p \notin hook[h].batch
      BY <1>1, <2>1 DEF Marking, Taken
    <3> QED
      BY <1>2, <1>3, <2>1, <2>2, <3>1 DEF Copied
  <2> QED
    BY <2>3, <2>4, <2>5, <2>6
<1>8. Sequential'
  BY <1>1, <1>5, <1>7 DEF SInv, Sequential, OneAtATime
<1>9. Allowed' = Allowed
  BY <1>1 DEF Allowed
<1>10. ASSUME NEW q \in Packages
       PROVE  AcksCounted(q)' /\ TriesCounted(q)' /\ (crashes' = 0 => Accounted(q)')
  <2>1. AcksCounted(q)'
    BY <1>1, <1>2, <1>6 DEF SInv, AcksCounted, AcksAre
  <2>2. TriesCounted(q)'
    BY <1>1, <1>2, <1>5, <1>6, <1>9 DEF SInv, TriesCounted
  <2>3. crashes' = 0 => Accounted(q)'
    BY <1>1, <1>5, <1>6 DEF SInv, Accounted
  <2> QED
    BY <2>1, <2>2, <2>3
<1> QED
  BY <1>8, <1>10 DEF SInv

\* No hook is at work.
LEMMA SequentialInit == Init => SInv
<1> SUFFICES ASSUME Init PROVE SInv
  OBVIOUS
<1>1. /\ \A h \in Hooks : hook[h] = Idle
      /\ \A p \in Packages : where[p] = {} /\ ledger[p] = NoEntry /\ acks[p] = 0 /\ tries[p] = 0
      /\ crashes = 0
  BY DEF Init, NoEntries, Zero
<1>2. Sequential
  BY <1>1 DEF Sequential, OneAtATime, Held, Waiting, Marking, Upserting, Copied, Idle, NoEntry,
    Terminal
<1>3. ASSUME NEW p \in Packages
      PROVE  AcksCounted(p) /\ TriesCounted(p) /\ Accounted(p)
  <2>1. AcksCounted(p) /\ Accounted(p)
    BY <1>1 DEF AcksCounted, AcksAre, Accounted, Agrees
  <2>2. \A h \in Hooks : ~Flying(h, p) /\ ~Enqueuing(h, p)
    BY <1>1 DEF Flying, Enqueuing, Idle
  <2>3. Spent(p) = 0
    BY <1>1 DEF Spent, NoEntry, Terminal
  <2>4. Allowed = 0
    BY <1>1, ConstantsAssumption DEF Allowed
  <2> QED
    BY <1>1, <2>1, <2>2, <2>3, <2>4 DEF TriesCounted
<1> QED
  BY <1>2, <1>3 DEF SInv

\* Hooks that do not overlap account for every delivery, step by step.
LEMMA SequentialNext == IInv /\ Bounds /\ SInv /\ [Next]_vars => SInv'
<1> SUFFICES ASSUME IInv, Bounds, SInv, [Next]_vars, ~overlapped' PROVE SInv'
  BY DEF SInv
<1>1. ASSUME NEW h \in Hooks, NEW p \in Packages, Enqueue(h, p)
      PROVE  SInv'
  BY <1>1, EnqueueWorks
<1>2. CASE overlapped' = overlapped
  <2>1. ~overlapped
    BY <1>2
  <2>2. CASE UNCHANGED vars
    <3>1. UNCHANGED <<where, ledger, hook, crashes, tries, acks>>
      BY <2>2 DEF vars, history
    <3>2. Sequential'
      BY <2>1, <3>1 DEF SInv, Sequential, OneAtATime, Held, Waiting, Marking, Taken, Upserting,
        Copied
    <3>3. \A p \in Packages : AcksCounted(p)' /\ TriesCounted(p)'
      BY <2>1, <3>1 DEF SInv, AcksCounted, AcksAre, TriesCounted, Flying, Enqueuing, Spent,
        Allowed
    <3>4. crashes = 0 => \A p \in Packages : Accounted(p)'
      BY <2>1, <3>1 DEF SInv, Accounted, Agrees, InHand
    <3> QED
      BY <3>1, <3>2, <3>3, <3>4 DEF SInv
  <2>3. CASE \E h \in Hooks, p \in Packages : Enqueue(h, p)
    BY <1>1, <2>3
  <2>4. CASE \E h \in Hooks : Look(h) \/ Load(h) \/ Write(h) \/ Reclaim(h) \/ Claim(h)
                              \/ Deliver(h) \/ Mark(h) \/ Finish(h) \/ Crash(h)
    BY <2>1, <2>4, LookWorks, LoadWorks, WriteWorks, ReclaimWorks, ClaimWorks, DeliverWorks,
      MarkWorks, FinishWorks, CrashWorks
  <2>5. CASE \E p \in Packages : Elapse(p)
    BY <2>1, <2>5, ElapseWorks
  <2> QED
    BY <2>2, <2>3, <2>4, <2>5 DEF Next
<1>3. CASE overlapped' # overlapped
  <2>1. \E h \in Hooks, p \in Packages : Enqueue(h, p)
    BY <1>3 DEF Next, Look, Load, Write, Reclaim, Claim, Deliver, Mark, Finish, Crash, Elapse,
      vars, history
  <2> QED
    BY <1>1, <2>1
<1> QED
  BY <1>2, <1>3

-----------------------------------------------------------------------------
(* What the invariant says of hooks at rest, and of what is final.         *)

\* At rest the invariant is the property.
LEMMA SafeLemma == IInv /\ Bounds /\ SInv => DeliverySafe
<1> SUFFICES ASSUME IInv, Bounds, SInv PROVE DeliverySafe
  OBVIOUS
<1>1. AgreeAtRest
  <2> SUFFICES ASSUME crashes = 0, ~overlapped, \A h \in Hooks : hook[h] = Idle,
                      NEW p \in Packages
               PROVE  Agrees(p)
    BY DEF AgreeAtRest, Agrees
  <2>1. \A h \in Hooks : ~InHand(h, p)
    BY DEF InHand, Idle
  <2> QED
    BY <2>1 DEF SInv, Accounted
<1>2. ASSUME ~overlapped, NEW p \in Packages
      PROVE  acks[p] <= 1 + crashes /\ tries[p] <= MaxAttempts * (1 + crashes)
  <2>1. crashes \in Nat /\ tries[p] \in Nat /\ acks[p] \in Nat /\ Allowed \in Nat
    BY AllowedLemma
  <2>2. MaxAttempts * (1 + crashes) = Allowed + MaxAttempts
    BY AllowedLemma
  <2>3. acks[p] <= crashes + 1
    BY <1>2 DEF SInv, AcksCounted, AcksAre
  <2>4. tries[p] <= Allowed + MaxAttempts
    <3>1. /\ ledger[p].attempt \in Nat
          /\ ledger[p].state \notin Terminal => ledger[p].attempt <= MaxAttempts - 1
      BY ConstantsAssumption DEF IInv, Entries, Terminal
    <3>2. TriesCounted(p)
      BY <1>2 DEF SInv
    <3>3. CASE \E h \in Hooks : Flying(h, p)
      <4>1. ledger[p].state \notin Terminal
        BY <1>2, <3>3 DEF SInv, Sequential, Marking, Upserting, Taken, Flying
      <4> QED
        BY <2>1, <3>1, <3>2, <3>3, <4>1, AllowedLemma DEF TriesCounted
    <3>4. CASE \A h \in Hooks : ~Flying(h, p)
      <4>1. Spent(p) \in Nat /\ Spent(p) <= MaxAttempts
        BY <3>1, AllowedLemma DEF Spent
      <4> QED
        BY <2>1, <3>2, <3>4, <4>1, AllowedLemma DEF TriesCounted
    <3> QED
      BY <3>3, <3>4
  <2> QED
    BY <2>1, <2>2, <2>3, <2>4
<1> QED
  BY <1>1, <1>2 DEF DeliverySafe, RepeatsCostACrash

\* Nothing is rewritten that the ledger calls published or failed.
Final ==
  ~overlapped' =>
    \A p \in Packages : ledger[p].state \in Terminal => ledger'[p] = ledger[p]

\* The hook at work never replaces a terminal entry.
LEMMA FinalStep == IInv /\ SInv /\ [Next]_vars => [Final]_vars
<1> SUFFICES ASSUME IInv, SInv, Next, ~overlapped',
                    NEW q \in Packages, ledger[q].state \in Terminal
             PROVE  ledger'[q] = ledger[q]
  BY DEF Final
<1>1. ASSUME NEW h \in Hooks, Write(h)
      PROVE  ledger'[q] = ledger[q]
  <2>1. hook[h].step = "write" /\ ~overlapped
    BY <1>1 DEF Write, history
  <2>2. ledger' = [hook[h].loaded EXCEPT ![hook[h].package] = hook[h].entry]
    BY <1>1 DEF Write
  <2>3. /\ hook[h].package # q
        /\ hook[h].loaded \in [Packages -> Entries]
    BY <2>1 DEF SInv, Sequential, Upserting, IInv, HookStates
  <2>4. ledger'[q] = hook[h].loaded[q]
    BY <2>2, <2>3
  <2>5. hook[h].loaded[q] = ledger[q]
    BY <2>1 DEF SInv, Sequential, Copied, Terminal
  <2> QED
    BY <2>4, <2>5
<1>2. ASSUME NEW p \in Packages, Elapse(p)
      PROVE  ledger'[q] = ledger[q]
  <2>1. p # q
    BY <1>2 DEF Elapse, SInv, Sequential, Held, history
  <2> QED
    BY <1>2, <2>1 DEF Elapse, IInv
<1>3. CASE UNCHANGED ledger
  BY <1>3
<1> QED
  BY <1>1, <1>2, <1>3
     DEF Next, Enqueue, Look, Load, Reclaim, Claim, Deliver, Mark, Finish, Crash

-----------------------------------------------------------------------------

\* While hooks run one at a time: what is published or failed stays so, ledger
\* and directories agree after runs that no crash cut short, and only a crash
\* makes a package be delivered again after its acknowledgement or more often
\* than MaxAttempts.
THEOREM DeliveryIsSafe == Spec => TerminalIsFinal
<1>1. Spec => [](IInv /\ Bounds /\ SInv)
  BY InitLemma, NextLemma, BoundsInit, BoundsNext, SequentialInit, SequentialNext, PTL DEF Spec
<1>2. Spec => []DeliverySafe
  BY <1>1, SafeLemma, PTL
<1>3. Spec => [][Final]_vars
  BY <1>1, FinalStep, PTL DEF Spec
<1> QED
  BY <1>2, <1>3, PTL DEF TerminalIsFinal, Final

-----------------------------------------------------------------------------
(* The packages, see KnowledgePackages.                                    *)

\* The bounds of the packages.
LEMMA PackageBounds == {Bound, MaxBuilds, MaxTurns} \subseteq Nat
BY PackagesAssumption, Zenon DEF K!PackagesAssumption

\* A text of a content, clipped, is no longer than an excerpt may be.
LEMMA ClippedIsShort ==
  ASSUME NEW text \in K!Texts \cup {None}
  PROVE  K!Clipped(text) # None => K!Clipped(text).size <= Bound
<1>1. CASE text = None \/ text.size <= Bound
  BY <1>1 DEF K!Clipped
<1>2. CASE ~(text = None \/ text.size <= Bound)
  <2>1. text \in K!Texts /\ K!Clipped(text) = [text EXCEPT !.size = Bound]
    BY <1>2 DEF K!Clipped
  <2>2. K!Clipped(text).size = Bound
    BY <2>1 DEF K!Texts
  <2>3. Bound \in Nat
    BY PackageBounds
  <2> QED
    BY <2>2, <2>3
<1> QED
  BY <1>1, <1>2

\* What is a procedure has short excerpts.
Excerpted(p) == p # None => /\ p.step.heard # None => p.step.heard.size <= Bound
                            /\ p.step.shown # None => p.step.shown.size <= Bound

\* The procedure of a content has short excerpts.
LEMMA ProcedureIsExcerpted ==
  ASSUME NEW c \in Contents
  PROVE  Excerpted(K!Procedure(c))
<1>1. c.heard \in K!Texts \cup {None} /\ c.shown \in K!Texts \cup {None}
  BY PackagesAssumption DEF K!PackagesAssumption
<1>2. K!Procedure(c) # None => /\ K!Procedure(c).step.heard = K!Clipped(c.heard)
                               /\ K!Procedure(c).step.shown = K!Clipped(c.shown)
  BY DEF K!Procedure, K!Step
<1> QED
  BY <1>1, <1>2, ClippedIsShort DEF Excerpted

\* What a package was made of, and of which project: anything in it follows from the rest.
Built(package, of, at) ==
  /\ of \in Contents
  /\ K!Allowed(package.body.context)
  /\ package = K!Package(of, at, package.body.context)

\* The inductive invariant of the packages: one is built of its content under a policy that
\* allows it, on its way to its files and to the outbox.
PInv ==
  /\ K!TypeOK
  /\ build.pc = "idle" => build = K!Away
  /\ build.pc # "idle" =>
       /\ build = [pc |-> build.pc, package |-> build.package, of |-> build.of, at |-> build.at]
       /\ Built(build.package, build.of, build.at)
  /\ \A s \in sent : Built(s.package, s.of, s.at)
  /\ Excerpted(procedure)
  /\ build.pc = "procedure" => torn /\ onFile = build.package
  /\ K!ProcedureIsOfPackage

\* What is built of a content is a package of it.
LEMMA PackageIsBuilt ==
  ASSUME NEW c \in Contents, NEW at, NEW context, K!Allowed(context)
  PROVE  Built(K!Package(c, at, context), c, at)
<1>1. K!Package(c, at, context).body.context = context
  BY DEF K!Package, K!Body
<1> QED
  BY <1>1 DEF Built

\* What a step that leaves the kind of documentation as it is says of a package.
LEMMA BuiltStays ==
  ASSUME UNCHANGED kind, NEW package, NEW of, NEW at
  PROVE  /\ Built(package, of, at) => Built(package, of, at)'
         /\ K!Procedure(of)' = K!Procedure(of)
BY DEF Built, K!Package, K!Body, K!KnowledgeId, K!Derived, K!Procedure, K!HasProcedure, K!Step,
   K!Allowed

\* The packages begin with nothing made.
LEMMA PackagesInit == K!Init => PInv
<1> SUFFICES ASSUME K!Init
             PROVE  PInv
  OBVIOUS
<1>1. MaxBuilds \in Nat /\ MaxTurns \in Nat
  BY PackageBounds
<1>2. build.pc = "idle" /\ builds \in 0 .. MaxBuilds /\ turns \in 0 .. MaxTurns
  BY <1>1 DEF K!Init, K!Away
<1>3. torn \in BOOLEAN
  BY DEF K!Init
<1>4. K!TypeOK
  BY <1>2, <1>3 DEF K!Init, K!TypeOK
<1> QED
  BY <1>4 DEF K!Init, PInv, K!Away, Excerpted, K!ProcedureIsOfPackage

\* A publication begins.
LEMMA BeginKeeps ==
  ASSUME PInv, K!Begin
  PROVE  PInv'
<1>1. PICK at \in Times :
        build' = [pc |-> "package", package |-> K!Package(content, at, K!Context(project)),
                  of |-> content, at |-> at]
  BY DEF K!Begin
<1>2. /\ UNCHANGED <<kind, project, content, onFile, procedure, sent, turns, torn>>
      /\ K!Allowed(K!Context(project)) /\ content \in Contents
      /\ builds < MaxBuilds /\ builds' = builds + 1
  BY DEF K!Begin, PInv, K!TypeOK
<1>3. PICK package : package = K!Package(content, at, K!Context(project))
  OBVIOUS
<1>4. Built(package, content, at)
  BY <1>2, <1>3, PackageIsBuilt
<1>5. PICK c : c = content
  OBVIOUS
<1>6. Built(package, c, at)' /\ \A s \in sent : Built(s.package, s.of, s.at)'
  BY <1>2, <1>4, <1>5, BuiltStays DEF PInv
<1>7. build'.pc = "package" /\ build'.package = package /\ build'.of = c /\ build'.at = at
  BY <1>1, <1>3, <1>5
<1>8. builds' \in 0 .. MaxBuilds
  BY <1>2, PackageBounds DEF PInv, K!TypeOK
<1>9. K!TypeOK'
  BY <1>2, <1>7, <1>8 DEF PInv, K!TypeOK
<1>10. build' = [pc |-> build'.pc, package |-> build'.package, of |-> build'.of, at |-> build'.at]
  BY <1>1, <1>3, <1>5, <1>7
<1> QED
  BY <1>2, <1>6, <1>7, <1>9, <1>10 DEF PInv, K!ProcedureIsOfPackage, Excerpted

\* The steps of a publication.
LEMMA PublicationKeeps ==
  ASSUME PInv, K!WritePackage \/ K!WriteProcedure \/ K!Enqueue \/ K!GiveUp
  PROVE  PInv'
<1>1. PICK b : b = build
  OBVIOUS
<1>2. /\ UNCHANGED <<kind, project, content, builds, turns>>
      /\ b.pc # "idle" /\ Built(b.package, b.of, b.at)
      /\ b = [pc |-> b.pc, package |-> b.package, of |-> b.of, at |-> b.at]
  BY <1>1 DEF K!WritePackage, K!WriteProcedure, K!Enqueue, K!GiveUp, PInv
<1>3. Built(b.package, b.of, b.at)' /\ \A s \in sent : Built(s.package, s.of, s.at)'
  BY <1>2, BuiltStays DEF PInv
<1>4. ASSUME torn' \in BOOLEAN, build'.pc \in {"idle", "package", "procedure", "enqueue"}
      PROVE  K!TypeOK'
  BY <1>2, <1>4 DEF PInv, K!TypeOK
<1>5. CASE K!WritePackage
  <2>1. /\ build' = [b EXCEPT !.pc = "procedure"] /\ onFile' = b.package /\ torn' = TRUE
        /\ UNCHANGED <<procedure, sent>>
    BY <1>1, <1>5 DEF K!WritePackage
  <2>2. /\ build' = [pc |-> "procedure", package |-> b.package, of |-> b.of, at |-> b.at]
        /\ build'.pc = "procedure" /\ build'.package = b.package /\ build'.of = b.of /\ build'.at = b.at
    BY <1>2, <2>1
  <2>3. K!TypeOK'
    BY <1>4, <2>1, <2>2
  <2> QED
    BY <1>3, <2>1, <2>2, <2>3 DEF PInv, K!ProcedureIsOfPackage, Excerpted
<1>6. CASE K!WriteProcedure
  <2>1. /\ build' = [b EXCEPT !.pc = "enqueue"] /\ torn' = FALSE /\ b.pc = "procedure"
        /\ procedure' = IF b.package.body.procedure = None THEN procedure
                         ELSE b.package.body.procedure
        /\ UNCHANGED <<onFile, sent>>
    BY <1>1, <1>6 DEF K!WriteProcedure
  <2>2. /\ build' = [pc |-> "enqueue", package |-> b.package, of |-> b.of, at |-> b.at]
        /\ build'.pc = "enqueue" /\ build'.package = b.package /\ build'.of = b.of /\ build'.at = b.at
    BY <1>2, <2>1
  <2>3. K!TypeOK'
    BY <1>4, <2>1, <2>2
  <2>4. onFile = b.package
    BY <1>1, <2>1 DEF PInv
  <2>5. b.package.body.procedure = K!Procedure(b.of) /\ b.of \in Contents
    BY <1>2 DEF Built, K!Package, K!Body
  <2>6. Excerpted(b.package.body.procedure)
    BY <2>5, ProcedureIsExcerpted
  <2>7. Excerpted(procedure)'
    BY <2>1, <2>6 DEF PInv, Excerpted
  <2> QED
    BY <1>3, <2>1, <2>2, <2>3, <2>4, <2>7 DEF PInv, K!ProcedureIsOfPackage
<1>7. CASE K!Enqueue
  <2>1. /\ sent' = sent \cup {[package |-> b.package, of |-> b.of, at |-> b.at]}
        /\ build' = K!Away /\ UNCHANGED <<onFile, procedure, torn>>
    BY <1>1, <1>7 DEF K!Enqueue
  <2>2. build'.pc = "idle"
    BY <2>1 DEF K!Away
  <2>3. K!TypeOK'
    BY <1>4, <2>1, <2>2 DEF PInv, K!TypeOK
  <2>4. \A s \in sent' : Built(s.package, s.of, s.at)'
    BY <1>3, <2>1
  <2> QED
    BY <2>1, <2>2, <2>3, <2>4 DEF PInv, K!ProcedureIsOfPackage, Excerpted, K!Away
<1>8. CASE K!GiveUp
  <2>1. build' = K!Away /\ UNCHANGED <<sent, onFile, procedure, torn>>
    BY <1>8 DEF K!GiveUp
  <2>2. build'.pc = "idle"
    BY <2>1 DEF K!Away
  <2>3. K!TypeOK'
    BY <1>4, <2>1, <2>2 DEF PInv, K!TypeOK
  <2> QED
    BY <1>3, <2>1, <2>2, <2>3 DEF PInv, K!ProcedureIsOfPackage, Excerpted, K!Away
<1> QED
  BY <1>5, <1>6, <1>7, <1>8

\* Another project, or another documentation, changes no package.
LEMMA TurnKeeps ==
  ASSUME PInv, K!Configure \/ K!Revise
  PROVE  PInv'
<1>1. /\ UNCHANGED <<kind, onFile, procedure, sent, build, builds, torn>>
      /\ turns < MaxTurns /\ turns' = turns + 1
      /\ project' \in Projects /\ content' \in Contents
  BY DEF K!Configure, K!Revise, K!Turn, PInv, K!TypeOK
<1>2. turns' \in 0 .. MaxTurns
  BY <1>1, PackageBounds DEF PInv, K!TypeOK
<1>3. K!TypeOK'
  BY <1>1, <1>2 DEF PInv, K!TypeOK
<1>4. PICK b : b = build
  OBVIOUS
<1>5. /\ b.pc # "idle" => Built(b.package, b.of, b.at)'
      /\ \A s \in sent : Built(s.package, s.of, s.at)'
  BY <1>1, <1>4, BuiltStays DEF PInv
<1> QED
  BY <1>1, <1>3, <1>4, <1>5 DEF PInv, K!ProcedureIsOfPackage, Excerpted, K!Away

\* The check of projects.json and the one where a package is built agree.
LEMMA AcceptedIsAllowed ==
  ASSUME K!Accepted(project), K!Publishes(project)
  PROVE  K!Allowed(K!Context(project))
<1>1. /\ Odd \notin BOOLEAN /\ Odd # None /\ Odd # "KT" /\ Odd # "REFERENCE" /\ Odd # "of the mode"
  BY PackagesAssumption DEF K!PackagesAssumption
<1>2. project.brain.enabled = TRUE
  BY <1>1 DEF K!Accepted, K!Publishes, K!Given
<1>3. K!Enabled(project) /\ K!Scope(project.brain) \in {"PROJECT", "GLOBAL"}
  BY <1>1, <1>2 DEF K!Accepted, K!Publishes
<1>4. /\ K!Given(project.brain.artifact, "KT") # Odd
      /\ K!Given(project.brain.actionability, "REFERENCE") # Odd
  BY <1>1, <1>2 DEF K!Accepted, K!Publishes
<1>5. /\ K!Context(project).scope = K!Scope(project.brain)
      /\ K!Context(project).project = project.brain.project
      /\ K!Context(project).domain = project.brain.domain
      /\ K!Context(project).classification = K!Classification(project)
      /\ K!Context(project).actionability = K!Given(project.brain.actionability, "REFERENCE")
  BY DEF K!Context
<1>6. K!Context(project).artifact # Odd
  BY <1>1, <1>4 DEF K!Context, K!Given
<1> QED
  BY <1>3, <1>4, <1>5, <1>6 DEF K!Allowed, K!Enabled

\* What a built package tells of what it was made of.
LEMMA BuiltTells ==
  ASSUME NEW package, NEW of, NEW at, Built(package, of, at), kind \in {"steps", "document"}
  PROVE  /\ package.id = package.body
         /\ package.body = K!Body(of, at, package.body.context)
         /\ package.body.knowledge = K!Derived(of)
         /\ Excerpted(package.body.procedure)
<1>1. package.id = package.body /\ package.body = K!Body(of, at, package.body.context)
  BY DEF Built, K!Package
<1>2. package.body.knowledge = K!Derived(of) /\ package.body.procedure = K!Procedure(of)
  BY <1>1 DEF K!Body, K!KnowledgeId
<1> QED
  BY <1>1, <1>2, ProcedureIsExcerpted DEF Built

\* What the invariant says of the packages that were sent.
LEMMA PackagesImply == PInv => K!TypeOK /\ K!PackagesSafe
<1> SUFFICES ASSUME PInv
             PROVE  K!PackagesSafe
  BY DEF PInv
<1>1. kind \in {"steps", "document"}
  BY DEF PInv, K!TypeOK
<1>2. \A s \in sent : Built(s.package, s.of, s.at)
  BY DEF PInv
<1>3. K!ScopeSafe
  BY <1>2 DEF Built, K!Allowed, K!ScopeSafe
<1>4. K!IdIsOfBody
  BY <1>1, <1>2, BuiltTells DEF K!IdIsOfBody
<1>5. K!SameAgain
  <2> SUFFICES ASSUME NEW s \in sent, NEW t \in sent, s.of = t.of,
                      s.package.body.context = t.package.body.context,
                      kind = "steps" => s.at = t.at
               PROVE  s.package.id = t.package.id
    BY DEF K!SameAgain
  <2>1. /\ s.package.id = K!Body(s.of, s.at, s.package.body.context)
        /\ t.package.id = K!Body(t.of, t.at, t.package.body.context)
    BY <1>1, <1>2, BuiltTells
  <2>2. K!Body(s.of, s.at, s.package.body.context) = K!Body(s.of, t.at, s.package.body.context)
    BY DEF K!Body
  <2> QED
    BY <2>1, <2>2
<1>6. K!KnowledgeTells
  <2> SUFFICES ASSUME NEW s \in sent, NEW t \in sent,
                      s.package.body.knowledge = t.package.body.knowledge
               PROVE  /\ s.of.said = t.of.said
                      /\ kind = "steps" => s.of.reviewed = t.of.reviewed
                      /\ kind = "document" => s.of.procedural = t.of.procedural
    BY DEF K!KnowledgeTells
  <2>1. K!Derived(s.of) = K!Derived(t.of)
    BY <1>1, <1>2, BuiltTells
  <2>2. CASE kind = "steps"
    <3>1. [said |-> s.of.said, reviewed |-> s.of.reviewed] = [said |-> t.of.said, reviewed |-> t.of.reviewed]
      BY <2>1, <2>2 DEF K!Derived
    <3> QED
      BY <2>2, <3>1
  <2>3. CASE kind = "document"
    <3>1. ASSUME NEW c
          PROVE  K!Derived(c).said = c.said /\ K!Derived(c).procedural = c.procedural
      BY <2>3 DEF K!Derived
    <3> QED
      BY <2>1, <2>3, <3>1
  <2> QED
    BY <1>1, <2>2, <2>3
<1>7. K!ExcerptsBounded
  <2>1. \A s \in sent : Excerpted(s.package.body.procedure)
    BY <1>1, <1>2, BuiltTells
  <2>2. \A p \in {s.package.body.procedure : s \in sent} \cup {procedure} : Excerpted(p)
    BY <2>1 DEF PInv
  <2> QED
    BY <2>2 DEF Excerpted, K!ExcerptsBounded
<1>8. K!AcceptedIsBuilt
  BY AcceptedIsAllowed DEF K!AcceptedIsBuilt
<1> QED
  BY <1>3, <1>4, <1>5, <1>6, <1>7, <1>8 DEF PInv, K!PackagesSafe

\* Whatever projects.json holds, whenever it changes and wherever a publication ends: no
\* package is built against the policy, each bears the identity of all it holds, the same
\* documentation gives the same package, an identity of knowledge tells what was documented,
\* excerpts stay bounded, and a procedure is that of the package beside it.
THEOREM PackagesAreSafe == EitherSpec => []PackagesSafe
<1>1. EitherInit => (part = "packages" => PInv)
  BY PackagesInit DEF EitherInit
<1>2. (part = "packages" => PInv) /\ [EitherNext]_<<part, vars, packages>> => (part = "packages" => PInv)'
  <2> SUFFICES ASSUME PInv, part = "packages", part' = "packages",
                      [EitherNext]_<<part, vars, packages>>
               PROVE  PInv'
    BY DEF EitherNext
  <2>1. CASE K!Next
    BY <2>1, BeginKeeps, PublicationKeeps, TurnKeeps DEF K!Next
  <2>2. CASE UNCHANGED packages
    <3>1. UNCHANGED <<kind, project, content, onFile, procedure, sent, build, builds, turns, torn>>
      BY <2>2 DEF packages
    <3>2. PICK b : b = build
      OBVIOUS
    <3>3. /\ b.pc # "idle" => Built(b.package, b.of, b.at)'
          /\ \A s \in sent : Built(s.package, s.of, s.at)'
      BY <3>1, <3>2, BuiltStays DEF PInv
    <3> QED
      BY <3>1, <3>2, <3>3 DEF PInv, K!TypeOK, K!ProcedureIsOfPackage, Excerpted, K!Away
  <2> QED
    BY <2>1, <2>2 DEF EitherNext
<1>3. (part = "packages" => PInv) => PackagesSafe
  BY PackagesImply DEF PackagesSafe
<1> QED
  BY <1>1, <1>2, <1>3, PTL DEF EitherSpec

=============================================================================
