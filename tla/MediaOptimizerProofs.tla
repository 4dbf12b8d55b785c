------------------------- MODULE MediaOptimizerProofs -------------------------
(***************************************************************************)
(* Proofs about MediaOptimizer, for any number of sources, names, requests *)
(* and events; those about RemovalSafe are for one compressor at a time.   *)
(***************************************************************************)
EXTENDS MediaOptimizer, FiniteSetTheorems, WellFoundedInduction, TLAPS

Publishing(c) == job[c].pc \in {"recheck", "load", "save", "verify", "unlink"}
Encodes(c)  == job[c].pc \in {"encode", "write", "validate"}
Asks(r)       == retry[r].pc # "idle"

\* A compressor has the locals its position needs.
Placed(c) ==
  /\ job[c].pc \notin {"idle", "next"} => job[c].src \in Sources
  /\ Encodes(c) \/ job[c].pc = "move" \/ Publishing(c) => job[c].version \in Versions
  /\ job[c].pc = "write" => job[c].file \in Files /\ data[job[c].file] \in Outputs
  /\ job[c].pc = "move" \/ Publishing(c) => job[c].rec \in Records
  /\ Publishing(c) => job[c].name \in Names
  /\ job[c].pc = "save" => job[c].snap \in Books

\* A request has the record it is about.
Asked(r) ==
  Asks(r) => /\ retry[r].name \in Names /\ retry[r].snap \in Books
             /\ retry[r].snap[retry[r].name] \in Records

\* A name points to a file that was written.
Written ==
  /\ \A s \in Sources : staging[s] # 0 => data[staging[s]] \in Outputs
  /\ \A n \in Names : videos[n] # 0 => data[videos[n]] \in Outputs

TInv == TypeOK /\ (\A c \in Compressors : Placed(c)) /\ (\A r \in Requests : Asked(r)) /\ Written

\* A function on a finite set has no more values than arguments.
LEMMA ValuesLemma ==
  ASSUME NEW S, IsFiniteSet(S), NEW f
  PROVE  /\ IsFiniteSet({f[x] : x \in S})
         /\ Cardinality({f[x] : x \in S}) <= Cardinality(S)
<1> DEFINE T == {f[x] : x \in S}
           g == [x \in S |-> f[x]]
<1>1. g \in Surjection(S, T)
  BY DEF Surjection
<1> HIDE DEF T, g
<1>2. IsFiniteSet(T) /\ Cardinality(T) <= Cardinality(S)
  BY <1>1, FS_Surjection
<1> QED
  BY <1>2 DEF T

\* There is a file for every hidden name, every published name and every
\* encoder: one that opens a hidden name without a file finds a free one.
LEMMA FreshFileLemma ==
  ASSUME TypeOK, NEW s \in Sources, staging[s] = 0
  PROVE  Min(Files \ InUse) \in Files \ InUse
<1> DEFINE files_ == [c \in Compressors |-> job[c].file]
           A == {staging[t] : t \in Sources \ {s}}
           B == {videos[n] : n \in Names}
           C == {files_[c] : c \in Compressors}
<1>1. /\ IsFiniteSet(Sources \ {s}) /\ IsFiniteSet(Names) /\ IsFiniteSet(Compressors)
      /\ Cardinality(Sources) \in Nat /\ Cardinality(Compressors) \in Nat
      /\ Cardinality(Sources \ {s}) = Cardinality(Sources) - 1
      /\ Cardinality(Names) = MaxOutputs /\ MaxOutputs \in Nat
  <2>1. IsFiniteSet(Sources) /\ Cardinality(Sources) \in Nat /\ Cardinality(Compressors) \in Nat
    BY ConstantsAssumption, FS_CardinalityType
  <2>2. IsFiniteSet(Sources \ {s}) /\ Cardinality(Sources \ {s}) = Cardinality(Sources) - 1
    BY <2>1, ConstantsAssumption, FS_RemoveElement
  <2>3. IsFiniteSet(Names) /\ Cardinality(Names) = MaxOutputs
    BY ConstantsAssumption, FS_Interval DEF Names
  <2> QED
    BY <2>1, <2>2, <2>3, ConstantsAssumption
<1>2. /\ IsFiniteSet(A) /\ Cardinality(A) <= Cardinality(Sources) - 1
      /\ IsFiniteSet(B) /\ Cardinality(B) <= MaxOutputs
      /\ IsFiniteSet(C) /\ Cardinality(C) <= Cardinality(Compressors)
  <2> HIDE DEF files_
  <2> QED
    BY <1>1, ValuesLemma
<1>3. InUse \ {0} \subseteq (A \cup B) \cup C
  BY DEF InUse
<1>4. Files \subseteq Nat /\ 0 \notin Files /\ IsFiniteSet(Files)
      /\ Cardinality(Files) = MaxOutputs + Cardinality(Sources) + Cardinality(Compressors)
  <2>1. MaxOutputs + Cardinality(Sources) + Cardinality(Compressors) \in Nat
    BY <1>1
  <2> QED
    BY <2>1, FS_Interval DEF Files
<1> HIDE DEF A, B, C
<1>5. /\ IsFiniteSet((A \cup B) \cup C)
      /\ Cardinality((A \cup B) \cup C) < Cardinality(Files)
  <2>1. /\ IsFiniteSet(A \cup B) /\ IsFiniteSet((A \cup B) \cup C)
        /\ IsFiniteSet(A \cap B) /\ IsFiniteSet((A \cup B) \cap C)
    BY <1>2, FS_Union, FS_Intersection
  <2>2. /\ Cardinality(A \cap B) \in Nat /\ Cardinality((A \cup B) \cap C) \in Nat
        /\ Cardinality(A) \in Nat /\ Cardinality(B) \in Nat /\ Cardinality(C) \in Nat
        /\ Cardinality(A \cup B) \in Nat /\ Cardinality((A \cup B) \cup C) \in Nat
    BY <1>2, <2>1, FS_CardinalityType
  <2>3. Cardinality(A \cup B) = Cardinality(A) + Cardinality(B) - Cardinality(A \cap B)
    BY <1>2, FS_Union
  <2>4. Cardinality((A \cup B) \cup C)
          = Cardinality(A \cup B) + Cardinality(C) - Cardinality((A \cup B) \cap C)
    BY <1>2, <2>1, FS_Union
  <2> QED
    BY <1>1, <1>2, <1>4, <2>1, <2>2, <2>3, <2>4
<1>6. ~(Files \subseteq (A \cup B) \cup C)
  <2> SUFFICES ASSUME Files \subseteq (A \cup B) \cup C PROVE FALSE
    OBVIOUS
  <2>1. Cardinality(Files) <= Cardinality((A \cup B) \cup C)
    BY <1>5, FS_Subset
  <2>2. Cardinality(Files) \in Nat /\ Cardinality((A \cup B) \cup C) \in Nat
    BY <1>4, <1>5, FS_CardinalityType
  <2> QED
    BY <1>5, <2>1, <2>2
<1>7. Files \ InUse # {} /\ Files \ InUse \subseteq Nat
  BY <1>3, <1>4, <1>6
<1>8. PICK f \in Files \ InUse : \A g \in Files \ InUse : <<g, f>> \notin OpToRel(<, Nat)
  BY <1>7, NatLessThanWellFounded, WFMin
<1>9. \A j, k \in Nat : <<k, j>> \notin OpToRel(<, Nat) => j <= k
  BY DEF OpToRel
<1>10. \A g \in Files \ InUse : f <= g
  BY <1>7, <1>8, <1>9
<1> QED
  BY <1>10 DEF Min

RetryStates == [pc : {"idle", "check", "verify", "unlink", "save"},
                name : Names \cup {0}, snap : Books \cup {<<>>}, state : {"PENDING", "REMOVED"}]

\* The initial state has the types, and no locals to have.
LEMMA TypeInit == Init => TInv
<1> SUFFICES ASSUME Init PROVE TInv
  OBVIOUS
<1>1. 1 \in Versions /\ MaxEvents \in Nat
  BY ConstantsAssumption DEF Versions
<1>2. job \in [Compressors -> Jobs] /\ prov \in Books
  BY DEF Init, Idle, Jobs, Books
<1>3. retry \in [Requests -> RetryStates]
  BY DEF Init, AtRest, RetryStates
<1>4. TypeOK
  BY <1>1, <1>2, <1>3 DEF Init, TypeOK, RetryStates
<1>5. \A c \in Compressors : Placed(c)
  BY DEF Init, Placed, Encodes, Publishing, Idle
<1>6. \A r \in Requests : Asked(r)
  BY DEF Init, Asked, Asks, AtRest
<1> QED
  BY <1>4, <1>5, <1>6 DEF Init, TInv, Written

\* What a save drops are versions of sources.
LEMMA DroppedLemma ==
  ASSUME prov \in Books, NEW loaded
  PROVE  Dropped(loaded) \subseteq Sources \X Versions
<1>1. \A n \in Names : prov[n] # None => <<prov[n].of, prov[n].version>> \in Sources \X Versions
  BY DEF Books, Records
<1> QED
  BY <1>1 DEF Dropped

\* Every step keeps the types, gives a compressor the locals its next position
\* needs and leaves no name on a file that was not written.
LEMMA TypeNext == TInv /\ [Next]_vars => TInv'
<1> SUFFICES ASSUME TInv, [Next]_vars PROVE TInv'
  OBVIOUS
<1> USE DEF files, outputs, history
<1>0. /\ job \in [Compressors -> Jobs] /\ retry \in [Requests -> RetryStates]
      /\ prov \in Books /\ data \in [Files -> Outputs \cup {None}]
      /\ staging \in [Sources -> Files \cup {0}] /\ videos \in [Names -> Files \cup {0}]
      /\ source \in [Sources -> Versions \cup {0}]
  BY DEF TInv, TypeOK, RetryStates
<1>a. ASSUME NEW c \in Compressors, CompressorStep(c)
      PROVE  TInv'
  <2>0. UNCHANGED <<retry, rewrites, deletes, exposed, restored, deleted>>
        /\ (UNCHANGED mistaken \/ Validate(c))
    BY <1>a DEF CompressorStep, StartRun, EndRun, ProbeSource, HashSource, OpenEncoder, WriteOn,
      CloseEncoder, FailEncoder, Validate, MoveToName, Recheck, LoadRecords, SaveRecords, Save,
      VerifySource, UnlinkSource, Unlink, Crash, Reuse, Encode
  <2>m. mistaken' \subseteq Sources \X Versions
    <3>1. mistaken \subseteq Sources \X Versions
      BY DEF TInv, TypeOK
    <3>2. ASSUME Validate(c)
          PROVE  /\ <<job[c].src, job[c].version>> \in Sources \X Versions
                 /\ mistaken' \subseteq mistaken \cup {<<job[c].src, job[c].version>>}
      BY <3>2 DEF Validate, TInv, Placed, Encodes
    <3> QED
      BY <2>0, <3>1, <3>2
  <2>1. ASSUME job' = [job EXCEPT ![c] = job'[c]], job'[c] \in Jobs, Placed(c)',
               source' \in [Sources -> Versions \cup {0}], data' \in [Files -> Outputs \cup {None}],
               staging' \in [Sources -> Files \cup {0}], videos' \in [Names -> Files \cup {0}],
               prov' \in Books, faults' \in 0 .. MaxEvents, removed' \subseteq Sources \X Versions,
               lost' \subseteq Sources \X Versions, Written',
               \A f \in Files : data[f] \in Outputs => data'[f] \in Outputs
        PROVE  TInv'
    <3>1. \A d \in Compressors : Placed(d)'
      <4>1. ASSUME NEW d \in Compressors, d # c
            PROVE  Placed(d)'
        <5>1. job'[d] = job[d] /\ Placed(d)
          BY <1>0, <2>1, <4>1 DEF TInv
        <5> QED
          BY <2>1, <5>1 DEF Placed, Encodes, Publishing
      <4> QED
        BY <2>1, <4>1
    <3>2. job' \in [Compressors -> Jobs]
      BY <1>0, <2>1
    <3> QED
      BY <2>0, <2>1, <2>m, <3>1, <3>2 DEF TInv, TypeOK, Asked, Asks
  <2>2. job[c] \in Jobs /\ Placed(c) /\ Written
    BY <1>0 DEF TInv
  <2>s. ASSUME job' = [job EXCEPT ![c] = job'[c]], job'[c] \in Jobs, Placed(c)',
               UNCHANGED <<source, data, staging, prov, faults, removed, lost>>,
               \A n \in Names : videos'[n] \in {videos[n], 0},
               videos' \in [Names -> Files \cup {0}]
        PROVE  TInv'
    <3>1. Written'
      BY <2>2, <2>s DEF Written
    <3> QED
      BY <1>0, <2>1, <2>s, <3>1 DEF TInv, TypeOK
  <2>n. ASSUME job[c].pc \in {"write", "next", "encode", "hash", "validate", "move", "recheck", "load", "save"}
        PROVE  NextFile(c) \in Jobs /\ NextFile(c).pc = "next" /\ Idle \in Jobs /\ Idle.pc = "idle"
    BY <1>0, <2>2 DEF NextFile, Idle, Jobs
  <2>3. CASE StartRun(c)
    <3>1. /\ job' = [job EXCEPT ![c] = job'[c]] /\ job'[c].pc = "next" /\ job'[c] \in Jobs
      BY <1>0, <2>3 DEF StartRun, Idle, Jobs
    <3> QED
      BY <1>0, <2>3, <2>s, <3>1 DEF StartRun, Placed, Encodes, Publishing
  <2>4. CASE EndRun(c)
    BY <1>0, <2>4, <2>s, <2>n DEF EndRun, Placed, Encodes, Publishing
  <2>5. ASSUME NEW s \in Sources, ProbeSource(c, s)
        PROVE  TInv'
    <3>1. /\ job' = [job EXCEPT ![c] = job'[c]] /\ job'[c] \in Jobs
          /\ job'[c].pc = "next" \/ (job'[c].pc = "hash" /\ job'[c].src = s)
      BY <1>0, <2>2, <2>5 DEF ProbeSource, Jobs, Probed
    <3> QED
      BY <1>0, <2>5, <2>s, <3>1 DEF ProbeSource, Placed, Encodes, Publishing
  <2>6. CASE HashSource(c)
    <3> DEFINE s == job[c].src
               v == Digest(s)
               found == RecordFor(prov, s, v)
    <3>1. s \in Sources /\ v \in Versions \cup {0} /\ (Readable(v) => v \in Versions)
      BY <1>0, <2>2, <2>6 DEF HashSource, Placed, Digest, Readable
    <3>2. ASSUME job' = [job EXCEPT ![c] = job'[c]], job'[c] \in Jobs, Placed(c)', UNCHANGED <<lost, removed, faults>>,
                 staging' = staging \/ staging' = [staging EXCEPT ![s] = 0], UNCHANGED <<source, data, videos, prov>>
          PROVE  TInv'
      <4>1. Written' /\ staging' \in [Sources -> Files \cup {0}]
        BY <1>0, <2>2, <3>2, <3>1 DEF Written
      <4> QED
        BY <1>0, <2>1, <3>2, <4>1 DEF TInv, TypeOK
    <3>3. CASE ~Readable(v) /\ job' = [job EXCEPT ![c] = Idle] /\ UNCHANGED staging
      <4>1. job'[c] = Idle /\ Idle \in Jobs /\ Idle.pc = "idle"
        BY <1>0, <3>3, <2>6, <2>n DEF HashSource
      <4> QED
        BY <1>0, <2>6, <3>2, <3>3, <4>1 DEF HashSource, Placed, Encodes, Publishing
    <3>4. CASE Readable(v) /\ Encode(c, v)
      <4>1. /\ job' = [job EXCEPT ![c] = job'[c]] /\ job'[c] \in Jobs
            /\ job'[c].pc = "encode" /\ job'[c].version = v /\ job'[c].src = s
        BY <1>0, <2>2, <3>1, <3>4 DEF Encode, Jobs
      <4> QED
        BY <1>0, <2>6, <3>1, <3>2, <3>4, <4>1 DEF HashSource, Encode, Placed, Encodes, Publishing
    <3>5. ASSUME NEW n \in found
          PROVE  n \in Names /\ prov[n] \in Records /\ Readable(v)
      BY <1>0, <3>1, TokensAssumption DEF RecordFor, Books, Records, Readable, Versions
    <3>6. ASSUME NEW n \in found, job' = [job EXCEPT ![c] = NextFile(c)], UNCHANGED staging
          PROVE  TInv'
      <4>1. job'[c] \in Jobs /\ job'[c].pc = "next"
        BY <1>0, <2>n, <2>6, <3>6 DEF HashSource
      <4> QED
        BY <1>0, <2>6, <3>2, <3>6, <4>1 DEF HashSource, Placed, Encodes, Publishing
    <3>7. ASSUME NEW n \in found, Reuse(c, n, v)
          PROVE  TInv'
      <4>1. [prov[n] EXCEPT !.state = "PENDING"] \in Records
        BY <3>5 DEF Records
      <4>2. /\ job' = [job EXCEPT ![c] = job'[c]] /\ job'[c] \in Jobs
            /\ job'[c].pc = "load" /\ job'[c].version = v /\ job'[c].src = s
            /\ job'[c].name = n /\ job'[c].rec = [prov[n] EXCEPT !.state = "PENDING"]
        <5> DEFINE rec == [prov[n] EXCEPT !.state = "PENDING"]
        <5>1. job' = [job EXCEPT ![c].pc = "load", ![c].version = v, ![c].name = n,
                        ![c].then = "verify", ![c].rec = rec]
          BY <3>7 DEF Reuse
        <5> HIDE DEF rec
        <5>2. job'[c] = [job[c] EXCEPT !.pc = "load", !.version = v, !.name = n,
                        !.then = "verify", !.rec = rec] /\ job' = [job EXCEPT ![c] = job'[c]]
          BY <1>0, <5>1
        <5>3. rec \in Records /\ v \in Versions /\ n \in Names
          BY <4>1, <3>1, <3>5 DEF rec
        <5>4. /\ job'[c] \in Jobs /\ job'[c].pc = "load" /\ job'[c].version = v /\ job'[c].src = s
              /\ job'[c].name = n /\ job'[c].rec = rec
          BY <2>2, <5>2, <5>3 DEF Jobs
        <5> QED
          BY <5>2, <5>4 DEF rec
      <4>3. Placed(c)'
        BY <3>1, <3>5, <4>1, <4>2 DEF Placed, Encodes, Publishing
      <4> QED
        BY <1>0, <2>6, <3>2, <3>7, <4>2, <4>3 DEF HashSource, Reuse
    <3> QED
      BY <2>6, <3>3, <3>4, <3>5, <3>6, <3>7 DEF HashSource
  <2>7. CASE OpenEncoder(c)
    <3> DEFINE s == job[c].src
               f == IF staging[s] = 0 THEN Min(Files \ InUse) ELSE staging[s]
    <3>1. s \in Sources /\ source[s] \in Versions
      BY <1>0, <2>2, <2>7 DEF OpenEncoder, Placed
    <3>2. f \in Files
      BY <1>0, <3>1, FreshFileLemma DEF TInv
    <3>3. Encoded(s, FALSE) \in Outputs
      BY <3>1 DEF Encoded, Outputs
    <3>4. /\ staging' = [staging EXCEPT ![s] = f] /\ data' = [data EXCEPT ![f] = Encoded(s, FALSE)]
          /\ job' = [job EXCEPT ![c].pc = "write", ![c].file = f]
          /\ UNCHANGED <<source, videos, prov, retry, history>> /\ job[c].pc = "encode"
      BY <2>7 DEF OpenEncoder
    <3> HIDE DEF f
    <3>5. /\ job' = [job EXCEPT ![c] = job'[c]] /\ job'[c] \in Jobs
          /\ job'[c].pc = "write" /\ job'[c].version = job[c].version /\ job'[c].src = s /\ job'[c].file = f
      BY <1>0, <2>2, <3>2, <3>4 DEF Jobs
    <3>6. Written' /\ data' \in [Files -> Outputs \cup {None}] /\ staging' \in [Sources -> Files \cup {0}]
          /\ \A g \in Files : data[g] \in Outputs => data'[g] \in Outputs
      BY <1>0, <2>2, <3>1, <3>2, <3>3, <3>4 DEF Written
    <3>7. Placed(c)'
      <4>1. data'[f] \in Outputs /\ job[c].version \in Versions
        BY <1>0, <2>2, <3>2, <3>3, <3>4 DEF Placed, Encodes
      <4> QED
        BY <3>1, <3>2, <3>5, <4>1 DEF Placed, Encodes, Publishing
    <3> QED
      BY <1>0, <2>1, <3>4, <3>5, <3>6, <3>7 DEF TInv, TypeOK
  <2>8. CASE WriteOn(c) \/ CloseEncoder(c)
    <3>1. PICK sound \in BOOLEAN : data' = [data EXCEPT ![job[c].file].sound = sound]
      BY <2>8 DEF WriteOn, CloseEncoder
    <3>2. job[c].file \in Files /\ data[job[c].file] \in Outputs
      BY <2>2, <2>8 DEF WriteOn, CloseEncoder, Placed
    <3>3. [data[job[c].file] EXCEPT !.sound = sound] \in Outputs
      BY <3>2 DEF Outputs
    <3>4. /\ data' \in [Files -> Outputs \cup {None}]
          /\ \A g \in Files : data[g] \in Outputs => data'[g] \in Outputs
      BY <1>0, <3>1, <3>2, <3>3
    <3>5. /\ job' = [job EXCEPT ![c] = job'[c]] /\ job'[c] \in Jobs /\ Placed(c)'
      <4>1. CASE WriteOn(c)
        BY <1>0, <2>2, <3>4, <4>1 DEF WriteOn, Placed, Encodes, Publishing
      <4>2. CASE CloseEncoder(c)
        <5>1. /\ job' = [job EXCEPT ![c] = job'[c]] /\ job'[c] \in Jobs
              /\ job'[c].pc = "validate" /\ job'[c].version = job[c].version /\ job'[c].src = job[c].src
          BY <1>0, <2>2, <4>2 DEF CloseEncoder, Jobs
        <5> QED
          BY <2>2, <4>2, <5>1 DEF CloseEncoder, Placed, Encodes, Publishing
      <4> QED
        BY <2>8, <4>1, <4>2
    <3>6. Written' /\ UNCHANGED <<source, staging, videos, prov, faults, removed, lost>>
      BY <1>0, <2>2, <2>8, <3>4 DEF Written, WriteOn, CloseEncoder
    <3> QED
      BY <1>0, <2>1, <3>4, <3>5, <3>6 DEF TInv, TypeOK
  <2>9. CASE FailEncoder(c)
    <3>1. job[c].src \in Sources /\ NextFile(c) \in Jobs /\ NextFile(c).pc = "next"
      BY <2>2, <2>n, <2>9 DEF FailEncoder, Placed
    <3>2. Written' /\ staging' \in [Sources -> Files \cup {0}]
      BY <1>0, <2>2, <2>9, <3>1 DEF Written, FailEncoder
    <3>3. job' = [job EXCEPT ![c] = NextFile(c)] /\ job'[c] = NextFile(c)
      BY <1>0, <2>9 DEF FailEncoder
    <3>4. Placed(c)'
      BY <3>1, <3>3 DEF Placed, Encodes, Publishing
    <3> QED
      BY <1>0, <2>1, <2>9, <3>1, <3>2, <3>3, <3>4 DEF TInv, TypeOK, FailEncoder
  <2>10. CASE Validate(c)
    <3> DEFINE s == job[c].src
               rec == [of |-> s, version |-> job[c].version,
                       output |-> data[staging[s]], state |-> "PENDING"]
    <3>0. s \in Sources /\ job[c].version \in Versions /\ job[c].pc = "validate"
      BY <2>2, <2>10 DEF Validate, Placed, Encodes
    <3>1. CASE /\ staging[s] # 0 /\ job' = [job EXCEPT ![c].pc = "move", ![c].rec = rec]
               /\ UNCHANGED staging
      <4>1. rec \in Records
        BY <2>2, <3>0, <3>1 DEF Written, Records
      <4> HIDE DEF rec
      <4>2. job'[c] = [job[c] EXCEPT !.pc = "move", !.rec = rec] /\ job' = [job EXCEPT ![c] = job'[c]]
        BY <1>0, <3>1
      <4>3. /\ job'[c] \in Jobs /\ job'[c].pc = "move" /\ job'[c].rec = rec
            /\ job'[c].src = s /\ job'[c].version = job[c].version
        BY <2>2, <4>1, <4>2 DEF Jobs
      <4>4. Placed(c)'
        BY <3>0, <4>1, <4>3 DEF Placed, Encodes, Publishing
      <4> QED
        BY <1>0, <2>s, <2>10, <3>1, <4>2, <4>3, <4>4 DEF Validate
    <3>2. CASE staging' = [staging EXCEPT ![s] = 0] /\ job' = [job EXCEPT ![c] = NextFile(c)]
      <4>1. Written' /\ staging' \in [Sources -> Files \cup {0}]
        BY <1>0, <2>2, <2>10, <3>0, <3>2 DEF Written, Validate
      <4>2. job'[c] = NextFile(c) /\ NextFile(c) \in Jobs /\ NextFile(c).pc = "next"
        BY <1>0, <2>n, <3>0, <3>2
      <4>3. Placed(c)'
        BY <4>2 DEF Placed, Encodes, Publishing
      <4> QED
        BY <1>0, <2>1, <2>10, <3>2, <4>1, <4>2, <4>3 DEF TInv, TypeOK, Validate
    <3> QED
      BY <2>10, <3>1, <3>2 DEF Validate
  <2>11. CASE MoveToName(c)
    <3> DEFINE s == job[c].src
    <3>0. /\ s \in Sources /\ job[c].version \in Versions /\ job[c].pc = "move" /\ job[c].rec \in Records
          /\ staging' = [staging EXCEPT ![s] = 0] /\ staging' \in [Sources -> Files \cup {0}]
          /\ UNCHANGED <<source, data, prov, retry, history>>
      BY <1>0, <2>2, <2>11 DEF MoveToName, Placed, Encodes
    <3>1. CASE job' = [job EXCEPT ![c] = NextFile(c)] /\ UNCHANGED videos
      <4>1. Written'
        BY <1>0, <2>2, <3>0, <3>1 DEF Written
      <4>2. job'[c] = NextFile(c) /\ NextFile(c) \in Jobs /\ NextFile(c).pc = "next"
        BY <1>0, <2>n, <3>0, <3>1
      <4>3. Placed(c)'
        BY <4>2 DEF Placed, Encodes, Publishing
      <4> QED
        BY <1>0, <2>1, <3>0, <3>1, <4>1, <4>2, <4>3 DEF TInv, TypeOK
    <3>2. ASSUME NEW n \in Names, staging[s] # 0, videos' = [videos EXCEPT ![n] = staging[s]],
                 job' = [job EXCEPT ![c].pc = "recheck", ![c].name = n]
          PROVE  TInv'
      <4>1. Written' /\ videos' \in [Names -> Files \cup {0}]
        BY <1>0, <2>2, <3>0, <3>2 DEF Written
      <4>2. job'[c] = [job[c] EXCEPT !.pc = "recheck", !.name = n] /\ job' = [job EXCEPT ![c] = job'[c]]
        BY <1>0, <3>2
      <4>3. /\ job'[c] \in Jobs /\ job'[c].pc = "recheck" /\ job'[c].rec = job[c].rec
            /\ job'[c].src = s /\ job'[c].version = job[c].version /\ job'[c].name = n
        <5> HIDE DEF s
        <5>1. job[c] \in Jobs /\ n \in Names
          BY <2>2
        <5>2. job'[c] \in Jobs
          BY <4>2, <5>1 DEF Jobs
        <5> QED
          BY <4>2, <5>1, <5>2 DEF s, Jobs
      <4>4. Placed(c)'
        BY <3>0, <4>1, <4>3 DEF Placed, Encodes, Publishing
      <4> QED
        BY <1>0, <2>1, <3>0, <3>2, <4>1, <4>2, <4>3, <4>4 DEF TInv, TypeOK
    <3> QED
      BY <2>11, <3>1, <3>2 DEF MoveToName
  <2>12. CASE Recheck(c)
    <3>0. /\ job[c].src \in Sources /\ job[c].version \in Versions /\ job[c].rec \in Records
          /\ job[c].name \in Names /\ job[c].pc = "recheck"
      BY <2>2, <2>12 DEF Recheck, Placed, Publishing
    <3>1. CASE job' = [job EXCEPT ![c].pc = "load", ![c].then = "verify"] /\ UNCHANGED videos
      <4>1. job'[c] = [job[c] EXCEPT !.pc = "load", !.then = "verify"] /\ job' = [job EXCEPT ![c] = job'[c]]
        BY <1>0, <3>1
      <4>2. /\ job'[c] \in Jobs /\ job'[c].pc = "load" /\ job'[c].rec = job[c].rec
            /\ job'[c].src = job[c].src /\ job'[c].version = job[c].version /\ job'[c].name = job[c].name
        BY <2>2, <4>1 DEF Jobs
      <4>3. Placed(c)'
        BY <3>0, <4>2 DEF Placed, Encodes, Publishing
      <4> QED
        BY <1>0, <2>s, <2>12, <3>1, <4>1, <4>2, <4>3 DEF Recheck
    <3>2. CASE /\ videos' = [videos EXCEPT ![job[c].name] = 0]
               /\ job' = [job EXCEPT ![c] = IF Free(job[c].name) THEN Idle ELSE NextFile(c)]
      <4>1. /\ job'[c] \in Jobs /\ job'[c].pc \in {"idle", "next"} /\ job' = [job EXCEPT ![c] = job'[c]]
        BY <1>0, <2>n, <3>0, <3>2
      <4>2. Placed(c)'
        BY <4>1 DEF Placed, Encodes, Publishing
      <4> QED
        BY <1>0, <2>s, <2>12, <3>2, <4>1, <4>2 DEF Recheck
    <3> QED
      BY <2>12, <3>1, <3>2 DEF Recheck
  <2>13. CASE LoadRecords(c)
    <3>1. job'[c] = [job[c] EXCEPT !.pc = "save", !.probe = 0, !.snap = prov] /\ job' = [job EXCEPT ![c] = job'[c]]
      BY <1>0, <2>13 DEF LoadRecords
    <3>2. /\ job'[c] \in Jobs /\ job'[c].pc = "save" /\ job'[c].rec = job[c].rec /\ job'[c].snap = prov
          /\ job'[c].src = job[c].src /\ job'[c].version = job[c].version /\ job'[c].name = job[c].name
      BY <1>0, <2>2, <3>1 DEF Jobs
    <3>3. Placed(c)'
      BY <1>0, <2>2, <2>13, <3>2 DEF LoadRecords, Placed, Encodes, Publishing
    <3> QED
      BY <1>0, <2>s, <2>13, <3>1, <3>2, <3>3 DEF LoadRecords
  <2>14. CASE VerifySource(c)
    <3> DEFINE p == IF Intact(job[c].src, job[c].version) THEN "unlink" ELSE "load"
    <3>1. job'[c] = [job[c] EXCEPT !.pc = p] /\ job' = [job EXCEPT ![c] = job'[c]]
      BY <1>0, <2>14 DEF VerifySource
    <3>2. /\ job'[c] \in Jobs /\ job'[c].pc \in {"unlink", "load"} /\ job'[c].rec = job[c].rec
          /\ job'[c].src = job[c].src /\ job'[c].version = job[c].version /\ job'[c].name = job[c].name
      BY <1>0, <2>2, <3>1 DEF Jobs
    <3>3. Placed(c)'
      BY <1>0, <2>2, <2>14, <3>2 DEF VerifySource, Placed, Encodes, Publishing
    <3> QED
      BY <1>0, <2>s, <2>14, <3>1, <3>2, <3>3 DEF VerifySource
  <2>15. CASE SaveRecords(c)
    <3>0. /\ job[c].src \in Sources /\ job[c].version \in Versions /\ job[c].rec \in Records
          /\ job[c].name \in Names /\ job[c].pc = "save" /\ job[c].snap \in Books
      BY <2>2, <2>15 DEF SaveRecords, Placed, Publishing
    <3>1. /\ AfterSave(c) \in Jobs /\ AfterSave(c).pc \in {"verify", "next"}
          /\ AfterSave(c).pc = "verify" =>
               /\ AfterSave(c).rec = job[c].rec /\ AfterSave(c).src = job[c].src
               /\ AfterSave(c).version = job[c].version /\ AfterSave(c).name = job[c].name
      <4>1. CASE job[c].then = "verify"
        <5>1. AfterSave(c) = [job[c] EXCEPT !.pc = "verify", !.snap = <<>>, !.then = "next"]
          BY <4>1 DEF AfterSave
        <5> QED
          BY <2>2, <5>1 DEF Jobs
      <4>2. CASE job[c].then # "verify"
        BY <2>n, <3>0, <4>2 DEF AfterSave
      <4> QED
        BY <4>1, <4>2
    <3>2. CASE /\ Save(job[c].snap, job[c].name, job[c].rec)
               /\ job' = [job EXCEPT ![c] = AfterSave(c)]
               /\ UNCHANGED faults
      <4>1. prov' \in Books
        BY <3>0, <3>2 DEF Save, Books
      <4>3. lost' \subseteq Sources \X Versions
        BY <1>0, <3>2, DroppedLemma DEF Save, TInv, TypeOK
      <4>4. job'[c] = AfterSave(c)
        BY <1>0, <3>2
      <4>5. Placed(c)'
        BY <3>0, <3>1, <4>4 DEF Placed, Encodes, Publishing
      <4> QED
        BY <1>0, <2>1, <2>2, <2>15, <3>1, <3>2, <4>1, <4>3, <4>4, <4>5 DEF TInv, TypeOK, SaveRecords, Written
    <3>3. CASE Eventful /\ faults' = faults + 1 /\ job' = [job EXCEPT ![c] = AfterFailedSave(c)] /\ UNCHANGED <<prov, lost>>
      <4>1. faults' \in 0 .. MaxEvents
        BY <3>3, ConstantsAssumption DEF Eventful, TInv, TypeOK
      <4>2. job'[c] = NextFile(c) /\ NextFile(c) \in Jobs /\ NextFile(c).pc = "next"
        BY <1>0, <2>n, <3>0, <3>3 DEF AfterFailedSave
      <4>3. Placed(c)'
        BY <4>2 DEF Placed, Encodes, Publishing
      <4> QED
        BY <1>0, <2>1, <2>2, <2>15, <3>3, <4>1, <4>2, <4>3 DEF TInv, TypeOK, SaveRecords, Written
    <3> QED
      BY <2>15, <3>2, <3>3 DEF SaveRecords
  <2>16. CASE UnlinkSource(c)
    <3>0. /\ job[c].src \in Sources /\ job[c].version \in Versions /\ job[c].rec \in Records
          /\ job[c].name \in Names /\ job[c].pc = "unlink"
      BY <2>2, <2>16 DEF UnlinkSource, Placed, Publishing
    <3> DEFINE gone == [job[c].rec EXCEPT !.state = "REMOVED"]
    <3>1. /\ job' = [job EXCEPT ![c] = job'[c]]
          /\ \/ job'[c] = [job[c] EXCEPT !.pc = "load"]
             \/ job'[c] = [job[c] EXCEPT !.pc = "load", !.rec = gone]
      <4>1. \/ job' = [job EXCEPT ![c].pc = "load", ![c].rec.state = "REMOVED"]
            \/ job' = [job EXCEPT ![c].pc = "load"]
        BY <2>16 DEF UnlinkSource
      <4> QED
        BY <1>0, <4>1
    <3>2. gone \in Records
      BY <3>0 DEF Records
    <3> HIDE DEF gone
    <3>3. /\ job'[c] \in Jobs /\ job'[c].pc = "load" /\ job'[c].rec \in {job[c].rec, gone}
          /\ job'[c].src = job[c].src /\ job'[c].version = job[c].version /\ job'[c].name = job[c].name
      <4>1. CASE job'[c] = [job[c] EXCEPT !.pc = "load"]
        BY <2>2, <4>1 DEF Jobs
      <4>2. CASE job'[c] = [job[c] EXCEPT !.pc = "load", !.rec = gone]
        BY <2>2, <3>2, <4>2 DEF Jobs
      <4> QED
        BY <3>1, <4>1, <4>2
    <3>4. Placed(c)'
      BY <3>0, <3>2, <3>3 DEF Placed, Encodes, Publishing
    <3>5. source' \in [Sources -> Versions \cup {0}] /\ removed' \subseteq Sources \X Versions
      BY <1>0, <2>16, <3>0 DEF UnlinkSource, Unlink, TInv, TypeOK
    <3> QED
      BY <1>0, <2>1, <2>2, <2>16, <3>1, <3>3, <3>4, <3>5 DEF TInv, TypeOK, UnlinkSource, Written
  <2>17. CASE Crash(c)
    <3>1. faults' \in 0 .. MaxEvents
      BY <2>17, ConstantsAssumption DEF Crash, Eventful, TInv, TypeOK
    <3>2. job'[c] = Idle /\ Idle \in Jobs /\ Idle.pc = "idle"
      BY <1>0, <2>17 DEF Crash, Idle, Jobs
    <3>3. Placed(c)'
      BY <3>2 DEF Placed, Encodes, Publishing
    <3> QED
      BY <1>0, <2>1, <2>2, <2>17, <3>1, <3>2, <3>3 DEF TInv, TypeOK, Crash, Written
  <2> QED
    BY <1>a, <2>3, <2>4, <2>5, <2>6, <2>7, <2>8, <2>9, <2>10, <2>11, <2>12, <2>13, <2>14, <2>15, <2>16, <2>17
       DEF CompressorStep
<1>b. ASSUME NEW r \in Requests, RetryStep(r)
      PROVE  TInv'
  <2>1. ASSUME retry' = [retry EXCEPT ![r] = retry'[r]], retry'[r] \in RetryStates, Asked(r)',
               UNCHANGED <<data, staging, videos, job, rewrites, deletes, exposed, restored,
                           mistaken, deleted>>,
               source' \in [Sources -> Versions \cup {0}], prov' \in Books, faults' \in 0 .. MaxEvents,
               removed' \subseteq Sources \X Versions, lost' \subseteq Sources \X Versions
        PROVE  TInv'
    <3>1. \A q \in Requests : Asked(q)'
      <4>1. ASSUME NEW q \in Requests, q # r
            PROVE  Asked(q)'
        <5>1. retry'[q] = retry[q] /\ Asked(q)
          BY <1>0, <2>1, <4>1 DEF TInv
        <5> QED
          BY <2>1, <5>1 DEF Asked, Asks
      <4> QED
        BY <2>1, <4>1
    <3>2. \A c \in Compressors : Placed(c)'
      BY <2>1 DEF TInv, Placed, Encodes, Publishing
    <3>3. retry' \in [Requests -> RetryStates]
      BY <1>0, <2>1
    <3> QED
      BY <2>1, <3>1, <3>2, <3>3 DEF TInv, TypeOK, Written, RetryStates
  <2>2. retry[r] \in RetryStates /\ Asked(r)
    BY <1>0 DEF TInv
  <2>3. ASSUME NEW n \in Names, StartRetry(r, n)
        PROVE  TInv'
    <3>1. prov[n] \in Records
      BY <1>0, <2>3 DEF StartRetry, Books
    <3>2. /\ retry'[r] \in RetryStates /\ retry' = [retry EXCEPT ![r] = retry'[r]]
          /\ retry'[r].name = n /\ retry'[r].snap = prov
      BY <1>0, <2>3 DEF StartRetry, RetryStates
    <3>3. Asked(r)'
      BY <1>0, <3>1, <3>2 DEF Asked, Asks
    <3> QED
      BY <1>0, <2>1, <2>3, <3>2, <3>3 DEF StartRetry, TInv, TypeOK
  <2>4. CASE CheckFiles(r) \/ VerifyAgain(r) \/ UnlinkAgain(r)
    <3>1. \/ \E p \in {"verify", "unlink", "save"}, state \in {"PENDING", "REMOVED"} :
               retry'[r] = [retry[r] EXCEPT !.pc = p, !.state = state]
          \/ \E p \in {"unlink", "save"} : retry'[r] = [retry[r] EXCEPT !.pc = p]
      <4>1. CASE CheckFiles(r)
        <5>1. \E p \in {"verify", "save"}, state \in {"PENDING", "REMOVED"} :
                retry' = [retry EXCEPT ![r].pc = p, ![r].state = state]
          BY <4>1 DEF CheckFiles
        <5> QED
          BY <1>0, <5>1
      <4>2. CASE VerifyAgain(r)
        BY <1>0, <2>2, <4>2 DEF VerifyAgain
      <4>3. CASE UnlinkAgain(r)
        <5>1. \/ retry' = [retry EXCEPT ![r].pc = "save", ![r].state = "REMOVED"]
              \/ retry' = [retry EXCEPT ![r].pc = "save"]
          BY <4>3 DEF UnlinkAgain
        <5> QED
          BY <1>0, <5>1
      <4> QED
        BY <2>4, <4>1, <4>2, <4>3
    <3>2. /\ retry'[r] \in RetryStates
          /\ retry'[r].name = retry[r].name /\ retry'[r].snap = retry[r].snap
      BY <2>2, <3>1 DEF RetryStates
    <3>3. retry' = [retry EXCEPT ![r] = retry'[r]] /\ retry[r].pc # "idle"
      BY <1>0, <2>4 DEF CheckFiles, VerifyAgain, UnlinkAgain
    <3>4. Asked(r)'
      BY <2>2, <3>2, <3>3 DEF Asked, Asks
    <3>5. source' \in [Sources -> Versions \cup {0}] /\ removed' \subseteq Sources \X Versions
      <4>1. CASE UnlinkAgain(r)
        <5>1. retry[r].snap[retry[r].name].of \in Sources
          BY <2>2, <3>3 DEF Asked, Asks, Records
        <5> QED
          BY <1>0, <4>1, <5>1 DEF UnlinkAgain, Unlink, TInv, TypeOK
      <4>2. CASE ~UnlinkAgain(r)
        BY <1>0, <2>4, <4>2 DEF CheckFiles, VerifyAgain, TInv, TypeOK
      <4> QED
        BY <4>1, <4>2
    <3> QED
      BY <1>0, <2>1, <2>4, <3>2, <3>3, <3>4, <3>5 DEF CheckFiles, VerifyAgain, UnlinkAgain, TInv, TypeOK
  <2>5. CASE SaveRetry(r)
    <3> DEFINE snap == retry[r].snap
               n == retry[r].name
    <3>0. snap \in Books /\ n \in Names /\ snap[n] \in Records
      BY <2>2, <2>5 DEF SaveRetry, Asked, Asks
    <3>1. /\ retry'[r] \in RetryStates /\ retry' = [retry EXCEPT ![r] = retry'[r]] /\ Asked(r)'
      BY <1>0, <2>5 DEF SaveRetry, AtRest, RetryStates, Asked, Asks
    <3>2. CASE Save(snap, n, [snap[n] EXCEPT !.state = retry[r].state]) /\ UNCHANGED faults
      <4>1. [snap[n] EXCEPT !.state = retry[r].state] \in Records
        BY <2>2, <3>0 DEF Records, RetryStates
      <4>2. prov' \in Books
        BY <3>0, <3>2, <4>1 DEF Save, Books
      <4>4. lost' \subseteq Sources \X Versions
        BY <1>0, <3>2, DroppedLemma DEF Save, TInv, TypeOK
      <4> QED
        BY <1>0, <2>1, <2>5, <3>1, <3>2, <4>2, <4>4 DEF SaveRetry, TInv, TypeOK
    <3>3. CASE Eventful /\ faults' = faults + 1 /\ UNCHANGED <<prov, lost>>
      <4>1. faults' \in 0 .. MaxEvents
        BY <3>3, ConstantsAssumption DEF Eventful, TInv, TypeOK
      <4> QED
        BY <1>0, <2>1, <2>5, <3>1, <3>3, <4>1 DEF SaveRetry, TInv, TypeOK
    <3> QED
      BY <2>5, <3>2, <3>3 DEF SaveRetry
  <2> QED
    BY <1>b, <2>3, <2>4, <2>5 DEF RetryStep
<1>c. ASSUME NEW s \in Sources, Rewrite(s)
      PROVE  TInv'
  <2>1. rewrites' \in 0 .. MaxEvents /\ 1 .. rewrites + 2 \subseteq Versions
    BY <1>c, ConstantsAssumption DEF Rewrite, Eventful, TInv, TypeOK, Versions
  <2>2. /\ source' \in [Sources -> Versions \cup {0}] /\ exposed' \subseteq Sources \X Versions
        /\ restored' \subseteq Sources \X Versions
    BY <1>0, <1>c, <2>1 DEF Rewrite, TInv, TypeOK
  <2> QED
    BY <1>0, <1>c, <2>1, <2>2
       DEF Rewrite, TInv, TypeOK, Placed, Asked, Asks, Written, Encodes, Publishing
<1>d. ASSUME NEW n \in Names, DeleteOutput(n)
      PROVE  TInv'
  <2>1. deletes' \in 0 .. MaxEvents
    BY <1>d, ConstantsAssumption DEF DeleteOutput, Eventful, TInv, TypeOK
  <2>2. videos' \in [Names -> Files \cup {0}] /\ Written' /\ deleted' \subseteq Outputs
    BY <1>0, <1>d DEF DeleteOutput, Free, Output, TInv, TypeOK, Written
  <2> QED
    BY <1>0, <1>d, <2>1, <2>2
       DEF DeleteOutput, TInv, TypeOK, Placed, Asked, Asks, Encodes, Publishing
<1>e. CASE UNCHANGED vars
  BY <1>e DEF vars, TInv, TypeOK, Placed, Asked, Asks, Written, Encodes, Publishing
<1> QED
  BY <1>a, <1>b, <1>c, <1>d, <1>e DEF Next

\* Every variable keeps its type.
THEOREM TypeCorrect == Spec => []TypeOK
<1>1. Spec => []TInv
  BY TypeInit, TypeNext, PTL DEF Spec
<1>2. TInv => TypeOK
  BY DEF TInv
<1> QED
  BY <1>1, <1>2, PTL

-----------------------------------------------------------------------------
(* RemovalSafe, with one compressor at a time.                             *)

Pair(x)    == <<x.of, x.version>>
Current(c) == <<job[c].src, job[c].version>>
Same(x, y) == Pair(x) = Pair(y) /\ x.output = y.output

\* An output that is no sound encoding of the version its record names was made
\* while the program could not see it; and the source must not be unlinked because
\* of it, unless nothing can be told of what it holds.
Proper(x) == /\ x.output = Encoding(Pair(x)) \/ Pair(x) \in exposed \cup mistaken
             /\ \/ Pair(x) \in Unseen \cup removed
                \/ source[x.of] # x.version
                \/ x.output = Encoding(Pair(x))

\* The output of a record is there.
KeptAt(n, x) == Output(n) = x.output \/ x.output \in deleted

\* The record was saved, and not dropped or lost by the user since.
OnRecord(n, x) == \/ x.output \in deleted \/ Pair(x) \in lost
                  \/ prov[n] # None /\ Same(prov[n], x)

\* The records of a name in the file and in what will be written over it.
Known(n) == {x \in Records : \/ prov[n] = x
                             \/ \E r \in Requests : Asks(r) /\ retry[r].snap[n] = x
                             \/ \E c \in Compressors : job[c].pc = "save" /\ job[c].snap[n] = x}

Agrees(n, rec) == \A x \in Known(n) : x.output \in deleted \/ Same(x, rec)

Old(v) == v <= rewrites + 1

\* What the encoder writes is one hidden file, and no published one.
Separate ==
  /\ \A s \in Sources : staging[s] # 0 =>
       /\ \A n \in Names : videos[n] # staging[s]
       /\ \A t \in Sources : staging[t] = staging[s] => t = s
  /\ \A c \in Compressors : job[c].pc = "write" => job[c].file = staging[job[c].src]

\* A version that was never there appears nowhere.
Fresh ==
  /\ \A s \in Sources : Old(source[s])
  /\ \A n \in Names : \A x \in Known(n) : Old(x.version)
  /\ \A c \in Compressors :
       Encodes(c) \/ job[c].pc = "move" \/ Publishing(c) => Old(job[c].version)

\* From the probe to the hidden file.
Followed(c) ==
  LET s == job[c].src
      output == data[staging[s]]
  IN /\ job[c].pc = "hash" =>
          source[s] \in {0, job[c].probe} \/ <<s, source[s]>> \in exposed
     /\ Encodes(c) => job[c].probe = job[c].version \/ Current(c) \in exposed
     /\ job[c].pc \in {"write", "validate"} /\ staging[s] # 0 =>
          /\ output.of = s
          /\ \/ output.version = job[c].version \/ source[s] # job[c].version
             \/ Current(c) \in restored
     /\ job[c].pc = "move" =>
          /\ Pair(job[c].rec) = Current(c) /\ Proper(job[c].rec)
          /\ staging[s] # 0 => output = job[c].rec.output
     /\ ~Publishing(c) => job[c].name = 0

\* From the published file to the unlink and its record.
Published(c) ==
  LET rec == job[c].rec
      n == job[c].name
  IN Publishing(c) =>
       /\ Pair(rec) = Current(c) /\ Proper(rec) /\ KeptAt(n, rec) /\ Agrees(n, rec)
       /\ job[c].pc = "recheck" => Output(n) \in {None, rec.output}
       /\ job[c].pc \in {"verify", "unlink"} => OnRecord(n, rec)
       /\ job[c].pc = "unlink" =>
            source[rec.of] \in {0, rec.version} \/ <<rec.of, source[rec.of]>> \in exposed

Requested(r) ==
  LET rec == retry[r].snap[retry[r].name]
  IN Asks(r) =>
       /\ OnRecord(retry[r].name, rec)
       /\ retry[r].pc = "unlink" =>
            source[rec.of] \in {0, rec.version} \/ <<rec.of, source[rec.of]>> \in exposed

Noted(n) ==
  \A x \in Known(n) :
    /\ Proper(x) /\ KeptAt(n, x)
    /\ lost = {} => prov[n] # None
    /\ \A y \in Known(n) : x.output \in deleted \/ y.output \in deleted \/ Same(x, y)

Recorded ==
  \A p \in InItsCare :
    p \in lost \/ \E n \in Names :
                     prov[n] # None /\ Pair(prov[n]) = p /\ prov[n].output = Encoding(p)

Undisturbed == faults = 0 /\ lost = {} /\ deleted = {}

\* What is encoded has no record yet, what is published only one under its name.
NotTwice(c) ==
  Undisturbed /\ (Encodes(c) \/ job[c].pc = "move" \/ Publishing(c)) /\ Current(c) \notin Unseen =>
    \A m \in Names : prov[m] # None /\ Pair(prov[m]) = Current(c) => m = job[c].name

RInv ==
  /\ TInv /\ Separate /\ Fresh
  /\ \A c \in Compressors : Followed(c) /\ Published(c) /\ NotTwice(c)
  /\ \A r \in Requests : Requested(r)
  /\ \A n \in Names : Noted(n)
  /\ RemovedWasOptimized /\ Recorded /\ OneOutputPerVersion

Alone == \A c, d \in Compressors : c = d

\* The steps of one compressor, one request and the user.
LEMMA StepsLemma ==
  ASSUME TInv, [Next]_vars
  PROVE  /\ \/ UNCHANGED source
            \/ \E c \in Compressors : UnlinkSource(c) /\ job[c].pc = "unlink" /\ Unlink(job[c].src)
                                      /\ job[c].src \in Sources
            \/ \E r \in Requests : UnlinkAgain(r) /\ retry[r].pc = "unlink"
                                   /\ Unlink(retry[r].snap[retry[r].name].of)
            \/ \E s \in Sources : Rewrite(s)
         /\ \/ UNCHANGED removed
            \/ \E c \in Compressors : UnlinkSource(c) /\ job[c].pc = "unlink" /\ Unlink(job[c].src)
            \/ \E r \in Requests : UnlinkAgain(r) /\ retry[r].pc = "unlink"
                                   /\ Unlink(retry[r].snap[retry[r].name].of)
         /\ UNCHANGED <<rewrites, exposed, restored>> \/ \E s \in Sources : Rewrite(s)
         /\ UNCHANGED mistaken \/ \E c \in Compressors : Validate(c)
         /\ UNCHANGED deleted \/ \E n \in Names : DeleteOutput(n)
         /\ \/ UNCHANGED <<prov, lost>>
            \/ \E c \in Compressors : SaveRecords(c)
            \/ \E r \in Requests : SaveRetry(r)
         /\ UNCHANGED faults \/ faults' = faults + 1
         /\ \/ UNCHANGED <<data, staging, videos>>
            \/ \E c \in Compressors : CompressorStep(c)
            \/ \E n \in Names : DeleteOutput(n)
         /\ UNCHANGED job \/ \E c \in Compressors : CompressorStep(c)
         /\ UNCHANGED retry \/ \E r \in Requests : RetryStep(r)
<1> USE DEF files, outputs, history
<1>a. ASSUME NEW c \in Compressors, CompressorStep(c)
      PROVE  /\ UNCHANGED <<retry, rewrites, deletes, exposed, restored, deleted>>
             /\ UNCHANGED mistaken \/ Validate(c)
             /\ UNCHANGED <<source, removed>>
                \/ (job[c].pc = "unlink" /\ Unlink(job[c].src) /\ UnlinkSource(c))
                \/ (UnlinkSource(c) /\ UNCHANGED <<source, removed>>)
             /\ UNCHANGED <<prov, lost>> \/ SaveRecords(c)
             /\ UNCHANGED faults \/ faults' = faults + 1
  BY <1>a DEF CompressorStep, StartRun, EndRun, ProbeSource, HashSource, OpenEncoder, WriteOn,
      CloseEncoder, FailEncoder, Validate, MoveToName, Recheck, LoadRecords, SaveRecords,
      VerifySource, UnlinkSource, Crash, Reuse, Encode
<1>b. ASSUME NEW r \in Requests, RetryStep(r)
      PROVE  /\ UNCHANGED <<outputs, job, rewrites, deletes, exposed, restored, mistaken, deleted>>
             /\ UNCHANGED <<source, removed>>
                \/ (retry[r].pc = "unlink" /\ Unlink(retry[r].snap[retry[r].name].of) /\ UnlinkAgain(r))
             /\ UNCHANGED <<prov, lost>> \/ SaveRetry(r)
             /\ UNCHANGED faults \/ faults' = faults + 1
  BY <1>b DEF RetryStep, StartRetry, CheckFiles, VerifyAgain, UnlinkAgain, SaveRetry
<1>c. ASSUME NEW s \in Sources, Rewrite(s)
      PROVE  UNCHANGED <<outputs, prov, job, retry, deletes, faults, removed, mistaken, deleted, lost>>
  BY <1>c DEF Rewrite
<1>d. ASSUME NEW n \in Names, DeleteOutput(n)
      PROVE  UNCHANGED <<source, data, staging, prov, job, retry, rewrites, faults, removed, exposed,
                         restored, mistaken, lost>>
  BY <1>d DEF DeleteOutput
<1>e. ASSUME NEW c \in Compressors, job[c].pc = "unlink"
      PROVE  job[c].src \in Sources
  BY <1>e DEF TInv, Placed
<1>1. CASE \E c \in Compressors : CompressorStep(c)
  <2>1. PICK c \in Compressors : CompressorStep(c)
    BY <1>1
  <2> QED
    BY <1>a, <1>e, <2>1
<1>2. CASE \E r \in Requests : RetryStep(r)
  <2>1. PICK r \in Requests : RetryStep(r)
    BY <1>2
  <2> QED
    BY <1>b, <2>1
<1>3. CASE \E s \in Sources : Rewrite(s)
  BY <1>c, <1>3
<1>4. CASE \E n \in Names : DeleteOutput(n)
  BY <1>d, <1>4
<1>5. CASE UNCHANGED vars
  BY <1>5 DEF vars
<1> QED
  BY <1>1, <1>2, <1>3, <1>4, <1>5 DEF Next

\* What the histories hold they keep.
LEMMA HistoryLemma ==
  ASSUME TInv, [Next]_vars
  PROVE  /\ exposed \subseteq exposed' /\ removed \subseteq removed'
         /\ restored \subseteq restored' /\ mistaken \subseteq mistaken' /\ Unseen \subseteq Unseen'
         /\ deleted \subseteq deleted' /\ lost \subseteq lost'
         /\ Undisturbed' => Undisturbed
         /\ \A v \in Versions \cup {0} : Old(v) => Old(v)'
<1>1. exposed \subseteq exposed' /\ restored \subseteq restored' /\ rewrites' \in {rewrites, rewrites + 1}
  BY StepsLemma DEF Rewrite, TInv, TypeOK
<1>7. mistaken \subseteq mistaken'
  BY StepsLemma DEF Validate
<1>2. removed \subseteq removed'
  BY StepsLemma DEF UnlinkSource, UnlinkAgain, Unlink
<1>3. deleted \subseteq deleted'
  BY StepsLemma DEF DeleteOutput
<1>4. lost \subseteq lost'
  BY StepsLemma DEF SaveRecords, SaveRetry, Save
<1>5. faults' = 0 => faults = 0
  <2>1. faults \in Nat
    BY ConstantsAssumption DEF TInv, TypeOK
  <2> QED
    BY <2>1, StepsLemma
<1>6. \A v \in Versions \cup {0} : Old(v) => Old(v)'
  <2> SUFFICES ASSUME NEW v \in Versions \cup {0}, v <= rewrites + 1
               PROVE  v <= rewrites' + 1
    BY DEF Old
  <2>1. rewrites \in Nat /\ v \in Nat
    BY ConstantsAssumption DEF TInv, TypeOK, Versions
  <2>2. CASE rewrites' = rewrites
    BY <2>2
  <2>3. CASE rewrites' = rewrites + 1
    BY <2>1, <2>3
  <2> QED
    BY <1>1, <2>2, <2>3
<1> QED
  BY <1>1, <1>2, <1>3, <1>4, <1>5, <1>6, <1>7 DEF Undisturbed, Unseen

\* The bytes under a source's name: the user brings new ones or earlier ones, which
\* is noted, as it is between a check and its step.
LEMMA SourceLemma ==
  ASSUME TInv, Fresh, [Next]_vars, NEW s \in Sources
  PROVE  /\ source'[s] \in {0, source[s]} \/ <<s, source'[s]>> \in restored'
            \/ ~Old(source'[s])
         /\ Guarded(s) => source'[s] \in {0, source[s]} \/ <<s, source'[s]>> \in exposed'
<1>1. CASE UNCHANGED source
  BY <1>1
<1>2. ASSUME NEW t \in Sources, Unlink(t)
      PROVE  source'[s] \in {0, source[s]}
  BY <1>2 DEF Unlink, TInv, TypeOK
<1>3. ASSUME NEW t \in Sources, Rewrite(t)
      PROVE  /\ source'[s] = source[s] \/ <<s, source'[s]>> \in restored' \/ ~Old(source'[s])
             /\ Guarded(s) => source'[s] = source[s] \/ <<s, source'[s]>> \in exposed'
  <2>1. PICK v \in 1 .. rewrites + 2 :
               /\ source' = [source EXCEPT ![t] = v]
               /\ restored' = IF v <= rewrites + 1 THEN restored \cup {<<t, v>>} ELSE restored
               /\ exposed' = IF Guarded(t) THEN exposed \cup {<<t, v>>} ELSE exposed
    BY <1>3 DEF Rewrite
  <2>2. rewrites \in Nat /\ source \in [Sources -> Versions \cup {0}]
    BY ConstantsAssumption DEF TInv, TypeOK
  <2>4. CASE s = t
    BY <2>1, <2>2, <2>4 DEF Old
  <2>5. CASE s # t
    BY <2>1, <2>2, <2>5
  <2> QED
    BY <2>4, <2>5
<1>4. ASSUME NEW r \in Requests, retry[r].pc = "unlink"
      PROVE  retry[r].snap[retry[r].name].of \in Sources
  BY <1>4 DEF TInv, Asked, Asks, Records
<1> QED
  BY <1>1, <1>2, <1>3, <1>4, StepsLemma

\* No step makes a record improper.
LEMMA ProperLemma ==
  ASSUME TInv, Fresh, [Next]_vars, NEW x \in Records, Proper(x), Old(x.version)
  PROVE  Proper(x)'
<1>1. x.of \in Sources /\ x.version \in Versions /\ x.version # 0
  BY ConstantsAssumption DEF Records, Versions
<1>2. Pair(x) \in Unseen \cup removed => Pair(x) \in Unseen' \cup removed'
  BY HistoryLemma
<1>3. source[x.of] # x.version => source'[x.of] # x.version \/ Pair(x) \in restored'
  BY <1>1, SourceLemma DEF Pair
<1>4. x.output = Encoding(Pair(x)) \/ Pair(x) \in exposed' \cup mistaken'
  BY HistoryLemma DEF Proper
<1>5. \/ Pair(x) \in Unseen' \cup removed'
      \/ source'[x.of] # x.version
      \/ x.output = Encoding(Pair(x))
  BY <1>2, <1>3, <1>4 DEF Proper, Unseen
<1> QED
  BY <1>4, <1>5 DEF Proper, Pair, Encoding

\* What a compressor knows after each of its steps.
LEMMA JobLemma ==
  ASSUME TInv, NEW c \in Compressors
  PROVE  LET new == job'[c]
             old == job[c]
             follows == new.src = old.src /\ new.version = old.version /\ new.name = old.name
         IN /\ StartRun(c) \/ EndRun(c) \/ Crash(c) \/ FailEncoder(c) =>
                 new.pc \in {"idle", "next"} /\ new.name = 0 /\ new.file = 0
            /\ \A s \in Sources : ProbeSource(c, s) =>
                 \/ new.pc = "next" /\ new.name = old.name
                 \/ /\ new.pc = "hash" /\ new.src = s /\ new.probe = source[s]
                    /\ new.name = old.name
            /\ HashSource(c) =>
                 \/ new.pc \in {"idle", "next"} /\ new.name = 0 /\ UNCHANGED staging
                 \/ /\ new.pc = "encode" /\ new.src = old.src /\ new.probe = old.probe
                    /\ new.version = source[old.src] /\ new.name = old.name
                    /\ Encode(c, source[old.src]) /\ source[old.src] # 0
                 \/ /\ new.pc = "load" /\ new.src = old.src /\ new.version = source[old.src]
                    /\ new.name \in RecordFor(prov, old.src, source[old.src]) /\ Reusable(new.name)
                    /\ new.rec = [prov[new.name] EXCEPT !.state = "PENDING"] /\ source[old.src] # 0
                    /\ UNCHANGED staging
            /\ OpenEncoder(c) => follows /\ new.pc = "write" /\ new.probe = old.probe
            /\ WriteOn(c) => UNCHANGED job
            /\ CloseEncoder(c) => follows /\ new.pc = "validate" /\ new.probe = old.probe /\ new.file = 0
            /\ Validate(c) =>
                 \/ new.pc = "next" /\ new.name = 0 /\ new.file = 0
                 \/ /\ follows /\ new.pc = "move" /\ new.file = old.file /\ staging[old.src] # 0
                    /\ new.rec = [of |-> old.src, version |-> old.version,
                                  output |-> data[staging[old.src]], state |-> "PENDING"]
                    /\ TRUE \in Valid(old.probe, data[staging[old.src]]) /\ UNCHANGED staging
            /\ MoveToName(c) =>
                 \/ new.pc = "next" /\ new.name = 0 /\ UNCHANGED videos
                 \/ /\ new.pc = "recheck" /\ new.src = old.src /\ new.version = old.version
                    /\ new.rec = old.rec /\ staging[old.src] # 0
                    /\ new.name \in Names /\ Free(new.name)
                    /\ videos' = [videos EXCEPT ![new.name] = staging[old.src]]
            /\ Recheck(c) =>
                 \/ new.pc \in {"idle", "next"} /\ new.name = 0
                 \/ follows /\ new.pc = "load" /\ new.rec = old.rec
            /\ LoadRecords(c) => follows /\ new.pc = "save" /\ new.rec = old.rec /\ new.snap = prov
            /\ SaveRecords(c) =>
                 \/ new.pc = "next" /\ new.name = 0
                 \/ /\ follows /\ new.pc = "verify" /\ new.rec = old.rec
                    /\ Save(old.snap, old.name, old.rec)
            /\ VerifySource(c) =>
                 /\ follows /\ new.rec = old.rec
                 /\ new.pc = "load" \/ (new.pc = "unlink" /\ source[old.src] = old.version)
            /\ UnlinkSource(c) =>
                 /\ follows /\ new.pc = "load" /\ new.rec.output = old.rec.output
                 /\ Pair(new.rec) = Pair(old.rec)
<1> USE DEF files, outputs, history
<1>0. job \in [Compressors -> Jobs] /\ Placed(c) /\ job[c] \in Jobs
  BY DEF TInv, TypeOK
<1>n. NextFile(c).pc = "next" /\ NextFile(c).name = 0 /\ NextFile(c).file = 0
      /\ Idle.pc = "idle" /\ Idle.name = 0 /\ Idle.file = 0
  BY DEF NextFile, Idle
<1>1. StartRun(c) \/ EndRun(c) \/ Crash(c) \/ FailEncoder(c) =>
         job'[c].pc \in {"idle", "next"} /\ job'[c].name = 0 /\ job'[c].file = 0
  BY <1>0, <1>n DEF StartRun, EndRun, Crash, FailEncoder, Idle
<1>2. ASSUME NEW s \in Sources, ProbeSource(c, s)
      PROVE  \/ job'[c].pc = "next" /\ job'[c].name = job[c].name
             \/ /\ job'[c].pc = "hash" /\ job'[c].src = s /\ job'[c].probe = source[s]
                /\ job'[c].name = job[c].name
  BY <1>0, <1>2 DEF ProbeSource, Probed, Jobs
<1>3. ASSUME HashSource(c)
      PROVE  \/ job'[c].pc \in {"idle", "next"} /\ job'[c].name = 0 /\ UNCHANGED staging
             \/ /\ job'[c].pc = "encode" /\ job'[c].src = job[c].src /\ job'[c].probe = job[c].probe
                /\ job'[c].version = source[job[c].src] /\ job'[c].name = job[c].name
                /\ Encode(c, source[job[c].src]) /\ source[job[c].src] # 0
             \/ /\ job'[c].pc = "load" /\ job'[c].src = job[c].src /\ job'[c].version = source[job[c].src]
                /\ job'[c].name \in RecordFor(prov, job[c].src, source[job[c].src])
                /\ Reusable(job'[c].name)
                /\ job'[c].rec = [prov[job'[c].name] EXCEPT !.state = "PENDING"]
                /\ source[job[c].src] # 0 /\ UNCHANGED staging
  <2> DEFINE v == source[job[c].src]
             found == RecordFor(prov, job[c].src, v)
  <2>1. \/ v = 0 /\ job' = [job EXCEPT ![c] = Idle] /\ UNCHANGED staging
        \/ v # 0 /\ found = {} /\ Encode(c, v)
        \/ \E n \in found :
             \/ job' = [job EXCEPT ![c] = NextFile(c)] /\ UNCHANGED staging
             \/ Reusable(n) /\ Reuse(c, n, v)
             \/ Encode(c, v)
    BY <1>3 DEF HashSource, Digest, Readable
  <2>2. found # {} => v # 0
    <3>1. \A n \in Names : prov[n] # None => prov[n].version # 0
      BY ConstantsAssumption DEF TInv, TypeOK, Books, Records, Versions
    <3> QED
      BY <3>1 DEF RecordFor
  <2>3. Encode(c, v) =>
          /\ job'[c].pc = "encode" /\ job'[c].src = job[c].src /\ job'[c].probe = job[c].probe
          /\ job'[c].version = v /\ job'[c].name = job[c].name
    BY <1>0 DEF Encode, Jobs
  <2>4. ASSUME NEW n \in found, Reuse(c, n, v)
        PROVE  /\ job'[c].pc = "load" /\ job'[c].src = job[c].src /\ job'[c].version = v
               /\ job'[c].name = n /\ job'[c].rec = [prov[n] EXCEPT !.state = "PENDING"]
               /\ UNCHANGED staging
    <3> DEFINE rec == [prov[n] EXCEPT !.state = "PENDING"]
    <3>1. job' = [job EXCEPT ![c].pc = "load", ![c].version = v, ![c].name = n,
                        ![c].then = "verify", ![c].rec = rec] /\ UNCHANGED staging
      BY <2>4 DEF Reuse
    <3> HIDE DEF rec, v, found
    <3>2. /\ job'[c].pc = "load" /\ job'[c].src = job[c].src /\ job'[c].version = v
          /\ job'[c].name = n /\ job'[c].rec = rec
      BY <1>0, <3>1 DEF Jobs
    <3> QED
      BY <3>1, <3>2 DEF rec
  <2> HIDE DEF v, found
  <2>5. CASE v = 0 /\ job' = [job EXCEPT ![c] = Idle] /\ UNCHANGED staging
    BY <1>0, <1>n, <2>5
  <2>6. CASE v # 0 /\ Encode(c, v)
    BY <2>3, <2>6 DEF v
  <2>7. ASSUME NEW n \in found, job' = [job EXCEPT ![c] = NextFile(c)] /\ UNCHANGED staging
        PROVE  job'[c].pc \in {"idle", "next"} /\ job'[c].name = 0 /\ UNCHANGED staging
    BY <1>0, <1>n, <2>7
  <2>8. ASSUME NEW n \in found, Reusable(n), Reuse(c, n, v)
        PROVE  /\ job'[c].pc = "load" /\ job'[c].src = job[c].src /\ job'[c].version = v
               /\ job'[c].name \in found /\ Reusable(job'[c].name)
               /\ job'[c].rec = [prov[job'[c].name] EXCEPT !.state = "PENDING"]
               /\ v # 0 /\ UNCHANGED staging
    BY <2>2, <2>4, <2>8
  <2> QED
    BY <2>1, <2>2, <2>5, <2>6, <2>7, <2>8 DEF v, found
<1>4. ASSUME Validate(c)
      PROVE  \/ job'[c].pc = "next" /\ job'[c].name = 0 /\ job'[c].file = 0
             \/ /\ job'[c].src = job[c].src /\ job'[c].version = job[c].version /\ job'[c].name = job[c].name
                /\ job'[c].pc = "move" /\ job'[c].file = job[c].file /\ staging[job[c].src] # 0
                /\ job'[c].rec = [of |-> job[c].src, version |-> job[c].version,
                                  output |-> data[staging[job[c].src]], state |-> "PENDING"]
                /\ TRUE \in Valid(job[c].probe, data[staging[job[c].src]]) /\ UNCHANGED staging
  <2> DEFINE rec == [of |-> job[c].src, version |-> job[c].version,
                     output |-> data[staging[job[c].src]], state |-> "PENDING"]
  <2>1. \/ job' = [job EXCEPT ![c] = NextFile(c)]
        \/ /\ staging[job[c].src] # 0 /\ TRUE \in Valid(job[c].probe, data[staging[job[c].src]])
           /\ job' = [job EXCEPT ![c].pc = "move", ![c].rec = rec]
           /\ UNCHANGED staging
    BY <1>4 DEF Validate
  <2> HIDE DEF rec
  <2>2. job' = [job EXCEPT ![c].pc = "move", ![c].rec = rec] =>
          /\ job'[c].src = job[c].src /\ job'[c].version = job[c].version /\ job'[c].name = job[c].name
          /\ job'[c].pc = "move" /\ job'[c].file = job[c].file /\ job'[c].rec = rec
    BY <1>0 DEF Jobs
  <2> QED
    BY <1>0, <1>n, <2>1, <2>2 DEF rec
<1>5. ASSUME MoveToName(c)
      PROVE  \/ job'[c].pc = "next" /\ job'[c].name = 0 /\ UNCHANGED videos
             \/ /\ job'[c].pc = "recheck" /\ job'[c].src = job[c].src /\ job'[c].version = job[c].version
                /\ job'[c].rec = job[c].rec /\ staging[job[c].src] # 0
                /\ job'[c].name \in Names /\ Free(job'[c].name)
                /\ videos' = [videos EXCEPT ![job'[c].name] = staging[job[c].src]]
  <2>1. ASSUME NEW n \in Names, job' = [job EXCEPT ![c].pc = "recheck", ![c].name = n]
        PROVE  /\ job'[c].pc = "recheck" /\ job'[c].src = job[c].src /\ job'[c].version = job[c].version
               /\ job'[c].rec = job[c].rec /\ job'[c].name = n
    BY <1>0, <2>1 DEF Jobs
  <2> QED
    BY <1>0, <1>5, <1>n, <2>1 DEF MoveToName, Destination
<1>6. ASSUME Recheck(c)
      PROVE  \/ job'[c].pc \in {"idle", "next"} /\ job'[c].name = 0
             \/ /\ job'[c].src = job[c].src /\ job'[c].version = job[c].version /\ job'[c].name = job[c].name
                /\ job'[c].pc = "load" /\ job'[c].rec = job[c].rec
  BY <1>0, <1>6, <1>n DEF Recheck, Jobs
<1>7. ASSUME SaveRecords(c)
      PROVE  \/ job'[c].pc = "next" /\ job'[c].name = 0
             \/ /\ job'[c].src = job[c].src /\ job'[c].version = job[c].version /\ job'[c].name = job[c].name
                /\ job'[c].pc = "verify" /\ job'[c].rec = job[c].rec
                /\ Save(job[c].snap, job[c].name, job[c].rec)
  <2>1. CASE job' = [job EXCEPT ![c] = NextFile(c)]
    BY <1>0, <1>n, <2>1
  <2>2. CASE /\ Save(job[c].snap, job[c].name, job[c].rec)
             /\ job' = [job EXCEPT ![c] = [job[c] EXCEPT !.pc = "verify", !.snap = <<>>, !.then = "next"]]
    BY <1>0, <2>2 DEF Jobs
  <2> QED
    BY <1>7, <2>1, <2>2 DEF SaveRecords, AfterSave, AfterFailedSave
<1>8. ASSUME UnlinkSource(c)
      PROVE  /\ job'[c].src = job[c].src /\ job'[c].version = job[c].version /\ job'[c].name = job[c].name
             /\ job'[c].pc = "load" /\ job'[c].rec.output = job[c].rec.output
             /\ Pair(job'[c].rec) = Pair(job[c].rec)
  <2> DEFINE gone == [job[c].rec EXCEPT !.state = "REMOVED"]
  <2>1. \/ job' = [job EXCEPT ![c].pc = "load", ![c].rec = gone]
        \/ job' = [job EXCEPT ![c].pc = "load"]
    BY <1>0, <1>8 DEF UnlinkSource
  <2>2. job[c].rec \in Records
    BY <1>0, <1>8 DEF UnlinkSource, Placed, Publishing
  <2>3. Pair(gone) = Pair(job[c].rec) /\ gone.output = job[c].rec.output
    BY <2>2 DEF Pair, Records
  <2> HIDE DEF gone
  <2> QED
    BY <1>0, <2>1, <2>3 DEF Jobs
<1>9. /\ OpenEncoder(c) => /\ job'[c].src = job[c].src /\ job'[c].version = job[c].version
                           /\ job'[c].name = job[c].name /\ job'[c].pc = "write"
                           /\ job'[c].probe = job[c].probe
      /\ WriteOn(c) => UNCHANGED job
      /\ CloseEncoder(c) => /\ job'[c].src = job[c].src /\ job'[c].version = job[c].version
                            /\ job'[c].name = job[c].name /\ job'[c].pc = "validate"
                            /\ job'[c].probe = job[c].probe /\ job'[c].file = 0
  <2>1. ASSUME OpenEncoder(c)
        PROVE  /\ job'[c].src = job[c].src /\ job'[c].version = job[c].version
               /\ job'[c].name = job[c].name /\ job'[c].pc = "write" /\ job'[c].probe = job[c].probe
    <3> DEFINE f == IF staging[job[c].src] = 0 THEN Min(Files \ InUse) ELSE staging[job[c].src]
    <3>1. job' = [job EXCEPT ![c].pc = "write", ![c].file = f]
      BY <2>1 DEF OpenEncoder
    <3> HIDE DEF f
    <3> QED
      BY <1>0, <3>1 DEF Jobs
  <2>2. CloseEncoder(c) => /\ job'[c].src = job[c].src /\ job'[c].version = job[c].version
                           /\ job'[c].name = job[c].name /\ job'[c].pc = "validate"
                           /\ job'[c].probe = job[c].probe /\ job'[c].file = 0
    BY <1>0 DEF CloseEncoder, Jobs
  <2>3. WriteOn(c) => UNCHANGED job
    BY DEF WriteOn
  <2> QED
    BY <2>1, <2>2, <2>3
<1>10. /\ LoadRecords(c) => /\ job'[c].src = job[c].src /\ job'[c].version = job[c].version
                            /\ job'[c].name = job[c].name /\ job'[c].pc = "save"
                            /\ job'[c].rec = job[c].rec /\ job'[c].snap = prov
  BY <1>0 DEF LoadRecords, Jobs
<1>11. /\ VerifySource(c) =>
                 /\ job'[c].src = job[c].src /\ job'[c].version = job[c].version
                 /\ job'[c].name = job[c].name /\ job'[c].rec = job[c].rec
                 /\ job'[c].pc = "load" \/ (job'[c].pc = "unlink" /\ source[job[c].src] = job[c].version)
  BY <1>0 DEF VerifySource, Intact, Digest, Jobs
<1> QED
  BY <1>1, <1>2, <1>3, <1>4, <1>5, <1>6, <1>7, <1>8, <1>9, <1>10, <1>11

\* The encoder writes the hidden file of its own source.
LEMMA SeparateNext ==
  ASSUME TInv, TInv', Separate, Alone, [Next]_vars
  PROVE  Separate'
<1> USE DEF files, outputs, history
<1>0. /\ job \in [Compressors -> Jobs] /\ staging \in [Sources -> Files \cup {0}]
      /\ videos \in [Names -> Files \cup {0}] /\ 0 \notin Files
  BY DEF TInv, TypeOK, Files
<1>1. CASE UNCHANGED <<staging, videos, job>>
  BY <1>1 DEF Separate
<1>2. ASSUME NEW c \in Compressors, CompressorStep(c)
      PROVE  Separate'
  <2>1. \A d \in Compressors : d = c
    BY DEF Alone
  <2>2. ASSUME \A s \in Sources : staging'[s] \in {staging[s], 0},
               \A n \in Names : videos'[n] \in {videos[n], 0},
               job'[c].pc = "write" => job'[c].file = staging'[job'[c].src]
        PROVE  Separate'
    BY <2>1, <2>2 DEF Separate
  <2>3. CASE StartRun(c) \/ EndRun(c) \/ Crash(c) \/ (\E s \in Sources : ProbeSource(c, s))
               \/ LoadRecords(c) \/ VerifySource(c) \/ UnlinkSource(c)
    <3>1. job'[c].pc # "write" /\ UNCHANGED <<staging, videos>>
      BY <2>3, JobLemma DEF StartRun, EndRun, Crash, ProbeSource, LoadRecords, VerifySource, UnlinkSource
    <3> QED
      BY <2>2, <3>1
  <2>4. CASE SaveRecords(c)
    <3>1. job'[c].pc # "write" /\ UNCHANGED <<staging, videos>>
      BY <2>4, JobLemma DEF SaveRecords
    <3> QED
      BY <2>2, <3>1
  <2>5. CASE HashSource(c)
    <3>1. /\ UNCHANGED videos /\ job'[c].pc # "write"
          /\ staging' = staging \/ staging' = [staging EXCEPT ![job[c].src] = 0]
      BY <2>5, JobLemma DEF HashSource, Encode
    <3> QED
      BY <1>0, <2>2, <3>1
  <2>6. CASE WriteOn(c)
    BY <2>2, <2>6 DEF WriteOn, Separate
  <2>7. CASE CloseEncoder(c) \/ FailEncoder(c) \/ Validate(c) \/ Recheck(c)
    <3>1. job'[c].pc # "write"
      BY <2>7, JobLemma
    <3>2. /\ staging' = staging \/ staging' = [staging EXCEPT ![job[c].src] = 0]
          /\ videos' = videos \/ videos' = [videos EXCEPT ![job[c].name] = 0]
      BY <2>7 DEF CloseEncoder, FailEncoder, Validate, Recheck
    <3> QED
      BY <1>0, <2>2, <3>1, <3>2
  <2>8. CASE OpenEncoder(c)
    <3> DEFINE s == job[c].src
    <3>1. PICK f \in Files : /\ f = (IF staging[s] = 0 THEN Min(Files \ InUse) ELSE staging[s])
                             /\ staging' = [staging EXCEPT ![s] = f] /\ UNCHANGED videos
                             /\ job' = [job EXCEPT ![c].pc = "write", ![c].file = f]
                             /\ s \in Sources
      <4>1. s \in Sources
        BY <2>8 DEF OpenEncoder, TInv, Placed
      <4> QED
        BY <1>0, <2>8, <4>1, FreshFileLemma DEF OpenEncoder, TInv
    <3>2. job'[c].file = f /\ job'[c].src = s
      BY <1>0, <3>1 DEF Jobs
    <3>3. CASE staging[s] = 0
      <4>1. f \notin InUse
        BY <3>1, <3>3, FreshFileLemma DEF TInv
      <4>2. (\A n \in Names : videos[n] # f) /\ \A t \in Sources : staging[t] # f
        BY <4>1 DEF InUse
      <4> QED
        BY <1>0, <2>1, <3>1, <3>2, <4>2 DEF Separate
    <3>4. CASE staging[s] # 0
      <4>1. staging' = staging /\ staging[s] = f
        BY <1>0, <3>1, <3>4
      <4> QED
        BY <1>0, <2>1, <3>1, <3>2, <4>1 DEF Separate
    <3> QED
      BY <3>3, <3>4
  <2>9. CASE MoveToName(c)
    <3> DEFINE s == job[c].src
    <3>1. s \in Sources /\ staging' = [staging EXCEPT ![s] = 0] /\ job'[c].pc # "write"
      BY <2>9, JobLemma DEF MoveToName, TInv, Placed
    <3>2. CASE UNCHANGED videos
      BY <1>0, <2>2, <3>1, <3>2
    <3>3. ASSUME NEW n \in Names, staging[s] # 0, videos' = [videos EXCEPT ![n] = staging[s]]
          PROVE  Separate'
      BY <1>0, <2>1, <3>1, <3>3 DEF Separate
    <3> QED
      BY <2>9, <3>2, <3>3 DEF MoveToName
  <2> QED
    BY <1>2, <2>3, <2>4, <2>5, <2>6, <2>7, <2>8, <2>9 DEF CompressorStep
<1>3. ASSUME NEW n \in Names, DeleteOutput(n)
      PROVE  Separate'
  BY <1>0, <1>3 DEF DeleteOutput, Separate
<1> QED
  BY <1>1, <1>2, <1>3, StepsLemma DEF Next, vars

\* A published output stays what it is unless the user deletes it.
LEMMA OutputLemma ==
  ASSUME TInv, TInv', Separate, Alone, [Next]_vars, NEW n \in Names,
         \A c \in Compressors : Published(c)
  PROVE  \/ Output(n)' = Output(n) \/ Output(n) = None
         \/ Output(n) \in deleted'
<1> USE DEF files, outputs, history
<1>0. /\ job \in [Compressors -> Jobs] /\ videos \in [Names -> Files \cup {0}]
      /\ data \in [Files -> Outputs \cup {None}] /\ 0 \notin Files
  BY DEF TInv, TypeOK, Files
<1>1. CASE UNCHANGED <<data, videos>>
  BY <1>1 DEF Output
<1>2. ASSUME NEW c \in Compressors, CompressorStep(c)
      PROVE  Output(n)' = Output(n) \/ Output(n) = None
  <2>1. CASE OpenEncoder(c)
    <3>1. PICK f \in Files : /\ data' = [data EXCEPT ![f] = Encoded(job[c].src, FALSE)]
                             /\ f \notin InUse \/ (f = staging[job[c].src] /\ f # 0)
                             /\ UNCHANGED videos /\ job[c].src \in Sources
      <4>1. job[c].src \in Sources
        BY <2>1 DEF OpenEncoder, TInv, Placed
      <4>2. staging \in [Sources -> Files \cup {0}]
        BY DEF TInv, TypeOK
      <4> QED
        BY <1>0, <2>1, <4>1, <4>2, FreshFileLemma DEF OpenEncoder, TInv
    <3>2. videos[n] # f
      BY <3>1 DEF InUse, Separate
    <3> QED
      BY <1>0, <3>1, <3>2 DEF Output
  <2>2. CASE WriteOn(c) \/ CloseEncoder(c)
    <3>1. /\ job[c].file \in Files /\ job[c].file = staging[job[c].src] /\ job[c].src \in Sources
          /\ \E sound \in BOOLEAN : data' = [data EXCEPT ![job[c].file].sound = sound]
          /\ UNCHANGED videos
      BY <2>2 DEF WriteOn, CloseEncoder, TInv, Placed, Separate
    <3>2. videos[n] # job[c].file
      BY <1>0, <3>1 DEF Separate
    <3> QED
      BY <1>0, <3>1, <3>2 DEF Output
  <2>3. CASE MoveToName(c)
    BY <1>0, <2>3 DEF MoveToName, Destination, Free, Output
  <2>4. CASE Recheck(c)
    <3>1. CASE Output(job[c].name) = job[c].rec.output
      BY <2>4, <3>1 DEF Recheck, Output
    <3>2. CASE Output(job[c].name) # job[c].rec.output
      <4>1. Output(job[c].name) = None
        BY <2>4, <3>2 DEF Recheck, Published, Publishing
      <4>2. videos' = [videos EXCEPT ![job[c].name] = 0] /\ UNCHANGED data
        BY <2>4, <3>2 DEF Recheck
      <4> QED
        BY <1>0, <4>1, <4>2 DEF Output
    <3> QED
      BY <3>1, <3>2
  <2>5. CASE ~(OpenEncoder(c) \/ WriteOn(c) \/ CloseEncoder(c) \/ MoveToName(c) \/ Recheck(c))
    <3>1. UNCHANGED <<data, videos>>
      BY <1>2, <2>5 DEF CompressorStep, StartRun, EndRun, ProbeSource, HashSource, FailEncoder,
        Validate, LoadRecords, SaveRecords, VerifySource, UnlinkSource, Crash
    <3> QED
      BY <3>1 DEF Output
  <2> QED
    BY <2>1, <2>2, <2>3, <2>4, <2>5
<1>3. ASSUME NEW m \in Names, DeleteOutput(m)
      PROVE  Output(n)' = Output(n) \/ Output(n) \in deleted'
  BY <1>0, <1>3 DEF DeleteOutput, Output
<1> QED
  BY <1>1, <1>2, <1>3, StepsLemma

\* The output of a record stays unless the user deletes it.
LEMMA KeptLemma ==
  ASSUME TInv, TInv', Separate, Alone, [Next]_vars, NEW n \in Names, NEW x \in Records,
         \A c \in Compressors : Published(c), KeptAt(n, x)
  PROVE  KeptAt(n, x)'
<1>1. x.output # None
  BY TokensAssumption DEF Records
<1>2. deleted \subseteq deleted'
  BY HistoryLemma
<1>3. \/ Output(n)' = Output(n) \/ Output(n) = None \/ Output(n) \in deleted'
  BY OutputLemma
<1> QED
  BY <1>1, <1>2, <1>3 DEF KeptAt

\* A save, by a compressor or a request, writes a record of its name over what
\* it loaded, and all of it was known.
Saves(loaded, m, rec) ==
  /\ Save(loaded, m, rec) /\ loaded \in Books /\ m \in Names /\ rec \in Records
  /\ \A n \in Names : loaded[n] # None => loaded[n] \in Known(n)
  /\ \/ loaded[m] # None /\ Same(loaded[m], rec)
     \/ \E c \in Compressors :
          job[c].pc = "save" /\ m = job[c].name /\ rec = job[c].rec /\ Agrees(m, rec)
  /\ Proper(rec) /\ KeptAt(m, rec) /\ Old(rec.version)
  /\ Undisturbed /\ Pair(rec) \notin Unseen =>
       \A n \in Names : prov[n] # None /\ Pair(prov[n]) = Pair(rec) => n = m
  /\ \A n \in Names : Known(n)' \subseteq Known(n) \cup {x \in {rec} : n = m}

\* The only step that changes the records, or what may be written over them,
\* is a save.
LEMMA SaveLemma ==
  ASSUME RInv, Alone, [Next]_vars
  PROVE  \/ /\ UNCHANGED <<prov, lost>>
            /\ \A n \in Names : Known(n)' \subseteq Known(n)
         \/ \E loaded \in Books, m \in Names, rec \in Records : Saves(loaded, m, rec)
<1> USE DEF files, outputs, history
<1>0. /\ job \in [Compressors -> Jobs] /\ retry \in [Requests -> RetryStates] /\ prov \in Books
      /\ \A c, d \in Compressors : c = d
  BY DEF RInv, TInv, TypeOK, RetryStates, Alone
<1>1. ASSUME UNCHANGED <<prov, lost>>,
             \A r \in Requests : \/ retry'[r] = retry[r] \/ retry'[r].pc = "idle"
                                 \/ retry[r].pc # "idle" /\ retry'[r].snap = retry[r].snap
                                 \/ retry'[r].snap = prov,
             \A c \in Compressors : job'[c] = job[c] \/ job'[c].pc # "save" \/ job'[c].snap = prov
      PROVE  \A n \in Names : Known(n)' \subseteq Known(n)
  BY <1>1 DEF Known, Asks
<1>2. ASSUME NEW c \in Compressors, SaveRecords(c), ~UNCHANGED <<prov, lost>>
      PROVE  Saves(job[c].snap, job[c].name, job[c].rec)
  <2> DEFINE snap == job[c].snap
             m == job[c].name
             rec == job[c].rec
  <2>1. /\ snap \in Books /\ m \in Names /\ rec \in Records /\ job[c].pc = "save" /\ Publishing(c)
        /\ Save(snap, m, rec) /\ UNCHANGED retry /\ prov' = [snap EXCEPT ![m] = rec]
    BY <1>2 DEF SaveRecords, RInv, TInv, Placed, Publishing, Save
  <2>2. \A n \in Names : snap[n] # None => snap[n] \in Known(n)
    BY <2>1 DEF Known, Books
  <2>3. Agrees(m, rec) /\ Proper(rec) /\ KeptAt(m, rec) /\ Pair(rec) = Current(c)
    BY <2>1 DEF RInv, Published
  <2>4. Old(rec.version)
    <3>1. Old(job[c].version)
      BY <2>1 DEF RInv, Fresh
    <3> QED
      BY <2>3, <3>1 DEF Pair, Current
  <2>5. Undisturbed /\ Pair(rec) \notin Unseen =>
          \A n \in Names : prov[n] # None /\ Pair(prov[n]) = Pair(rec) => n = m
    BY <2>1, <2>3 DEF RInv, NotTwice
  <2>6. job'[c].pc # "save"
    BY <1>2, JobLemma DEF RInv
  <2>7. ASSUME NEW n \in Names, NEW x \in Known(n)'
        PROVE  x \in Known(n) \/ (x = rec /\ n = m)
    <3> HIDE DEF snap, m, rec
    <3>1. x \in Records /\ \/ prov'[n] = x
                           \/ \E r \in Requests : Asks(r) /\ retry[r].snap[n] = x
      BY <1>0, <2>1, <2>6, <2>7 DEF Known, Asks
    <3>2. prov'[n] = IF n = m THEN rec ELSE snap[n]
      BY <2>1 DEF Books
    <3> QED
      BY <2>2, <3>1, <3>2, TokensAssumption DEF Known
  <2>8. \E d \in Compressors :
           job[d].pc = "save" /\ m = job[d].name /\ rec = job[d].rec /\ Agrees(m, rec)
    BY <2>1, <2>3
  <2> HIDE DEF snap, m, rec
  <2>9. Saves(snap, m, rec)
    BY <2>1, <2>2, <2>3, <2>4, <2>5, <2>7, <2>8 DEF Saves
  <2> QED
    BY <2>9 DEF snap, m, rec
<1>3. ASSUME NEW r \in Requests, SaveRetry(r), ~UNCHANGED <<prov, lost>>
      PROVE  \E loaded \in Books, m \in Names, rec \in Records : Saves(loaded, m, rec)
  <2> DEFINE snap == retry[r].snap
             m == retry[r].name
             old == snap[m]
             rec == [old EXCEPT !.state = retry[r].state]
  <2>1. /\ snap \in Books /\ m \in Names /\ old \in Records /\ Asks(r)
        /\ Save(snap, m, rec) /\ UNCHANGED job /\ prov' = [snap EXCEPT ![m] = rec]
        /\ retry' = [retry EXCEPT ![r] = AtRest]
    BY <1>3 DEF SaveRetry, RInv, TInv, Asked, Asks, Save
  <2>2. rec \in Records /\ Same(rec, old) /\ rec.version = old.version /\ rec.of = old.of
    BY <1>0, <2>1 DEF Records, RetryStates, Same, Pair
  <2> HIDE DEF rec
  <2>3. \A n \in Names : snap[n] # None => snap[n] \in Known(n)
    BY <2>1 DEF Known, Books
  <2>4. old \in Known(m) /\ Noted(m)
    BY <2>1, <2>3, TokensAssumption DEF RInv
  <2>5. Proper(rec) /\ KeptAt(m, rec) /\ Old(rec.version)
    <3>1. Proper(rec) /\ KeptAt(m, rec)
      BY <2>2, <2>4 DEF Noted, Proper, KeptAt, Same, Pair
    <3>2. Old(old.version)
      BY <2>1, <2>4 DEF RInv, Fresh
    <3> QED
      BY <2>2, <3>1, <3>2
  <2>6. ASSUME Undisturbed, Pair(rec) \notin Unseen,
               NEW n \in Names, prov[n] # None, Pair(prov[n]) = Pair(rec)
        PROVE  n = m
    <3>1. prov[m] # None /\ Pair(prov[m]) = Pair(rec)
      <4>1. OnRecord(m, old)
        BY <2>1 DEF RInv, Requested
      <4> QED
        BY <2>2, <2>6, <4>1 DEF Undisturbed, OnRecord, Same
    <3> QED
      BY <2>1, <2>6, <3>1 DEF RInv, OneOutputPerVersion, Undisturbed, Pair
  <2>7. ASSUME NEW n \in Names, NEW x \in Known(n)'
        PROVE  x \in Known(n) \/ (x = rec /\ n = m)
    <3>1. x \in Records /\ \/ prov'[n] = x
                           \/ \E q \in Requests : Asks(q) /\ retry[q].snap[n] = x
                           \/ \E c \in Compressors : job[c].pc = "save" /\ job[c].snap[n] = x
      BY <1>0, <2>1, <2>7 DEF Known, Asks, AtRest
    <3>2. prov'[n] = IF n = m THEN rec ELSE snap[n]
      BY <2>1 DEF Books
    <3> QED
      BY <2>3, <3>1, <3>2, TokensAssumption DEF Known
  <2>8. old # None
    BY <2>1, TokensAssumption
  <2> HIDE DEF snap, m
  <2>9. Saves(snap, m, rec)
    BY <2>1, <2>2, <2>3, <2>5, <2>6, <2>7, <2>8 DEF Saves, Same
  <2> QED
    BY <2>1, <2>2, <2>9
<1>4. \A c \in Compressors : SaveRecords(c) => job'[c].pc # "save" /\ UNCHANGED retry
  BY JobLemma DEF RInv, SaveRecords
<1>5. \A r \in Requests : SaveRetry(r) => UNCHANGED job /\ retry' = [retry EXCEPT ![r] = AtRest]
  BY DEF SaveRetry
<1>6. CASE ~UNCHANGED <<prov, lost>>
  <2>1. (\E c \in Compressors : SaveRecords(c)) \/ \E r \in Requests : SaveRetry(r)
    BY <1>6, StepsLemma DEF RInv
  <2>2. ASSUME NEW c \in Compressors, SaveRecords(c)
        PROVE  \E loaded \in Books, m \in Names, rec \in Records : Saves(loaded, m, rec)
    BY <1>2, <1>6, <2>2 DEF Saves
  <2> QED
    BY <1>3, <1>6, <2>1, <2>2
<1>7. CASE UNCHANGED <<prov, lost>>
  <2>1. ASSUME NEW r \in Requests
        PROVE  \/ retry'[r] = retry[r] \/ retry'[r].pc = "idle"
               \/ retry[r].pc # "idle" /\ retry'[r].snap = retry[r].snap
               \/ retry'[r].snap = prov
    <3>1. ASSUME NEW q \in Requests, RetryStep(q), q # r
          PROVE  retry'[r] = retry[r]
      BY <1>0, <3>1 DEF RetryStep, StartRetry, CheckFiles, VerifyAgain, UnlinkAgain, SaveRetry
    <3>2. \A n \in Names : StartRetry(r, n) => retry'[r].snap = prov
      BY <1>0 DEF StartRetry
    <3>3. CheckFiles(r) \/ VerifyAgain(r) \/ UnlinkAgain(r) =>
            retry[r].pc # "idle" /\ retry'[r].snap = retry[r].snap
      <4>1. CheckFiles(r) => retry[r].pc # "idle" /\ retry'[r].snap = retry[r].snap
        <5>1. ASSUME CheckFiles(r)
              PROVE  \E p \in {"save", "verify"}, st \in {"PENDING", "REMOVED"} :
                        retry' = [retry EXCEPT ![r].pc = p, ![r].state = st]
          BY <5>1 DEF CheckFiles
        <5>2. CheckFiles(r) => retry[r].pc # "idle"
          BY DEF CheckFiles
        <5> QED
          BY <1>0, <5>1, <5>2 DEF RetryStates
      <4>2. VerifyAgain(r) => retry[r].pc # "idle" /\ retry'[r].snap = retry[r].snap
        BY <1>0 DEF VerifyAgain, RetryStates
      <4>3. ASSUME UnlinkAgain(r)
            PROVE  retry[r].pc # "idle" /\ retry'[r].snap = retry[r].snap
        <5>1. \/ retry' = [retry EXCEPT ![r].pc = "save", ![r].state = "REMOVED"]
              \/ retry' = [retry EXCEPT ![r].pc = "save"]
          BY <4>3 DEF UnlinkAgain
        <5> QED
          BY <1>0, <4>3, <5>1 DEF UnlinkAgain, RetryStates
      <4> QED
        BY <4>1, <4>2, <4>3
    <3>4. SaveRetry(r) => retry'[r].pc = "idle"
      BY <1>0 DEF SaveRetry, AtRest
    <3>5. RetryStep(r) => (\E n \in Names : StartRetry(r, n)) \/ CheckFiles(r) \/ VerifyAgain(r)
                             \/ UnlinkAgain(r) \/ SaveRetry(r)
      BY DEF RetryStep
    <3> QED
      BY <3>1, <3>2, <3>3, <3>4, <3>5, StepsLemma DEF RInv
  <2>2. ASSUME NEW c \in Compressors
        PROVE  job'[c] = job[c] \/ job'[c].pc # "save" \/ job'[c].snap = prov
    <3>1. CASE UNCHANGED job
      BY <3>1
    <3>2. CASE CompressorStep(c)
      <4>1. CASE \E s \in Sources : ProbeSource(c, s)
        BY <4>1, JobLemma DEF RInv
      <4>2. CASE ~\E s \in Sources : ProbeSource(c, s)
        BY <3>2, <4>2, JobLemma DEF RInv, CompressorStep
      <4> QED
        BY <4>1, <4>2
    <3> QED
      BY <1>0, <3>1, <3>2, StepsLemma DEF RInv
  <2> QED
    BY <1>1, <1>7, <2>1, <2>2
<1> QED
  BY <1>6, <1>7

\* What is on record stays there, or a save has dropped it.
LEMMA OnRecordLemma ==
  ASSUME RInv, Alone, [Next]_vars, NEW n \in Names, NEW x, OnRecord(n, x)
  PROVE  OnRecord(n, x)'
<1>0. deleted \subseteq deleted' /\ lost \subseteq lost'
  BY HistoryLemma DEF RInv
<1>1. CASE x.output \in deleted \/ Pair(x) \in lost
  BY <1>0, <1>1 DEF OnRecord, Pair
<1>2. CASE UNCHANGED <<prov, lost>>
  BY <1>0, <1>2 DEF OnRecord, Pair, Same
<1>3. ASSUME NEW loaded \in Books, NEW m \in Names, NEW rec \in Records, Saves(loaded, m, rec),
             prov[n] # None, Same(prov[n], x), x.output \notin deleted
      PROVE  OnRecord(n, x)'
  <2>1. prov' = [loaded EXCEPT ![m] = rec] /\ lost' = lost \cup Dropped(loaded)
    BY <1>3 DEF Saves, Save
  <2>2. CASE prov[n] # loaded[n]
    <3>1. <<prov[n].of, prov[n].version>> \in Dropped(loaded)
      BY <1>3, <2>2 DEF Dropped
    <3> QED
      BY <1>3, <2>1, <3>1 DEF OnRecord, Same, Pair
  <2>3. CASE prov[n] = loaded[n] /\ n # m
    <3>1. prov'[n] = prov[n]
      BY <2>1, <2>3 DEF Books
    <3> QED
      BY <1>3, <3>1 DEF OnRecord, Same, Pair
  <2>4. CASE prov[n] = loaded[n] /\ n = m
    <3>1. prov'[n] = rec /\ rec # None
      BY <2>1, <2>4, TokensAssumption DEF Books
    <3>2. prov[n] \in Known(m)
      BY <1>3, <2>4 DEF RInv, TInv, TypeOK, Books, Known
    <3>3. Same(prov[n], rec) \/ prov[n].output \in deleted
      BY <1>3, <2>4, <3>2 DEF Saves, Agrees
    <3>4. Same(prov[n], rec)
      BY <1>3, <3>3 DEF Same
    <3> QED
      BY <1>3, <3>1, <3>4 DEF OnRecord, Same, Pair
  <2> QED
    BY <2>2, <2>3, <2>4
<1> QED
  BY <1>1, <1>2, <1>3, SaveLemma DEF OnRecord

\* A save that drops nothing changes one record.
LEMMA CleanSaveLemma ==
  ASSUME RInv, NEW loaded \in Books, NEW m \in Names, NEW rec \in Records,
         Saves(loaded, m, rec), lost' = {}
  PROVE  loaded = prov /\ prov' = [prov EXCEPT ![m] = rec] /\ lost = {}
<1>1. Dropped(loaded) = {} /\ lost = {} /\ prov' = [loaded EXCEPT ![m] = rec]
  BY DEF Saves, Save
<1>2. ASSUME NEW n \in Names
      PROVE  prov[n] = loaded[n]
  <2>1. prov[n] \in {None, loaded[n]}
    <3>1. prov[n] \notin {None, loaded[n]} => <<prov[n].of, prov[n].version>> \in Dropped(loaded)
      BY DEF Dropped
    <3> QED
      BY <1>1, <3>1
  <2>2. loaded[n] # None => prov[n] # None
    <3>1. loaded[n] # None => loaded[n] \in Known(n)
      BY DEF Saves
    <3> QED
      BY <1>1, <3>1 DEF RInv, Noted
  <2> QED
    BY <2>1, <2>2
<1>3. prov \in [Names -> Records \cup {None}] /\ loaded \in [Names -> Records \cup {None}]
  BY DEF RInv, TInv, TypeOK, Books
<1>4. loaded = prov
  BY <1>2, <1>3
<1> QED
  BY <1>1, <1>4

\* Records under one name agree unless the user deleted an output.
LEMMA AgreeLemma ==
  ASSUME RInv, NEW loaded \in Books, NEW m \in Names, NEW rec \in Records, Saves(loaded, m, rec),
         NEW x \in Known(m)
  PROVE  x.output \in deleted \/ rec.output \in deleted \/ Same(x, rec)
<1>1. CASE loaded[m] # None /\ Same(loaded[m], rec)
  <2>1. loaded[m] \in Known(m)
    BY <1>1 DEF Saves
  <2>2. x.output \in deleted \/ loaded[m].output \in deleted \/ Same(x, loaded[m])
    BY <2>1 DEF RInv, Noted
  <2> QED
    BY <1>1, <2>2 DEF Same
<1>2. CASE Agrees(m, rec)
  BY <1>2 DEF Agrees
<1> QED
  BY <1>1, <1>2 DEF Saves

\* What is known under a name stays proper, kept and of one mind.
LEMMA NotedNext ==
  ASSUME RInv, TInv', Alone, [Next]_vars, NEW n \in Names
  PROVE  Noted(n)'
<1>0. /\ TInv /\ Separate /\ Fresh /\ Noted(n) /\ \A c \in Compressors : Published(c)
      /\ deleted \subseteq deleted' /\ lost \subseteq lost'
  BY HistoryLemma DEF RInv
<1>1. ASSUME NEW x \in Known(n)
      PROVE  x \in Records /\ Proper(x)' /\ KeptAt(n, x)'
  <2>1. x \in Records /\ Proper(x) /\ Old(x.version) /\ KeptAt(n, x)
    BY <1>0, <1>1 DEF Noted, Known, Fresh
  <2> QED
    BY <1>0, <2>1, ProperLemma, KeptLemma
<1>2. CASE UNCHANGED <<prov, lost>> /\ Known(n)' \subseteq Known(n)
  <2>1. ASSUME NEW x \in Known(n)'
        PROVE  /\ Proper(x)' /\ KeptAt(n, x)' /\ (lost' = {} => prov'[n] # None)
               /\ \A y \in Known(n)' : x.output \in deleted' \/ y.output \in deleted' \/ Same(x, y)
    BY <1>0, <1>1, <1>2, <2>1 DEF Noted
  <2> QED
    BY <2>1 DEF Noted, Same, Pair
<1>3. ASSUME NEW loaded \in Books, NEW m \in Names, NEW rec \in Records, Saves(loaded, m, rec)
      PROVE  Noted(n)'
  <2>1. Proper(rec)' /\ KeptAt(m, rec)'
    BY <1>0, <1>3, ProperLemma, KeptLemma DEF Saves
  <2>2. ASSUME NEW x \in Known(n)'
        PROVE  x \in Known(n) \/ (x = rec /\ n = m)
    BY <1>3, <2>2 DEF Saves
  <2>3. ASSUME NEW x \in Known(n)', lost' = {}
        PROVE  prov'[n] # None
    <3>1. prov' = [prov EXCEPT ![m] = rec] /\ lost = {} /\ prov \in Books
      BY <1>0, <1>3, <2>3, CleanSaveLemma DEF TInv, TypeOK
    <3>2. CASE n = m
      BY <3>1, <3>2, TokensAssumption DEF Books
    <3>3. CASE n # m
      <4>1. x \in Known(n)
        BY <2>2, <2>3, <3>3
      <4> QED
        BY <1>0, <3>1, <3>3, <4>1 DEF Noted, Books
    <3> QED
      BY <3>2, <3>3
  <2>4. ASSUME NEW x \in Known(n)', NEW y \in Known(n)'
        PROVE  x.output \in deleted \/ y.output \in deleted \/ Same(x, y)
    <3>1. CASE x \in Known(n) /\ y \in Known(n)
      BY <1>0, <3>1 DEF Noted
    <3>2. CASE n = m /\ x \in Known(n) /\ y = rec
      BY <1>3, <3>2, AgreeLemma
    <3>3. CASE n = m /\ y \in Known(n) /\ x = rec
      BY <1>3, <3>3, AgreeLemma DEF Same
    <3>4. CASE x = y
      BY <3>4 DEF Same
    <3> QED
      BY <2>2, <2>4, <3>1, <3>2, <3>3, <3>4
  <2>5. ASSUME NEW x \in Known(n)'
        PROVE  /\ Proper(x)' /\ KeptAt(n, x)' /\ (lost' = {} => prov'[n] # None)
               /\ \A y \in Known(n)' : x.output \in deleted' \/ y.output \in deleted' \/ Same(x, y)
    BY <1>0, <1>1, <2>1, <2>2, <2>3, <2>4, <2>5
  <2> QED
    BY <2>5 DEF Noted, Same, Pair
<1> QED
  BY <1>2, <1>3, SaveLemma

\* A version the user has not brought yet appears nowhere.
LEMMA FreshNext ==
  ASSUME RInv, TInv', Alone, [Next]_vars
  PROVE  Fresh'
<1> USE DEF files, outputs, history
<1>0. /\ TInv /\ Fresh /\ \A v \in Versions \cup {0} : Old(v) => Old(v)'
      /\ source \in [Sources -> Versions \cup {0}] /\ removed \subseteq Sources \X Versions
      /\ rewrites \in Nat /\ rewrites' \in Nat /\ source' \in [Sources -> Versions \cup {0}]
  BY HistoryLemma, ConstantsAssumption DEF RInv, TInv, TypeOK
<1>1. \A s \in Sources : Old(source[s])'
  <2>1. CASE UNCHANGED source
    BY <1>0, <2>1 DEF Fresh, Old
  <2>2. ASSUME NEW s \in Sources, Unlink(s)
        PROVE  \A t \in Sources : Old(source[t])'
    <3>1. \A t \in Sources : source'[t] \in {source[t], 0}
      BY <1>0, <2>2 DEF Unlink
    <3>2. Old(0)
      BY <1>0 DEF Old
    <3> QED
      BY <1>0, <3>1, <3>2 DEF Fresh, Old
  <2>3. ASSUME NEW s \in Sources, Rewrite(s)
        PROVE  \A t \in Sources : Old(source[t])'
    <3>1. PICK v \in 1 .. rewrites + 2 :
             source' = [source EXCEPT ![s] = v] /\ rewrites' = rewrites + 1
      BY <2>3 DEF Rewrite
    <3>2. v <= rewrites + 2
      BY <1>0, <3>1
    <3>3. ASSUME NEW t \in Sources
          PROVE  source'[t] <= rewrites' + 1
      <4>1. source[t] <= rewrites + 1 /\ source[t] \in Nat
        BY <1>0, ConstantsAssumption DEF Fresh, Old, Versions
      <4>2. CASE t = s
        BY <1>0, <3>1, <3>2, <4>2
      <4>3. CASE t # s
        BY <1>0, <3>1, <4>1, <4>3
      <4> QED
        BY <4>2, <4>3
    <3> QED
      BY <3>3 DEF Old
  <2>4. ASSUME NEW r \in Requests, retry[r].pc = "unlink"
        PROVE  retry[r].snap[retry[r].name].of \in Sources
    BY <1>0, <2>4 DEF TInv, Asked, Asks, Records
  <2> QED
    BY <1>0, <2>1, <2>2, <2>3, <2>4, StepsLemma
<1>3. ASSUME NEW n \in Names, NEW x \in Known(n)'
      PROVE  Old(x.version)'
  <2>1. x.version \in Versions
    BY <1>3 DEF Known, Records
  <2>2. Old(x.version)
    BY <1>0, <1>3, SaveLemma DEF Saves, Fresh
  <2> QED
    BY <1>0, <2>1, <2>2
<1>4. ASSUME NEW c \in Compressors, (Encodes(c) \/ job[c].pc = "move" \/ Publishing(c))'
      PROVE  Old(job[c].version)'
  <2>0. job'[c].version \in Versions /\ job \in [Compressors -> Jobs]
    BY <1>0, <1>4 DEF TInv, TypeOK, Placed
  <2>1. \/ /\ job'[c].version = job[c].version
           /\ Encodes(c) \/ job[c].pc = "move" \/ Publishing(c)
        \/ /\ job'[c].version = source[job[c].src]
           /\ job[c].src \in Sources
    <3>1. CASE UNCHANGED job
      BY <1>4, <3>1 DEF Encodes, Publishing
    <3>2. CASE CompressorStep(c)
      <4>1. CASE HashSource(c)
        <5>1. job[c].src \in Sources
          BY <1>0, <4>1 DEF HashSource, TInv, Placed
        <5> QED
          BY <1>0, <1>4, <4>1, <5>1, JobLemma DEF Encodes, Publishing
      <4>2. CASE \E s \in Sources : ProbeSource(c, s)
        BY <1>0, <1>4, <4>2, JobLemma DEF Encodes, Publishing
      <4>3. CASE StartRun(c) \/ EndRun(c) \/ Crash(c) \/ FailEncoder(c)
        BY <1>0, <1>4, <4>3, JobLemma DEF Encodes, Publishing
      <4>4. CASE OpenEncoder(c) \/ WriteOn(c) \/ CloseEncoder(c) \/ Validate(c) \/ MoveToName(c)
        <5>1. job[c].pc \in {"encode", "write", "validate", "move"}
          BY <4>4 DEF OpenEncoder, WriteOn, CloseEncoder, Validate, MoveToName
        <5>2. job'[c].version = job[c].version
          BY <1>0, <1>4, <4>4, JobLemma DEF Encodes, Publishing
        <5> QED
          BY <5>1, <5>2 DEF Encodes
      <4>5. CASE Recheck(c) \/ LoadRecords(c) \/ SaveRecords(c) \/ VerifySource(c) \/ UnlinkSource(c)
        <5>1. Publishing(c)
          BY <4>5 DEF Recheck, LoadRecords, SaveRecords, VerifySource, UnlinkSource, Publishing
        <5>2. job'[c].version = job[c].version
          BY <1>0, <1>4, <4>5, JobLemma DEF Encodes, Publishing
        <5> QED
          BY <5>1, <5>2
      <4> QED
        BY <3>2, <4>1, <4>2, <4>3, <4>4, <4>5 DEF CompressorStep
    <3> QED
      BY <1>0, <3>1, <3>2, StepsLemma DEF Alone
  <2> QED
    BY <1>0, <2>0, <2>1 DEF Fresh
<1> QED
  BY <1>1, <1>3, <1>4 DEF Fresh

\* A source is unlinked because of a record that has its output and is on record.
LEMMA UnlinkLemma ==
  ASSUME RInv, Alone, [Next]_vars
  PROVE  \/ UNCHANGED removed
         \/ \E n \in Names, x \in Records :
              /\ Unlink(x.of) /\ Proper(x) /\ KeptAt(n, x) /\ OnRecord(n, x)
              /\ source[x.of] = x.version \/ <<x.of, source[x.of]>> \in exposed
<1>0. TInv
  BY DEF RInv
<1>1. ASSUME NEW c \in Compressors, job[c].pc = "unlink", Unlink(job[c].src)
      PROVE  LET x == job[c].rec IN
             /\ x \in Records /\ job[c].name \in Names
             /\ Unlink(x.of) /\ Proper(x) /\ KeptAt(job[c].name, x) /\ OnRecord(job[c].name, x)
             /\ source[x.of] = x.version \/ <<x.of, source[x.of]>> \in exposed
  <2>1. Publishing(c) /\ job[c].rec \in Records /\ job[c].name \in Names
    BY <1>0, <1>1 DEF Publishing, TInv, Placed
  <2>2. job[c].rec.of = job[c].src
    BY <2>1 DEF RInv, Published, Pair, Current
  <2> QED
    BY <1>1, <2>1, <2>2 DEF RInv, Published, Unlink
<1>2. ASSUME NEW r \in Requests, retry[r].pc = "unlink", Unlink(retry[r].snap[retry[r].name].of)
      PROVE  LET x == retry[r].snap[retry[r].name] IN
             /\ x \in Records /\ retry[r].name \in Names
             /\ Unlink(x.of) /\ Proper(x) /\ KeptAt(retry[r].name, x) /\ OnRecord(retry[r].name, x)
             /\ source[x.of] = x.version \/ <<x.of, source[x.of]>> \in exposed
  <2>1. Asks(r) /\ retry[r].snap[retry[r].name] \in Records /\ retry[r].name \in Names
    BY <1>0, <1>2 DEF Asks, TInv, Asked
  <2>2. retry[r].snap[retry[r].name] \in Known(retry[r].name)
    BY <2>1 DEF Known
  <2> QED
    BY <1>2, <2>1, <2>2 DEF RInv, Requested, Noted, Unlink
<1> QED
  BY <1>0, <1>1, <1>2, StepsLemma

\* A version that gets into the program's care has its encoding and its record.
LEMMA NewRemovalLemma ==
  ASSUME RInv, TInv', Alone, [Next]_vars, NEW p \in InItsCare', p \notin InItsCare
  PROVE  \E n \in Names : Output(n)' = Encoding(p) /\ (p \in lost \/ (prov[n] # None
                             /\ Pair(prov[n]) = p /\ prov[n].output = Encoding(p)))
<1>0. /\ TInv /\ Unseen \subseteq Unseen' /\ exposed \subseteq Unseen /\ deleted \subseteq deleted'
      /\ p \notin Unseen' /\ Encoding(p) \notin deleted'
  BY HistoryLemma DEF RInv, InItsCare, Encoding, Unseen
<1>1. p \notin removed /\ p \in removed'
  BY <1>0 DEF InItsCare, Encoding
<1>2. PICK n \in Names, x \in Records :
              /\ Unlink(x.of) /\ Proper(x) /\ KeptAt(n, x) /\ OnRecord(n, x)
              /\ source[x.of] = x.version \/ <<x.of, source[x.of]>> \in exposed
  BY <1>1, UnlinkLemma
<1>3. p = Pair(x) /\ source[x.of] = x.version
  BY <1>0, <1>1, <1>2 DEF Unlink, Pair
<1>4. x.output = Encoding(p)
  BY <1>0, <1>1, <1>2, <1>3 DEF Proper
<1>5. Output(n)' = Encoding(p)
  <2>1. KeptAt(n, x)'
    BY <1>0, <1>2, KeptLemma DEF RInv
  <2> QED
    BY <1>0, <1>4, <2>1 DEF KeptAt
<1>6. p \in lost \/ (prov[n] # None /\ Pair(prov[n]) = p /\ prov[n].output = Encoding(p))
  BY <1>0, <1>2, <1>3, <1>4 DEF OnRecord, Same
<1> QED
  BY <1>5, <1>6

\* A version that is unlinked is encoded and on record, and stays so.
LEMMA RemovedNext ==
  ASSUME RInv, TInv', Alone, [Next]_vars
  PROVE  RemovedWasOptimized' /\ Recorded'
<1>0. /\ TInv /\ lost \subseteq lost'
      /\ \A p \in InItsCare' : Encoding(p) \notin deleted' /\ p \in Sources \X Versions
  BY HistoryLemma DEF RInv, InItsCare, TInv, TypeOK, Encoding
<1>1. ASSUME NEW p \in InItsCare', p \in InItsCare
      PROVE  \E n \in Names : Output(n)' = Encoding(p)
  <2>1. PICK n \in Names : Output(n) = Encoding(p)
    BY <1>1 DEF RInv, RemovedWasOptimized
  <2>2. Encoding(p) # None
    <3>1. Encoding(p) \in Outputs
      BY <1>0 DEF Encoding, Outputs
    <3> QED
      BY <3>1, TokensAssumption
  <2>3. Output(n)' = Output(n)
    BY <1>0, <1>1, <2>1, <2>2, OutputLemma DEF RInv
  <2> QED
    BY <2>1, <2>3
<1>2. RemovedWasOptimized'
  <2>1. \A p \in InItsCare' : \E n \in Names : Output(n)' = Encoding(p)
    BY <1>1, NewRemovalLemma
  <2> QED
    BY <2>1 DEF RemovedWasOptimized, Encoding
<1>3. ASSUME NEW p \in InItsCare', p \notin lost', NEW n \in Names, prov[n] # None,
             Pair(prov[n]) = p, prov[n].output = Encoding(p)
      PROVE  prov'[n] # None /\ Pair(prov'[n]) = p /\ prov'[n].output = Encoding(p)
  <2>1. PICK x : x = prov[n]
    OBVIOUS
  <2>2. OnRecord(n, x)
    BY <1>3, <2>1 DEF OnRecord, Same
  <2>3. OnRecord(n, x)'
    BY <2>2, OnRecordLemma
  <2> QED
    BY <1>0, <1>3, <2>1, <2>3 DEF OnRecord, Same, Pair
<1>4. Recorded'
  <2>1. ASSUME NEW p \in InItsCare', p \notin lost'
        PROVE  \E n \in Names : prov[n] # None /\ Pair(prov[n]) = p /\ prov[n].output = Encoding(p)
    BY <1>0, <2>1, NewRemovalLemma DEF RInv, Recorded
  <2>2. ASSUME NEW p \in InItsCare', p \notin lost'
        PROVE  \E n \in Names : prov'[n] # None /\ Pair(prov'[n]) = p /\ prov'[n].output = Encoding(p)
    BY <1>3, <2>1, <2>2
  <2> QED
    BY <2>2 DEF Recorded, Pair, Encoding
<1> QED
  BY <1>2, <1>4

\* No save records a version under a second name.
LEMMA OneOutputNext ==
  ASSUME RInv, TInv', Alone, [Next]_vars
  PROVE  OneOutputPerVersion'
<1> SUFFICES ASSUME Undisturbed', NEW m \in Names, NEW n \in Names, prov'[m] # None, prov'[n] # None,
                    Pair(prov'[m]) = Pair(prov'[n]), Pair(prov'[m]) \notin Unseen'
             PROVE  m = n
  BY DEF OneOutputPerVersion, Undisturbed, Pair
<1>0. Undisturbed /\ Unseen \subseteq Unseen' /\ lost' = {}
  BY HistoryLemma DEF RInv, Undisturbed
<1>1. ASSUME NEW k \in Names, NEW l \in Names, prov[k] # None, prov[l] # None,
             Pair(prov[k]) = Pair(prov[l]), Pair(prov[k]) \notin Unseen
      PROVE  k = l
  BY <1>0, <1>1 DEF RInv, OneOutputPerVersion, Undisturbed, Pair
<1>2. CASE UNCHANGED prov
  BY <1>0, <1>1, <1>2
<1>3. ASSUME NEW loaded \in Books, NEW k \in Names, NEW rec \in Records, Saves(loaded, k, rec)
      PROVE  m = n
  <2>1. prov' = [prov EXCEPT ![k] = rec] /\ prov \in Books
    BY <1>0, <1>3, CleanSaveLemma DEF RInv, TInv, TypeOK
  <2>2. Pair(rec) \notin Unseen => \A l \in Names : prov[l] # None /\ Pair(prov[l]) = Pair(rec) => l = k
    BY <1>0, <1>3 DEF Saves
  <2>3. CASE m = k
    BY <1>0, <2>1, <2>2, <2>3 DEF Books
  <2>4. CASE n = k
    BY <1>0, <2>1, <2>2, <2>4 DEF Books
  <2>5. CASE m # k /\ n # k
    BY <1>0, <1>1, <2>1, <2>5 DEF Books
  <2> QED
    BY <2>3, <2>4, <2>5
<1> QED
  BY <1>2, <1>3, SaveLemma

\* A request keeps a record that is on record, and unlinks only the bytes it
\* has checked.
LEMMA RequestedNext ==
  ASSUME RInv, TInv', Alone, [Next]_vars, NEW r \in Requests
  PROVE  Requested(r)'
<1> DEFINE n == retry[r].name
           rec == retry[r].snap[n]
<1>0. /\ TInv /\ Fresh /\ Requested(r) /\ retry[r] \in RetryStates /\ retry \in [Requests -> RetryStates]
      /\ exposed \subseteq exposed'
  BY HistoryLemma DEF RInv, TInv, TypeOK, RetryStates
<1>1. ASSUME retry'[r].name = n, retry'[r].snap = retry[r].snap, Asks(r),
             retry'[r].pc = "unlink" =>
               \/ retry[r].pc = "unlink" \/ source'[rec.of] = rec.version
      PROVE  Requested(r)'
  <2>0. n \in Names /\ rec \in Records
    BY <1>0, <1>1 DEF TInv, Asked
  <2>1. PICK x \in Records : x = rec
    BY <2>0
  <2>2. OnRecord(n, x)'
    BY <1>0, <1>1, <2>0, <2>1, OnRecordLemma DEF Requested
  <2>3. ASSUME retry'[r].pc = "unlink"
        PROVE  source'[x.of] \in {0, x.version} \/ <<x.of, source'[x.of]>> \in exposed'
    <3>1. CASE source'[rec.of] = rec.version
      BY <2>1, <3>1
    <3>2. CASE retry[r].pc = "unlink"
      <4>1. x.of \in Sources /\ Guarded(x.of)
        BY <2>1, <3>2 DEF Guarded, Records
      <4>2. source'[x.of] \in {0, source[x.of]} \/ <<x.of, source'[x.of]>> \in exposed'
        BY <1>0, <4>1, SourceLemma
      <4>3. source[x.of] \in {0, x.version} \/ <<x.of, source[x.of]>> \in exposed
        BY <1>0, <1>1, <2>1, <3>2 DEF Requested
      <4> QED
        BY <1>0, <4>2, <4>3
    <3> QED
      BY <1>1, <2>3, <3>1, <3>2
  <2> QED
    BY <1>1, <2>1, <2>2, <2>3 DEF Requested, OnRecord
<1>2. CASE retry'[r] = retry[r]
  <2>1. CASE ~Asks(r)
    BY <1>2, <2>1 DEF Requested, Asks
  <2>2. CASE Asks(r)
    BY <1>1, <1>2, <2>2
  <2> QED
    BY <2>1, <2>2
<1>3. CASE RetryStep(r)
  <2>1. ASSUME NEW m \in Names, StartRetry(r, m)
        PROVE  Requested(r)'
    <3>1. /\ retry'[r].name = m /\ retry'[r].snap = prov /\ retry'[r].pc = "check"
          /\ prov' = prov /\ prov[m] # None
      BY <1>0, <2>1 DEF StartRetry
    <3> QED
      BY <3>1 DEF Requested, OnRecord, Same
  <2>2. CASE CheckFiles(r)
    <3>1. PICK p \in {"save", "verify"}, st \in {"PENDING", "REMOVED"} :
                 retry' = [retry EXCEPT ![r].pc = p, ![r].state = st]
      BY <2>2 DEF CheckFiles
    <3>2. retry'[r].name = n /\ retry'[r].snap = retry[r].snap /\ retry'[r].pc # "unlink" /\ Asks(r)
      BY <1>0, <2>2, <3>1 DEF RetryStates, CheckFiles, Asks
    <3> QED
      BY <1>1, <3>2
  <2>3. CASE VerifyAgain(r)
    <3>1. /\ retry'[r].name = n /\ retry'[r].snap = retry[r].snap /\ Asks(r)
          /\ retry'[r].pc = "unlink" => source'[rec.of] = rec.version
      BY <1>0, <2>3 DEF VerifyAgain, Asks, RetryStates, Intact, Digest, files
    <3> QED
      BY <1>1, <3>1
  <2>4. CASE UnlinkAgain(r)
    <3>1. \/ retry' = [retry EXCEPT ![r].pc = "save", ![r].state = "REMOVED"]
          \/ retry' = [retry EXCEPT ![r].pc = "save"]
      BY <2>4 DEF UnlinkAgain
    <3>2. retry'[r].name = n /\ retry'[r].snap = retry[r].snap /\ retry'[r].pc = "save" /\ Asks(r)
      BY <1>0, <2>4, <3>1 DEF RetryStates, UnlinkAgain, Asks
    <3> QED
      BY <1>1, <3>2
  <2>5. CASE SaveRetry(r)
    BY <1>0, <2>5 DEF SaveRetry, AtRest, Requested, Asks
  <2> QED
    BY <1>3, <2>1, <2>2, <2>3, <2>4, <2>5 DEF RetryStep
<1>4. ASSUME NEW q \in Requests, RetryStep(q), q # r
      PROVE  retry'[r] = retry[r]
  BY <1>0, <1>4 DEF RetryStep, StartRetry, CheckFiles, VerifyAgain, UnlinkAgain, SaveRetry
<1> QED
  BY <1>0, <1>2, <1>3, <1>4, StepsLemma

\* Whatever is saved while nothing is lost leaves one record to a version.
LEMMA NotTwiceLemma ==
  ASSUME RInv, TInv', Alone, [Next]_vars, Undisturbed', NEW p, NEW k,
         \A m \in Names : prov[m] # None /\ Pair(prov[m]) = p => m = k,
         \A c \in Compressors : job[c].pc = "save" => Current(c) = p /\ job[c].name = k
  PROVE  \A m \in Names : prov'[m] # None /\ Pair(prov'[m]) = p => m = k
<1>1. CASE UNCHANGED prov
  BY <1>1
<1>2. ASSUME NEW loaded \in Books, NEW l \in Names, NEW rec \in Records, Saves(loaded, l, rec),
             NEW m \in Names, prov'[m] # None, Pair(prov'[m]) = p
      PROVE  m = k
  <2>1. loaded = prov /\ prov' = [prov EXCEPT ![l] = rec] /\ prov \in Books
    BY <1>2, CleanSaveLemma DEF RInv, TInv, TypeOK, Undisturbed
  <2>2. CASE m # l
    <3>1. prov'[m] = prov[m]
      BY <2>1, <2>2 DEF Books
    <3> QED
      BY <1>2, <3>1
  <2>3. CASE m = l
    <3>1. Pair(rec) = p
      BY <1>2, <2>1, <2>3 DEF Books
    <3>2. CASE prov[l] # None /\ Same(prov[l], rec)
      BY <2>3, <3>1, <3>2 DEF Same
    <3>3. ASSUME NEW c \in Compressors, job[c].pc = "save", l = job[c].name
          PROVE  m = k
      BY <2>3, <3>3
    <3> QED
      BY <1>2, <2>1, <3>2, <3>3 DEF Saves
  <2> QED
    BY <2>2, <2>3
<1> QED
  BY <1>1, <1>2, SaveLemma

\* A run that encodes bytes has found no record of them.
LEMMA EncodeLemma ==
  ASSUME RInv, NEW c \in Compressors, HashSource(c), Encode(c, source[job[c].src]),
         source[job[c].src] # 0, Undisturbed,
         <<job[c].src, source[job[c].src]>> \notin Unseen, NEW n \in Names, prov[n] # None,
         Pair(prov[n]) = <<job[c].src, source[job[c].src]>>
  PROVE  FALSE
<1> DEFINE s == job[c].src
           v == source[s]
           found == RecordFor(prov, s, v)
<1>0. /\ TInv /\ job \in [Compressors -> Jobs] /\ Followed(c) /\ job[c].pc = "hash"
      /\ \A k \in Names : prov[k] # None => prov[k] \in Records
  BY DEF RInv, TInv, TypeOK, HashSource, Books
<1>1. found = {n}
  <2>1. n \in found
    BY DEF RecordFor, Pair
  <2>2. ASSUME NEW k \in found
        PROVE  k = n
    <3>1. k \in Names /\ prov[k] # None /\ Pair(prov[k]) = Pair(prov[n])
      BY <2>2 DEF RecordFor, Pair
    <3> QED
      BY <3>1 DEF RInv, OneOutputPerVersion, Undisturbed, Pair
  <2> QED
    BY <2>1, <2>2
<1>2. job'[c].pc = "encode"
  BY <1>0 DEF Encode
<1>3. Reusable(n) => FALSE \in Valid(job[c].probe, Output(n))
  <2>1. Idle.pc = "idle" /\ NextFile(c).pc = "next"
    BY DEF Idle, NextFile
  <2>2. \A k \in found : Reuse(c, k, v) => job'[c].pc = "load"
    <3> SUFFICES ASSUME NEW k \in found, Reuse(c, k, v) PROVE job'[c].pc = "load"
      OBVIOUS
    <3> DEFINE rec == [prov[k] EXCEPT !.state = "PENDING"]
    <3>1. job' = [job EXCEPT ![c].pc = "load", ![c].version = v, ![c].name = k,
                        ![c].then = "verify", ![c].rec = rec]
      BY DEF Reuse
    <3> HIDE DEF rec, v, found
    <3> QED
      BY <1>0, <3>1 DEF Jobs
  <2> QED
    BY <1>0, <1>1, <1>2, <2>1, <2>2 DEF HashSource, Digest
<1>4. prov[n] \in Known(n) /\ Noted(n) /\ prov[n].of = s /\ prov[n].version = v
  BY <1>0 DEF RInv, Known, Pair
<1>5. Output(n) = prov[n].output
  BY <1>4 DEF Noted, KeptAt, Undisturbed
<1>6. prov[n].output = Encoding(<<s, v>>)
  <2>1. CASE <<s, v>> \in removed
    <3>1. <<s, v>> \in InItsCare
      BY <2>1 DEF InItsCare, Undisturbed
    <3>2. PICK k \in Names : prov[k] # None /\ Pair(prov[k]) = <<s, v>> /\ prov[k].output = Encoding(<<s, v>>)
      BY <3>1 DEF RInv, Recorded, Undisturbed
    <3>3. k = n
      BY <3>2 DEF RInv, OneOutputPerVersion, Undisturbed, Pair
    <3> QED
      BY <3>2, <3>3
  <2>2. CASE <<s, v>> \notin removed
    BY <1>4, <2>2 DEF Noted, Proper
  <2> QED
    BY <2>1, <2>2
<1>7. job[c].probe = v
  BY <1>0 DEF Followed, Unseen
<1>8. Valid(job[c].probe, Output(n)) = {TRUE}
  BY <1>5, <1>6, <1>7 DEF Valid, Encoding
<1>9. prov[n].state # "PENDING"
  BY <1>3, <1>5, <1>8 DEF Reusable
<1> QED
  <2>1. Idle.pc = "idle" /\ NextFile(c).pc = "next"
    BY DEF Idle, NextFile
  <2>2. ~Reusable(n)
    BY <1>9 DEF Reusable
  <2> QED
    BY <1>0, <1>1, <1>2, <1>9, <2>1, <2>2 DEF HashSource, Digest

\* A run that encodes has found no record of the bytes.
LEMMA NotTwiceNext ==
  ASSUME RInv, TInv', Alone, [Next]_vars, NEW c \in Compressors
  PROVE  NotTwice(c)'
<1> DEFINE p == <<job'[c].src, job'[c].version>>
           k == job'[c].name
<1>0. /\ TInv /\ NotTwice(c) /\ Followed(c)
      /\ Undisturbed' => Undisturbed
      /\ Unseen \subseteq Unseen' /\ \A d \in Compressors : d = c
  BY HistoryLemma DEF RInv, Alone
<1> SUFFICES ASSUME Undisturbed', (Encodes(c) \/ job[c].pc = "move" \/ Publishing(c))', p \notin Unseen'
             PROVE  \A m \in Names : prov'[m] # None /\ Pair(prov'[m]) = p => m = k
  BY DEF NotTwice, Current, Pair
<1>1. ASSUME p = Current(c), k = job[c].name,
             Encodes(c) \/ job[c].pc = "move" \/ Publishing(c)
      PROVE  \A m \in Names : prov'[m] # None /\ Pair(prov'[m]) = p => m = k
  <2>1. \A m \in Names : prov[m] # None /\ Pair(prov[m]) = p => m = k
    BY <1>0, <1>1 DEF NotTwice
  <2>2. \A d \in Compressors : job[d].pc = "save" => Current(d) = p /\ job[d].name = k
    BY <1>0, <1>1
  <2> HIDE DEF p, k
  <2> QED
    BY <2>1, <2>2, NotTwiceLemma
<1>2. CASE UNCHANGED job
  BY <1>1, <1>2 DEF Encodes, Publishing, Current
<1>3. CASE CompressorStep(c)
  <2>1. CASE (\E s \in Sources : ProbeSource(c, s)) \/ StartRun(c) \/ EndRun(c) \/ Crash(c) \/ FailEncoder(c)
    BY <1>0, <2>1, JobLemma DEF Encodes, Publishing
  <2>2. CASE HashSource(c)
    <3>0. prov' = prov
      BY <2>2 DEF HashSource
    <3>1. CASE job'[c].pc = "encode"
      <4>1. /\ job'[c].src = job[c].src /\ job'[c].version = source[job[c].src]
            /\ Encode(c, source[job[c].src]) /\ source[job[c].src] # 0
        BY <1>0, <2>2, <3>1, JobLemma
      <4>2. <<job[c].src, source[job[c].src]>> \notin Unseen
        BY <1>0, <4>1
      <4>3. ASSUME NEW m \in Names, prov[m] # None, Pair(prov[m]) = p
            PROVE  FALSE
        BY <1>0, <2>2, <4>1, <4>2, <4>3, EncodeLemma
      <4> QED
        BY <3>0, <4>3
    <3>2. CASE job'[c].pc = "load"
      <4>1. /\ job'[c].src = job[c].src /\ job'[c].version = source[job[c].src]
            /\ k \in RecordFor(prov, job[c].src, source[job[c].src])
        BY <1>0, <2>2, <3>2, JobLemma
      <4>2. k \in Names /\ prov[k] # None /\ Pair(prov[k]) = p
        BY <4>1 DEF RecordFor, Pair
      <4> QED
        BY <1>0, <3>0, <4>2 DEF RInv, OneOutputPerVersion, Undisturbed, Pair
    <3> QED
      BY <1>0, <2>2, <3>1, <3>2, JobLemma DEF Encodes, Publishing
  <2>3. CASE MoveToName(c)
    <3>0. /\ job[c].pc = "move" /\ prov' = prov
      BY <2>3 DEF MoveToName, history
    <3>1. p = Current(c)
      BY <1>0, <2>3, JobLemma DEF Current, Encodes, Publishing
    <3>2. job[c].name = 0 /\ 0 \notin Names
      BY <1>0, <3>0 DEF Followed, Publishing, Names
    <3>3. ASSUME NEW m \in Names, prov[m] # None, Pair(prov[m]) = p
          PROVE  FALSE
      BY <1>0, <3>0, <3>1, <3>2, <3>3 DEF NotTwice
    <3> QED
      BY <3>0, <3>3
  <2>4. CASE OpenEncoder(c) \/ WriteOn(c) \/ CloseEncoder(c) \/ Validate(c)
    <3>1. Encodes(c)
      BY <2>4 DEF OpenEncoder, WriteOn, CloseEncoder, Validate, Encodes
    <3>2. p = Current(c) /\ k = job[c].name
      BY <1>0, <2>4, JobLemma DEF Current, Encodes, Publishing
    <3> QED
      BY <1>1, <3>1, <3>2
  <2>5. CASE Recheck(c) \/ LoadRecords(c) \/ SaveRecords(c) \/ VerifySource(c) \/ UnlinkSource(c)
    <3>1. Publishing(c)
      BY <2>5 DEF Recheck, LoadRecords, SaveRecords, VerifySource, UnlinkSource, Publishing
    <3>2. p = Current(c) /\ k = job[c].name
      BY <1>0, <2>5, JobLemma DEF Current, Encodes, Publishing
    <3> QED
      BY <1>1, <3>1, <3>2
  <2> QED
    BY <1>3, <2>1, <2>2, <2>3, <2>4, <2>5 DEF CompressorStep
<1> QED
  BY <1>0, <1>2, <1>3, StepsLemma

\* A run keeps track of the bytes it encodes, from the probe to the hidden file.
LEMMA FollowedNext ==
  ASSUME RInv, TInv', Alone, [Next]_vars, NEW c \in Compressors
  PROVE  Followed(c)'
<1> USE DEF files, outputs, history
<1> DEFINE s == job[c].src
           v == job[c].version
           rec == job[c].rec
<1>0. /\ TInv /\ Fresh /\ Followed(c) /\ Separate /\ exposed \subseteq exposed' /\ restored \subseteq restored'
      /\ \A d \in Compressors : d = c
      /\ job \in [Compressors -> Jobs] /\ staging \in [Sources -> Files \cup {0}]
      /\ data \in [Files -> Outputs \cup {None}] /\ Placed(c)
  BY HistoryLemma DEF RInv, Alone, TInv, TypeOK
<1>1. ASSUME UNCHANGED <<job, data, staging>>
      PROVE  Followed(c)'
  <2>1. ASSUME job[c].pc = "hash"
        PROVE  source'[s] \in {0, job[c].probe} \/ <<s, source'[s]>> \in exposed'
    <3>1. s \in Sources /\ Guarded(s)
      BY <1>0, <2>1 DEF Placed, Guarded
    <3>2. source'[s] \in {0, source[s]} \/ <<s, source'[s]>> \in exposed'
      BY <1>0, <3>1, SourceLemma
    <3> QED
      BY <1>0, <2>1, <3>2 DEF Followed
  <2>2. ASSUME job[c].pc \in {"write", "validate"}, staging[s] # 0
        PROVE  \/ data[staging[s]].version = v \/ source'[s] # v
               \/ Current(c) \in restored'
    <3>1. s \in Sources /\ v \in Versions /\ Old(v) /\ v # 0
      BY <1>0, <2>2, ConstantsAssumption DEF Placed, Encodes, Fresh, Versions
    <3>2. source[s] # v => source'[s] # v \/ <<s, v>> \in restored'
      BY <1>0, <3>1, SourceLemma
    <3> QED
      BY <1>0, <2>2, <3>2 DEF Followed, Current
  <2>3. ASSUME job[c].pc = "move"
        PROVE  Proper(rec)'
    <3>1. rec \in Records /\ Proper(rec) /\ Pair(rec) = Current(c) /\ Old(v)
      BY <1>0, <2>3 DEF Placed, Followed, Fresh
    <3>2. PICK x \in Records : x = rec
      BY <3>1
    <3>3. Proper(x)'
      <4>1. Old(x.version)
        BY <3>1, <3>2 DEF Pair, Current
      <4> QED
        BY <1>0, <3>1, <3>2, <4>1, ProperLemma
    <3> QED
      BY <1>1, <3>2, <3>3 DEF Proper
  <2> QED
    BY <1>0, <1>1, <2>1, <2>2, <2>3 DEF Followed, Current, Encodes, Publishing, Pair
<1>2. CASE CompressorStep(c)
  <2>0. ASSUME Publishing(c)' \/ (job'[c].pc \in {"idle", "next"} /\ job'[c].name = 0)
        PROVE  Followed(c)'
    BY <2>0 DEF Followed, Publishing, Encodes
  <2>1. CASE StartRun(c) \/ EndRun(c) \/ Crash(c) \/ FailEncoder(c)
    BY <1>0, <2>0, <2>1, JobLemma
  <2>2. ASSUME NEW t \in Sources, ProbeSource(c, t)
        PROVE  Followed(c)'
    <3>1. job[c].name = 0 /\ source' = source
      BY <1>0, <2>2 DEF ProbeSource, Followed, Publishing
    <3>2. \/ job'[c].pc = "next" /\ job'[c].name = 0
          \/ job'[c].pc = "hash" /\ job'[c].src = t /\ job'[c].probe = source[t] /\ job'[c].name = 0
      BY <1>0, <2>2, <3>1, JobLemma
    <3> QED
      BY <2>0, <3>1, <3>2 DEF Followed, Encodes
  <2>3. CASE HashSource(c)
    <3>0. job[c].name = 0 /\ job[c].pc = "hash" /\ s \in Sources
      BY <1>0, <2>3 DEF HashSource, Followed, Publishing, Placed
    <3>1. CASE job'[c].pc = "encode"
      <4>1. /\ job'[c].src = s /\ job'[c].probe = job[c].probe /\ job'[c].version = source[s]
            /\ source[s] # 0 /\ job'[c].name = 0
        BY <1>0, <2>3, <3>0, <3>1, JobLemma
      <4> QED
        BY <1>0, <3>0, <3>1, <4>1 DEF Followed, Current, Encodes
    <3> QED
      BY <1>0, <2>0, <2>3, <3>1, JobLemma DEF Publishing
  <2>4. CASE OpenEncoder(c)
    <3>0. /\ job[c].name = 0 /\ job[c].pc = "encode" /\ s \in Sources
          /\ job'[c].src = s /\ job'[c].version = v /\ job'[c].name = 0 /\ job'[c].pc = "write"
          /\ job'[c].probe = job[c].probe /\ source' = source
      BY <1>0, <2>4, JobLemma DEF OpenEncoder, Followed, Publishing, Placed
    <3>1. PICK f \in Files : staging' = [staging EXCEPT ![s] = f]
                             /\ data' = [data EXCEPT ![f] = Encoded(s, FALSE)]
      BY <1>0, <2>4, <3>0, FreshFileLemma DEF OpenEncoder, TInv
    <3>2. data'[staging'[s]].of = s /\ data'[staging'[s]].version = source[s]
      BY <1>0, <3>0, <3>1 DEF Encoded
    <3> QED
      BY <1>0, <3>0, <3>2 DEF Followed, Encodes, Current
  <2>5. CASE WriteOn(c) \/ CloseEncoder(c)
    <3>0. /\ job[c].name = 0 /\ job[c].pc = "write" /\ s \in Sources /\ staging[s] = job[c].file
          /\ job'[c].src = s /\ job'[c].version = v /\ job'[c].name = 0 /\ job'[c].pc \in {"write", "validate"}
          /\ job'[c].probe = job[c].probe /\ source' = source /\ staging' = staging
          /\ job[c].file \in Files /\ data[job[c].file] \in Outputs
      BY <1>0, <2>5, JobLemma DEF WriteOn, CloseEncoder, Followed, Publishing, Placed, Separate
    <3>1. \E sound \in BOOLEAN : data' = [data EXCEPT ![job[c].file].sound = sound]
      BY <2>5 DEF WriteOn, CloseEncoder
    <3>2. data'[staging'[s]].of = data[staging[s]].of /\ data'[staging'[s]].version = data[staging[s]].version
      BY <1>0, <3>0, <3>1 DEF Outputs
    <3> QED
      BY <1>0, <3>0, <3>2 DEF Followed, Encodes, Current
  <2>6. CASE Validate(c)
    <3>1. CASE job'[c].pc = "move"
      <4>0. /\ s \in Sources /\ job'[c].src = s /\ job'[c].version = v /\ job'[c].name = job[c].name
            /\ staging[s] # 0 /\ TRUE \in Valid(job[c].probe, data[staging[s]])
            /\ job'[c].rec = [of |-> s, version |-> v, output |-> data[staging[s]], state |-> "PENDING"]
            /\ UNCHANGED <<staging, data, source, removed, exposed, restored>>
            /\ job[c].pc = "validate" /\ job[c].name = 0
            /\ data[staging[s]] \in Outputs
        BY <1>0, <2>6, <3>1, JobLemma DEF Validate, Placed, TInv, Written, Followed, Publishing
      <4>1. data[staging[s]].version # v => Current(c) \in mistaken'
        <5>1. job'[c].pc # "next"
          BY <3>1
        <5>2. NextFile(c).pc = "next"
          BY DEF NextFile
        <5>3. mistaken' = mistaken \cup
                {q \in {<<s, v>>} : data[staging[s]].version # v}
          BY <1>0, <2>6, <5>1, <5>2 DEF Validate
        <5> QED
          BY <5>3 DEF Current
      <4>3. ASSUME Current(c) \notin exposed, data[staging[s]].version = v
            PROVE  data[staging[s]] = Encoding(Current(c))
        <5>1. job[c].probe = v /\ data[staging[s]].of = s
          BY <1>0, <4>0, <4>3 DEF Followed, Encodes
        <5>2. data[staging[s]].sound = TRUE
          BY <4>0, <4>3, <5>1 DEF Valid, Outputs
        <5> QED
          BY <4>0, <4>3, <5>1, <5>2 DEF Encoding, Current, Outputs
      <4>4. \/ data[staging[s]].version = v \/ source[s] # v
            \/ Current(c) \in restored
        BY <1>0, <4>0 DEF Followed
      <4>2. Pair(job'[c].rec) = <<s, v>> /\ Proper(job[c].rec)'
        BY <4>0, <4>1, <4>3, <4>4 DEF Pair, Proper, Current, Unseen, Encoding
      <4> QED
        BY <3>1, <4>0, <4>2 DEF Followed, Encodes, Current, Pair
    <3> QED
      BY <1>0, <2>0, <2>6, <3>1, JobLemma
  <2>7. CASE MoveToName(c) \/ Recheck(c) \/ LoadRecords(c) \/ SaveRecords(c) \/ VerifySource(c) \/ UnlinkSource(c)
    BY <1>0, <2>0, <2>7, JobLemma DEF Publishing
  <2> QED
    BY <1>2, <2>1, <2>2, <2>3, <2>4, <2>5, <2>6, <2>7 DEF CompressorStep
<1>3. ASSUME NEW n \in Names, DeleteOutput(n)
      PROVE  UNCHANGED <<job, data, staging>>
  BY <1>3 DEF DeleteOutput
<1> QED
  BY <1>0, <1>1, <1>2, <1>3, StepsLemma

\* What a compressor has published stays published and known, whoever steps.
LEMMA StayLemma ==
  ASSUME RInv, TInv', Alone, [Next]_vars, NEW c \in Compressors, Publishing(c),
         NEW x \in Records, x = job[c].rec, NEW m \in Names, m = job[c].name
  PROVE  /\ Proper(x)' /\ KeptAt(m, x)'
         /\ \A y \in Known(m)' : y.output \in deleted' \/ Same(y, x)
         /\ OnRecord(m, x) => OnRecord(m, x)'
<1>0. /\ TInv /\ Fresh /\ Separate /\ Published(c) /\ \A d \in Compressors : Published(d) /\ d = c
      /\ deleted \subseteq deleted'
  BY HistoryLemma DEF RInv, Alone
<1>2. Proper(x) /\ KeptAt(m, x) /\ Agrees(m, x) /\ Old(x.version)
  BY <1>0 DEF Published, Fresh, Pair, Current
<1>3. Proper(x)' /\ KeptAt(m, x)'
  BY <1>0, <1>2, ProperLemma, KeptLemma
<1>4. ASSUME NEW y \in Known(m)'
      PROVE  y.output \in deleted \/ Same(y, x)
  <2>1. CASE y \in Known(m)
    BY <1>2, <2>1 DEF Agrees
  <2>2. ASSUME NEW loaded \in Books, Saves(loaded, m, y)
        PROVE  y.output \in deleted \/ Same(y, x)
    <3>1. CASE loaded[m] # None /\ Same(loaded[m], y)
      <4>1. loaded[m] \in Known(m)
        BY <2>2, <3>1 DEF Saves
      <4> QED
        BY <1>2, <3>1, <4>1 DEF Agrees, Same
    <3>2. CASE \E d \in Compressors : y = job[d].rec
      BY <1>0, <3>2 DEF Same
    <3> QED
      BY <2>2, <3>1, <3>2 DEF Saves
  <2> QED
    BY <1>4, <2>1, <2>2, SaveLemma DEF Saves
<1>5. OnRecord(m, x) => OnRecord(m, x)'
  BY OnRecordLemma
<1> QED
  BY <1>0, <1>3, <1>4, <1>5

\* A run keeps track of what it published, up to the unlink and its record.
LEMMA PublishedNext ==
  ASSUME RInv, TInv', Alone, [Next]_vars, NEW c \in Compressors
  PROVE  Published(c)'
<1> USE DEF files, outputs, history
<1>0. /\ TInv /\ Fresh /\ Separate /\ Published(c) /\ Followed(c)
      /\ \A d \in Compressors : d = c
      /\ exposed \subseteq exposed' /\ deleted \subseteq deleted' /\ Placed(c) /\ Placed(c)'
      /\ job \in [Compressors -> Jobs]
  BY HistoryLemma DEF RInv, Alone, TInv, TypeOK
<1>a. ASSUME NEW x \in Records, NEW n \in Names, job'[c].name = n, job'[c].rec \in Records,
             Same(job'[c].rec, x), Pair(x) = <<job'[c].src, job'[c].version>>,
             Proper(x)', KeptAt(n, x)',
             \A y \in Known(n)' : y.output \in deleted' \/ Same(y, x),
             job'[c].pc = "recheck" => Output(n)' \in {None, x.output},
             job'[c].pc \in {"verify", "unlink"} => OnRecord(n, x)',
             job'[c].pc = "unlink" =>
               source'[x.of] \in {0, x.version} \/ <<x.of, source'[x.of]>> \in exposed'
      PROVE  Published(c)'
  <2>1. PICK y \in Records : y = job'[c].rec
    BY <1>a
  <2>2. Pair(y) = Pair(x) /\ y.output = x.output /\ y.of = x.of /\ y.version = x.version
    BY <1>a, <2>1 DEF Same, Pair
  <2>3. Proper(y)' /\ KeptAt(n, y)' /\ (\A z \in Known(n)' : z.output \in deleted' \/ Same(z, y))
    BY <1>a, <2>2 DEF Proper, KeptAt, Same
  <2>4. job'[c].pc \in {"verify", "unlink"} => OnRecord(n, y)'
    BY <1>a, <2>2 DEF OnRecord, Same
  <2> QED
    BY <1>a, <2>1, <2>2, <2>3, <2>4 DEF Published, Current, Agrees, Proper, KeptAt, OnRecord, Pair, Same
\* The record, but for its state, stays the one that was published.
<1>1. ASSUME Publishing(c), Publishing(c)',
             job'[c].src = job[c].src, job'[c].version = job[c].version, job'[c].name = job[c].name,
             Same(job'[c].rec, job[c].rec),
             job'[c].pc = "recheck" =>
               job[c].pc = "recheck" /\ \A n \in Names : Output(n)' \in {Output(n), None},
             job'[c].pc \in {"verify", "unlink"} =>
               \/ job[c].pc \in {"verify", "unlink"}
               \/ prov'[job[c].name] # None /\ Same(prov'[job[c].name], job[c].rec),
             job'[c].pc = "unlink" =>
               job[c].pc = "unlink" \/ source'[job[c].src] = job[c].version
      PROVE  Published(c)'
  <2>1. PICK x \in Records : x = job[c].rec
    BY <1>0, <1>1 DEF Placed
  <2>2. PICK m \in Names : m = job[c].name
    BY <1>0, <1>1 DEF Placed
  <2>3. /\ Proper(x)' /\ KeptAt(m, x)' /\ (OnRecord(m, x) => OnRecord(m, x)')
        /\ \A y \in Known(m)' : y.output \in deleted' \/ Same(y, x)
    BY <1>1, <2>1, <2>2, StayLemma
  <2>4. Pair(x) = Current(c) /\ x.of = job[c].src /\ x.version = job[c].version
    BY <1>0, <1>1, <2>1 DEF Published, Pair, Current
  <2>5. job'[c].pc = "recheck" => Output(m)' \in {None, x.output}
    <3>1. job[c].pc = "recheck" => Output(m) \in {None, x.output}
      BY <1>0, <1>1, <2>1, <2>2 DEF Published
    <3> QED
      BY <1>1, <3>1
  <2>6. job'[c].pc \in {"verify", "unlink"} => OnRecord(m, x)'
    <3>1. job[c].pc \in {"verify", "unlink"} => OnRecord(m, x)
      BY <1>0, <1>1, <2>1, <2>2 DEF Published
    <3> QED
      BY <1>1, <2>1, <2>2, <2>3, <3>1 DEF OnRecord
  <2>7. job'[c].pc = "unlink" =>
          source'[x.of] \in {0, x.version} \/ <<x.of, source'[x.of]>> \in exposed'
    <3>1. ASSUME job[c].pc = "unlink"
          PROVE  source'[x.of] \in {0, x.version} \/ <<x.of, source'[x.of]>> \in exposed'
      <4>1. x.of \in Sources /\ Guarded(x.of)
        BY <2>4, <3>1 DEF Guarded, Records
      <4>2. source'[x.of] \in {0, source[x.of]} \/ <<x.of, source'[x.of]>> \in exposed'
        BY <1>0, <4>1, SourceLemma
      <4>3. source[x.of] \in {0, x.version} \/ <<x.of, source[x.of]>> \in exposed
        BY <1>0, <1>1, <2>1, <3>1 DEF Published
      <4> QED
        BY <1>0, <4>2, <4>3
    <3> QED
      BY <1>1, <2>4, <3>1
  <2>8. /\ job'[c].rec \in Records /\ job'[c].name = m /\ Same(job'[c].rec, x)
        /\ Pair(x) = <<job'[c].src, job'[c].version>>
    BY <1>0, <1>1, <2>1, <2>2, <2>4 DEF Placed, Current
  <2> QED
    BY <1>a, <2>3, <2>5, <2>6, <2>7, <2>8
<1>2. CASE UNCHANGED job
  <2>1. CASE ~Publishing(c)
    BY <1>2, <2>1 DEF Published, Publishing
  <2>2. CASE Publishing(c)
    <3>1. \A n \in Names : job[c].pc = "recheck" => Output(n)' \in {Output(n), None}
      <4>1. CASE UNCHANGED <<data, videos>>
        BY <4>1 DEF Output
      <4>2. ASSUME NEW m \in Names, DeleteOutput(m)
            PROVE  \A n \in Names : Output(n)' \in {Output(n), None}
        BY <1>0, <4>2 DEF DeleteOutput, Output, TInv, TypeOK
      <4>3. ASSUME NEW d \in Compressors, CompressorStep(d), job[c].pc = "recheck"
            PROVE  UNCHANGED <<data, videos>>
        <5>1. d = c /\ job'[c].pc = "recheck"
          BY <1>0, <1>2, <4>3
        <5>2. ~Recheck(c) /\ ~Crash(c) /\ ~StartRun(c) /\ ~EndRun(c) /\ ~FailEncoder(c)
          BY <1>0, <5>1, JobLemma
        <5>3. /\ ~HashSource(c) /\ ~OpenEncoder(c) /\ ~WriteOn(c) /\ ~CloseEncoder(c) /\ ~Validate(c)
              /\ ~MoveToName(c) /\ ~LoadRecords(c) /\ ~SaveRecords(c) /\ ~VerifySource(c)
              /\ ~UnlinkSource(c) /\ (\A s \in Sources : ~ProbeSource(c, s))
          BY <4>3 DEF HashSource, OpenEncoder, WriteOn, CloseEncoder, Validate, MoveToName, LoadRecords,
               SaveRecords, VerifySource, UnlinkSource, ProbeSource
        <5> QED
          BY <4>3, <5>1, <5>2, <5>3 DEF CompressorStep
      <4> QED
        BY <1>0, <4>1, <4>2, <4>3, StepsLemma
    <3>2. Same(job[c].rec, job[c].rec)
      BY DEF Same
    <3>3. Publishing(c)'
      BY <1>2, <2>2 DEF Publishing
    <3> QED
      BY <1>1, <1>2, <2>2, <3>1, <3>2, <3>3
  <2> QED
    BY <2>1, <2>2
<1>3. ASSUME CompressorStep(c), Publishing(c), Publishing(c)'
      PROVE  Published(c)'
  <2>1. CASE Recheck(c) \/ LoadRecords(c)
    <3>1. /\ job'[c].src = job[c].src /\ job'[c].version = job[c].version
          /\ job'[c].name = job[c].name /\ job'[c].rec = job[c].rec
          /\ job'[c].pc \in {"load", "save"}
      BY <1>0, <1>3, <2>1, JobLemma DEF Publishing
    <3> QED
      BY <1>1, <1>3, <3>1 DEF Same
  <2>2. CASE SaveRecords(c)
    <3>1. /\ job'[c].src = job[c].src /\ job'[c].version = job[c].version
          /\ job'[c].name = job[c].name /\ job'[c].rec = job[c].rec
          /\ job'[c].pc = "verify" /\ Save(job[c].snap, job[c].name, job[c].rec)
      BY <1>0, <1>3, <2>2, JobLemma DEF Publishing
    <3>2. job[c].snap \in Books /\ job[c].name \in Names /\ job[c].rec \in Records
      BY <1>0, <1>3, <2>2 DEF Placed, SaveRecords
    <3>3. prov'[job[c].name] = job[c].rec
      BY <3>1, <3>2 DEF Save, Books
    <3>4. prov'[job[c].name] # None
      BY <3>2, <3>3, TokensAssumption
    <3> QED
      BY <1>1, <1>3, <3>1, <3>3, <3>4 DEF Same
  <2>3. CASE VerifySource(c)
    <3>1. /\ job'[c].src = job[c].src /\ job'[c].version = job[c].version
          /\ job'[c].name = job[c].name /\ job'[c].rec = job[c].rec
          /\ job'[c].pc = "load" \/ (job'[c].pc = "unlink" /\ source[job[c].src] = job[c].version)
          /\ job[c].pc = "verify" /\ source' = source
      BY <1>0, <2>3, JobLemma DEF VerifySource
    <3> QED
      BY <1>1, <1>3, <3>1 DEF Same
  <2>4. CASE UnlinkSource(c)
    <3>1. /\ job'[c].src = job[c].src /\ job'[c].version = job[c].version
          /\ job'[c].name = job[c].name /\ job'[c].pc = "load"
          /\ Same(job'[c].rec, job[c].rec)
      BY <1>0, <2>4, JobLemma DEF Same
    <3> QED
      BY <1>1, <1>3, <3>1
  <2>5. ~Recheck(c) /\ ~LoadRecords(c) /\ ~SaveRecords(c) /\ ~VerifySource(c) /\ ~UnlinkSource(c) => FALSE
    <3>1. StartRun(c) \/ EndRun(c) \/ Crash(c) \/ FailEncoder(c) => ~Publishing(c)'
      BY <1>0, JobLemma DEF Publishing
    <3>2. \A s \in Sources : ~ProbeSource(c, s)
      BY <1>3 DEF ProbeSource, Publishing
    <3>3. /\ ~HashSource(c) /\ ~OpenEncoder(c) /\ ~WriteOn(c) /\ ~CloseEncoder(c)
          /\ ~Validate(c) /\ ~MoveToName(c)
      BY <1>3 DEF HashSource, OpenEncoder, WriteOn, CloseEncoder, Validate, MoveToName, Publishing
    <3> QED
      BY <1>3, <3>1, <3>2, <3>3 DEF CompressorStep
  <2> QED
    BY <2>1, <2>2, <2>3, <2>4, <2>5
\* An output that is there for these bytes is used again.
<1>4. ASSUME HashSource(c), Publishing(c)'
      PROVE  Published(c)'
  <2> DEFINE s == job[c].src
             n == job'[c].name
  <2>1. /\ job'[c].pc = "load" /\ job'[c].src = s /\ job'[c].version = source[s]
        /\ n \in RecordFor(prov, s, source[s]) /\ Reusable(n)
        /\ job'[c].rec = [prov[n] EXCEPT !.state = "PENDING"]
        /\ UNCHANGED <<source, data, videos, prov, retry, removed, exposed, restored, mistaken,
                       deleted, lost>>
    BY <1>0, <1>4, JobLemma DEF Publishing, HashSource
  <2>2. n \in Names /\ prov[n] # None /\ prov[n].of = s /\ prov[n].version = source[s]
    BY <2>1 DEF RecordFor
  <2>3. PICK x \in Records : x = prov[n]
    BY <1>0, <2>2 DEF TInv, TypeOK, Books
  <2>4. PICK m \in Names : m = n
    BY <2>2
  <2> HIDE DEF n
  <2>5. x \in Known(m) /\ Noted(m) /\ Output(m) = x.output
    BY <2>1, <2>2, <2>3, <2>4 DEF Known, Reusable, RInv
  <2>6. Same(job'[c].rec, x) /\ job'[c].rec \in Records
    BY <2>1, <2>3, <2>4 DEF Same, Pair, Records
  <2>7. Proper(x)' /\ KeptAt(m, x)'
    <3>1. Proper(x)
      BY <2>5 DEF Noted
    <3>2. Output(m)' = Output(m)
      BY <2>1 DEF Output
    <3> QED
      BY <2>1, <2>5, <3>1, <3>2 DEF Proper, KeptAt, Pair, Encoding, Unseen
  <2>8. ASSUME NEW y \in Known(m)'
        PROVE  y.output \in deleted' \/ Same(y, x)
    <3>1. y \in Known(m)
      BY <1>0, <2>1 DEF Known, Asks
    <3>2. KeptAt(m, y) /\ (x.output \in deleted \/ y.output \in deleted \/ Same(x, y))
      BY <2>5, <3>1 DEF Noted
    <3> QED
      BY <2>1, <2>5, <3>2 DEF KeptAt, Same
  <2>9. Pair(x) = <<job'[c].src, job'[c].version>>
    BY <2>1, <2>2, <2>3 DEF Pair
  <2>10. job'[c].name = m
    BY <2>4 DEF n
  <2> QED
    BY <1>a, <2>1, <2>6, <2>7, <2>8, <2>9, <2>10
\* A new output has a name no record that still counts has.
<1>5. ASSUME MoveToName(c), Publishing(c)'
      PROVE  Published(c)'
  <2> DEFINE s == job[c].src
  <2>1. /\ job[c].pc = "move" /\ job'[c].pc = "recheck" /\ job'[c].src = s
        /\ job'[c].version = job[c].version /\ job'[c].rec = job[c].rec /\ staging[s] # 0
        /\ job'[c].name \in Names /\ Free(job'[c].name)
        /\ videos' = [videos EXCEPT ![job'[c].name] = staging[s]]
        /\ UNCHANGED <<source, data, prov, retry, removed, exposed, restored, mistaken, deleted, lost>>
    BY <1>0, <1>5, JobLemma DEF Publishing, MoveToName
  <2>2. PICK x \in Records : x = job[c].rec
    BY <1>0, <2>1 DEF Placed
  <2>3. PICK m \in Names : m = job'[c].name
    BY <2>1
  <2>4. Pair(x) = Current(c) /\ Proper(x) /\ data[staging[s]] = x.output
    BY <1>0, <2>1, <2>2 DEF Followed
  <2>5. Output(m)' = x.output
    <3>1. videos'[m] = staging[s]
      BY <1>0, <2>1, <2>3 DEF TInv, TypeOK
    <3> QED
      BY <2>1, <2>4, <3>1 DEF Output
  <2>6. Proper(x)' /\ KeptAt(m, x)'
    BY <2>1, <2>4, <2>5 DEF Proper, KeptAt, Pair, Encoding, Unseen
  <2>7. ASSUME NEW y \in Known(m)'
        PROVE  y.output \in deleted' \/ Same(y, x)
    <3>1. y \in Known(m) /\ y \in Records
      BY <1>0, <2>1 DEF Known, Asks
    <3>2. KeptAt(m, y)
      BY <3>1 DEF RInv, Noted
    <3>3. Output(m) = None /\ y.output # None
      BY <2>1, <2>3, <3>1, TokensAssumption DEF Free, Output, Records
    <3> QED
      BY <2>1, <3>2, <3>3 DEF KeptAt
  <2> QED
    BY <1>0, <1>a, <2>1, <2>2, <2>3, <2>4, <2>5, <2>6, <2>7 DEF Same, Current
<1>6. ASSUME CompressorStep(c), ~Publishing(c), Publishing(c)'
      PROVE  HashSource(c) \/ MoveToName(c)
  <2>1. /\ ~StartRun(c) /\ ~EndRun(c) /\ ~Crash(c) /\ ~FailEncoder(c)
        /\ ~OpenEncoder(c) /\ ~CloseEncoder(c) /\ ~Validate(c)
        /\ \A s \in Sources : ~ProbeSource(c, s)
    BY <1>0, <1>6, JobLemma DEF Publishing
  <2>2. ~WriteOn(c)
    BY <1>0, <1>6, JobLemma DEF Publishing
  <2>3. /\ ~Recheck(c) /\ ~LoadRecords(c) /\ ~SaveRecords(c) /\ ~VerifySource(c)
        /\ ~UnlinkSource(c)
    BY <1>6 DEF Recheck, LoadRecords, SaveRecords, VerifySource, UnlinkSource, Publishing
  <2> QED
    BY <1>6, <2>1, <2>2, <2>3 DEF CompressorStep
<1>7. CASE CompressorStep(c)
  <2>1. CASE ~Publishing(c)'
    BY <2>1 DEF Published
  <2> QED
    BY <1>3, <1>4, <1>5, <1>6, <1>7, <2>1
<1> QED
  BY <1>0, <1>2, <1>7, StepsLemma

\* Nothing is under way at the start.
LEMMA RInvInit == Init => RInv
<1> SUFFICES ASSUME Init PROVE RInv
  OBVIOUS
<1>1. TInv
  BY TypeInit
<1>2. /\ \A c \in Compressors : job[c].pc = "idle" /\ job[c].name = 0
      /\ \A r \in Requests : retry[r].pc = "idle"
      /\ \A n \in Names : prov[n] = None
      /\ \A s \in Sources : staging[s] = 0 /\ source[s] = 1
      /\ rewrites = 0 /\ removed = {} /\ None \notin Records
  BY TokensAssumption DEF Init, Idle, AtRest
<1>3. \A n \in Names : Known(n) = {}
  BY <1>2 DEF Known, Asks
<1>4. Separate /\ Fresh
  BY <1>2, <1>3 DEF Separate, Fresh, Old, Encodes, Publishing
<1>5. ASSUME NEW c \in Compressors
      PROVE  Followed(c) /\ Published(c) /\ NotTwice(c)
  BY <1>2 DEF Followed, Published, NotTwice, Encodes, Publishing
<1>6. \A r \in Requests : Requested(r)
  BY <1>2 DEF Requested, Asks
<1>7. \A n \in Names : Noted(n)
  BY <1>3 DEF Noted
<1>8. RemovedWasOptimized /\ Recorded /\ OneOutputPerVersion
  BY <1>2 DEF RemovedWasOptimized, Recorded, InItsCare, OneOutputPerVersion
<1> QED
  BY <1>1, <1>4, <1>5, <1>6, <1>7, <1>8 DEF RInv

\* Every step of the program and of its user keeps the invariant.
LEMMA RInvNext ==
  ASSUME Alone, RInv, [Next]_vars
  PROVE  RInv'
<1>1. TInv'
  BY TypeNext DEF RInv
<1>2. Separate' /\ Fresh'
  BY <1>1, SeparateNext, FreshNext DEF RInv
<1>3. ASSUME NEW c \in Compressors
      PROVE  Followed(c)' /\ Published(c)' /\ NotTwice(c)'
  BY <1>1, FollowedNext, PublishedNext, NotTwiceNext
<1>4. ASSUME NEW r \in Requests
      PROVE  Requested(r)'
  BY <1>1, RequestedNext
<1>5. ASSUME NEW n \in Names
      PROVE  Noted(n)'
  BY <1>1, NotedNext
<1>6. RemovedWasOptimized' /\ Recorded'
  BY <1>1, RemovedNext
<1>7. OneOutputPerVersion'
  BY <1>1, OneOutputNext
<1> QED
  BY <1>1, <1>2, <1>3, <1>4, <1>5, <1>6, <1>7 DEF RInv

\* With one run of the compressor at a time, whatever the user, the requests
\* and the faults do, a version the program removed has its sound encoding and
\* its record, and without faults only one (optimize_media, retry_source_cleanup).
THEOREM RemovalIsSafe == Alone => (Spec => []RemovalSafe)
<1> SUFFICES ASSUME Alone PROVE Spec => []RemovalSafe
  OBVIOUS
<1>1. Init => RInv
  BY RInvInit
<1>2. RInv /\ [Next]_vars => RInv'
  BY RInvNext
<1>3. RInv => RemovalSafe
  BY DEF RInv, RemovalSafe, Recorded, RemovedIsRecorded, Pair
<1> QED
  BY <1>1, <1>2, <1>3, PTL DEF Spec
=============================================================================
