---------------------------- MODULE IntakeProofs ----------------------------
(***************************************************************************)
(* Proofs about the parts of MCIntake, for every value of the constants:   *)
(* the chunks of a K'ab session and its completion, the fragments of a     *)
(* live capture, the requests about its chunks and the table of            *)
(* recordings.                                                             *)
(***************************************************************************)
EXTENDS MCIntake, Sequences, FiniteSetTheorems, WellFoundedInduction, TLAPS

-----------------------------------------------------------------------------
(* Sums, as the library adds them up.                                      *)

\* A set of numbers has a least one.
LEMMA LeastOne ==
  ASSUME NEW N \in SUBSET Nat, N # {}
  PROVE  \E n \in N : \A m \in N : n <= m
<1>1. \E n \in N : \A m \in N : <<m, n>> \notin OpToRel(<, Nat)
  BY NatLessThanWellFounded, WFMin
<1>2. \A i, j \in Nat : <<j, i>> \notin OpToRel(<, Nat) => i <= j
  BY DEF OpToRel
<1> QED
  BY <1>1, <1>2

\* The sums of the parts of f, as SumFunction adds them up.
Picked(s) == CHOOSE x \in s : TRUE
Adds(f, h, s) == IF s = {} THEN 0 ELSE f[Picked(s)] + h[s \ {Picked(s)}]
Parts(f, n) == {s \in SUBSET DOMAIN f : Cardinality(s) <= n}

\* A set that is not empty is one larger than without the element that is added first.
LEMMA PartPicked ==
  ASSUME NEW D, IsFiniteSet(D), NEW s \in SUBSET D, s # {}, NEW x \in s
  PROVE  /\ Picked(s) \in s
         /\ s \ {x} \in SUBSET D
         /\ Cardinality(s) \in Nat /\ Cardinality(s \ {x}) \in Nat
         /\ Cardinality(s \ {x}) = Cardinality(s) - 1
<1>1. Picked(s) \in s
  BY DEF Picked
<1>2. IsFiniteSet(s)
  BY FS_Subset
<1>3. IsFiniteSet(s \ {x}) /\ Cardinality(s \ {x}) = Cardinality(s) - 1
  BY <1>2, FS_RemoveElement
<1> QED
  BY <1>1, <1>2, <1>3, FS_CardinalityType

\* There are such sums of the parts of any size.
LEMMA PartsAdd ==
  ASSUME NEW D, IsFiniteSet(D), NEW f \in [D -> Nat]
  PROVE  \A n \in Nat : \E h \in [Parts(f, n) -> Nat] : \A s \in Parts(f, n) : h[s] = Adds(f, h, s)
<1> DEFINE Good(n) == \E h \in [Parts(f, n) -> Nat] : \A s \in Parts(f, n) : h[s] = Adds(f, h, s)
           N == {n \in Nat : ~Good(n)}
<1>0. DOMAIN f = D
  OBVIOUS
<1>1. Good(0)
  <2> DEFINE h == [s \in Parts(f, 0) |-> 0]
  <2>1. \A s \in Parts(f, 0) : s = {}
    <3>1. ASSUME NEW s \in SUBSET D, Cardinality(s) <= 0
          PROVE  s = {}
      <4>1. IsFiniteSet(s)
        BY FS_Subset
      <4>2. Cardinality(s) \in Nat
        BY <4>1, FS_CardinalityType
      <4> QED
        BY <3>1, <4>1, <4>2, FS_EmptySet
    <3> QED
      BY <1>0, <3>1 DEF Parts
  <2>2. h \in [Parts(f, 0) -> Nat] /\ \A s \in Parts(f, 0) : h[s] = Adds(f, h, s)
    BY <2>1 DEF Adds
  <2> QED
    BY <2>2
<1>2. ASSUME NEW n \in Nat, Good(n)
      PROVE  Good(n + 1)
  <2>1. PICK h \in [Parts(f, n) -> Nat] : \A s \in Parts(f, n) : h[s] = Adds(f, h, s)
    BY <1>2
  <2> DEFINE k == [s \in Parts(f, n + 1) |-> Adds(f, h, s)]
  <2>2. ASSUME NEW s \in Parts(f, n + 1), s # {}
        PROVE  Picked(s) \in DOMAIN f /\ s \ {Picked(s)} \in Parts(f, n)
    <3>1. s \in SUBSET D /\ Cardinality(s) <= n + 1
      BY <1>0 DEF Parts
    <3>2. Picked(s) \in s
      BY <2>2 DEF Picked
    <3>3. /\ s \ {Picked(s)} \in SUBSET D /\ Cardinality(s) \in Nat
          /\ Cardinality(s \ {Picked(s)}) = Cardinality(s) - 1
      BY <2>2, <3>1, <3>2, PartPicked
    <3> QED
      BY <1>0, <3>1, <3>2, <3>3 DEF Parts
  <2>3. \A s \in Parts(f, n + 1) : Adds(f, h, s) \in Nat
    BY <2>2 DEF Adds
  <2>4. k \in [Parts(f, n + 1) -> Nat] /\ \A s \in Parts(f, n + 1) : k[s] = Adds(f, h, s)
    BY <2>3
  <2>5. Parts(f, n) \subseteq Parts(f, n + 1)
    <3>1. ASSUME NEW s \in SUBSET D, Cardinality(s) <= n
          PROVE  Cardinality(s) <= n + 1
      BY <3>1, FS_Subset, FS_CardinalityType
    <3> QED
      BY <1>0, <3>1 DEF Parts
  <2>6. \A s \in Parts(f, n) : k[s] = h[s]
    BY <2>1, <2>4, <2>5
  <2> HIDE DEF k
  <2>7. \A s \in Parts(f, n + 1) : Adds(f, h, s) = Adds(f, k, s)
    BY <2>2, <2>6 DEF Adds
  <2> QED
    BY <2>4, <2>7
<1> HIDE DEF Good
<1>3. N = {}
  <2> SUFFICES ASSUME N # {}
               PROVE  FALSE
    OBVIOUS
  <2>1. PICK n \in N : \A m \in N : n <= m
    BY LeastOne
  <2>2. n # 0
    BY <1>1
  <2>3. n - 1 \in Nat /\ n - 1 \notin N
    BY <2>1, <2>2
  <2> QED
    BY <1>2, <2>1, <2>3
<1> QED
  BY <1>3 DEF Good

\* What SumFunction is.
Sums(f) == CHOOSE h : h = [s \in SUBSET DOMAIN f |-> Adds(f, h, s)]

\* What the sums of the parts of f, whose domain is D, are: whatever is added first.
Added(f, h, D) == h \in [SUBSET D -> Nat] /\ \A s \in SUBSET D : h[s] = Adds(f, h, s)
TakesAny(f, h, D) == \A s \in SUBSET D : \A x \in s : h[s] = f[x] + h[s \ {x}]
Agree(f, g, D) ==
  \A s \in SUBSET D : (\A x \in s : f[x] = g[x]) => Sums(f)[s] = Sums(g)[s]

\* The sums of all parts.
LEMMA SumsAdd ==
  ASSUME NEW D, IsFiniteSet(D), NEW f \in [D -> Nat]
  PROVE  Added(f, Sums(f), D) /\ U!SumFunction(f) = Sums(f)[D]
<1> DEFINE h == Sums(f)
<1>0. DOMAIN f = D /\ \A s \in SUBSET D : Cardinality(s) \in Nat
  BY FS_Subset, FS_CardinalityType
<1>1. U!SumFunction(f) = Sums(f)[D]
  BY <1>0 DEF U!SumFunction, U!SumFunctionOnSet, U!FoldFunctionOnSet, U!MapThenFoldSet,
              Sums, Adds, Picked
<1>2. \E k : k = [s \in SUBSET DOMAIN f |-> Adds(f, k, s)]
  <2>1. Cardinality(D) \in Nat /\ \A s \in SUBSET D : Cardinality(s) <= Cardinality(D)
    BY FS_Subset, FS_CardinalityType
  <2>2. Parts(f, Cardinality(D)) = SUBSET DOMAIN f
    BY <1>0, <2>1 DEF Parts
  <2>3. PICK k \in [SUBSET DOMAIN f -> Nat] : \A s \in SUBSET DOMAIN f : k[s] = Adds(f, k, s)
    BY <2>1, <2>2, PartsAdd
  <2>4. k = [s \in SUBSET DOMAIN f |-> Adds(f, k, s)]
    BY <2>3
  <2> QED
    BY <2>4
<1>3. h = [s \in SUBSET DOMAIN f |-> Adds(f, h, s)]
  BY <1>2 DEF Sums
<1> HIDE DEF h
<1>4. DOMAIN h = SUBSET D /\ \A s \in SUBSET D : h[s] = Adds(f, h, s)
  BY <1>0, <1>3
<1> DEFINE N == {n \in Nat : \E s \in SUBSET D : Cardinality(s) = n /\ h[s] \notin Nat}
<1>5. N = {}
  <2> SUFFICES ASSUME N # {}
               PROVE  FALSE
    OBVIOUS
  <2>1. PICK n \in N : \A m \in N : n <= m
    BY LeastOne
  <2>2. PICK s \in SUBSET D : Cardinality(s) = n /\ h[s] \notin Nat
    BY <2>1
  <2>3. s # {}
    <3>1. h[{}] = 0
      BY <1>4 DEF Adds
    <3> QED
      BY <2>2, <3>1
  <2>4. /\ Picked(s) \in s /\ s \ {Picked(s)} \in SUBSET D
        /\ Cardinality(s \ {Picked(s)}) \in Nat /\ Cardinality(s \ {Picked(s)}) = n - 1
    <3>1. Picked(s) \in s
      BY <2>3 DEF Picked
    <3> QED
      BY <2>2, <2>3, <3>1, PartPicked
  <2>5. h[s \ {Picked(s)}] \in Nat
    BY <2>1, <2>4
  <2>6. f[Picked(s)] \in Nat
    BY <2>4
  <2> QED
    BY <1>4, <2>2, <2>3, <2>5, <2>6 DEF Adds
<1>6. \A s \in SUBSET D : h[s] \in Nat
  BY <1>0, <1>5
<1>7. h \in [SUBSET D -> Nat]
  <2>1. h = [s \in SUBSET D |-> h[s]]
    BY <1>0, <1>3, <1>4
  <2> QED
    BY <1>6, <2>1
<1> QED
  BY <1>1, <1>4, <1>7 DEF Added, h

\* Whichever element is added first.
LEMMA SumsTakeAny ==
  ASSUME NEW D, IsFiniteSet(D), NEW f \in [D -> Nat]
  PROVE  TakesAny(f, Sums(f), D)
<1> PICK h : h = Sums(f)
  OBVIOUS
<1>1. h \in [SUBSET D -> Nat] /\ \A s \in SUBSET D : h[s] = Adds(f, h, s)
  <2>1. Added(f, Sums(f), D)
    BY SumsAdd
  <2> QED
    BY <2>1 DEF Added
<1> DEFINE N == {n \in Nat : \E s \in SUBSET D : \E x \in s :
                               Cardinality(s) = n /\ h[s] # f[x] + h[s \ {x}]}
<1>2. N = {}
  <2> SUFFICES ASSUME N # {}
               PROVE  FALSE
    OBVIOUS
  <2>1. PICK n \in N : \A m \in N : n <= m
    BY LeastOne
  <2>2a. PICK s \in SUBSET D : \E x \in s : Cardinality(s) = n /\ h[s] # f[x] + h[s \ {x}]
    BY <2>1
  <2>2. PICK x \in s : Cardinality(s) = n /\ h[s] # f[x] + h[s \ {x}]
    BY <2>2a
  <2> PICK y : y = Picked(s)
    OBVIOUS
  <2>3. y \in s /\ h[s] = f[y] + h[s \ {y}]
    BY <1>1, <2>2 DEF Adds, Picked
  <2>4. x # y
    BY <2>2, <2>3
  <2>5. s \ {x} \in SUBSET D /\ s \ {y} \in SUBSET D
        /\ Cardinality(s \ {x}) \in Nat /\ Cardinality(s \ {x}) = n - 1
        /\ Cardinality(s \ {y}) \in Nat /\ Cardinality(s \ {y}) = n - 1
    BY <2>2, <2>3, PartPicked
  <2>6. n - 1 \notin N /\ n \in Nat
    <3>1. n \in Nat
      OBVIOUS
    <3> HIDE DEF N
    <3> QED
      BY <2>1, <3>1
  <2>7. h[s \ {x}] = f[y] + h[(s \ {x}) \ {y}] /\ h[s \ {y}] = f[x] + h[(s \ {y}) \ {x}]
    BY <2>3, <2>4, <2>5, <2>6
  <2>8. (s \ {x}) \ {y} = (s \ {y}) \ {x} /\ (s \ {x}) \ {y} \in SUBSET D
    BY <2>5
  <2>9. f[x] \in Nat /\ f[y] \in Nat /\ h[(s \ {x}) \ {y}] \in Nat
    BY <1>1, <2>3, <2>8
  <2>10. h[s] = f[x] + h[s \ {x}]
    <3> HIDE DEF N
    <3> QED
      BY <2>3, <2>7, <2>8, <2>9
  <2> QED
    BY <2>2, <2>10
<1>3. \A s \in SUBSET D : Cardinality(s) \in Nat
  BY FS_Subset, FS_CardinalityType
<1> QED
  BY <1>2, <1>3 DEF TakesAny

\* Sums of what two functions share are the same.
LEMMA SumsAgree ==
  ASSUME NEW D, IsFiniteSet(D), NEW f \in [D -> Nat], NEW g \in [D -> Nat]
  PROVE  Agree(f, g, D)
<1> PICK h, k : h = Sums(f) /\ k = Sums(g)
  OBVIOUS
<1>1. /\ \A s \in SUBSET D : h[s] = Adds(f, h, s)
      /\ \A s \in SUBSET D : k[s] = Adds(g, k, s)
  <2>1. Added(f, Sums(f), D) /\ Added(g, Sums(g), D)
    BY SumsAdd
  <2> QED
    BY <2>1 DEF Added
<1> DEFINE N == {n \in Nat : \E s \in SUBSET D : /\ Cardinality(s) = n /\ h[s] # k[s]
                                                 /\ \A x \in s : f[x] = g[x]}
<1>2. N = {}
  <2> SUFFICES ASSUME N # {}
               PROVE  FALSE
    OBVIOUS
  <2>1. PICK n \in N : \A m \in N : n <= m
    BY LeastOne
  <2>2. PICK s \in SUBSET D : Cardinality(s) = n /\ h[s] # k[s] /\ \A x \in s : f[x] = g[x]
    BY <2>1
  <2> PICK y : y = Picked(s)
    OBVIOUS
  <2>3. s # {}
    BY <1>1, <2>2 DEF Adds
  <2>4. y \in s /\ h[s] = f[y] + h[s \ {y}] /\ k[s] = g[y] + k[s \ {y}]
    BY <1>1, <2>3 DEF Adds, Picked
  <2>5. s \ {y} \in SUBSET D /\ Cardinality(s \ {y}) \in Nat /\ Cardinality(s \ {y}) = n - 1
    BY <2>2, <2>4, PartPicked
  <2>6. n - 1 \notin N /\ n \in Nat
    <3>1. n \in Nat
      OBVIOUS
    <3> HIDE DEF N
    <3> QED
      BY <2>1, <3>1
  <2>7. h[s \ {y}] = k[s \ {y}]
    BY <2>2, <2>5, <2>6
  <2> QED
    BY <2>2, <2>4, <2>7
<1>3. \A s \in SUBSET D : Cardinality(s) \in Nat
  BY FS_Subset, FS_CardinalityType
<1> QED
  BY <1>2, <1>3 DEF Agree

SumFollows(f, x, v) ==
  /\ U!SumFunction(f) \in Nat
  /\ U!SumFunction([f EXCEPT ![x] = v]) = U!SumFunction(f) - f[x] + v

\* A sum follows a change of one value.
LEMMA SumOfChanged ==
  ASSUME NEW D, IsFiniteSet(D), NEW f \in [D -> Nat], NEW x \in D, NEW v \in Nat
  PROVE  SumFollows(f, x, v)
<1> PICK g : g = [f EXCEPT ![x] = v]
  OBVIOUS
<1>1. g \in [D -> Nat] /\ g[x] = v /\ \A y \in D \ {x} : g[y] = f[y]
  OBVIOUS
<1>2. /\ U!SumFunction(f) = Sums(f)[D] /\ Sums(f) \in [SUBSET D -> Nat]
      /\ U!SumFunction(g) = Sums(g)[D]
  BY <1>1, SumsAdd DEF Added
<1>3. Sums(f)[D] = f[x] + Sums(f)[D \ {x}] /\ Sums(g)[D] = v + Sums(g)[D \ {x}]
  <2>1. TakesAny(f, Sums(f), D) /\ TakesAny(g, Sums(g), D)
    BY <1>1, SumsTakeAny
  <2> QED
    BY <1>1, <2>1 DEF TakesAny
<1>4. Sums(f)[D \ {x}] = Sums(g)[D \ {x}]
  <2>1. Agree(f, g, D)
    BY <1>1, SumsAgree
  <2> QED
    BY <1>1, <2>1 DEF Agree
<1>5. f[x] \in Nat /\ Sums(f)[D \ {x}] \in Nat
  BY <1>2
<1> QED
  BY <1>2, <1>3, <1>4, <1>5 DEF SumFollows

\* The sum of no values, and of values that are all zero.
LEMMA SumOfZeros ==
  ASSUME NEW D, IsFiniteSet(D), NEW f \in [D -> Nat], \A x \in D : f[x] = 0
  PROVE  U!SumFunction(f) = 0
<1> PICK h : h = Sums(f)
  OBVIOUS
<1>1. /\ h \in [SUBSET D -> Nat] /\ \A s \in SUBSET D : h[s] = Adds(f, h, s)
      /\ U!SumFunction(f) = h[D]
  <2>1. Added(f, Sums(f), D) /\ U!SumFunction(f) = Sums(f)[D]
    BY SumsAdd
  <2> QED
    BY <2>1 DEF Added
<1> DEFINE N == {n \in Nat : \E s \in SUBSET D : Cardinality(s) = n /\ h[s] # 0}
<1>2. N = {}
  <2> SUFFICES ASSUME N # {}
               PROVE  FALSE
    OBVIOUS
  <2>1. PICK n \in N : \A m \in N : n <= m
    BY LeastOne
  <2>2. PICK s \in SUBSET D : Cardinality(s) = n /\ h[s] # 0
    BY <2>1
  <2> PICK y : y = Picked(s)
    OBVIOUS
  <2>3. s # {}
    <3>1. h[{}] = 0
      BY <1>1 DEF Adds
    <3> QED
      BY <2>2, <3>1
  <2>4. y \in s /\ h[s] = f[y] + h[s \ {y}]
    BY <1>1, <2>3 DEF Adds, Picked
  <2>5. s \ {y} \in SUBSET D /\ Cardinality(s \ {y}) \in Nat /\ Cardinality(s \ {y}) = n - 1
    BY <2>2, <2>4, PartPicked
  <2>6. n - 1 \notin N /\ n \in Nat
    <3>1. n \in Nat
      OBVIOUS
    <3> HIDE DEF N
    <3> QED
      BY <2>1, <3>1
  <2>7. h[s \ {y}] = 0
    BY <2>2, <2>5, <2>6
  <2> QED
    BY <2>2, <2>4, <2>7
<1>3. \A s \in SUBSET D : Cardinality(s) \in Nat
  BY FS_Subset, FS_CardinalityType
<1> QED
  BY <1>1, <1>2, <1>3

\* A sum of natural numbers is one.
LEMMA SumIsNatural ==
  ASSUME NEW D, IsFiniteSet(D), NEW f \in [D -> Nat]
  PROVE  U!SumFunction(f) \in Nat
<1>1. Added(f, Sums(f), D) /\ U!SumFunction(f) = Sums(f)[D]
  BY SumsAdd
<1> QED
  BY <1>1 DEF Added

-----------------------------------------------------------------------------
(* Chunks, see KabUpload.                                                  *)

\* What the request in progress may count on, a chunk's first.
Receiving ==
  pc = "receive" => /\ req \in U!Puts /\ chunk[req.name] = None
                    /\ usage # None /\ usage >= U!DirSize
                    /\ usage + Size[req.content] <= MaxSession

Counting ==
  pc = "countChunk" => req \in U!Puts /\ usage # None /\ usage + Size[req.content] >= U!DirSize

Final == assembled[<<req.slot, req.ext>>]

Assembling ==
  pc \in {"assemble", "compare", "countAssembled", "writeMeta"} =>
    /\ req \in U!Completes /\ meta[req.slot] = None
    /\ pc = "assemble" => \A i \in 1 .. Len(req.file) : chunk[<<req.slot, i>>] # None
    /\ pc \in {"compare", "countAssembled"} /\ usage # None =>
         usage + U!SizeOf(Final) >= U!DirSize
    /\ pc \in {"countAssembled", "writeMeta"} => Final = req.file

\* The cached usage covers the disk when no file waits to be counted.
Covering == pc \in {"idle", "assemble", "writeMeta"} /\ usage # None => usage >= U!DirSize

UInv ==
  /\ U!TypeOK
  /\ Receiving /\ Counting /\ Assembling /\ Covering
  /\ U!ChunksWithinQuota /\ U!AcceptedIsDeclared

\* The constants of the chunks' part.
LEMMA UploadConstants ==
  /\ IsFiniteSet(U!ChunkNames) /\ IsFiniteSet(U!Names)
  /\ Size \in [Contents -> Nat \ {0}] /\ MaxChunks \in Nat /\ MaxSession \in Nat
  /\ MaxStops \in Nat
  /\ None \notin Contents /\ None \notin Nat /\ None \notin U!Completes
<1>1. /\ U!IsFiniteSet(Slots) /\ U!IsFiniteSet(Extensions)
      /\ Size \in [Contents -> Nat \ {0}] /\ MaxChunks \in Nat /\ MaxSession \in Nat
      /\ MaxStops \in Nat
      /\ None \notin Contents /\ None \notin Nat /\ None \notin U!Completes
  BY IntakeAssumption DEF U!ConstantsAssumption
<1>2. IsFiniteSet(Slots) /\ IsFiniteSet(Extensions)
  BY <1>1 DEF U!IsFiniteSet, IsFiniteSet
<1>3. IsFiniteSet(1 .. MaxChunks)
  BY <1>1, FS_Interval
<1> QED
  BY <1>1, <1>2, <1>3, FS_Product DEF U!ChunkNames, U!Names

\* The size of a file.
LEMMA FileSize ==
  ASSUME NEW file \in U!Files \cup {<<>>}
  PROVE  U!SizeOf(file) \in Nat /\ (file = <<>> => U!SizeOf(file) = 0)
<1> PICK g : g = [i \in DOMAIN file |-> Size[file[i]]]
  OBVIOUS
<1>1. U!SizeOf(file) = U!SumFunction(g)
  BY DEF U!SizeOf
<1>2. CASE file = <<>>
  <2>1. DOMAIN file = {} /\ g \in [{} -> Nat]
    BY <1>2
  <2> QED
    BY <1>1, <2>1, FS_EmptySet, SumOfZeros, SumIsNatural
<1>3. CASE file \in U!Files
  <2>1. PICK n \in 1 .. MaxChunks : file \in [1 .. n -> Contents]
    BY <1>3 DEF U!Files
  <2>2. n \in Nat /\ n > 0
    BY <2>1, UploadConstants
  <2>3. IsFiniteSet(1 .. n)
    BY <2>2, FS_Interval
  <2>4. g \in [1 .. n -> Nat]
    BY <2>1, UploadConstants
  <2>5. file # <<>>
    <3>1. 1 \in DOMAIN file
      BY <2>1, <2>2
    <3> QED
      BY <3>1
  <2> QED
    BY <1>1, <2>3, <2>4, <2>5, SumIsNatural
<1> QED
  BY <1>2, <1>3

\* What is added up: the bytes of each chunk, and of each assembled file.
ChunkSizes == [c \in U!ChunkNames |-> IF chunk[c] = None THEN 0 ELSE Size[chunk[c]]]
FileSizes  == [n \in U!Names |-> U!SizeOf(assembled[n])]

\* The bytes on disk.
LEMMA BytesOnDisk ==
  ASSUME U!TypeOK
  PROVE  /\ ChunkSizes \in [U!ChunkNames -> Nat] /\ FileSizes \in [U!Names -> Nat]
         /\ U!ChunkBytes = U!SumFunction(ChunkSizes) /\ U!AssembledBytes = U!SumFunction(FileSizes)
         /\ U!ChunkBytes \in Nat /\ U!AssembledBytes \in Nat /\ junk \in Nat
         /\ U!DirSize = U!ChunkBytes + U!AssembledBytes + junk
         /\ U!DirSize \in Nat /\ U!Usage \in Nat
         /\ usage # None => usage \in Nat /\ U!Usage = usage
         /\ usage = None => U!Usage = U!DirSize
<1>1. ChunkSizes \in [U!ChunkNames -> Nat]
  BY UploadConstants DEF U!TypeOK, ChunkSizes
<1>2. FileSizes \in [U!Names -> Nat]
  BY FileSize DEF U!TypeOK, FileSizes
<1>3. U!ChunkBytes = U!SumFunction(ChunkSizes) /\ U!AssembledBytes = U!SumFunction(FileSizes)
  BY DEF U!ChunkBytes, U!AssembledBytes, ChunkSizes, FileSizes
<1>4. U!ChunkBytes \in Nat /\ U!AssembledBytes \in Nat
  BY <1>1, <1>2, <1>3, UploadConstants, SumIsNatural
<1>5. junk \in Nat /\ usage \in Nat \cup {None}
  BY DEF U!TypeOK
<1>6. U!DirSize = U!ChunkBytes + U!AssembledBytes + junk
  BY DEF U!DirSize
<1>7. U!DirSize \in Nat
  BY <1>4, <1>5, <1>6
<1> QED
  BY <1>1, <1>2, <1>3, <1>4, <1>5, <1>6, <1>7 DEF U!Usage

\* One chunk more.
LEMMA ChunkStored ==
  ASSUME U!TypeOK, NEW name \in U!ChunkNames, chunk[name] = None, NEW c \in Contents,
         chunk' = [chunk EXCEPT ![name] = c]
  PROVE  U!ChunkBytes' = U!ChunkBytes + Size[c]
<1> PICK f : f = ChunkSizes
  OBVIOUS
<1>1. f \in [U!ChunkNames -> Nat] /\ f[name] = 0
  BY BytesOnDisk DEF ChunkSizes
<1>2. Size[c] \in Nat /\ c # None
  BY UploadConstants
<1>3. chunk' \in [U!ChunkNames -> Contents \cup {None}] /\ chunk'[name] = c
      /\ \A d \in U!ChunkNames \ {name} : chunk'[d] = chunk[d]
  BY DEF U!TypeOK
<1>4. ChunkSizes' = [f EXCEPT ![name] = Size[c]]
  BY <1>1, <1>2, <1>3 DEF ChunkSizes
<1>5. U!ChunkBytes = U!SumFunction(f) /\ U!ChunkBytes' = U!SumFunction(ChunkSizes')
  BY DEF U!ChunkBytes, ChunkSizes
<1>6. SumFollows(f, name, Size[c])
  BY <1>1, <1>2, UploadConstants, SumOfChanged
<1> QED
  BY <1>1, <1>2, <1>4, <1>5, <1>6 DEF SumFollows

\* Another file under a final name.
LEMMA FileReplaced ==
  ASSUME U!TypeOK, NEW n \in U!Names, NEW file \in U!Files \cup {<<>>},
         assembled' = [assembled EXCEPT ![n] = file]
  PROVE  /\ assembled[n] \in U!Files \cup {<<>>}
         /\ U!AssembledBytes' = U!AssembledBytes - U!SizeOf(assembled[n]) + U!SizeOf(file)
<1> PICK f : f = FileSizes
  OBVIOUS
<1> PICK v : v = U!SizeOf(file)
  OBVIOUS
<1>1. f \in [U!Names -> Nat] /\ f[n] = U!SizeOf(assembled[n])
  BY BytesOnDisk DEF FileSizes
<1>2. v \in Nat
  BY FileSize
<1>3. assembled' \in [U!Names -> U!Files \cup {<<>>}] /\ assembled'[n] = file
      /\ assembled[n] \in U!Files \cup {<<>>}
      /\ \A m \in U!Names \ {n} : assembled'[m] = assembled[m]
  BY DEF U!TypeOK
<1>4. FileSizes' = [f EXCEPT ![n] = v]
  <2>1. FileSizes' = [m \in U!Names |-> U!SizeOf(assembled'[m])]
    BY DEF FileSizes
  <2>2. \A m \in U!Names : U!SizeOf(assembled'[m]) = IF m = n THEN v ELSE U!SizeOf(assembled[m])
    BY <1>3
  <2>3. \A m \in U!Names : f[m] = U!SizeOf(assembled[m])
    BY DEF FileSizes
  <2> QED
    BY <1>1, <2>1, <2>2, <2>3
<1>5. U!AssembledBytes = U!SumFunction(f) /\ U!AssembledBytes' = U!SumFunction(FileSizes')
  BY DEF U!AssembledBytes, FileSizes
<1>6. SumFollows(f, n, v)
  BY <1>1, <1>2, UploadConstants, SumOfChanged
<1> QED
  BY <1>1, <1>3, <1>4, <1>5, <1>6 DEF SumFollows

\* The sizes stay as long as the files do.
LEMMA SizesStay ==
  /\ UNCHANGED chunk => U!ChunkBytes' = U!ChunkBytes
  /\ UNCHANGED assembled => U!AssembledBytes' = U!AssembledBytes
  /\ UNCHANGED <<chunk, assembled, junk>> => U!DirSize' = U!DirSize
<1>1. UNCHANGED chunk => U!ChunkBytes' = U!ChunkBytes
  BY DEF U!ChunkBytes
<1>2. UNCHANGED assembled => U!AssembledBytes' = U!AssembledBytes
  BY DEF U!AssembledBytes, U!SizeOf
<1>3. U!DirSize = U!ChunkBytes + U!AssembledBytes + junk
      /\ U!DirSize' = U!ChunkBytes' + U!AssembledBytes' + junk'
  BY DEF U!DirSize
<1> QED
  BY <1>1, <1>2, <1>3

\* Before the first request.
LEMMA UploadInit == Init => UInv
<1> SUFFICES ASSUME Init
             PROVE  UInv
  OBVIOUS
<1>1. /\ chunk = [c \in U!ChunkNames |-> None] /\ assembled = [n \in U!Names |-> <<>>]
      /\ meta = [s \in Slots |-> None]
      /\ junk = 0 /\ usage = 0 /\ pc = "idle" /\ req = None /\ stops = 0
  BY DEF Init, U!Init
<1>2. U!TypeOK
  BY <1>1, UploadConstants DEF U!TypeOK, U!Steps
<1>3. U!ChunkBytes = 0
  <2> PICK f : f = ChunkSizes
    OBVIOUS
  <2>1. f \in [U!ChunkNames -> Nat] /\ U!ChunkBytes = U!SumFunction(f)
    BY <1>2, BytesOnDisk
  <2>2. \A c \in U!ChunkNames : f[c] = 0
    BY <1>1 DEF ChunkSizes
  <2> QED
    BY <2>1, <2>2, UploadConstants, SumOfZeros
<1>4. U!AssembledBytes = 0
  <2> PICK f : f = FileSizes
    OBVIOUS
  <2>1. f \in [U!Names -> Nat] /\ U!AssembledBytes = U!SumFunction(f)
    BY <1>2, BytesOnDisk
  <2>2. \A n \in U!Names : f[n] = 0
    BY <1>1, FileSize DEF FileSizes
  <2> QED
    BY <2>1, <2>2, UploadConstants, SumOfZeros
<1>5. U!DirSize = 0
  BY <1>1, <1>3, <1>4 DEF U!DirSize
<1> QED
  BY <1>1, <1>2, <1>3, <1>5, UploadConstants
     DEF UInv, Receiving, Counting, Assembling, Covering, U!ChunksWithinQuota, U!AcceptedIsDeclared

\* Between requests the usage covers the disk, cached or not.
LEMMA UsageCovers ==
  ASSUME UInv, pc \in {"idle", "assemble", "writeMeta"}
  PROVE  U!Usage \in Nat /\ U!DirSize \in Nat /\ U!Usage >= U!DirSize
<1>1. U!TypeOK /\ Covering
  BY DEF UInv
<1> QED
  BY <1>1, BytesOnDisk DEF Covering

\* What does not touch the files keeps what is said of them.
LEMMA FilesStay ==
  ASSUME UInv, UNCHANGED <<chunk, assembled, meta, junk>>,
         usage' \in Nat \cup {None}, pc' \in U!Steps,
         req' \in U!Puts \cup U!Completes \cup {None}, stops' \in 0 .. MaxStops
  PROVE  /\ U!TypeOK' /\ U!ChunksWithinQuota' /\ U!AcceptedIsDeclared'
         /\ U!DirSize' = U!DirSize
<1>1. U!TypeOK'
  BY DEF UInv, U!TypeOK
<1>2. U!ChunksWithinQuota'
  <2>1. U!ChunkBytes' = U!ChunkBytes /\ U!ChunkBytes <= MaxSession
    BY SizesStay DEF UInv, U!ChunksWithinQuota
  <2> QED
    BY <2>1 DEF U!ChunksWithinQuota
<1> QED
  BY <1>1, <1>2, SizesStay DEF UInv, U!AcceptedIsDeclared

\* A chunk is let in, or the session is full.
LEMMA PutKeeps ==
  ASSUME UInv, NEW r \in U!Puts, U!PutChunk(r) \/ U!RefuseChunk(r)
  PROVE  UInv'
<1>1. /\ pc = "idle" /\ chunk[r.name] = None /\ usage' = U!Usage
      /\ UNCHANGED <<chunk, assembled, meta, junk, stops>> /\ stops \in 0 .. MaxStops
      /\ req \in U!Puts \cup U!Completes \cup {None}
  BY DEF UInv, U!TypeOK, U!PutChunk, U!RefuseChunk, U!NewChunk, U!disk
<1>2. U!Usage \in Nat /\ U!DirSize \in Nat /\ U!Usage >= U!DirSize /\ U!Usage # None
  BY <1>1, UsageCovers, UploadConstants
<1>3. CASE U!PutChunk(r)
  <2>1. pc' = "receive" /\ req' = r /\ U!Usage + Size[r.content] <= MaxSession
    BY <1>3 DEF U!PutChunk, U!FitsQuota
  <2>2. U!TypeOK' /\ U!ChunksWithinQuota' /\ U!AcceptedIsDeclared' /\ U!DirSize' = U!DirSize
    BY <1>1, <1>2, <2>1, FilesStay DEF U!Steps
  <2> QED
    BY <1>1, <1>2, <2>1, <2>2 DEF UInv, Receiving, Counting, Assembling, Covering
<1>4. CASE U!RefuseChunk(r)
  <2>1. pc' = "idle" /\ req' = req
    BY <1>4 DEF U!RefuseChunk
  <2>2. U!TypeOK' /\ U!ChunksWithinQuota' /\ U!AcceptedIsDeclared' /\ U!DirSize' = U!DirSize
    BY <1>1, <1>2, <2>1, FilesStay DEF U!Steps
  <2> QED
    BY <1>1, <1>2, <2>1, <2>2 DEF UInv, Receiving, Counting, Assembling, Covering
<1> QED
  BY <1>3, <1>4

\* Its body is refused, takes its place, is counted.
LEMMA BodyKeeps ==
  ASSUME UInv, U!RejectBody \/ U!StoreChunk \/ U!CountChunk
  PROVE  UInv'
<1>0. U!TypeOK /\ usage \in Nat \cup {None} /\ stops \in 0 .. MaxStops
  BY DEF UInv, U!TypeOK
<1>1. CASE U!RejectBody
  <2>1. /\ pc = "receive" /\ pc' = "idle" /\ req' = None
        /\ UNCHANGED <<chunk, assembled, meta, junk, usage, stops>>
    BY <1>1 DEF U!RejectBody, U!disk
  <2>2. U!TypeOK' /\ U!ChunksWithinQuota' /\ U!AcceptedIsDeclared' /\ U!DirSize' = U!DirSize
    BY <1>0, <2>1, FilesStay DEF U!Steps
  <2>3. usage >= U!DirSize
    BY <2>1 DEF UInv, Receiving
  <2> QED
    BY <2>1, <2>2, <2>3 DEF UInv, Receiving, Counting, Assembling, Covering
<1>2. CASE U!CountChunk
  <2>1. /\ pc = "countChunk" /\ pc' = "idle" /\ req' = None /\ usage' = U!Usage + Size[req.content]
        /\ UNCHANGED <<chunk, assembled, meta, junk, stops>>
    BY <1>2 DEF U!CountChunk, U!disk
  <2>2. req.content \in Contents /\ usage # None /\ usage + Size[req.content] >= U!DirSize
    BY <2>1 DEF UInv, Counting, U!Puts
  <2>3. usage' \in Nat /\ usage' >= U!DirSize
    BY <1>0, <2>1, <2>2, BytesOnDisk, UploadConstants
  <2>4. U!TypeOK' /\ U!ChunksWithinQuota' /\ U!AcceptedIsDeclared' /\ U!DirSize' = U!DirSize
    BY <1>0, <2>1, <2>3, FilesStay DEF U!Steps
  <2> QED
    BY <2>1, <2>3, <2>4 DEF UInv, Receiving, Counting, Assembling, Covering
<1>3. CASE U!StoreChunk
  <2> PICK name, c : name = req.name /\ c = req.content
    OBVIOUS
  <2>1. /\ pc = "receive" /\ pc' = "countChunk"
        /\ chunk' = [chunk EXCEPT ![name] = c]
        /\ UNCHANGED <<assembled, meta, junk, usage, req, stops>>
    BY <1>3 DEF U!StoreChunk
  <2>2. /\ req \in U!Puts /\ name \in U!ChunkNames /\ c \in Contents /\ chunk[name] = None
        /\ usage # None /\ usage >= U!DirSize /\ usage + Size[c] <= MaxSession
    BY <2>1 DEF UInv, Receiving, U!Puts
  <2>3. /\ U!ChunkBytes' = U!ChunkBytes + Size[c] /\ U!AssembledBytes' = U!AssembledBytes
        /\ Size[c] \in Nat
    BY <1>0, <2>1, <2>2, ChunkStored, SizesStay, UploadConstants
  <2>4. /\ U!ChunkBytes \in Nat /\ U!AssembledBytes \in Nat /\ junk \in Nat /\ usage \in Nat
        /\ U!DirSize = U!ChunkBytes + U!AssembledBytes + junk
    BY <1>0, <2>2, BytesOnDisk
  <2>5. U!DirSize' = U!ChunkBytes' + U!AssembledBytes' + junk'
    BY DEF U!DirSize
  <2>6. U!DirSize' = U!DirSize + Size[c] /\ U!ChunkBytes' <= MaxSession
    BY <2>1, <2>2, <2>3, <2>4, <2>5, UploadConstants
  <2>7. U!TypeOK'
    BY <1>0, <2>1, <2>2 DEF U!TypeOK, U!Steps
  <2>8. Counting'
    BY <2>1, <2>2, <2>3, <2>4, <2>6 DEF Counting
  <2> QED
    BY <2>1, <2>6, <2>7, <2>8
       DEF UInv, Receiving, Assembling, Covering, U!ChunksWithinQuota, U!AcceptedIsDeclared
<1> QED
  BY <1>1, <1>2, <1>3

\* A completion begins, or what was assembled is accepted or counted: no file changes.
LEMMA CompletionMovesKeep ==
  ASSUME UInv, (\E r \in U!Completes : U!CompleteSegment(r)) \/ U!AcceptFile \/ U!CountAssembled
  PROVE  UInv'
<1>0. /\ U!TypeOK /\ usage \in Nat \cup {None} /\ stops \in 0 .. MaxStops
      /\ req \in U!Puts \cup U!Completes \cup {None}
  BY DEF UInv, U!TypeOK
<1>1. CASE \E r \in U!Completes : U!CompleteSegment(r)
  <2>1. PICK r \in U!Completes : U!CompleteSegment(r)
    BY <1>1
  <2>2. /\ pc = "idle" /\ pc' = "assemble" /\ req' = r /\ meta[r.slot] = None
        /\ \A i \in 1 .. Len(r.file) : chunk[<<r.slot, i>>] # None
        /\ UNCHANGED <<chunk, assembled, meta, junk, usage, stops>>
    BY <2>1 DEF U!CompleteSegment, U!disk
  <2>3. U!TypeOK' /\ U!ChunksWithinQuota' /\ U!AcceptedIsDeclared' /\ U!DirSize' = U!DirSize
    BY <1>0, <2>2, FilesStay DEF U!Steps
  <2>4. Covering'
    BY <2>2, <2>3 DEF UInv, Covering
  <2>5. Assembling'
    BY <2>2 DEF Assembling
  <2> QED
    BY <2>2, <2>3, <2>4, <2>5 DEF UInv, Receiving, Counting
<1>2. CASE U!AcceptFile
  <2>1. /\ pc = "compare" /\ pc' = "countAssembled" /\ Final = req.file
        /\ UNCHANGED <<chunk, assembled, meta, junk, usage, req, stops>>
    BY <1>2 DEF U!AcceptFile, U!AsDeclared, U!disk, Final
  <2>2. U!TypeOK' /\ U!ChunksWithinQuota' /\ U!AcceptedIsDeclared' /\ U!DirSize' = U!DirSize
    BY <1>0, <2>1, FilesStay DEF U!Steps
  <2>3. Final' = Final /\ U!SizeOf(Final)' = U!SizeOf(Final)
    BY <2>1 DEF Final, U!SizeOf
  <2>4. Assembling'
    BY <2>1, <2>2, <2>3 DEF UInv, Assembling
  <2> QED
    BY <2>1, <2>2, <2>4 DEF UInv, Receiving, Counting, Covering
<1>3. CASE U!CountAssembled
  <2>1. /\ pc = "countAssembled" /\ pc' = "writeMeta" /\ usage' = U!Usage + U!SizeOf(req.file)
        /\ UNCHANGED <<chunk, assembled, meta, junk, req, stops>>
    BY <1>3 DEF U!CountAssembled, U!disk
  <2>2. /\ req \in U!Completes /\ meta[req.slot] = None /\ Final = req.file
        /\ usage # None => usage + U!SizeOf(Final) >= U!DirSize
    BY <2>1 DEF UInv, Assembling
  <2>3. U!SizeOf(req.file) \in Nat
    BY <2>2, FileSize DEF U!Completes
  <2>4. usage' \in Nat /\ usage' >= U!DirSize
    BY <1>0, <2>1, <2>2, <2>3, BytesOnDisk
  <2>5. U!TypeOK' /\ U!ChunksWithinQuota' /\ U!AcceptedIsDeclared' /\ U!DirSize' = U!DirSize
    BY <1>0, <2>1, <2>4, FilesStay DEF U!Steps
  <2>6. Final' = Final
    BY <2>1 DEF Final
  <2>7. Assembling'
    BY <2>1, <2>2, <2>6 DEF Assembling
  <2> QED
    BY <2>1, <2>4, <2>5, <2>7 DEF UInv, Receiving, Counting, Covering
<1> QED
  BY <1>1, <1>2, <1>3

\* A file takes its final name, or is removed from it.
LEMMA FinalReplaced ==
  ASSUME U!TypeOK, req \in U!Completes, NEW file \in U!Files \cup {<<>>},
         assembled' = [assembled EXCEPT ![<<req.slot, req.ext>>] = file],
         UNCHANGED <<chunk, junk>>
  PROVE  /\ assembled' \in [U!Names -> U!Files \cup {<<>>}]
         /\ assembled'[<<req.slot, req.ext>>] = file
         /\ \A n \in U!Names \ {<<req.slot, req.ext>>} : assembled'[n] = assembled[n]
         /\ U!SizeOf(Final) \in Nat /\ U!SizeOf(file) \in Nat
         /\ U!DirSize \in Nat
         /\ U!DirSize' = U!DirSize - U!SizeOf(Final) + U!SizeOf(file)
<1> PICK n : n = <<req.slot, req.ext>>
  OBVIOUS
<1>1. n \in U!Names /\ Final = assembled[n]
  BY DEF U!Completes, U!Names, Final
<1>2. assembled' \in [U!Names -> U!Files \cup {<<>>}] /\ assembled'[n] = file
      /\ \A m \in U!Names \ {n} : assembled'[m] = assembled[m]
  BY <1>1 DEF U!TypeOK
<1>3. /\ assembled[n] \in U!Files \cup {<<>>}
      /\ U!AssembledBytes' = U!AssembledBytes - U!SizeOf(assembled[n]) + U!SizeOf(file)
  BY <1>1, FileReplaced
<1>4. U!SizeOf(assembled[n]) \in Nat /\ U!SizeOf(file) \in Nat
  BY <1>3, FileSize
<1>5. /\ U!ChunkBytes \in Nat /\ U!AssembledBytes \in Nat /\ junk \in Nat /\ U!DirSize \in Nat
      /\ U!DirSize = U!ChunkBytes + U!AssembledBytes + junk
  BY BytesOnDisk
<1>6. U!DirSize' = U!ChunkBytes' + U!AssembledBytes' + junk' /\ U!ChunkBytes' = U!ChunkBytes
  BY SizesStay DEF U!DirSize
<1> QED
  BY <1>1, <1>2, <1>3, <1>4, <1>5, <1>6

\* A slot without metadata may get another file.
LEMMA AcceptedStay ==
  ASSUME UInv, req \in U!Completes, meta[req.slot] = None, UNCHANGED meta,
         \A n \in U!Names \ {<<req.slot, req.ext>>} : assembled'[n] = assembled[n]
  PROVE  U!AcceptedIsDeclared'
<1> SUFFICES ASSUME NEW s \in Slots, meta[s] # None
             PROVE  assembled'[<<s, meta[s].ext>>] = meta[s].file
  BY DEF U!AcceptedIsDeclared
<1>1. meta[s] \in U!Completes /\ s # req.slot
  BY DEF UInv, U!TypeOK
<1>2. <<s, meta[s].ext>> \in U!Names \ {<<req.slot, req.ext>>}
  BY <1>1 DEF U!Completes, U!Names
<1> QED
  BY <1>2 DEF UInv, U!AcceptedIsDeclared

\* The chunks are concatenated.
LEMMA AssembleKeeps ==
  ASSUME UInv, U!Assemble
  PROVE  UInv'
<1> PICK file : file = U!Concatenation(req.slot, Len(req.file))
  OBVIOUS
<1>1. /\ pc = "assemble" /\ pc' = "compare"
      /\ assembled' = [assembled EXCEPT ![<<req.slot, req.ext>>] = file]
      /\ UNCHANGED <<chunk, meta, junk, usage, req, stops>>
      /\ U!TypeOK /\ usage \in Nat \cup {None}
  BY DEF UInv, U!TypeOK, U!Assemble
<1>2. /\ req \in U!Completes /\ meta[req.slot] = None
      /\ \A i \in 1 .. Len(req.file) : chunk[<<req.slot, i>>] # None
  BY <1>1 DEF UInv, Assembling
<1>3. file \in U!Files
  <2>1. req.file \in U!Files /\ req.slot \in Slots
    BY <1>2 DEF U!Completes
  <2>2. PICK n \in 1 .. MaxChunks : req.file \in [1 .. n -> Contents]
    BY <2>1 DEF U!Files
  <2>3. Len(req.file) = n
    BY <2>2, UploadConstants
  <2>4. file = [i \in 1 .. n |-> chunk[<<req.slot, i>>]]
    BY <2>3 DEF U!Concatenation
  <2>5. \A i \in 1 .. n : <<req.slot, i>> \in U!ChunkNames
    BY <2>1, <2>2, UploadConstants DEF U!ChunkNames
  <2>6. \A i \in 1 .. n : chunk[<<req.slot, i>>] \in Contents
    BY <1>1, <1>2, <2>3, <2>5 DEF U!TypeOK
  <2>7. file \in [1 .. n -> Contents]
    BY <2>4, <2>6
  <2> QED
    BY <2>7 DEF U!Files
<1>4. /\ assembled' \in [U!Names -> U!Files \cup {<<>>}]
      /\ assembled'[<<req.slot, req.ext>>] = file
      /\ \A n \in U!Names \ {<<req.slot, req.ext>>} : assembled'[n] = assembled[n]
      /\ U!SizeOf(Final) \in Nat /\ U!SizeOf(file) \in Nat /\ U!DirSize \in Nat
      /\ U!DirSize' = U!DirSize - U!SizeOf(Final) + U!SizeOf(file)
  BY <1>1, <1>2, <1>3, FinalReplaced
<1>5. U!AcceptedIsDeclared'
  BY <1>1, <1>2, <1>4, AcceptedStay
<1>6. U!TypeOK'
  BY <1>1, <1>4 DEF U!TypeOK, U!Steps
<1>7. U!ChunksWithinQuota'
  <2>1. U!ChunkBytes' = U!ChunkBytes /\ U!ChunkBytes <= MaxSession
    BY <1>1, SizesStay DEF UInv, U!ChunksWithinQuota
  <2> QED
    BY <2>1 DEF U!ChunksWithinQuota
<1>8. Assembling'
  <2>1. Final' = file
    BY <1>1, <1>4 DEF Final
  <2>2. usage # None => usage >= U!DirSize
    BY <1>1 DEF UInv, Covering
  <2>3. usage # None => usage + U!SizeOf(file) >= U!DirSize'
    BY <1>1, <1>4, <2>2
  <2>4. U!SizeOf(Final)' = U!SizeOf(file)
    <3>1. U!SizeOf(Final)' = U!SizeOf(Final')
      BY DEF U!SizeOf
    <3> QED
      BY <2>1, <3>1
  <2> QED
    BY <1>1, <1>2, <2>3, <2>4 DEF Assembling
<1> QED
  BY <1>1, <1>5, <1>6, <1>7, <1>8 DEF UInv, Receiving, Counting, Covering

\* It is not what was declared.
LEMMA RejectKeeps ==
  ASSUME UInv, U!RejectFile
  PROVE  UInv'
<1>1. /\ pc = "compare" /\ pc' = "idle" /\ req' = None
      /\ assembled' = [assembled EXCEPT ![<<req.slot, req.ext>>] = <<>>]
      /\ UNCHANGED <<chunk, meta, junk, usage, stops>>
      /\ U!TypeOK /\ usage \in Nat \cup {None}
  BY DEF UInv, U!TypeOK, U!RejectFile
<1>2. /\ req \in U!Completes /\ meta[req.slot] = None
      /\ usage # None => usage + U!SizeOf(Final) >= U!DirSize
  BY <1>1 DEF UInv, Assembling
<1>3. /\ assembled' \in [U!Names -> U!Files \cup {<<>>}]
      /\ \A n \in U!Names \ {<<req.slot, req.ext>>} : assembled'[n] = assembled[n]
      /\ U!SizeOf(Final) \in Nat /\ U!DirSize \in Nat
      /\ U!DirSize' = U!DirSize - U!SizeOf(Final) + U!SizeOf(<<>>) /\ U!SizeOf(<<>>) = 0
  BY <1>1, <1>2, FinalReplaced, FileSize
<1>4. U!AcceptedIsDeclared'
  BY <1>1, <1>2, <1>3, AcceptedStay
<1>5. U!TypeOK'
  BY <1>1, <1>3 DEF U!TypeOK, U!Steps
<1>6. U!ChunksWithinQuota'
  <2>1. U!ChunkBytes' = U!ChunkBytes /\ U!ChunkBytes <= MaxSession
    BY <1>1, SizesStay DEF UInv, U!ChunksWithinQuota
  <2> QED
    BY <2>1 DEF U!ChunksWithinQuota
<1>7. Covering'
  BY <1>1, <1>2, <1>3 DEF Covering
<1> QED
  BY <1>1, <1>4, <1>5, <1>6, <1>7 DEF UInv, Receiving, Counting, Assembling

\* The metadata of the slot speaks of the file that was compared.
LEMMA WriteMetaKeeps ==
  ASSUME UInv, U!WriteMeta
  PROVE  UInv'
<1>1. /\ pc = "writeMeta" /\ pc' = "idle" /\ req' = None
      /\ meta' = [meta EXCEPT ![req.slot] = req]
      /\ UNCHANGED <<chunk, assembled, junk, usage, stops>>
      /\ U!TypeOK
  BY DEF UInv, U!WriteMeta
<1>2. req \in U!Completes /\ req.slot \in Slots /\ Final = req.file
  BY <1>1 DEF UInv, Assembling, U!Completes
<1>3. meta' \in [Slots -> U!Completes \cup {None}] /\ meta'[req.slot] = req
      /\ \A s \in Slots \ {req.slot} : meta'[s] = meta[s]
  BY <1>1, <1>2 DEF U!TypeOK
<1>4. U!AcceptedIsDeclared'
  BY <1>1, <1>2, <1>3 DEF UInv, U!AcceptedIsDeclared, Final
<1>5. U!TypeOK'
  BY <1>1, <1>3 DEF U!TypeOK, U!Steps
<1>6. U!ChunkBytes' = U!ChunkBytes /\ U!DirSize' = U!DirSize
  BY <1>1, SizesStay
<1>7. U!ChunksWithinQuota' /\ Covering'
  BY <1>1, <1>6 DEF UInv, U!ChunksWithinQuota, Covering
<1> QED
  BY <1>1, <1>4, <1>5, <1>7 DEF UInv, Receiving, Counting, Assembling

\* The receiver stops; the cached usage is gone.
LEMMA CrashKeeps ==
  ASSUME UInv, U!Crash
  PROVE  UInv'
<1>1. /\ pc' = "idle" /\ req' = None /\ usage' = None
      /\ UNCHANGED <<chunk, assembled, meta>> /\ U!TypeOK
      /\ stops < MaxStops /\ stops' = stops + 1
      /\ \E n \in U!TemporaryBytes : junk' = junk + n
  BY DEF UInv, U!Crash
<1>2. U!TemporaryBytes \subseteq Nat
  BY DEF U!TemporaryBytes
<1>3. junk' \in Nat /\ stops' \in 0 .. MaxStops
  BY <1>1, <1>2, UploadConstants DEF U!TypeOK
<1>4. U!TypeOK'
  BY <1>1, <1>3 DEF U!TypeOK, U!Steps
<1>5. U!ChunkBytes' = U!ChunkBytes
  BY <1>1, SizesStay
<1>6. U!ChunksWithinQuota' /\ U!AcceptedIsDeclared'
  BY <1>1, <1>5 DEF UInv, U!ChunksWithinQuota, U!AcceptedIsDeclared
<1> QED
  BY <1>1, <1>4, <1>6 DEF UInv, Receiving, Counting, Assembling, Covering

\* Every step of the chunks keeps the invariant.
LEMMA UploadNext == UInv /\ [Next]_<<part, chunks, completing, capture, requesting, table>> => UInv'
<1> SUFFICES ASSUME UInv, [Next]_<<part, chunks, completing, capture, requesting, table>>
             PROVE  UInv'
  OBVIOUS
<1>1. CASE UNCHANGED chunks
  <2>1. UNCHANGED <<chunk, assembled, meta, junk, usage, pc, req, stops>>
    BY <1>1 DEF chunks
  <2>2. U!TypeOK' /\ U!ChunksWithinQuota' /\ U!AcceptedIsDeclared' /\ U!DirSize' = U!DirSize
    BY <2>1, FilesStay DEF UInv, U!TypeOK
  <2>3. Final' = Final /\ U!SizeOf(Final)' = U!SizeOf(Final)
    BY <2>1 DEF Final, U!SizeOf
  <2>4. Receiving' /\ Counting' /\ Covering'
    BY <2>1, <2>2 DEF UInv, Receiving, Counting, Covering
  <2>5. Assembling'
    BY <2>1, <2>2, <2>3 DEF UInv, Assembling
  <2> QED
    BY <2>2, <2>4, <2>5 DEF UInv
<1>2. CASE U!Next
  <2>1. \/ \E r \in U!Puts : U!PutChunk(r) \/ U!RefuseChunk(r)
        \/ U!RejectBody \/ U!StoreChunk \/ U!CountChunk
        \/ (\E r \in U!Completes : U!CompleteSegment(r)) \/ U!AcceptFile \/ U!CountAssembled
        \/ U!Assemble \/ U!RejectFile \/ U!WriteMeta \/ U!Crash
    BY <1>2 DEF U!Next
  <2> QED
    BY <2>1, PutKeeps, BodyKeeps, CompletionMovesKeep, AssembleKeeps, RejectKeeps, WriteMetaKeeps,
       CrashKeeps
<1> QED
  BY <1>1, <1>2 DEF Next, Rest

\* Stored chunks are added to, under names that are free.
LEMMA ChunksStay ==
  ASSUME UInv, U!Next, NEW c \in U!ChunkNames, chunk[c] # None
  PROVE  chunk'[c] = chunk[c]
<1>1. CASE U!StoreChunk
  <2>1. chunk' = [chunk EXCEPT ![req.name] = req.content] /\ chunk[req.name] = None
    BY <1>1 DEF UInv, Receiving, U!StoreChunk
  <2> QED
    BY <2>1
<1>2. U!Next => U!StoreChunk \/ UNCHANGED chunk
  BY DEF U!Next, U!PutChunk, U!RefuseChunk, U!RejectBody, U!CountChunk, U!CompleteSegment,
         U!Assemble, U!AcceptFile, U!RejectFile, U!CountAssembled, U!WriteMeta, U!Crash, U!disk
<1> QED
  BY <1>1, <1>2

\* What is on disk stays within the quota, is accounted for and is what was declared,
\* and stored chunks never change, whatever the sizes, the limit and the stops.
THEOREM StorageIsSafe == Spec => StorageSafe
<1>1. UInv => (part = "chunks" => U!StorageSound)
  BY UsageCovers DEF UInv, U!UsageCoversDisk, U!StorageSound
<1>2. UInv /\ [Next]_<<part, chunks, completing, capture, requesting, table>> =>
        [\A c \in U!ChunkNames : chunk[c] # None => chunk'[c] = chunk[c]]_chunk
  <2> SUFFICES ASSUME UInv, [Next]_<<part, chunks, completing, capture, requesting, table>>,
                      chunk' # chunk
               PROVE  \A c \in U!ChunkNames : chunk[c] # None => chunk'[c] = chunk[c]
    OBVIOUS
  <2>1. U!Next
    BY DEF Next, Rest, chunks
  <2> QED
    BY <2>1, ChunksStay
<1> QED
  BY <1>1, <1>2, UploadInit, UploadNext, PTL DEF Spec, StorageSafe, U!ChunksImmutable

-----------------------------------------------------------------------------
(* Completion, see KabSession.                                             *)

\* The stored completion has the end p declares and quotes its segments.
Backed(p) ==
  /\ completion # None /\ completion.ended = p.ended
  /\ \A s \in 0 .. p.expected - 1 : s \in completion.results

\* The segments p declares have results, and are announced but for errors.
Processed(p) ==
  \A s \in 0 .. p.expected - 1 : s \in published /\ (faults = 0 => status[s] = "PROCESSED")

\* What a handler past its checks relies on.
Consolidates(h) ==
  /\ hpc[h] \in {"readResults", "writeCompletion", "finalize"} => Processed(hreq[h])
  /\ hpc[h] \in {"writeCompletion", "finalize"} =>
       \A s \in 0 .. hreq[h].expected - 1 : s \in quoted[h]
  /\ hpc[h] = "finalize" => Backed(hreq[h])

\* As long as overlapping requests agree, all requests in progress have the
\* same parameters, those of the session once it is finalised.
Agreeing ==
  /\ \A h, k \in Handlers : hreq[h] # None /\ hreq[k] # None => hreq[h] = hreq[k]
  /\ session.status \in S!Finalized => \A h \in Handlers : hreq[h] \in {None, session.params}
  /\ session.status \in S!Finalized => acked \subseteq {session.params}
  /\ session.status \notin S!Finalized => acked = {}
  /\ \A h \in Handlers : before[h] \subseteq {hreq[h]}
  /\ \A h \in Handlers : Consolidates(h)
  /\ session.status = "COMPLETED" => Backed(session.params) /\ Processed(session.params)

\* As long as requests came one at a time, one is in progress, none once the
\* session is completed.
OneAtATime ==
  /\ \A h, k \in Handlers : hreq[h] # None /\ hreq[k] # None => h = k
  /\ session.status = "COMPLETED" => \A h \in Handlers : hreq[h] = None

SInv ==
  /\ S!TypeOK
  /\ \A h \in Handlers : hreq[h] = None <=> hpc[h] = "idle"
  /\ \A h \in Handlers : hreq[h] = None => before[h] = {}
  /\ overlap # "mixed" => Agreeing
  /\ overlap = "none" => OneAtATime

\* The types of a handler's state.
LEMMA SessionTypes ==
  ASSUME SInv, NEW h \in Handlers
  PROVE  /\ hpc[h] \in S!Steps /\ hreq[h] \in S!Params \cup {None}
         /\ quoted[h] \subseteq Segments /\ before[h] \subseteq S!Params
         /\ hpc[h] # "idle" => hreq[h] \in S!Params
         /\ session.status = "ACTIVE" \/ (session.status \in S!Finalized /\ session.params \in S!Params)
<1> SUFFICES session.status = "ACTIVE" \/ (session.status \in S!Finalized /\ session.params \in S!Params)
  BY DEF SInv, S!TypeOK
<1>1. CASE session \in [status : {"ACTIVE"}, params : {None}]
  BY <1>1
<1>2. CASE session \in [status : S!Finalized, params : S!Params]
  BY <1>2
<1> QED
  BY <1>1, <1>2 DEF SInv, S!TypeOK

\* It holds at the start.
LEMMA SessionInit == Init => SInv
<1> SUFFICES ASSUME S!Init
             PROVE  SInv
  BY DEF Init
<1>1. S!TypeOK
  <2>1. session \in [status : {"ACTIVE"}, params : {None}]
    BY DEF S!Init
  <2>2. {0} \subseteq 0 .. MaxTries /\ 0 \in 0 .. MaxFaults
    BY IntakeAssumption DEF S!ConstantsAssumption
  <2> QED
    BY <2>1, <2>2 DEF S!Init, S!Worker!Init, S!TypeOK, S!Steps, S!Overlaps
<1>2. session.status = "ACTIVE"
  BY DEF S!Init
<1> QED
  BY <1>1, <1>2 DEF S!Init, SInv, Agreeing, OneAtATime, Consolidates, S!Finalized

\* The worker adds results and, without errors, keeps what is announced.
WorkGoesOn ==
  /\ received' \subseteq Segments /\ published' \subseteq Segments
  /\ status' \in [Segments -> {"NONE", "PROCESSING", "PROCESSED", "FAILED"}]
  /\ tries' \in [Segments -> 0 .. MaxTries] /\ faults' \in 0 .. MaxFaults
  /\ published \subseteq published'
  /\ faults' = 0 =>
       faults = 0 /\ \A s \in Segments : status[s] = "PROCESSED" => status'[s] = "PROCESSED"

\* The worker publishes after it stored a result, and takes nothing back.
LEMMA WorkerAdds ==
  ASSUME S!TypeOK, S!Worker!Next
  PROVE  WorkGoesOn
<1>1. /\ received \subseteq Segments /\ published \subseteq Segments
      /\ status \in [Segments -> {"NONE", "PROCESSING", "PROCESSED", "FAILED"}]
      /\ tries \in [Segments -> 0 .. MaxTries] /\ faults \in 0 .. MaxFaults
      /\ MaxTries \in Nat /\ MaxFaults \in Nat
  BY IntakeAssumption DEF S!ConstantsAssumption, S!TypeOK
<1>2. CASE S!Worker!Fault
  BY <1>1, <1>2 DEF S!Worker!Fault, WorkGoesOn
<1> SUFFICES ASSUME NEW s \in Segments,
                    \/ S!Worker!Receive(s) \/ S!Worker!Begin(s) \/ S!Worker!Try(s)
                    \/ S!Worker!Publish(s) \/ S!Worker!Succeed(s) \/ S!Worker!Fail(s)
                    \/ S!Worker!Revoke(s)
             PROVE  WorkGoesOn
  BY <1>2 DEF S!Worker!Next
<1>3. CASE S!Worker!Receive(s) \/ S!Worker!Publish(s)
  BY <1>1, <1>3 DEF S!Worker!Receive, S!Worker!Publish, WorkGoesOn
<1>4. ASSUME NEW to \in {"PROCESSING", "PROCESSED", "FAILED"},
             faults > 0 \/ status[s] # "PROCESSED",
             status' = [status EXCEPT ![s] = to],
             UNCHANGED <<received, published, tries, faults>>
      PROVE  WorkGoesOn
  BY <1>1, <1>4 DEF WorkGoesOn
<1>5. CASE S!Worker!Begin(s) \/ S!Worker!Succeed(s) \/ S!Worker!Fail(s) \/ S!Worker!Revoke(s)
  BY <1>4, <1>5 DEF S!Worker!Begin, S!Worker!Succeed, S!Worker!Fail, S!Worker!Revoke
<1>6. CASE S!Worker!Try(s)
  <2>1. tries[s] + 1 \in 0 .. MaxTries
    BY <1>1, <1>6 DEF S!Worker!Try
  <2> QED
    BY <1>1, <1>6, <2>1 DEF S!Worker!Try, WorkGoesOn
<1> QED
  BY <1>3, <1>5, <1>6

\* A step of the worker leaves what handlers rely on.
LEMMA WorkerKeeps ==
  ASSUME SInv, S!WorkerStep
  PROVE  SInv'
<1>1. S!TypeOK /\ S!Worker!Next
      /\ UNCHANGED <<session, completion, hpc, hreq, quoted, before, acked, overlap>>
  BY DEF SInv, S!WorkerStep, S!files, S!handVars, S!history
<1>2. S!TypeOK'
  BY <1>1, WorkerAdds DEF WorkGoesOn, S!TypeOK
<1>3. \A q : Processed(q) => Processed(q)'
  <2>1. WorkGoesOn /\ published \subseteq Segments
    BY <1>1, WorkerAdds DEF S!TypeOK
  <2> SUFFICES ASSUME NEW q, Processed(q), NEW s \in 0 .. q.expected - 1
               PROVE  s \in published' /\ (faults' = 0 => status'[s] = "PROCESSED")
    BY DEF Processed
  <2>2. s \in published /\ (faults = 0 => status[s] = "PROCESSED")
    BY DEF Processed
  <2> QED
    BY <2>1, <2>2 DEF WorkGoesOn
<1>4. \A h \in Handlers : Consolidates(h) => Consolidates(h)'
  <2> SUFFICES ASSUME NEW h \in Handlers, Consolidates(h)
               PROVE  Consolidates(h)'
    OBVIOUS
  <2>2. Processed(hreq[h]) => Processed(hreq[h])'
    BY <1>1, <1>3
  <2>3. hpc'[h] = hpc[h] /\ hreq'[h] = hreq[h] /\ quoted'[h] = quoted[h]
    BY <1>1
  <2>4. Backed(hreq[h]) <=> Backed(hreq[h])'
    BY <1>1 DEF Backed
  <2>5. hpc'[h] \in {"readResults", "writeCompletion", "finalize"} => Processed(hreq[h])'
    BY <2>2, <2>3 DEF Consolidates
  <2> QED
    BY <2>3, <2>4, <2>5 DEF Consolidates
<1>5. Agreeing => Agreeing'
  <2>1. session.status = "COMPLETED" /\ Processed(session.params) => Processed(session.params)'
    BY <1>1, <1>3
  <2>2. Backed(session.params) => Backed(session.params)'
    BY <1>1 DEF Backed
  <2> QED
    BY <1>1, <1>4, <2>1, <2>2 DEF Agreeing
<1> QED
  BY <1>1, <1>2, <1>5 DEF SInv, OneAtATime

WorkIsLeft == UNCHANGED <<received, status, published, tries, faults>>

\* The state of every other handler, and what it relies on, stays.
LEMMA OthersKeep ==
  ASSUME SInv, NEW h \in Handlers, WorkIsLeft, NEW k \in Handlers,
         hpc'[k] = hpc[k], hreq'[k] = hreq[k], quoted'[k] = quoted[k],
         Consolidates(k),
         hpc[k] = "finalize" => (Backed(hreq[k]) => Backed(hreq[k])')
  PROVE  Consolidates(k)'
BY DEF Consolidates, Processed, Backed, WorkIsLeft

\* A handler ends its request, and may have finalised the session before.
LEMMA EndKeeps ==
  ASSUME SInv, NEW h \in Handlers, hpc[h] # "idle", S!Idle(h), WorkIsLeft,
         UNCHANGED <<completion, overlap>>,
         \/ UNCHANGED <<session, acked>>
         \/ \E outcome \in {"WAITING_FOR_SEGMENTS", "COMPLETED"} :
              /\ session' = [status |-> outcome, params |-> hreq[h]]
              /\ acked' = acked \cup {hreq[h]}
              /\ outcome = "COMPLETED" => hpc[h] = "finalize"
  PROVE  SInv'
<1>1. hreq[h] \in S!Params /\ S!TypeOK
  BY SessionTypes DEF SInv
<1>2. /\ hpc' = [hpc EXCEPT ![h] = "idle"] /\ hreq' = [hreq EXCEPT ![h] = None]
      /\ quoted' = [quoted EXCEPT ![h] = {}] /\ before' = [before EXCEPT ![h] = {}]
  BY DEF S!Idle
<1>3. S!TypeOK'
  <2>1. acked' \subseteq S!Params /\ session' \in [status : {"ACTIVE"}, params : {None}]
                   \cup [status : S!Finalized, params : S!Params]
    BY <1>1 DEF S!TypeOK, S!Finalized
  <2> QED
    BY <1>1, <1>2, <2>1 DEF S!TypeOK, S!Steps, WorkIsLeft
<1>4. /\ \A k \in Handlers \ {h} : /\ hpc'[k] = hpc[k] /\ hreq'[k] = hreq[k]
                                   /\ quoted'[k] = quoted[k] /\ before'[k] = before[k]
      /\ hpc'[h] = "idle" /\ hreq'[h] = None /\ before'[h] = {}
  BY <1>1, <1>2 DEF S!TypeOK
<1>5. ASSUME overlap # "mixed"
      PROVE  Agreeing'
  <2>1. Agreeing
    BY <1>5 DEF SInv
  <2>2. \A k \in Handlers : Consolidates(k)'
    <3> SUFFICES ASSUME NEW k \in Handlers \ {h}
                 PROVE  Consolidates(k)'
      BY <1>4 DEF Consolidates
    <3> QED
      BY <1>4, <2>1, OthersKeep DEF Agreeing, Backed
  <2>3. \A q : (Backed(q) => Backed(q)') /\ (Processed(q) => Processed(q)')
    BY DEF Backed, Processed, WorkIsLeft
  <2>4. CASE UNCHANGED <<session, acked>>
    BY <1>4, <2>1, <2>2, <2>3, <2>4 DEF Agreeing
  <2>5. ASSUME NEW outcome \in {"WAITING_FOR_SEGMENTS", "COMPLETED"},
               session' = [status |-> outcome, params |-> hreq[h]],
               acked' = acked \cup {hreq[h]},
               outcome = "COMPLETED" => hpc[h] = "finalize"
        PROVE  Agreeing'
    <3>1. session'.status = outcome /\ session'.params = hreq[h] /\ session'.status \in S!Finalized
      BY <2>5 DEF S!Finalized
    <3>2. acked' \subseteq {session'.params}
      <4>1. session.status \in S!Finalized => session.params = hreq[h]
        BY <1>1, <2>1 DEF Agreeing, SInv
      <4>2. acked \subseteq {hreq[h]}
        BY <2>1, <4>1 DEF Agreeing
      <4> QED
        BY <2>5, <3>1, <4>2
    <3>3. \A k \in Handlers : hreq'[k] \in {None, session'.params}
      <4>1. \A k \in Handlers : hreq[k] \in {None, hreq[h]}
        BY <2>1 DEF Agreeing, SInv
      <4> QED
        BY <1>4, <3>1, <4>1
    <3>4. outcome = "COMPLETED" => \A q : q = hreq[h] => Backed(q)' /\ Processed(q)'
      BY <2>1, <2>3, <2>5 DEF Agreeing, Consolidates
    <3> QED
      BY <1>4, <2>1, <2>2, <3>1, <3>2, <3>3, <3>4 DEF Agreeing
  <2> QED
    BY <2>4, <2>5
<1>6. ASSUME overlap = "none"
      PROVE  OneAtATime'
  BY <1>1, <1>4, <1>6 DEF SInv, OneAtATime
<1> QED
  BY <1>3, <1>4, <1>5, <1>6 DEF SInv

\* A handler goes on to its next step.
Goes(h, step) ==
  /\ hpc[h] # "idle" /\ step \in S!Steps \ {"idle"} /\ hpc' = [hpc EXCEPT ![h] = step]
  /\ WorkIsLeft /\ UNCHANGED <<session, hreq, before, acked, overlap>>

\* It does so rightly when it has what the next step relies on, and does not take
\* from the others what they rely on.
LEMMA StepKeeps ==
  ASSUME SInv, NEW h \in Handlers, NEW step, Goes(h, step),
         completion' \in S!Completions \cup {None},
         NEW results \in SUBSET Segments, quoted' = [quoted EXCEPT ![h] = results],
         overlap # "mixed" /\ Agreeing =>
           /\ Consolidates(h)'
           /\ \A p : p = hreq[h] \/ (session.status = "COMPLETED" /\ p = session.params) =>
                (Backed(p) => Backed(p)')
  PROVE  SInv'
<1>1. /\ hreq[h] \in S!Params /\ S!TypeOK /\ hreq[h] # None /\ step # "idle"
      /\ hpc' = [hpc EXCEPT ![h] = step]
  BY SessionTypes DEF SInv, Goes
<1>2. S!TypeOK'
  <2>1. quoted' \in [Handlers -> SUBSET Segments] /\ hpc' \in [Handlers -> S!Steps]
    BY <1>1 DEF S!TypeOK, Goes
  <2> QED
    BY <1>1, <2>1 DEF S!TypeOK, Goes, WorkIsLeft
<1>3. /\ hpc'[h] = step /\ UNCHANGED <<session, hreq, before, acked, overlap>> /\ WorkIsLeft
      /\ \A k \in Handlers \ {h} : hpc'[k] = hpc[k] /\ quoted'[k] = quoted[k]
  BY <1>1 DEF S!TypeOK, Goes
<1>4. ASSUME overlap # "mixed"
      PROVE  Agreeing'
  <2>1. Agreeing
    BY <1>4 DEF SInv
  <2>2. \A k \in Handlers : Consolidates(k)'
    <3> SUFFICES ASSUME NEW k \in Handlers \ {h}
                 PROVE  Consolidates(k)'
      BY <1>4, <2>1
    <3>1. Consolidates(k) /\ (hpc[k] = "finalize" => hreq[k] # None)
      BY <2>1 DEF Agreeing, SInv
    <3>2. hpc[k] = "finalize" => hreq[k] = hreq[h]
      BY <1>1, <2>1, <3>1 DEF Agreeing
    <3>3. \A p : p = hreq[h] => (Backed(p) => Backed(p)')
      BY <1>4, <2>1
    <3>4. hpc[k] = "finalize" => (Backed(hreq[k]) => Backed(hreq[k])')
      BY <1>3, <3>2, <3>3
    <3> QED
      BY <1>3, <3>1, <3>4, OthersKeep
  <2>3. session.status = "COMPLETED" => (Backed(session.params) => Backed(session.params)')
    <3>1. session.status = "COMPLETED" =>
            \A p : p = session.params => (Backed(p) => Backed(p)')
      BY <1>4, <2>1
    <3> QED
      BY <1>3, <3>1
  <2>4. Processed(session.params) => Processed(session.params)'
    BY <1>3 DEF Processed, WorkIsLeft
  <2> QED
    BY <1>3, <2>1, <2>2, <2>3, <2>4 DEF Agreeing
<1> QED
  BY <1>1, <1>2, <1>3, <1>4 DEF SInv, OneAtATime

\* A request in is one with the parameters of the session, if that has any.
LEMMA LoadKeeps ==
  ASSUME SInv, NEW h \in Handlers, NEW p \in S!Params, S!LoadSession(h, p)
  PROVE  SInv'
<1>1. S!TypeOK /\ p # None
  BY IntakeAssumption DEF SInv, S!ConstantsAssumption
<1>2. /\ hpc[h] = "idle" /\ hreq[h] = None /\ S!Agrees(p) /\ ~S!AnsweredFromFile
      /\ hpc' = [hpc EXCEPT ![h] = "check"] /\ hreq' = [hreq EXCEPT ![h] = p]
      /\ before' = [before EXCEPT ![h] = acked] /\ overlap' = S!OverlapWith(p)
      /\ WorkIsLeft /\ UNCHANGED <<session, completion, quoted, acked>>
  BY DEF S!LoadSession, S!workVars, S!files, WorkIsLeft, SInv
<1>3. /\ hpc'[h] = "check" /\ hreq'[h] = p /\ before'[h] = acked
      /\ \A k \in Handlers \ {h} : hpc'[k] = hpc[k] /\ hreq'[k] = hreq[k] /\ before'[k] = before[k]
  BY <1>1, <1>2 DEF S!TypeOK
<1>4. S!TypeOK'
  <2>1. overlap' \in S!Overlaps
    BY <1>1, <1>2 DEF S!OverlapWith, S!TypeOK, S!Overlaps
  <2>2. /\ hpc' \in [Handlers -> S!Steps] /\ hreq' \in [Handlers -> S!Params \cup {None}]
        /\ before' \in [Handlers -> SUBSET S!Params]
    BY <1>1, <1>2 DEF S!TypeOK, S!Steps
  <2> QED
    BY <1>1, <1>2, <2>1, <2>2 DEF S!TypeOK, WorkIsLeft
<1>5. ASSUME overlap' # "mixed"
      PROVE  Agreeing'
  <2>1. overlap # "mixed" /\ \A k \in Handlers : hreq[k] \in {None, p}
    BY <1>2, <1>5 DEF S!OverlapWith
  <2>2. Agreeing
    BY <2>1 DEF SInv
  <2>3. \A k \in Handlers : hreq'[k] \in {None, p}
    BY <1>3, <2>1
  <2>4. session.status \in S!Finalized => session.params = p
    BY <1>2 DEF S!Agrees
  <2>5. \A k \in Handlers : before'[k] \subseteq {hreq'[k]}
    BY <1>3, <2>2, <2>4 DEF Agreeing
  <2>6. \A k \in Handlers : Consolidates(k)'
    <3>1. Consolidates(h)'
      BY <1>3 DEF Consolidates
    <3>2. \A k \in Handlers \ {h} : Consolidates(k)'
      BY <1>2, <1>3, <2>2, OthersKeep DEF Agreeing, Backed
    <3> QED
      BY <3>1, <3>2
  <2>7. \A q : (Backed(q) => Backed(q)') /\ (Processed(q) => Processed(q)')
    BY <1>2 DEF Backed, Processed, WorkIsLeft
  <2> QED
    BY <1>1, <1>2, <2>2, <2>3, <2>4, <2>5, <2>6, <2>7 DEF Agreeing
<1>6. ASSUME overlap' = "none"
      PROVE  OneAtATime'
  <2>1. overlap = "none" /\ \A k \in Handlers : hreq[k] = None
    BY <1>2, <1>6 DEF S!OverlapWith
  <2>2. session.status # "COMPLETED"
    BY <1>2, <2>1 DEF SInv, Agreeing, Backed, S!AnsweredFromFile
  <2> QED
    BY <1>2, <1>3, <2>1, <2>2 DEF OneAtATime
<1> QED
  BY <1>1, <1>3, <1>4, <1>5, <1>6 DEF SInv

\* The steps of a handler.
LEMMA HandleKeeps ==
  ASSUME SInv, NEW h \in Handlers, S!Handle(h)
  PROVE  SInv'
<1>1. S!TypeOK
  BY DEF SInv
<1>2. CASE S!CheckProcessed(h)
  <2> DEFINE step == IF S!Missing(hreq[h]) = {} THEN "readResults" ELSE "wait"
  <2>1. Goes(h, step) /\ completion' = completion /\ quoted' = quoted
    BY <1>2 DEF S!CheckProcessed, S!Goto, Goes, S!Steps, S!workVars, S!files, S!history, WorkIsLeft
  <2>2. quoted' = [quoted EXCEPT ![h] = quoted[h]] /\ quoted[h] \in SUBSET Segments
    BY <1>1, <2>1 DEF S!TypeOK
  <2>3. step \in {"readResults", "wait"} /\ hpc'[h] = step /\ hreq'[h] = hreq[h]
    BY <1>1, <2>1 DEF Goes, S!TypeOK
  <2>4. step = "readResults" => Processed(hreq[h])
    BY DEF S!Missing, S!ProcessedIndexes, Processed
  <2>5. step = "readResults" => Processed(hreq[h])'
    BY <2>1, <2>4 DEF Goes, WorkIsLeft, Processed
  <2> HIDE DEF step
  <2>6. Consolidates(h)'
    BY <2>3, <2>5 DEF Consolidates
  <2> QED
    BY <1>1, <2>1, <2>2, <2>6, StepKeeps DEF Backed, S!TypeOK
<1>3. CASE S!ReadResults(h)
  <2>1. /\ Goes(h, "writeCompletion") /\ completion' = completion
        /\ quoted' = [quoted EXCEPT ![h] = published] /\ hpc[h] = "readResults"
    BY <1>3 DEF S!ReadResults, S!Goto, Goes, S!Steps, S!workVars, S!files, S!history, WorkIsLeft
  <2>2. hpc'[h] = "writeCompletion" /\ hreq' = hreq /\ quoted'[h] = published
    BY <1>1, <2>1 DEF Goes, S!TypeOK
  <2>3. overlap # "mixed" /\ Agreeing => Consolidates(h)'
    BY <2>1, <2>2 DEF Agreeing, Consolidates, Processed, Goes, WorkIsLeft
  <2> QED
    BY <1>1, <2>1, <2>3, StepKeeps DEF Backed, S!TypeOK
<1>4. CASE S!WriteCompletion(h)
  <2>1. /\ Goes(h, "finalize") /\ quoted' = quoted /\ hpc[h] = "writeCompletion"
        /\ completion' = [ended |-> hreq[h].ended, results |-> quoted[h]]
    BY <1>4 DEF S!WriteCompletion, S!Goto, Goes, S!Steps, S!workVars, S!history, WorkIsLeft
  <2>2. quoted' = [quoted EXCEPT ![h] = quoted[h]] /\ quoted[h] \in SUBSET Segments
    BY <1>1, <2>1 DEF S!TypeOK
  <2>3. hpc'[h] = "finalize" /\ hreq' = hreq /\ session' = session /\ hreq[h] \in S!Params
    BY <1>1, <2>1, SessionTypes DEF Goes, S!TypeOK
  <2>4. completion' \in S!Completions /\ None \notin S!Completions
    BY <2>1, <2>2, <2>3, IntakeAssumption DEF S!Completions, S!Params, S!ConstantsAssumption
  <2>5. ASSUME overlap # "mixed", Agreeing
        PROVE  /\ Consolidates(h)'
               /\ \A p : p = hreq[h] \/ (session.status = "COMPLETED" /\ p = session.params) =>
                    (Backed(p) => Backed(p)')
    <3>1. /\ Processed(hreq[h]) /\ hreq[h] # None
          /\ \A s \in 0 .. hreq[h].expected - 1 : s \in quoted[h]
      BY <2>1, <2>5 DEF Agreeing, Consolidates, SInv
    <3>2. \A p : p = hreq[h] => Backed(p)'
      BY <2>1, <2>4, <3>1 DEF Backed
    <3>3. session.status = "COMPLETED" => session.params = hreq[h]
      BY <2>5, <3>1 DEF Agreeing, S!Finalized
    <3>4. Consolidates(h)'
      BY <2>1, <2>3, <3>1, <3>2 DEF Consolidates, Processed, Goes, WorkIsLeft
    <3> QED
      BY <3>2, <3>3, <3>4
  <2> QED
    BY <2>1, <2>2, <2>4, <2>5, StepKeeps
<1>5. CASE S!FinalizeWaiting(h)
  BY <1>5, EndKeeps DEF S!FinalizeWaiting, S!workVars, WorkIsLeft
<1>6. CASE S!FinalizeCompleted(h)
  BY <1>6, EndKeeps DEF S!FinalizeCompleted, S!workVars, WorkIsLeft
<1>7. CASE S!Abort(h)
  BY <1>7, EndKeeps DEF S!Abort, S!workVars, S!files, S!history, WorkIsLeft
<1> QED
  BY <1>2, <1>3, <1>4, <1>5, <1>6, <1>7, LoadKeeps DEF S!Handle

\* Only the completion goes on while it is the one explored.
LEMMA SessionNext == SInv /\ [Next]_<<part, chunks, completing, capture, requesting, table>> => SInv'
<1> SUFFICES ASSUME SInv, [Next]_<<part, chunks, completing, capture, requesting, table>>
             PROVE  SInv'
  OBVIOUS
<1>1. CASE UNCHANGED completing
  BY <1>1 DEF completing, SInv, S!TypeOK, Agreeing, OneAtATime, Consolidates, Backed, Processed
<1>2. CASE S!Next
  BY <1>2, WorkerKeeps, HandleKeeps DEF S!Next
<1> QED
  BY <1>1, <1>2 DEF Next

\* A completed session is backed by its file, which stays, and parameters other than
\* those acknowledged are refused, unless requests that differ have overlapped.
THEOREM CompletionIsSafe == Spec => CompletionSafe
<1>1. SInv => S!CompletionSafe
  <2> SUFFICES ASSUME SInv
               PROVE  S!CompletedIsBacked /\ S!RefusedUnlessMixed
    BY DEF S!CompletionSafe
  <2>1. S!CompletedIsBacked
    BY DEF SInv, Agreeing, Backed, Processed, S!CompletedIsBacked
  <2>2. S!RefusedUnlessMixed
    BY DEF SInv, Agreeing, S!RefusedUnlessMixed, S!LaterParametersRefused
  <2> QED
    BY <2>1, <2>2
<1>2. SInv /\ [Next]_<<part, chunks, completing, capture, requesting, table>> =>
        [overlap = "none" /\ session.status = "COMPLETED" => UNCHANGED S!files]_S!vars
  <2> SUFFICES ASSUME SInv, S!Next, overlap = "none", session.status = "COMPLETED"
               PROVE  UNCHANGED S!files
    BY DEF Next, completing, S!vars, S!workVars, S!files, S!handVars, S!history
  <2>1. \A h \in Handlers : hpc[h] = "idle"
    BY DEF SInv, OneAtATime
  <2>2. S!AnsweredFromFile
    BY DEF SInv, Agreeing, Backed, S!AnsweredFromFile
  <2> QED
    BY <2>1, <2>2 DEF S!Next, S!WorkerStep, S!Handle, S!LoadSession, S!CheckProcessed,
                      S!FinalizeWaiting, S!ReadResults, S!WriteCompletion, S!FinalizeCompleted, S!Abort
<1> QED
  BY <1>1, <1>2, SessionInit, SessionNext, PTL DEF Spec, CompletionSafe, S!CompletedIsFinal

-----------------------------------------------------------------------------
(* Fragments, see CaptureFragments.                                        *)

Entries == [state : {"PENDING", "RETRYABLE", "FINALIZED"}, fragments : SUBSET Fragments]

\* The states of chunks whose media is kept, and of those begun but not finished.
Holding == {"FINALIZED", "PROCESSING", "CANCEL_REQUESTED", "CANCELLED", "FAILED"}
Half    == {"RECORDING", "UPLOAD_CANCELLED"}

Typed ==
  /\ C!TypeOK
  /\ entries \in Seq(Entries)
  /\ recording.final \subseteq fragments

\* One aggregation at a time, of an unfinished entry.
Aggregating ==
  /\ C!MappedOnce
  /\ Len(entries) <= Cardinality(C!Mapped)
  /\ \A a, b \in Aggregators : agg[a].step # "idle" /\ agg[b].step # "idle" => a = b
  /\ \A a \in Aggregators : agg[a].step # "idle" => agg[a].entry \in C!Unfinished

\* Chunks are made of entries, wholly of finished ones.
Made ==
  /\ \A i \in C!Chunks \ DOMAIN entries : C!State(i) = "ABSENT"
  /\ C!FinishedIsFinalized
  /\ \A a \in Aggregators :
       /\ agg[a].step = "map" => C!State(agg[a].entry) \notin Half \cup {"ABSENT"}
       /\ agg[a].step = "finalize" => agg[a].entry \in media

\* Media is on disk for as long as it may be needed.
Held ==
  /\ \A i \in C!Chunks : C!State(i) \in Holding => i \in media
  /\ recording.final = {} => \A i \in C!Chunks : C!State(i) = "PROCESSED" => i \in media
  /\ recording.status = "ACTIVE" => recording.final = {}
  /\ recording.final = fragments /\ fragments # {} => finalFile = recording.final

\* While the final recording is made, everything is finished, it is not on record yet,
\* and the session read before fits the media unless the sources are gone.
Finalizing ==
  fin # C!Off =>
    /\ C!Unfinished = {} /\ fragments # {} /\ recording.final # fragments
    /\ fin.loaded.status # "ACTIVE"
    /\ fin.step = "save" => finalFile = fragments
    /\ fin.step = "replace" => finalFile = {}
    /\ fin.step \in {"replace", "save"} => fragments \subseteq blobs
    /\ fragments \subseteq blobs =>
         \A i \in C!Chunks : fin.loaded.chunks[i] \in Holding => i \in media
    /\ \A i \in DOMAIN entries : fin.loaded.chunks[i] \notin Half
    /\ \A i \in C!Chunks \ DOMAIN entries : fin.loaded.chunks[i] = "ABSENT"

\* Nothing came late: the final recording is of all, or there is none and no source
\* is gone, and the entries follow the sequences.
Timely ==
  late = {} =>
    /\ recording.final \in {{}, fragments}
    /\ recording.final = {} => fragments \subseteq blobs
    /\ \A f \in C!Mapped, g \in C!Lead : f < g

CInv == Typed /\ Aggregating /\ Made /\ Held /\ Finalizing /\ Timely

\* The operators of FiniteSets are those the modules see.
LEMMA FiniteSetsLemma ==
  /\ \A X : C!IsFiniteSet(X) <=> IsFiniteSet(X)
  /\ \A X : C!Cardinality(X) = Cardinality(X)
BY DEF C!IsFiniteSet, IsFiniteSet, C!Cardinality, Cardinality

\* Types of the parts.
LEMMA CaptureTypes ==
  ASSUME Typed
  PROVE  /\ recording \in C!Sessions
         /\ recording.status \in {"ACTIVE", "FINALIZED", "FAILED"}
         /\ recording.chunks \in [C!Chunks -> C!ChunkStates] /\ recording.final \subseteq Fragments
         /\ DOMAIN entries = 1 .. Len(entries) /\ Len(entries) \in Nat
         /\ DOMAIN entries \subseteq C!Chunks
         /\ \A i \in DOMAIN entries : /\ entries[i].state \in {"PENDING", "RETRYABLE", "FINALIZED"}
                                      /\ entries[i].fragments \subseteq fragments
                                      /\ entries[i].fragments # {}
         /\ C!Mapped \subseteq fragments /\ fragments \subseteq Fragments
         /\ IsFiniteSet(Fragments) /\ Fragments \subseteq Nat /\ Cardinality(Fragments) \in Nat
         /\ IsFiniteSet(C!Mapped) /\ Cardinality(C!Mapped) \in Nat
         /\ Cardinality(C!Mapped) <= Cardinality(Fragments)
<1>1. IsFiniteSet(Fragments) /\ Fragments \subseteq Nat /\ Cardinality(Fragments) \in Nat
  BY IntakeAssumption, FiniteSetsLemma, FS_CardinalityType DEF C!ConstantsAssumption
<1>2. recording \in C!Sessions /\ fragments \subseteq Fragments
      /\ entries \in Seq(Entries) /\ Len(entries) <= Cardinality(Fragments)
  BY FiniteSetsLemma DEF Typed, C!TypeOK
<1>3. DOMAIN entries = 1 .. Len(entries) /\ Len(entries) \in Nat
      /\ \A i \in DOMAIN entries : entries[i] \in Entries
  BY <1>2
<1>4. DOMAIN entries \subseteq C!Chunks
  BY <1>1, <1>2, <1>3, FiniteSetsLemma DEF C!Chunks
<1>5. \A i \in DOMAIN entries : entries[i].fragments \subseteq fragments /\ entries[i].fragments # {}
  BY DEF Typed, C!TypeOK
<1>6. C!Mapped \subseteq fragments
  BY <1>5 DEF C!Mapped
<1>7. IsFiniteSet(C!Mapped) /\ Cardinality(C!Mapped) \in Nat
      /\ Cardinality(C!Mapped) <= Cardinality(Fragments)
  <2>1. C!Mapped \in SUBSET Fragments
    BY <1>2, <1>6
  <2> QED
    BY <1>1, <2>1, FS_Subset, FS_CardinalityType
<1> QED
  BY <1>1, <1>2, <1>3, <1>4, <1>5, <1>6, <1>7 DEF C!Sessions, Entries

\* The invariant holds at the start.
LEMMA CaptureInit == Init => CInv
<1> SUFFICES ASSUME C!Init
             PROVE  CInv
  BY DEF Init
<1>0. /\ IsFiniteSet(Fragments) /\ Cardinality(Fragments) \in Nat /\ MaxCrashes \in Nat
      /\ C!Cardinality(Fragments) = Cardinality(Fragments)
  BY IntakeAssumption, FiniteSetsLemma, FS_CardinalityType DEF C!ConstantsAssumption
<1>1. entries = <<>> /\ Len(entries) = 0 /\ entries \in Seq(Entries) /\ DOMAIN entries = {}
      /\ C!Mapped = {} /\ Cardinality(C!Mapped) = 0
  <2>1. entries = <<>>
    BY DEF C!Init
  <2>2. DOMAIN entries = {} /\ Len(entries) = 0 /\ entries \in Seq(Entries)
    BY <2>1
  <2> QED
    BY <2>1, <2>2, FS_EmptySet DEF C!Mapped
<1>2. recording \in C!Sessions
  BY DEF C!Init, C!Sessions, C!ChunkStates
<1>3. C!TypeOK
  <2>1. agg \in [Aggregators ->
                   [step : {"idle", "assemble", "commit", "write", "finalize", "map"},
                    entry : {0} \cup C!Chunks]]
    BY DEF C!Init, C!Idle
  <2>2. \A a \in Aggregators : agg[a].step = "idle"
    BY DEF C!Init, C!Idle
  <2> QED
    BY <1>0, <1>1, <1>2, <2>1, <2>2 DEF C!TypeOK, C!Init
<1> QED
  BY <1>1, <1>3 DEF C!Init, CInv, Typed, Aggregating, Made, Held, Finalizing, Timely, C!MappedOnce,
     C!FinishedIsFinalized, C!State, C!Idle, C!Unfinished, Holding, C!Lead

\* What a part of the invariant speaks of did not change.
LEMMA CaptureFrame ==
  /\ Aggregating /\ UNCHANGED <<entries, agg>> => Aggregating'
  /\ Made /\ UNCHANGED <<entries, agg>> /\ recording'.chunks = recording.chunks
       /\ media \subseteq media' => Made'
  /\ Finalizing /\ fin = C!Off /\ fin' = fin => Finalizing'
  /\ Timely /\ UNCHANGED <<late, fragments, entries>> /\ recording'.final = recording.final
       /\ blobs \subseteq blobs' => Timely'
<1>1. Aggregating /\ UNCHANGED <<entries, agg>> => Aggregating'
  BY DEF Aggregating, C!MappedOnce, C!Mapped, C!Unfinished
<1>2. Made /\ UNCHANGED <<entries, agg>> /\ recording'.chunks = recording.chunks
        /\ media \subseteq media' => Made'
  BY DEF Made, C!State, C!FinishedIsFinalized, C!Unfinished
<1>3. Finalizing /\ fin = C!Off /\ fin' = fin => Finalizing'
  BY DEF Finalizing
<1>4. Timely /\ UNCHANGED <<late, fragments, entries>> /\ recording'.final = recording.final
        /\ blobs \subseteq blobs' => Timely'
  BY DEF Timely, C!Mapped, C!Lead
<1> QED
  BY <1>1, <1>2, <1>3, <1>4

\* A new fragment is above all others, or late.
LEMMA UploadKeeps ==
  ASSUME CInv, NEW f \in Fragments, C!Upload(f)
  PROVE  CInv'
<1>1. /\ fin = C!Off /\ blobs' = blobs \cup {f} /\ fragments' = fragments \cup {f}
      /\ late' = IF f \notin fragments /\ (recording.final # {} \/ \E g \in fragments : g > f)
                 THEN late \cup {f} ELSE late
      /\ UNCHANGED <<entries, recording, media, finalFile, backup, agg, fin, crashes>>
  BY DEF C!Upload, C!LockFree
<1>2. Typed'
  <2>1. C!TypeOK'
    BY <1>1 DEF CInv, Typed, C!TypeOK
  <2> QED
    BY <1>1, <2>1 DEF CInv, Typed
<1>3. Aggregating' /\ Made' /\ Finalizing'
  BY <1>1, CaptureFrame DEF CInv
<1>4. Held'
  <2>1. recording.final = fragments \cup {f} => fragments \cup {f} = fragments
    BY DEF CInv, Typed
  <2>2. recording'.final = fragments' /\ fragments' # {} => finalFile' = recording'.final
    BY <1>1, <2>1 DEF CInv, Held
  <2> QED
    BY <1>1, <2>2 DEF CInv, Held, C!State
<1>5. Timely'
  <2> SUFFICES ASSUME late' = {}
               PROVE  Timely'
    BY DEF Timely
  <2>1. late = {} /\ (f \in fragments \/ (recording.final = {} /\ \A g \in fragments : ~(g > f)))
    BY <1>1
  <2>2. C!Mapped' = C!Mapped /\ C!Mapped \subseteq fragments /\ fragments \subseteq Nat /\ f \in Nat
    BY <1>1, CaptureTypes DEF CInv, C!Mapped
  <2>3. recording'.final \in {{}, fragments'} /\ (recording'.final = {} => fragments' \subseteq blobs')
    BY <1>1, <2>1 DEF CInv, Timely
  <2>4. \A g \in C!Mapped, h \in C!Lead : g < h
    BY <2>1 DEF CInv, Timely
  <2>5. \A h \in C!Lead' : h \in C!Lead \/ (h = f /\ f \notin fragments)
    BY <1>1, <2>2 DEF C!Lead
  <2>6. \A g \in C!Mapped', h \in C!Lead' : g < h
    <3> SUFFICES ASSUME NEW g \in C!Mapped, NEW h \in C!Lead'
                 PROVE  g < h
      BY <2>2
    <3>1. CASE h \in C!Lead
      BY <2>4, <3>1
    <3>2. CASE h = f /\ f \notin fragments
      <4>1. g \in fragments /\ g \in Nat /\ f \in Nat /\ g # f /\ ~(g > f)
        BY <2>1, <2>2, <3>2
      <4> QED
        BY <3>2, <4>1
    <3> QED
      BY <2>5, <3>1, <3>2
  <2> QED
    BY <2>3, <2>6 DEF Timely
<1> QED
  BY <1>2, <1>3, <1>4, <1>5 DEF CInv

\* The leading fragments are unmapped and below the ones that are left.
LEMMA SelectionLemma ==
  ASSUME CInv, NEW a \in Aggregators
  PROVE  /\ C!Selection(a) \subseteq C!Lead
         /\ \A f \in C!Selection(a), g \in C!Lead \ C!Selection(a) : f < g
<1> DEFINE upTo(f) == {g \in C!Lead : g <= f}
           prefix == {f \in C!Lead : Cardinality(upTo(f)) <= ChunkFragments}
<1>1. C!Selection(a) \in {{}, prefix}
  BY FiniteSetsLemma DEF C!Selection
<1>2. IsFiniteSet(C!Lead) /\ C!Lead \subseteq Nat
  <2>1. C!Lead \in SUBSET Fragments
    BY CaptureTypes DEF CInv, C!Lead
  <2> QED
    BY <2>1, CaptureTypes, FS_Subset DEF CInv
<1>3. ASSUME NEW f \in prefix, NEW g \in C!Lead \ prefix, ~(f < g)
      PROVE  FALSE
  <2>0. f \in C!Lead /\ g \in C!Lead /\ f \in Nat /\ g \in Nat /\ g <= f
    <3>1. f \in C!Lead /\ g \in C!Lead
      OBVIOUS
    <3> QED
      BY <1>2, <1>3, <3>1
  <2>1. upTo(g) \in SUBSET upTo(f) /\ upTo(f) \in SUBSET C!Lead
    <3> SUFFICES ASSUME NEW k \in C!Lead, k <= g
                 PROVE  k <= f
      OBVIOUS
    <3> QED
      BY <1>2, <2>0
  <2>2. IsFiniteSet(upTo(f)) /\ Cardinality(upTo(g)) <= Cardinality(upTo(f))
    BY <1>2, <2>1, FS_Subset
  <2>3. Cardinality(upTo(f)) \in Nat /\ Cardinality(upTo(g)) \in Nat
    BY <2>1, <2>2, FS_Subset, FS_CardinalityType
  <2>4. ChunkFragments \in Nat
    BY IntakeAssumption DEF C!ConstantsAssumption
  <2> HIDE DEF upTo
  <2> QED
    BY <1>3, <2>2, <2>3, <2>4
<1> HIDE DEF prefix
<1>4. prefix \subseteq C!Lead
  BY DEF prefix
<1> QED
  BY <1>1, <1>3, <1>4

\* An entry more.
LEMMA AppendEntry ==
  ASSUME Typed, NEW e \in Entries, entries' = Append(entries, e)
  PROVE  /\ entries' \in Seq(Entries) /\ Len(entries') = Len(entries) + 1
         /\ DOMAIN entries' = DOMAIN entries \cup {Len(entries) + 1}
         /\ Len(entries) + 1 \notin DOMAIN entries
         /\ \A i \in DOMAIN entries : entries'[i] = entries[i]
         /\ entries'[Len(entries) + 1] = e
         /\ C!Mapped' = C!Mapped \cup e.fragments
<1>1. /\ entries \in Seq(Entries) /\ Len(entries) \in Nat /\ DOMAIN entries = 1 .. Len(entries)
      /\ entries' \in Seq(Entries) /\ Len(entries') = Len(entries) + 1
      /\ DOMAIN entries' = 1 .. Len(entries) + 1
  BY CaptureTypes DEF Typed
<1>2. \A i \in DOMAIN entries : entries'[i] = entries[i]
  BY <1>1
<1>3. entries'[Len(entries) + 1] = e
  BY <1>1
<1>4. DOMAIN entries' = DOMAIN entries \cup {Len(entries) + 1} /\ Len(entries) + 1 \notin DOMAIN entries
  BY <1>1
<1>5. C!Mapped' = C!Mapped \cup e.fragments
  BY <1>2, <1>3, <1>4 DEF C!Mapped
<1> QED
  BY <1>1, <1>2, <1>3, <1>4, <1>5

\* An aggregator begins with an unfinished entry, or makes one of what is unmapped.
LEMMA ReserveKeeps ==
  ASSUME CInv, NEW a \in Aggregators, C!Reserve(a)
  PROVE  CInv'
<1>1. /\ fin = C!Off /\ \A b \in Aggregators : agg[b].step = "idle"
      /\ UNCHANGED <<fragments, blobs, recording, media, finalFile, backup, fin, crashes, late>>
      /\ Typed
  BY DEF C!Reserve, C!LockFree, C!AggregationFree, CInv
<1>2. Held' /\ Finalizing'
  BY <1>1, CaptureFrame DEF CInv, Held, C!State
<1>3. ASSUME NEW n \in C!Chunks,
             agg' = [agg EXCEPT ![a] = [step |-> "assemble", entry |-> n]]
      PROVE  /\ agg' \in [Aggregators ->
                  [step : {"idle", "assemble", "commit", "write", "finalize", "map"},
                   entry : {0} \cup C!Chunks]]
             /\ agg'[a].step = "assemble" /\ agg'[a].entry = n
             /\ \A b \in Aggregators \ {a} : agg'[b].step = "idle"
  BY <1>1, <1>3 DEF Typed, C!TypeOK
<1>4. CASE C!Unfinished # {}
  <2> DEFINE least == CHOOSE i \in C!Unfinished : \A j \in C!Unfinished : i <= j
  <2>1. agg' = [agg EXCEPT ![a] = [step |-> "assemble", entry |-> least]] /\ entries' = entries
    BY <1>4 DEF C!Reserve
  <2>2. least \in C!Unfinished
    <3>1. C!Unfinished \subseteq Nat
      BY <1>1, CaptureTypes DEF C!Unfinished
    <3>2. \E i \in C!Unfinished : \A j \in C!Unfinished : <<j, i>> \notin OpToRel(<, Nat)
      BY <1>4, <3>1, NatLessThanWellFounded, WFMin
    <3>3. \A i, j \in Nat : <<j, i>> \notin OpToRel(<, Nat) => i <= j
      BY DEF OpToRel
    <3> QED
      BY <3>1, <3>2, <3>3
  <2> HIDE DEF least
  <2>3. least \in C!Chunks /\ least \in DOMAIN entries
    BY <1>1, <2>2, CaptureTypes DEF C!Unfinished
  <2>4. Typed'
    BY <1>1, <1>3, <2>1, <2>3 DEF Typed, C!TypeOK
  <2>5. Aggregating'
    <3>1. C!Mapped' = C!Mapped /\ C!Unfinished' = C!Unfinished /\ (C!MappedOnce => C!MappedOnce')
      BY <2>1 DEF C!Mapped, C!Unfinished, C!MappedOnce
    <3>2. /\ agg'[a].entry = least
          /\ \A b \in Aggregators \ {a} : agg'[b].step = "idle"
      BY <1>3, <2>1, <2>3
    <3> QED
      BY <2>1, <2>2, <3>1, <3>2 DEF CInv, Aggregating
  <2>6. Made'
    BY <1>1, <1>3, <2>1, <2>3 DEF CInv, Made, C!State, C!FinishedIsFinalized, C!Unfinished
  <2>7. Timely'
    BY <1>1, <2>1, CaptureFrame DEF CInv
  <2> QED
    BY <1>2, <2>4, <2>5, <2>6, <2>7 DEF CInv
<1>5. CASE C!Unfinished = {}
  <2> DEFINE new == C!Selection(a)
             e == [state |-> "PENDING", fragments |-> new]
             n == Len(entries) + 1
  <2>1. new # {} /\ agg' = [agg EXCEPT ![a] = [step |-> "assemble", entry |-> n]]
        /\ entries' = Append(entries, e)
    BY <1>5 DEF C!Reserve, C!NextEntry
  <2>2. /\ new \subseteq C!Lead /\ new \subseteq fragments /\ new \cap C!Mapped = {}
        /\ \A f \in new, g \in C!Lead \ new : f < g
    BY SelectionLemma DEF C!Lead
  <2> HIDE DEF new
  <2>3. e \in Entries /\ e.fragments = new /\ e.state = "PENDING"
    BY <1>1, <2>2, CaptureTypes DEF Entries
  <2>4. /\ entries' \in Seq(Entries) /\ Len(entries') = n
        /\ DOMAIN entries' = DOMAIN entries \cup {n} /\ n \notin DOMAIN entries
        /\ \A i \in DOMAIN entries : entries'[i] = entries[i]
        /\ entries'[n] = e /\ C!Mapped' = C!Mapped \cup new
    BY <1>1, <2>1, <2>3, AppendEntry
  <2> HIDE DEF e
  <2>5. n <= Cardinality(C!Mapped') /\ Cardinality(C!Mapped') <= Cardinality(Fragments)
        /\ n \in C!Chunks
    <3>1. C!Mapped' \in SUBSET Fragments /\ C!Mapped \in SUBSET (C!Mapped') /\ C!Mapped # C!Mapped'
      BY <1>1, <2>1, <2>2, <2>4, CaptureTypes
    <3>2. IsFiniteSet(C!Mapped') /\ Cardinality(C!Mapped') <= Cardinality(Fragments)
      BY <1>1, <3>1, CaptureTypes, FS_Subset
    <3>3. Cardinality(C!Mapped) <= Cardinality(C!Mapped') /\ Cardinality(C!Mapped) # Cardinality(C!Mapped')
      BY <3>1, <3>2, FS_Subset
    <3>4. /\ Cardinality(C!Mapped) \in Nat /\ Cardinality(C!Mapped') \in Nat /\ Len(entries) \in Nat
          /\ Cardinality(Fragments) \in Nat /\ Len(entries) <= Cardinality(C!Mapped)
      BY <1>1, <3>2, CaptureTypes, FS_CardinalityType DEF CInv, Aggregating
    <3> QED
      BY <3>2, <3>3, <3>4, FiniteSetsLemma DEF C!Chunks
  <2>6. C!TypeOK'
    <3>1. \A i \in DOMAIN entries' :
             /\ entries'[i].state \in {"PENDING", "RETRYABLE", "FINALIZED"}
             /\ entries'[i].fragments \in (SUBSET fragments') \ {{}}
      BY <1>1, <2>1, <2>2, <2>3, <2>4, CaptureTypes
    <3>2. Len(entries') <= C!Cardinality(Fragments)
      <4>1. Len(entries) \in Nat /\ Cardinality(C!Mapped') \in Nat /\ Cardinality(Fragments) \in Nat
        BY <1>1, <2>2, <2>4, CaptureTypes, FS_Subset, FS_CardinalityType
      <4> QED
        BY <2>4, <2>5, <4>1, FiniteSetsLemma
    <3>3. media' \subseteq DOMAIN entries'
      BY <1>1, <2>4 DEF Typed, C!TypeOK
    <3>4. \A b \in Aggregators : agg'[b].step # "idle" => agg'[b].entry \in DOMAIN entries'
      BY <1>3, <2>1, <2>4, <2>5
    <3> QED
      BY <1>1, <1>3, <2>1, <2>5, <3>1, <3>2, <3>3, <3>4 DEF Typed, C!TypeOK
  <2>7. Typed'
    BY <1>1, <2>4, <2>6 DEF Typed
  <2>8. n \in C!Unfinished'
    BY <2>3, <2>4 DEF C!Unfinished
  <2>9. C!MappedOnce'
    <3> SUFFICES ASSUME NEW i \in DOMAIN entries', NEW j \in DOMAIN entries', i # j
                 PROVE  entries'[i].fragments \cap entries'[j].fragments = {}
      BY DEF C!MappedOnce
    <3>1. \A k \in DOMAIN entries : entries'[k].fragments \subseteq C!Mapped
      BY <2>4 DEF C!Mapped
    <3>2. CASE i \in DOMAIN entries /\ j \in DOMAIN entries
      BY <2>4, <3>2 DEF CInv, Aggregating, C!MappedOnce
    <3>3. CASE i = n \/ j = n
      BY <2>2, <2>3, <2>4, <3>1, <3>3
    <3> QED
      BY <2>4, <3>2, <3>3
  <2>10. Aggregating'
    BY <1>3, <2>1, <2>4, <2>5, <2>8, <2>9 DEF Aggregating
  <2>11. Made'
    <3>1. C!FinishedIsFinalized'
      BY <1>1, <2>4, <2>8 DEF CInv, Made, C!FinishedIsFinalized, C!Unfinished, C!State
    <3>2. \A i \in C!Chunks \ DOMAIN entries' : C!State(i)' = "ABSENT"
      BY <1>1, <2>4 DEF CInv, Made, C!State
    <3> QED
      BY <1>3, <2>1, <2>5, <3>1, <3>2 DEF Made
  <2>12. Timely'
    BY <1>1, <2>2, <2>4 DEF CInv, Timely, C!Lead
  <2> QED
    BY <1>2, <2>7, <2>10, <2>11, <2>12 DEF CInv
<1> QED
  BY <1>4, <1>5

\* The other steps of an aggregator that leave the entries alone.
LEMMA AggregatorStep ==
  ASSUME CInv, NEW a \in Aggregators,
         NEW step \in {"commit", "write", "finalize", "map"}, agg[a].step # "idle",
         agg' = [agg EXCEPT ![a].step = step]
  PROVE  /\ agg' \in [Aggregators ->
               [step : {"idle", "assemble", "commit", "write", "finalize", "map"},
                entry : {0} \cup C!Chunks]]
         /\ agg'[a].step = step /\ agg'[a].entry = agg[a].entry
         /\ agg[a].entry \in C!Unfinished /\ agg[a].entry \in DOMAIN entries
         /\ agg[a].entry \in C!Chunks
         /\ \A b \in Aggregators \ {a} : agg'[b] = agg[b] /\ agg[b].step = "idle"
         /\ fin = C!Off
         /\ UNCHANGED entries => Aggregating'
<1>1. /\ agg \in [Aggregators ->
             [step : {"idle", "assemble", "commit", "write", "finalize", "map"},
              entry : {0} \cup C!Chunks]]
      /\ agg[a].entry \in C!Unfinished
      /\ \A b \in Aggregators \ {a} : agg[b].step = "idle"
  BY DEF CInv, Typed, C!TypeOK, Aggregating
<1>2. agg[a].entry \in DOMAIN entries /\ agg[a].entry \in C!Chunks
  BY <1>1, CaptureTypes DEF CInv, C!Unfinished
<1>3. /\ agg' \in [Aggregators ->
             [step : {"idle", "assemble", "commit", "write", "finalize", "map"},
              entry : {0} \cup C!Chunks]]
      /\ agg'[a].step = step /\ agg'[a].entry = agg[a].entry
      /\ \A b \in Aggregators \ {a} : agg'[b] = agg[b]
  BY <1>1
<1>4. fin = C!Off
  BY <1>1 DEF CInv, Finalizing
<1>5. UNCHANGED entries => C!Mapped' = C!Mapped /\ C!Unfinished' = C!Unfinished
                           /\ (C!MappedOnce => C!MappedOnce')
  BY DEF C!Mapped, C!Unfinished, C!MappedOnce
<1>6. UNCHANGED entries => Aggregating'
  BY <1>1, <1>3, <1>5 DEF CInv, Aggregating
<1> QED
  BY <1>1, <1>2, <1>3, <1>4, <1>6

\* One chunk takes another state.
LEMMA WithChunkLemma ==
  ASSUME Typed, NEW i \in C!Chunks, NEW s \in C!ChunkStates, recording' = C!WithChunk(i, s)
  PROVE  /\ recording' \in C!Sessions
         /\ recording'.status = recording.status /\ recording'.final = recording.final
         /\ recording'.chunks[i] = s
         /\ \A j \in C!Chunks \ {i} : recording'.chunks[j] = recording.chunks[j]
<1>1. recording \in C!Sessions
  BY CaptureTypes
<1>2. recording' = [recording EXCEPT !.chunks[i] = s]
  BY DEF C!WithChunk
<1> QED
  BY <1>1, <1>2 DEF C!Sessions

\* An entry takes another state.
LEMMA EntryState ==
  ASSUME Typed, NEW n \in DOMAIN entries, NEW s \in {"PENDING", "RETRYABLE", "FINALIZED"},
         entries' = [entries EXCEPT ![n].state = s]
  PROVE  /\ entries' \in Seq(Entries) /\ Len(entries') = Len(entries)
         /\ DOMAIN entries' = DOMAIN entries
         /\ \A i \in DOMAIN entries : entries'[i].fragments = entries[i].fragments
         /\ \A i \in DOMAIN entries \ {n} : entries'[i] = entries[i]
         /\ entries'[n].state = s
         /\ C!Mapped' = C!Mapped
         /\ C!MappedOnce => C!MappedOnce'
<1>1. entries \in Seq(Entries) /\ n \in 1 .. Len(entries) /\ DOMAIN entries = 1 .. Len(entries)
  BY CaptureTypes DEF Typed
<1>2. entries[n] \in Entries /\ [entries[n] EXCEPT !.state = s] \in Entries
      /\ [entries[n] EXCEPT !.state = s].fragments = entries[n].fragments
      /\ [entries[n] EXCEPT !.state = s].state = s
  <2>1. entries[n] \in Entries
    BY <1>1
  <2> QED
    BY <2>1 DEF Entries
<1>3. entries' = [entries EXCEPT ![n] = [entries[n] EXCEPT !.state = s]]
  OBVIOUS
<1>4. /\ entries' \in Seq(Entries) /\ Len(entries') = Len(entries)
      /\ DOMAIN entries' = DOMAIN entries
      /\ \A i \in DOMAIN entries \ {n} : entries'[i] = entries[i]
      /\ entries'[n] = [entries[n] EXCEPT !.state = s]
  <2> DEFINE e == [entries[n] EXCEPT !.state = s]
  <2>1. e \in Entries /\ entries' = [entries EXCEPT ![n] = e]
    BY <1>2, <1>3
  <2> HIDE DEF e
  <2>2. /\ entries' \in Seq(Entries) /\ Len(entries') = Len(entries)
        /\ DOMAIN entries' = DOMAIN entries
        /\ \A i \in DOMAIN entries \ {n} : entries'[i] = entries[i]
        /\ entries'[n] = e
    BY <1>1, <2>1
  <2> QED
    BY <2>2 DEF e
<1>5. \A i \in DOMAIN entries : entries'[i].fragments = entries[i].fragments
  BY <1>2, <1>4
<1>6. C!Mapped' = C!Mapped
  BY <1>4, <1>5 DEF C!Mapped
<1>7. C!MappedOnce => C!MappedOnce'
  BY <1>4, <1>5 DEF C!MappedOnce
<1> QED
  BY <1>2, <1>4, <1>5, <1>6, <1>7

\* An entry is left by its aggregator, to be tried again or finished.
LEMMA LeaveKeeps ==
  ASSUME CInv, NEW a \in Aggregators, agg[a].step # "idle",
         NEW s \in {"RETRYABLE", "FINALIZED"},
         s = "FINALIZED" => agg[a].step = "map",
         entries' = [entries EXCEPT ![agg[a].entry].state = s],
         agg' = [agg EXCEPT ![a] = C!Idle],
         UNCHANGED <<fragments, blobs, recording, media, finalFile, backup, fin, crashes, late>>
  PROVE  CInv'
<1> DEFINE n == agg[a].entry
<1>1. /\ Typed /\ n \in DOMAIN entries /\ n \in C!Unfinished
      /\ \A b \in Aggregators \ {a} : agg[b].step = "idle"
  BY DEF CInv, Aggregating, C!Unfinished
<1>2. /\ entries' \in Seq(Entries) /\ Len(entries') = Len(entries)
      /\ DOMAIN entries' = DOMAIN entries
      /\ \A i \in DOMAIN entries : entries'[i].fragments = entries[i].fragments
      /\ \A i \in DOMAIN entries \ {n} : entries'[i] = entries[i]
      /\ entries'[n].state = s
      /\ C!Mapped' = C!Mapped /\ (C!MappedOnce => C!MappedOnce')
  BY <1>1, EntryState
<1>3. /\ agg' \in [Aggregators ->
             [step : {"idle", "assemble", "commit", "write", "finalize", "map"},
              entry : {0} \cup C!Chunks]]
      /\ \A b \in Aggregators : agg'[b].step = "idle"
  BY <1>1 DEF Typed, C!TypeOK, C!Idle
<1> HIDE DEF n
<1>4. Typed'
  <2>1. \A i \in DOMAIN entries' :
             /\ entries'[i].state \in {"PENDING", "RETRYABLE", "FINALIZED"}
             /\ entries'[i].fragments \in (SUBSET fragments') \ {{}}
    BY <1>1, <1>2, CaptureTypes
  <2> QED
    BY <1>1, <1>2, <1>3, <2>1 DEF Typed, C!TypeOK
<1>5. Aggregating'
  BY <1>1, <1>2, <1>3 DEF CInv, Aggregating
<1>6. Made'
  <2>1. s = "FINALIZED" => C!State(n) \notin Half
    BY <1>1 DEF CInv, Made, n
  <2>2. C!FinishedIsFinalized'
    BY <1>1, <1>2, <2>1 DEF CInv, Made, C!FinishedIsFinalized, C!Unfinished, C!State, Half
  <2> QED
    BY <1>2, <1>3, <2>2 DEF CInv, Made, C!State
<1>7. Held' /\ Finalizing' /\ Timely'
  <2>1. fin = C!Off
    BY <1>1 DEF CInv, Finalizing
  <2> QED
    BY <1>2, <2>1, CaptureFrame DEF CInv, Held, C!State, Timely, C!Lead
<1> QED
  BY <1>4, <1>5, <1>6, <1>7 DEF CInv

\* An aggregator at its entry.
LEMMA AggregateKeeps ==
  ASSUME CInv, NEW a \in Aggregators, C!Aggregate(a)
  PROVE  CInv'
<1>0. Typed /\ Held /\ Made
  BY DEF CInv
<1> PICK n : n = agg[a].entry
  OBVIOUS
<1>1. CASE C!Assemble(a)
  <2>1. /\ agg' = [agg EXCEPT ![a].step = "commit"] /\ agg[a].step # "idle"
        /\ UNCHANGED <<fragments, blobs, entries, recording, media, finalFile, backup, fin,
                       crashes, late>>
    BY <1>1 DEF C!Assemble, C!Goto, C!files
  <2>2. Typed'
    BY <1>0, <2>1, AggregatorStep DEF Typed, C!TypeOK
  <2>3. Made'
    BY <2>1, AggregatorStep DEF CInv, Made, C!State, C!FinishedIsFinalized, C!Unfinished
  <2>4. Held' /\ Finalizing' /\ Timely' /\ Aggregating'
    BY <2>1, CaptureFrame, AggregatorStep DEF CInv, Held, C!State
  <2> QED
    BY <2>2, <2>3, <2>4 DEF CInv
<1>2. CASE C!AssembleFails(a)
  BY <1>2, LeaveKeeps DEF C!AssembleFails
<1>3. CASE C!Commit(a)
  <2>0. \E step \in {"write", "map"} :
          /\ agg' = [agg EXCEPT ![a].step = step]
          /\ IF step = "write" THEN recording' = C!WithChunk(n, "RECORDING")
             ELSE UNCHANGED recording /\ ~C!Makeable(n)
    BY <1>3 DEF C!Commit, C!Goto
  <2>1. PICK step \in {"write", "map"} :
          /\ agg' = [agg EXCEPT ![a].step = step]
          /\ IF step = "write" THEN recording' = C!WithChunk(n, "RECORDING")
             ELSE UNCHANGED recording /\ ~C!Makeable(n)
    BY <2>0
  <2>2. agg[a].step # "idle"
        /\ UNCHANGED <<fragments, blobs, entries, media, finalFile, backup, fin, crashes, late>>
    BY <1>3 DEF C!Commit
  <2>3. /\ agg' \in [Aggregators ->
               [step : {"idle", "assemble", "commit", "write", "finalize", "map"},
                entry : {0} \cup C!Chunks]]
        /\ agg'[a].step = step /\ agg'[a].entry = n
        /\ n \in C!Unfinished /\ n \in DOMAIN entries /\ n \in C!Chunks
        /\ \A b \in Aggregators \ {a} : agg'[b] = agg[b] /\ agg[b].step = "idle"
        /\ fin = C!Off /\ Aggregating'
    BY <2>1, <2>2, AggregatorStep
  <2>4. /\ recording' \in C!Sessions
        /\ recording'.status = recording.status /\ recording'.final = recording.final
        /\ \A j \in C!Chunks \ {n} : recording'.chunks[j] = recording.chunks[j]
        /\ step = "write" => recording'.chunks[n] = "RECORDING"
        /\ step = "map" => /\ recording'.chunks[n] = recording.chunks[n]
                           /\ recording.chunks[n] \notin {"ABSENT", "UPLOAD_CANCELLED", "RECORDING"}
    <3>1. CASE step = "write"
      <4>1. recording' = C!WithChunk(n, "RECORDING") /\ "RECORDING" \in C!ChunkStates
        BY <2>1, <3>1 DEF C!ChunkStates
      <4> QED
        BY <1>0, <2>3, <3>1, <4>1, WithChunkLemma
    <3>2. CASE step = "map"
      BY <1>0, <2>1, <3>2, CaptureTypes DEF C!Makeable, C!State
    <3> QED
      BY <3>1, <3>2
  <2>5. Typed'
    BY <1>0, <2>2, <2>3, <2>4 DEF Typed, C!TypeOK
  <2>6. Made'
    <3>1. \A i \in C!Chunks \ DOMAIN entries' : recording'.chunks[i] = "ABSENT"
      BY <1>0, <2>2, <2>3, <2>4 DEF Made, C!State
    <3>2. \A i \in DOMAIN entries \ C!Unfinished : recording'.chunks[i] \notin Half
      <4>1. \A i \in DOMAIN entries \ C!Unfinished : recording.chunks[i] \notin Half
        BY <1>0 DEF Made, C!FinishedIsFinalized, C!State, Half
      <4> QED
        BY <1>0, <2>3, <2>4, <4>1, CaptureTypes
    <3>3. C!FinishedIsFinalized'
      BY <2>2, <3>2 DEF C!FinishedIsFinalized, C!Unfinished, C!State, Half
    <3>4. step = "map" => recording'.chunks[n] \notin Half \cup {"ABSENT"}
      BY <2>4 DEF Half
    <3>5. \A b \in Aggregators :
            /\ agg'[b].step = "map" => recording'.chunks[agg'[b].entry] \notin Half \cup {"ABSENT"}
            /\ agg'[b].step # "finalize"
      BY <2>1, <2>3, <3>4
    <3> QED
      BY <3>1, <3>3, <3>5 DEF Made, C!State
  <2>7. Held'
    <3>1. \A i \in C!Chunks : recording'.chunks[i] \in {"RECORDING", recording.chunks[i]}
      BY <2>3, <2>4
    <3> QED
      BY <1>0, <2>2, <2>4, <3>1 DEF Held, Holding, C!State
  <2>8. Finalizing' /\ Timely'
    BY <2>2, <2>3, <2>4, CaptureFrame DEF CInv
  <2> QED
    BY <2>3, <2>5, <2>6, <2>7, <2>8 DEF CInv
<1>4. CASE C!WriteMedia(a)
  <2>1. /\ agg' = [agg EXCEPT ![a].step = "finalize"] /\ agg[a].step # "idle"
        /\ media' = media \cup {n}
        /\ UNCHANGED <<fragments, blobs, entries, recording, finalFile, backup, fin, crashes, late>>
    BY <1>4 DEF C!WriteMedia, C!Goto
  <2>2. Typed'
    BY <1>0, <2>1, AggregatorStep DEF Typed, C!TypeOK
  <2>3. Made'
    BY <2>1, AggregatorStep DEF CInv, Made, C!State, C!FinishedIsFinalized, C!Unfinished
  <2>4. Held' /\ Finalizing' /\ Timely' /\ Aggregating'
    BY <2>1, CaptureFrame, AggregatorStep DEF CInv, Held, C!State
  <2> QED
    BY <2>2, <2>3, <2>4 DEF CInv
<1>5. CASE C!FinalizeChunk(a)
  <2>1. /\ agg' = [agg EXCEPT ![a].step = "map"] /\ agg[a].step = "finalize"
        /\ recording' = C!WithChunk(n, "FINALIZED") /\ n \in media
        /\ UNCHANGED <<fragments, blobs, entries, media, finalFile, backup, fin, crashes, late>>
    BY <1>0, <1>5 DEF C!FinalizeChunk, C!Goto, Made
  <2>2. /\ agg' \in [Aggregators ->
               [step : {"idle", "assemble", "commit", "write", "finalize", "map"},
                entry : {0} \cup C!Chunks]]
        /\ agg'[a].step = "map" /\ agg'[a].entry = n
        /\ n \in DOMAIN entries /\ n \in C!Chunks
        /\ \A b \in Aggregators \ {a} : agg'[b] = agg[b] /\ agg[b].step = "idle"
        /\ fin = C!Off /\ Aggregating'
    BY <2>1, AggregatorStep
  <2>3. /\ recording' \in C!Sessions
        /\ recording'.status = recording.status /\ recording'.final = recording.final
        /\ \A j \in C!Chunks \ {n} : recording'.chunks[j] = recording.chunks[j]
        /\ recording'.chunks[n] = "FINALIZED"
    BY <1>0, <2>1, <2>2, WithChunkLemma DEF C!ChunkStates
  <2>4. Typed'
    BY <1>0, <2>1, <2>2, <2>3 DEF Typed, C!TypeOK
  <2>5. Made'
    <3>1. \A i \in C!Chunks \ DOMAIN entries' : recording'.chunks[i] = "ABSENT"
      BY <1>0, <2>1, <2>2, <2>3 DEF Made, C!State
    <3>2. \A i \in DOMAIN entries \ C!Unfinished : recording'.chunks[i] \notin Half
      <4>1. \A i \in DOMAIN entries \ C!Unfinished : recording.chunks[i] \notin Half
        BY <1>0 DEF Made, C!FinishedIsFinalized, C!State, Half
      <4>2. "FINALIZED" \notin Half
        BY DEF Half
      <4> QED
        BY <1>0, <2>3, <4>1, <4>2, CaptureTypes
    <3>3. C!FinishedIsFinalized'
      BY <2>1, <3>2 DEF C!FinishedIsFinalized, C!Unfinished, C!State, Half
    <3>4. \A b \in Aggregators :
            /\ agg'[b].step = "map" => recording'.chunks[agg'[b].entry] \notin Half \cup {"ABSENT"}
            /\ agg'[b].step # "finalize"
      BY <2>2, <2>3 DEF Half
    <3> QED
      BY <3>1, <3>3, <3>4 DEF Made, C!State
  <2>6. Held'
    <3>1. \A i \in C!Chunks : recording'.chunks[i] = recording.chunks[i] \/ i \in media
      BY <2>1, <2>3
    <3> QED
      BY <1>0, <2>1, <2>3, <3>1 DEF Held, C!State
  <2>7. Finalizing' /\ Timely'
    BY <2>1, <2>2, <2>3, CaptureFrame DEF CInv
  <2> QED
    BY <2>2, <2>4, <2>5, <2>6, <2>7 DEF CInv
<1>6. CASE C!MarkMapped(a)
  BY <1>6, LeaveKeeps DEF C!MarkMapped
<1> QED
  BY <1>1, <1>2, <1>3, <1>4, <1>5, <1>6, ReserveKeeps DEF C!Aggregate

\* finalize_session_media at work.
Fins == [step : {"assemble", "replace", "save"}, loaded : C!Sessions, aside : SUBSET Fragments]

\* Off, or at a step with a session that was read.
LEMMA FinTypes ==
  ASSUME Typed
  PROVE  /\ fin = C!Off \/ fin \in Fins
         /\ fin = C!Off => fin.step = "off"
         /\ C!Off \notin Fins
         /\ \A f \in Fins : f # C!Off
BY DEF Typed, C!TypeOK, Fins, C!Off

\* The session ends; nothing else depends on it.
LEMMA FinalizeSessionKeeps ==
  ASSUME CInv, C!FinalizeSession
  PROVE  CInv'
<1>1. /\ fin = C!Off /\ recording \in C!Sessions
      /\ recording' = [recording EXCEPT !.status = "FINALIZED"]
      /\ UNCHANGED <<fragments, blobs, entries, media, finalFile, backup, agg, fin, crashes, late>>
  BY CaptureTypes DEF CInv, C!FinalizeSession, C!LockFree
<1>2. /\ recording' \in C!Sessions /\ recording'.status = "FINALIZED"
      /\ recording'.chunks = recording.chunks /\ recording'.final = recording.final
  BY <1>1 DEF C!Sessions
<1>3. Typed'
  BY <1>1, <1>2 DEF CInv, Typed, C!TypeOK
<1>4. Aggregating' /\ Made' /\ Finalizing' /\ Timely'
  BY <1>1, <1>2, CaptureFrame DEF CInv
<1>5. Held'
  BY <1>1, <1>2 DEF CInv, Held, C!State
<1> QED
  BY <1>3, <1>4, <1>5 DEF CInv

\* The final recording is begun: it is not on record yet.
LEMMA FinalStartKeeps ==
  ASSUME CInv, C!FinalStart
  PROVE  CInv'
<1>1. /\ fin = C!Off /\ recording.status = "FINALIZED" /\ C!Unfinished = {} /\ fragments # {}
      /\ fragments \subseteq blobs /\ ~C!ExistingIsValid
      /\ fin' = [step |-> "assemble", loaded |-> recording, aside |-> {}]
      /\ UNCHANGED <<fragments, blobs, entries, recording, media, finalFile, backup, agg, crashes,
                     late>>
      /\ Typed /\ Held /\ Made
  BY DEF CInv, C!FinalStart, C!LockFree, C!files
<1>2. fin' \in Fins /\ fin'.step = "assemble" /\ fin'.loaded = recording
  BY <1>1, CaptureTypes DEF Fins
<1>3. Typed'
  BY <1>1, <1>2, FinTypes DEF Typed, C!TypeOK, Fins
<1>4. recording.final # fragments
  <2> SUFFICES ASSUME recording.final = fragments
               PROVE  FALSE
    OBVIOUS
  <2>1. finalFile = fragments
    BY <1>1 DEF Held
  <2>2. IsFiniteSet(fragments) /\ Cardinality(fragments) \in Nat /\ Tolerance \in Nat
    <3>1. fragments \in SUBSET Fragments /\ IsFiniteSet(Fragments)
      BY <1>1, CaptureTypes
    <3> QED
      BY <3>1, FS_Subset, FS_CardinalityType, IntakeAssumption DEF C!ConstantsAssumption
  <2> QED
    BY <1>1, <2>1, <2>2, FiniteSetsLemma DEF C!ExistingIsValid
<1>5. Finalizing'
  <2>1. \A i \in C!Chunks : recording.chunks[i] \in Holding => i \in media
    BY <1>1 DEF Held, C!State
  <2>2. /\ \A i \in DOMAIN entries : recording.chunks[i] \notin Half
        /\ \A i \in C!Chunks \ DOMAIN entries : recording.chunks[i] = "ABSENT"
    BY <1>1 DEF Made, C!FinishedIsFinalized, C!State, Half
  <2>3. C!Unfinished' = {}
    BY <1>1 DEF C!Unfinished
  <2> QED
    BY <1>1, <1>2, <1>4, <2>1, <2>2, <2>3 DEF Finalizing
<1>6. Aggregating' /\ Made' /\ Timely'
  BY <1>1, CaptureFrame DEF CInv
<1>7. Held'
  BY <1>1 DEF Held, C!State
<1> QED
  BY <1>3, <1>5, <1>6, <1>7 DEF CInv

\* The files are moved about; nothing on record depends on them.
LEMMA FinalMoves ==
  ASSUME CInv, fin \in Fins, finalFile' \subseteq Fragments, backup' \subseteq Fragments,
         \/ fin' = C!Off
         \/ /\ fin' \in Fins /\ fin'.loaded = fin.loaded /\ fragments \subseteq blobs
            /\ \/ fin'.step = "replace" /\ finalFile' = {}
               \/ fin'.step = "save" /\ finalFile' = fragments,
         UNCHANGED <<fragments, blobs, entries, recording, media, agg, crashes, late>>
  PROVE  CInv'
<1>1. Typed /\ Held /\ Finalizing /\ fin # C!Off
  BY FinTypes DEF CInv
<1>2. Typed'
  BY <1>1 DEF Typed, C!TypeOK, Fins
<1>3. Finalizing'
  <2> SUFFICES ASSUME fin' # C!Off
               PROVE  Finalizing'
    BY DEF Finalizing
  <2>1. C!Unfinished' = C!Unfinished
    BY DEF C!Unfinished
  <2> QED
    BY <1>1, <2>1 DEF Finalizing
<1>4. Held'
  BY <1>1 DEF Held, Finalizing, C!State
<1>5. Aggregating' /\ Made' /\ Timely'
  BY CaptureFrame DEF CInv
<1> QED
  BY <1>2, <1>3, <1>4, <1>5 DEF CInv

\* The older recording goes aside, the new one takes its place, or they go back.
LEMMA FinalMovesKeep ==
  ASSUME CInv, C!FinalAside \/ C!FinalReplace \/ C!FinalFails
  PROVE  CInv'
<1>1. fin \in Fins /\ Finalizing /\ Typed
  BY FinTypes DEF CInv, C!FinalAside, C!FinalReplace, C!FinalFails
<1>2. finalFile \subseteq Fragments /\ backup \subseteq Fragments /\ fragments \subseteq Fragments
      /\ fin.aside \subseteq Fragments
  BY <1>1 DEF Typed, C!TypeOK, Fins
<1>3. CASE C!FinalAside
  <2>1. /\ fragments \subseteq blobs /\ finalFile' = {} /\ backup' \in {backup, finalFile}
        /\ \/ fin' = [fin EXCEPT !.step = "replace"]
           \/ fin' = [fin EXCEPT !.step = "replace", !.aside = finalFile]
        /\ UNCHANGED <<fragments, blobs, entries, recording, media, agg, crashes, late>>
    BY <1>3 DEF C!FinalAside
  <2>2. fin' \in Fins /\ fin'.loaded = fin.loaded /\ fin'.step = "replace"
    BY <1>1, <1>2, <2>1 DEF Fins
  <2> QED
    BY <1>1, <1>2, <2>1, <2>2, FinalMoves
<1>4. CASE C!FinalReplace
  <2>1. /\ fin.step = "replace" /\ finalFile' = fragments /\ backup' = backup
        /\ fin' = [fin EXCEPT !.step = "save"]
        /\ UNCHANGED <<fragments, blobs, entries, recording, media, agg, crashes, late>>
    BY <1>4 DEF C!FinalReplace
  <2>2. fin' \in Fins /\ fin'.loaded = fin.loaded /\ fin'.step = "save"
    BY <1>1, <2>1 DEF Fins
  <2>3. fragments \subseteq blobs
    BY <1>1, <2>1, FinTypes DEF Finalizing
  <2> QED
    BY <1>1, <1>2, <2>1, <2>2, <2>3, FinalMoves
<1>5. CASE C!FinalFails
  <2>1. /\ fin' = C!Off /\ finalFile' \in {backup, finalFile \cup fin.aside}
        /\ backup' \in {{}, backup}
        /\ UNCHANGED <<fragments, blobs, entries, recording, media, agg, crashes, late>>
    BY <1>5 DEF C!FinalFails
  <2> QED
    BY <1>1, <1>2, <2>1, FinalMoves
<1> QED
  BY <1>3, <1>4, <1>5

\* The session read before assembling is written back; what is cleaned then is not needed.
LEMMA FinalSaveKeeps ==
  ASSUME CInv, C!FinalSave
  PROVE  CInv'
<1>1. /\ fin.step = "save" /\ recording' = [fin.loaded EXCEPT !.final = fragments] /\ fin' = C!Off
      /\ C!Clean(recording')
      /\ UNCHANGED <<fragments, entries, finalFile, backup, agg, crashes, late>>
      /\ Typed /\ Finalizing
  BY DEF CInv, C!FinalSave
<1>2. fin \in Fins /\ fin # C!Off
  BY <1>1, FinTypes
<1>3. /\ C!Unfinished = {} /\ fragments # {} /\ fin.loaded.status # "ACTIVE"
      /\ finalFile = fragments /\ fragments \subseteq blobs
      /\ \A i \in C!Chunks : fin.loaded.chunks[i] \in Holding => i \in media
      /\ \A i \in DOMAIN entries : fin.loaded.chunks[i] \notin Half
      /\ \A i \in C!Chunks \ DOMAIN entries : fin.loaded.chunks[i] = "ABSENT"
  BY <1>1, <1>2 DEF Finalizing
<1>4. /\ recording' \in C!Sessions /\ recording'.status = fin.loaded.status
      /\ recording'.chunks = fin.loaded.chunks /\ recording'.final = fragments
  <2>1. fin.loaded \in C!Sessions /\ fragments \subseteq Fragments
    BY <1>1, <1>2, CaptureTypes DEF Fins
  <2> QED
    BY <1>1, <2>1 DEF C!Sessions
<1>5. /\ media' \subseteq media /\ blobs' \subseteq blobs
      /\ media' = media \/ \A i \in C!Chunks : recording'.chunks[i] \in {"ABSENT", "PROCESSED"}
  BY <1>1 DEF C!Clean, C!Cleanable
<1>6. Typed'
  BY <1>1, <1>4, <1>5 DEF Typed, C!TypeOK
<1>7. Made'
  <2>1. \A a \in Aggregators : agg[a].step = "idle"
    BY <1>3 DEF CInv, Aggregating
  <2>2. C!FinishedIsFinalized'
    BY <1>1, <1>3, <1>4 DEF C!FinishedIsFinalized, C!Unfinished, C!State, Half
  <2> QED
    BY <1>1, <1>3, <1>4, <2>1, <2>2 DEF Made, C!State
<1>8. Held'
  <2>1. \A i \in C!Chunks : recording'.chunks[i] \in Holding => i \in media'
    BY <1>3, <1>4, <1>5 DEF Holding
  <2> QED
    BY <1>1, <1>3, <1>4, <2>1 DEF Held, C!State
<1>9. Aggregating' /\ Finalizing'
  BY <1>1, CaptureFrame DEF CInv, Finalizing
<1>10. Timely'
  BY <1>1, <1>3, <1>4 DEF CInv, Timely, C!Mapped, C!Lead
<1> QED
  BY <1>6, <1>7, <1>8, <1>9, <1>10 DEF CInv

\* A chunk that was made takes a state that agrees with its entry and its media.
LEMMA ChunkMoves ==
  ASSUME CInv, NEW i \in DOMAIN entries, NEW s \in C!ChunkStates \ {"ABSENT"},
         recording' = C!WithChunk(i, s),
         s \in Holding \cup {"PROCESSED"} => i \in media,
         s \in Half => /\ i \in C!Unfinished
                       /\ \A a \in Aggregators : agg[a].step # "map",
         UNCHANGED <<fragments, blobs, entries, media, finalFile, backup, agg, fin, crashes, late>>
  PROVE  CInv'
<1>1. Typed /\ Made /\ Held /\ Finalizing /\ i \in C!Chunks
  BY CaptureTypes DEF CInv
<1>2. /\ recording' \in C!Sessions
      /\ recording'.status = recording.status /\ recording'.final = recording.final
      /\ recording'.chunks[i] = s
      /\ \A j \in C!Chunks \ {i} : recording'.chunks[j] = recording.chunks[j]
  BY <1>1, WithChunkLemma
<1>3. Typed'
  BY <1>1, <1>2 DEF Typed, C!TypeOK
<1>4. Made'
  <2>1. \A j \in C!Chunks \ DOMAIN entries' : recording'.chunks[j] = "ABSENT"
    BY <1>1, <1>2 DEF Made, C!State
  <2>2. \A j \in DOMAIN entries \ C!Unfinished : recording'.chunks[j] \notin Half
    <3>1. \A j \in DOMAIN entries \ C!Unfinished : recording.chunks[j] \notin Half
      BY <1>1 DEF Made, C!FinishedIsFinalized, C!State, Half
    <3>2. DOMAIN entries \subseteq C!Chunks
      BY <1>1, CaptureTypes
    <3> QED
      BY <1>2, <3>1, <3>2
  <2>3. C!FinishedIsFinalized'
    BY <2>2 DEF C!FinishedIsFinalized, C!Unfinished, C!State, Half
  <2>4. \A a \in Aggregators :
          agg[a].step = "map" => recording'.chunks[agg[a].entry] \notin Half \cup {"ABSENT"}
    <3> SUFFICES ASSUME NEW a \in Aggregators, agg[a].step = "map"
                 PROVE  recording'.chunks[agg[a].entry] \notin Half \cup {"ABSENT"}
      OBVIOUS
    <3>1. recording.chunks[agg[a].entry] \notin Half \cup {"ABSENT"} /\ agg[a].entry \in C!Chunks
      BY <1>1, CaptureTypes DEF Made, C!State, CInv, Aggregating, C!Unfinished
    <3> QED
      BY <1>2, <3>1
  <2> QED
    BY <1>1, <2>1, <2>3, <2>4 DEF Made, C!State
<1>5. Held'
  <2>1. \A j \in C!Chunks : j = i \/ recording'.chunks[j] = recording.chunks[j]
    BY <1>2
  <2>2. \A j \in C!Chunks : recording'.chunks[j] \in Holding => j \in media
    BY <1>1, <1>2, <2>1 DEF Held, C!State
  <2>3. recording.final = {} => \A j \in C!Chunks : recording'.chunks[j] = "PROCESSED" => j \in media
    BY <1>1, <1>2, <2>1 DEF Held, C!State
  <2> QED
    BY <1>1, <1>2, <2>2, <2>3 DEF Held, C!State
<1>6. Finalizing'
  BY <1>1, <1>2 DEF Finalizing, C!Unfinished
<1>7. Aggregating' /\ Timely'
  BY <1>2, CaptureFrame DEF CInv
<1> QED
  BY <1>3, <1>4, <1>5, <1>6, <1>7 DEF CInv

\* A chunk with a state was made.
LEMMA MadeOnly ==
  ASSUME CInv, NEW i \in C!Chunks, C!State(i) # "ABSENT"
  PROVE  /\ i \in DOMAIN entries
         /\ C!State(i) \in Holding => i \in media
         /\ C!State(i) \in Half => i \in C!Unfinished
BY DEF CInv, Made, Held, C!FinishedIsFinalized, C!State, Half

\* The processor moves a chunk that has media.
LEMMA ProcessKeeps ==
  ASSUME CInv, NEW i \in C!Chunks, C!Process(i)
  PROVE  CInv'
<1>0. \E s \in {"PROCESSING", "FAILED", "CANCELLED"} : recording' = C!WithChunk(i, s)
  BY DEF C!Process
<1>1. PICK s \in {"PROCESSING", "FAILED", "CANCELLED"} : recording' = C!WithChunk(i, s)
  BY <1>0
<1>2. i \in media /\ C!State(i) # "ABSENT"
      /\ UNCHANGED <<fragments, blobs, entries, media, finalFile, backup, agg, fin, crashes, late>>
  BY DEF C!Process
<1>3. s \in C!ChunkStates \ {"ABSENT"} /\ s \notin Half
  BY DEF C!ChunkStates, Half
<1> QED
  BY <1>1, <1>2, <1>3, MadeOnly, ChunkMoves

\* A request about a chunk, under the lock of the session.
LEMMA ControlKeeps ==
  ASSUME CInv, NEW i \in C!Chunks, C!Control(i)
  PROVE  CInv'
<1>1. UNCHANGED <<fragments, blobs, entries, media, finalFile, backup, agg, fin, crashes, late>>
      /\ \A a \in Aggregators : agg[a].step # "map"
  BY DEF C!Control, C!LockFree
<1>2. CASE C!State(i) \in Holding
  <2>0. \E s \in {"CANCELLED", "CANCEL_REQUESTED", "FINALIZED", "PROCESSING"} :
          recording' = C!WithChunk(i, s)
    BY <1>2 DEF C!Control, Holding
  <2>1. PICK s \in {"CANCELLED", "CANCEL_REQUESTED", "FINALIZED", "PROCESSING"} :
          recording' = C!WithChunk(i, s)
    BY <2>0
  <2>2. s \in C!ChunkStates \ {"ABSENT"} /\ s \notin Half /\ C!State(i) # "ABSENT"
    BY <1>2 DEF C!ChunkStates, Half, Holding
  <2> QED
    BY <1>1, <1>2, <2>1, <2>2, MadeOnly, ChunkMoves
<1>3. CASE C!State(i) \in Half
  <2>0. \E s \in {"RECORDING", "UPLOAD_CANCELLED"} : recording' = C!WithChunk(i, s)
    BY <1>3 DEF C!Control, Half
  <2>1. PICK s \in {"RECORDING", "UPLOAD_CANCELLED"} : recording' = C!WithChunk(i, s)
    BY <2>0
  <2>2. s \in C!ChunkStates \ {"ABSENT"} /\ s \notin Holding \cup {"PROCESSED"}
        /\ C!State(i) # "ABSENT"
    BY <1>3 DEF C!ChunkStates, Half, Holding
  <2> QED
    BY <1>1, <1>3, <2>1, <2>2, MadeOnly, ChunkMoves
<1> QED
  BY <1>2, <1>3 DEF C!Control, Holding, Half

\* A cancelled chunk goes, with its media; no aggregation is at it.
LEMMA DeleteKeeps ==
  ASSUME CInv, NEW i \in C!Chunks, C!DeleteCancelled(i)
  PROVE  CInv'
<1>1. /\ fin = C!Off /\ media' = media \ {i} /\ recording' = C!WithChunk(i, "ABSENT")
      /\ \A a \in Aggregators : agg[a].step \in {"idle", "assemble", "commit"}
      /\ UNCHANGED <<fragments, blobs, entries, finalFile, backup, agg, fin, crashes, late>>
      /\ Typed /\ Made /\ Held
  BY DEF CInv, C!DeleteCancelled, C!LockFree
<1>2. /\ recording' \in C!Sessions
      /\ recording'.status = recording.status /\ recording'.final = recording.final
      /\ recording'.chunks[i] = "ABSENT"
      /\ \A j \in C!Chunks \ {i} : recording'.chunks[j] = recording.chunks[j]
  BY <1>1, WithChunkLemma DEF C!ChunkStates
<1>3. Typed'
  BY <1>1, <1>2 DEF Typed, C!TypeOK
<1>4. Made'
  <2>1. \A j \in C!Chunks \ DOMAIN entries' : recording'.chunks[j] = "ABSENT"
    BY <1>1, <1>2 DEF Made, C!State
  <2>2. \A j \in DOMAIN entries \ C!Unfinished : recording'.chunks[j] \notin Half
    <3>1. \A j \in DOMAIN entries \ C!Unfinished : recording.chunks[j] \notin Half
      BY <1>1 DEF Made, C!FinishedIsFinalized, C!State, Half
    <3>2. DOMAIN entries \subseteq C!Chunks /\ "ABSENT" \notin Half
      BY <1>1, CaptureTypes DEF Half
    <3> QED
      BY <1>2, <3>1, <3>2
  <2>3. C!FinishedIsFinalized'
    BY <1>1, <2>2 DEF C!FinishedIsFinalized, C!Unfinished, C!State, Half
  <2> QED
    BY <1>1, <2>1, <2>3 DEF Made, C!State
<1>5. Held'
  <2>1. \A j \in C!Chunks : recording'.chunks[j] # "ABSENT" =>
          j # i /\ recording'.chunks[j] = recording.chunks[j]
    BY <1>2
  <2>2. \A j \in C!Chunks : recording'.chunks[j] \in Holding => j \in media'
    BY <1>1, <2>1 DEF Held, C!State, Holding
  <2>3. recording.final = {} => \A j \in C!Chunks : recording'.chunks[j] = "PROCESSED" => j \in media'
    BY <1>1, <2>1 DEF Held, C!State
  <2> QED
    BY <1>1, <1>2, <2>2, <2>3 DEF Held, C!State
<1>6. Aggregating' /\ Finalizing' /\ Timely'
  BY <1>1, <1>2, CaptureFrame DEF CInv
<1> QED
  BY <1>3, <1>4, <1>5, <1>6 DEF CInv

\* Processing ends; the temporary media goes when this was the last.
LEMMA CompleteKeeps ==
  ASSUME CInv, NEW i \in C!Chunks, C!CompleteProcessing(i)
  PROVE  CInv'
<1>1. /\ i \in media /\ C!State(i) = "PROCESSING" /\ recording' = C!WithChunk(i, "PROCESSED")
      /\ C!Clean(recording')
      /\ UNCHANGED <<fragments, entries, finalFile, backup, agg, fin, crashes, late>>
      /\ Typed /\ Made /\ Held /\ Finalizing
  BY DEF CInv, C!CompleteProcessing
<1>2. i \in DOMAIN entries /\ "PROCESSED" \in C!ChunkStates \ {"ABSENT"} /\ "PROCESSED" \notin Half
  BY <1>1, MadeOnly DEF C!ChunkStates, Half
<1>3. CASE UNCHANGED <<blobs, media>>
  BY <1>1, <1>2, <1>3, ChunkMoves
<1>4. CASE /\ C!Cleanable(recording')
           /\ blobs' = blobs \ fragments
           /\ media' = {j \in media : recording'.chunks[j] = "ABSENT"}
  <2>1. /\ recording' \in C!Sessions
        /\ recording'.status = recording.status /\ recording'.final = recording.final
        /\ recording'.chunks[i] = "PROCESSED"
        /\ \A j \in C!Chunks \ {i} : recording'.chunks[j] = recording.chunks[j]
    BY <1>1, <1>2, WithChunkLemma
  <2>2. /\ recording.final # {} /\ finalFile = recording.final /\ C!Unfinished = {}
        /\ \A j \in C!Chunks : recording'.chunks[j] \in {"ABSENT", "PROCESSED"}
    BY <1>4, <2>1 DEF C!Cleanable
  <2>3. Typed'
    BY <1>1, <1>4, <2>1 DEF Typed, C!TypeOK
  <2>4. Made'
    <3>1. \A j \in C!Chunks \ DOMAIN entries' : recording'.chunks[j] = "ABSENT"
      BY <1>1, <1>2, <2>1 DEF Made, C!State
    <3>2. \A a \in Aggregators : agg[a].step = "idle"
      BY <2>2 DEF CInv, Aggregating
    <3>3. C!FinishedIsFinalized'
      <4>1. DOMAIN entries \subseteq C!Chunks
        BY <1>1, CaptureTypes
      <4> QED
        BY <1>1, <2>2, <4>1 DEF C!FinishedIsFinalized, C!Unfinished, C!State
    <3> QED
      BY <1>1, <3>1, <3>2, <3>3 DEF Made, C!State
  <2>5. Held'
    BY <1>1, <2>1, <2>2 DEF Held, Holding, C!State
  <2>6. Finalizing'
    <3> SUFFICES ASSUME fin # C!Off
                 PROVE  Finalizing'
      BY <1>1 DEF Finalizing
    <3>1. fragments # {} /\ recording.final # fragments
          /\ (fin.step = "save" => finalFile = fragments) /\ (fin.step = "replace" => finalFile = {})
      BY <1>1 DEF Finalizing
    <3>2. ~(fragments \subseteq blobs') /\ fin.step \notin {"replace", "save"}
      BY <1>4, <2>2, <3>1
    <3>3. C!Unfinished' = C!Unfinished
      BY <1>1 DEF C!Unfinished
    <3> QED
      BY <1>1, <2>1, <3>2, <3>3 DEF Finalizing
  <2>7. Aggregating'
    BY <1>1, CaptureFrame DEF CInv
  <2>8. Timely'
    BY <1>1, <2>1, <2>2 DEF CInv, Timely, C!Mapped, C!Lead
  <2> QED
    BY <2>3, <2>4, <2>5, <2>6, <2>7, <2>8 DEF CInv
<1> QED
  BY <1>1, <1>3, <1>4 DEF C!Clean

\* The dashboard starts again: what was under way is cut off.
LEMMA RestartKeeps ==
  ASSUME CInv, C!Restart
  PROVE  CInv'
<1>1. /\ agg' = [a \in Aggregators |-> C!Idle] /\ fin' = C!Off
      /\ crashes < MaxCrashes /\ crashes' = crashes + 1
      /\ recording' = IF recording.status = "ACTIVE" THEN C!Reconciled ELSE recording
      /\ UNCHANGED <<fragments, blobs, entries, media, finalFile, backup, late>>
      /\ Typed /\ Made /\ Held
  BY DEF CInv, C!Restart
<1>2. /\ recording' \in C!Sessions /\ recording'.final = recording.final
      /\ recording'.status = "ACTIVE" => recording.status = "ACTIVE"
      /\ \A i \in C!Chunks :
           \/ recording'.chunks[i] = recording.chunks[i]
           \/ recording.chunks[i] = "RECORDING" /\ recording'.chunks[i] = "UPLOAD_CANCELLED"
  <2>1. recording \in C!Sessions
    BY <1>1, CaptureTypes
  <2>2. CASE recording.status # "ACTIVE"
    BY <1>1, <2>1, <2>2
  <2>3. CASE recording.status = "ACTIVE"
    <3> DEFINE new(i) == CASE C!State(i) = "RECORDING" -> "UPLOAD_CANCELLED"
                           [] C!State(i) \in {"FINALIZED", "PROCESSING", "PROCESSED"} /\ i \notin media -> "FAILED"
                           [] OTHER -> C!State(i)
               f == [i \in C!Chunks |-> new(i)]
    <3>1. recording' = [recording EXCEPT !.status = "FAILED", !.chunks = f]
      BY <1>1, <2>3 DEF C!Reconciled
    <3>2. \A i \in C!Chunks :
            C!State(i) \in {"FINALIZED", "PROCESSING", "PROCESSED"} => i \in media
      BY <1>1, <2>3 DEF Held, Holding
    <3>3. \A i \in C!Chunks :
            /\ C!State(i) = "RECORDING" => new(i) = "UPLOAD_CANCELLED"
            /\ C!State(i) # "RECORDING" => new(i) = C!State(i)
      BY <3>2
    <3>4. \A i \in C!Chunks : new(i) \in C!ChunkStates
      BY <2>1, <3>3 DEF C!Sessions, C!State, C!ChunkStates
    <3>5. f \in [C!Chunks -> C!ChunkStates]
          /\ \A i \in C!Chunks : \/ f[i] = recording.chunks[i]
                                 \/ recording.chunks[i] = "RECORDING" /\ f[i] = "UPLOAD_CANCELLED"
      BY <3>3, <3>4 DEF C!State
    <3> HIDE DEF f
    <3> QED
      BY <2>1, <2>3, <3>1, <3>5 DEF C!Sessions
  <2> QED
    BY <2>2, <2>3
<1>3. agg' \in [Aggregators ->
             [step : {"idle", "assemble", "commit", "write", "finalize", "map"},
              entry : {0} \cup C!Chunks]]
      /\ \A a \in Aggregators : agg'[a].step = "idle"
  BY <1>1 DEF C!Idle
<1>4. Typed'
  <2>1. crashes' \in 0 .. MaxCrashes
    BY <1>1, IntakeAssumption DEF Typed, C!TypeOK, C!ConstantsAssumption
  <2> QED
    BY <1>1, <1>2, <1>3, <2>1 DEF Typed, C!TypeOK
<1>5. Aggregating'
  BY <1>1, <1>3 DEF CInv, Aggregating, C!MappedOnce, C!Mapped, C!Unfinished
<1>6. Made'
  <2>1. \A i \in C!Chunks \ DOMAIN entries' : recording'.chunks[i] = "ABSENT"
    BY <1>1, <1>2 DEF Made, C!State
  <2>2. \A i \in DOMAIN entries \ C!Unfinished : recording'.chunks[i] \notin Half
    <3>1. \A i \in DOMAIN entries \ C!Unfinished : recording.chunks[i] \notin Half
      BY <1>1 DEF Made, C!FinishedIsFinalized, C!State, Half
    <3>2. DOMAIN entries \subseteq C!Chunks
      BY <1>1, CaptureTypes
    <3> QED
      BY <1>2, <3>1, <3>2 DEF Half
  <2>3. C!FinishedIsFinalized'
    BY <1>1, <2>2 DEF C!FinishedIsFinalized, C!Unfinished, C!State, Half
  <2> QED
    BY <1>1, <1>3, <2>1, <2>3 DEF Made, C!State
<1>7. Held'
  <2>1. \A i \in C!Chunks : recording'.chunks[i] \in Holding \cup {"PROCESSED"} =>
          recording'.chunks[i] = recording.chunks[i]
    BY <1>2 DEF Holding
  <2>2. \A i \in C!Chunks : recording'.chunks[i] \in Holding => i \in media
    BY <1>1, <2>1 DEF Held, C!State
  <2>3. recording.final = {} => \A i \in C!Chunks : recording'.chunks[i] = "PROCESSED" => i \in media
    BY <1>1, <2>1 DEF Held, C!State
  <2> QED
    BY <1>1, <1>2, <2>2, <2>3 DEF Held, C!State
<1>8. Finalizing' /\ Timely'
  BY <1>1, <1>2, CaptureFrame DEF CInv, Finalizing
<1> QED
  BY <1>4, <1>5, <1>6, <1>7, <1>8 DEF CInv

\* Each step of the fragments' part, the others' included, keeps the invariant.
LEMMA CaptureNext == CInv /\ [Next]_<<part, chunks, completing, capture, requesting, table>> => CInv'
<1> SUFFICES ASSUME CInv, [Next]_<<part, chunks, completing, capture, requesting, table>>
             PROVE  CInv'
  OBVIOUS
<1>1. CASE UNCHANGED capture
  <2>1. /\ C!TypeOK => C!TypeOK'
        /\ C!MappedOnce => C!MappedOnce'
        /\ C!Mapped' = C!Mapped /\ C!Unfinished' = C!Unfinished /\ C!Lead' = C!Lead
        /\ C!FinishedIsFinalized => C!FinishedIsFinalized'
        /\ \A i : C!State(i)' = C!State(i)
    BY <1>1 DEF capture, C!TypeOK, C!MappedOnce, C!Mapped, C!Unfinished, C!Lead,
                C!FinishedIsFinalized, C!State
  <2>2. Typed' /\ Aggregating'
    BY <1>1, <2>1 DEF CInv, Typed, Aggregating, capture
  <2>3. Made' /\ Held'
    BY <1>1, <2>1 DEF CInv, Made, Held, capture, C!State
  <2>4. Finalizing' /\ Timely'
    BY <1>1, <2>1 DEF CInv, Finalizing, Timely, capture
  <2> QED
    BY <2>2, <2>3, <2>4 DEF CInv
<1>2. CASE C!Next
  <2>1. \/ \E f \in Fragments : C!Upload(f)
        \/ \E a \in Aggregators : C!Aggregate(a)
        \/ C!FinalizeSession
        \/ C!FinalStart \/ C!FinalAside \/ C!FinalReplace \/ C!FinalFails \/ C!FinalSave
        \/ \E i \in C!Chunks :
             C!Process(i) \/ C!CompleteProcessing(i) \/ C!Control(i) \/ C!DeleteCancelled(i)
        \/ C!Restart
    BY <1>2 DEF C!Next
  <2> QED
    BY <2>1, UploadKeeps, AggregateKeeps, FinalizeSessionKeeps, FinalStartKeeps, FinalMovesKeep,
       FinalSaveKeeps, ProcessKeeps, CompleteKeeps, ControlKeeps, DeleteKeeps, RestartKeeps
<1> QED
  BY <1>1, <1>2 DEF Next

\* What the invariant says of the correctness of a recording.
LEMMA CaptureImplies == CInv => C!RecordingSafe
<1> SUFFICES ASSUME CInv
             PROVE  C!RecordingSafe
  OBVIOUS
<1>1. C!MappedOnce /\ C!FinishedIsFinalized
  BY DEF CInv, Aggregating, Made
<1>2. C!PlayableHasMedia
  BY DEF CInv, Held, Holding, C!PlayableHasMedia
<1>3. C!SourcesKeptUnlessLate
  <2> SUFFICES ASSUME late = {}
               PROVE  C!SourcesKept /\ \A f \in C!Mapped, g \in C!Lead : f < g
    BY DEF C!SourcesKeptUnlessLate
  <2>1. /\ recording.final \in {{}, fragments}
        /\ recording.final = {} => fragments \subseteq blobs
        /\ \A f \in C!Mapped, g \in C!Lead : f < g
    BY DEF CInv, Timely
  <2>2. recording.final = fragments /\ fragments # {} => finalFile = recording.final
    BY DEF CInv, Held
  <2> QED
    BY <2>1, <2>2 DEF C!SourcesKept
<1> QED
  BY <1>1, <1>2, <1>3 DEF C!RecordingSafe

\* Entries are added at the end, and only the unfinished one that is worked on changes.
LEMMA EntriesStay ==
  ASSUME CInv, C!Next, NEW i \in DOMAIN entries, entries[i].state = "FINALIZED"
  PROVE  i \in DOMAIN entries' /\ entries'[i] = entries[i]
<1>0. Typed
  BY DEF CInv
<1>1. CASE UNCHANGED entries
  BY <1>1
<1>2. CASE \E a \in Aggregators : C!Reserve(a)
  <2>1. PICK a \in Aggregators : C!Reserve(a)
    BY <1>2
  <2>2. entries' = entries
        \/ entries' = Append(entries, [state |-> "PENDING", fragments |-> C!Selection(a)])
    BY <2>1 DEF C!Reserve
  <2>3. entries \in Seq(Entries) /\ i \in 1 .. Len(entries)
    BY <1>0, CaptureTypes DEF Typed
  <2>4. \A e : i \in DOMAIN Append(entries, e) /\ Append(entries, e)[i] = entries[i]
    BY <2>3
  <2> QED
    BY <2>2, <2>4
<1>3. CASE \E a \in Aggregators : C!AssembleFails(a) \/ C!MarkMapped(a)
  <2>1. PICK a \in Aggregators : C!AssembleFails(a) \/ C!MarkMapped(a)
    BY <1>3
  <2>2. agg[a].entry \in C!Unfinished
    BY <2>1 DEF CInv, Aggregating, C!AssembleFails, C!MarkMapped
  <2>3. i # agg[a].entry
    BY <2>2 DEF C!Unfinished
  <2>4. \E s \in {"RETRYABLE", "FINALIZED"} : entries' = [entries EXCEPT ![agg[a].entry].state = s]
    BY <2>1 DEF C!AssembleFails, C!MarkMapped
  <2> QED
    BY <2>3, <2>4
<1> QED
  <2>1. C!Next => \/ UNCHANGED entries
                  \/ \E a \in Aggregators : C!Reserve(a)
                  \/ \E a \in Aggregators : C!AssembleFails(a) \/ C!MarkMapped(a)
    BY DEF C!Next, C!Aggregate, C!Upload, C!Assemble, C!Commit, C!WriteMedia, C!FinalizeChunk,
           C!FinalizeSession, C!FinalStart, C!FinalAside, C!FinalReplace, C!FinalFails, C!FinalSave,
           C!Process, C!CompleteProcessing, C!Control, C!DeleteCancelled, C!Restart, C!files
  <2> QED
    BY <1>1, <1>2, <1>3, <2>1

\* Each fragment goes into one chunk, finished chunks stay, are whole and playable,
\* and no media is lost unless it came late.
THEOREM RecordingIsSafe == Spec => RecordingSafe
<1>1. CInv => (part = "capture" => C!RecordingSafe)
  BY CaptureImplies
<1>2. CInv /\ [Next]_<<part, chunks, completing, capture, requesting, table>> =>
        [\A i \in DOMAIN entries : entries[i].state = "FINALIZED" =>
           i \in DOMAIN entries' /\ entries'[i] = entries[i]]_C!vars
  <2> SUFFICES ASSUME CInv, [Next]_<<part, chunks, completing, capture, requesting, table>>,
                      C!vars' # C!vars
               PROVE  \A i \in DOMAIN entries : entries[i].state = "FINALIZED" =>
                        i \in DOMAIN entries' /\ entries'[i] = entries[i]
    OBVIOUS
  <2>1. C!Next
    BY DEF Next, capture, C!vars, C!files
  <2> QED
    BY <2>1, EntriesStay
<1> QED
  BY <1>1, <1>2, CaptureInit, CaptureNext, PTL DEF Spec, RecordingSafe, C!FinishedStays

-----------------------------------------------------------------------------
(* Requests, see CaptureChunks.                                            *)

\* What a thread is at: waiting for the lock, at a body, or about to save a copy.
Waits   == [pc : {"wait"}, index : R!Index, body : R!Bodies, audio : {"MISSING", None}]
Streams == [pc : {"stream", "media"}, index : R!Index, body : R!Bodies,
            audio : {"MISSING", None}, staged : BOOLEAN, read : R!Sessions]
Plain   == [pc : {"save"}, read : R!Sessions, write : R!Sessions]
Texts   == [pc : {"sidecar", "save"}, read : R!Sessions, write : R!Sessions,
            text : {"one", "two"}]
Unlinks == [pc : {"unlink", "save"}, read : R!Sessions, write : R!Sessions, file : R!Index]
Stores  == [pc : {"save"}, read : R!Sessions, write : R!Sessions, index : R!Index]
Saving  == Plain \cup Texts \cup Unlinks \cup Stores

\* A chunk that was not uploaded has no media.
Fits(s) == \A i \in R!Present(s) :
             s.chunks[i].state \in {"RECORDING", "UPLOAD_CANCELLED"} => s.chunks[i].media = None

\* One operation takes chunk b to c.
Becomes(b, c) ==
  /\ c.state \in {b.state} \cup R!ChunkTransitions(b.state)
  /\ b.available /\ ~b.required => c.available /\ ~c.required

\* The chunk whose body comes was being recorded.
Uploading(w) == R!InState(w.read, w.index, {"RECORDING"})

\* What the copy about to be saved owes to the manifest that was read.
Copied(w) ==
  /\ Fits(w.write)
  /\ \/ w.write.status = w.read.status
     \/ w.read.status = "ACTIVE" /\ w.write.status = "FINALIZED"
  /\ \A i \in R!Present(w.read) \cap R!Present(w.write) :
       /\ Becomes(w.read.chunks[i], w.write.chunks[i])
       /\ \/ w.write.chunks[i].media = w.read.chunks[i].media
          \/ w \in Stores /\ w.index = i
  /\ \A i \in R!Present(w.write) \ R!Present(w.read) : w.write.chunks[i].media = None
  /\ w \in Texts =>
       \A i \in R!Present(w.write) : w.write.chunks[i].available /\ ~w.write.chunks[i].required
  /\ w \in Unlinks => w.file \notin R!Present(w.write)

\* The processor leaves chunks alone that are being recorded or were cancelled.
Untouched(w) ==
  \A i \in R!Present(w.read) : w.read.chunks[i].state \in {"RECORDING", "CANCELLED"} =>
    w.write.chunks[i] = w.read.chunks[i]

Tasks ==
  /\ manifest \in R!Sessions \cup {None}
  /\ manifest # None => Fits(manifest)
  /\ stored \in [R!Index -> R!Bodies \cup {None}]
  /\ thread \in [R!Threads -> {R!Idle} \cup Waits \cup Streams \cup Saving]
  /\ thread[Processor] \in {R!Idle} \cup Plain
  /\ \A t \in R!Threads : R!Locked(t) => Fits(thread[t].read)
  /\ \A t \in R!Threads : thread[t] \in Streams => Uploading(thread[t])
  /\ \A t \in R!Threads : thread[t] \in Saving => Copied(thread[t])
  /\ thread[Processor] \in Plain => Untouched(thread[Processor])

\* One request holds the lock; as long as no two operations crossed, nobody else does,
\* and the manifest it read is the one on disk.
Locks ==
  /\ \A t, u \in Requests : R!Locked(t) /\ R!Locked(u) => t = u
  /\ stale => crossed
  /\ ~crossed => /\ \A t, u \in R!Threads : R!Locked(t) /\ R!Locked(u) => t = u
                 /\ \A t \in R!Threads : R!Locked(t) => thread[t].read = manifest

\* An upload that was cancelled at its body will be told so.
Cancelling == \A t \in asked : t \in Requests \cap cancelled /\ thread[t].pc \in {"wait", "stream"}

\* What the request of thread t may count on.
Relies(t) ==
  /\ thread[t] \in Streams /\ thread[t].staged =>
       manifest # None /\ R!InState(manifest, thread[t].index, {"RECORDING"})
  /\ thread[t] \in Unlinks /\ manifest # None =>
       R!InState(manifest, thread[t].file, {"CANCELLED"})
  /\ thread[t] \in Stores /\ manifest # None =>
       /\ thread[t].index \in R!Present(thread[t].write)
       /\ stored[thread[t].index] = thread[t].write.chunks[thread[t].index].media

\* Requests under way may do so until a save is stale.
Relied == ~stale => \A t \in Requests : Relies(t)

\* The file of chunk i is gone, its record goes next.
Going(i) == \E t \in Requests : thread[t] \in Unlinks /\ thread[t].pc = "save" /\ thread[t].file = i

\* Media on record is on disk.
OnDisk ==
  ~stale /\ manifest # None /\ (cut => manifest.status = "ACTIVE") =>
    \A i \in R!Present(manifest) : manifest.chunks[i].media \in {None, stored[i]} \/ Going(i)

\* A transcript that was acknowledged clears the chunks there are.
Clears ==
  /\ manifest = None => supplied = {}
  /\ manifest # None => supplied \subseteq R!Present(manifest)
  /\ ~stale => \A i \in supplied :
       manifest.chunks[i].available /\ ~manifest.chunks[i].required

RInv == Tasks /\ Locks /\ Cancelling /\ Relied /\ OnDisk /\ Clears

\* The records tell themselves apart by their fields.
LEMMA Kinds ==
  /\ R!Idle.pc = "idle"
  /\ \A w \in Waits : w.pc = "wait" /\ w.index \in R!Index
  /\ \A w \in Streams : w.pc \in {"stream", "media"} /\ w.read \in R!Sessions /\ w.index \in R!Index
  /\ \A w \in Saving : /\ w.pc \in {"sidecar", "unlink", "save"}
                       /\ w.read \in R!Sessions /\ w.write \in R!Sessions
                       /\ w.pc = "sidecar" => w \in Texts
                       /\ w.pc = "unlink" => w \in Unlinks
                       /\ "text" \in DOMAIN w <=> w \in Texts
                       /\ "index" \in DOMAIN w <=> w \in Stores
                       /\ "file" \in DOMAIN w <=> w \in Unlinks
  /\ \A w \in Plain : w \notin Texts \cup Unlinks \cup Stores
  /\ \A w \in Texts : w \notin Unlinks \cup Stores
  /\ \A w \in Unlinks : w \notin Texts \cup Stores
  /\ \A w \in Stores : w \notin Texts \cup Unlinks
<1>1. /\ \A w \in Plain : DOMAIN w = {"pc", "read", "write"}
      /\ \A w \in Texts : DOMAIN w = {"pc", "read", "write", "text"}
      /\ \A w \in Unlinks : DOMAIN w = {"pc", "read", "write", "file"}
      /\ \A w \in Stores : DOMAIN w = {"pc", "read", "write", "index"}
  BY DEF Plain, Texts, Unlinks, Stores
<1>2. /\ \A w \in Plain : w.pc = "save" /\ w.read \in R!Sessions /\ w.write \in R!Sessions
      /\ \A w \in Texts : w.pc \in {"sidecar", "save"} /\ w.read \in R!Sessions /\ w.write \in R!Sessions
      /\ \A w \in Unlinks : w.pc \in {"unlink", "save"} /\ w.read \in R!Sessions /\ w.write \in R!Sessions
      /\ \A w \in Stores : w.pc = "save" /\ w.read \in R!Sessions /\ w.write \in R!Sessions
  BY DEF Plain, Texts, Unlinks, Stores
<1>3. /\ R!Idle.pc = "idle"
      /\ \A w \in Waits : w.pc = "wait" /\ w.index \in R!Index
      /\ \A w \in Streams : w.pc \in {"stream", "media"} /\ w.read \in R!Sessions /\ w.index \in R!Index
  BY DEF Waits, Streams, R!Idle
<1> QED
  BY <1>1, <1>2, <1>3 DEF Saving

\* What a thread is at, by its step.
LEMMA TaskKinds ==
  ASSUME Tasks, NEW t \in R!Threads
  PROVE  /\ thread[t].pc \in {"idle", "wait", "stream", "media", "sidecar", "unlink", "save"}
         /\ thread[t].pc = "idle" <=> thread[t] = R!Idle
         /\ thread[t].pc = "wait" <=> thread[t] \in Waits
         /\ thread[t].pc \in {"stream", "media"} <=> thread[t] \in Streams
         /\ thread[t].pc \in {"sidecar", "unlink", "save"} <=> thread[t] \in Saving
         /\ R!Locked(t) <=> thread[t] \in Streams \cup Saving
<1>1. thread[t] \in {R!Idle} \cup Waits \cup Streams \cup Saving
  BY DEF Tasks
<1> QED
  BY <1>1, Kinds DEF R!Locked

\* The constants of the requests' part.
LEMMA RequestConstants ==
  /\ Processor \notin Requests /\ R!Threads = Requests \cup {Processor}
  /\ None \notin R!Sessions /\ None \notin R!Chunks /\ None \notin R!Bodies
  /\ MaxCaptured \in Nat /\ MaxCaptured > 0 /\ MaxOps \in Nat /\ MaxCrashes \in Nat
BY IntakeAssumption DEF R!ChunksAssumption, R!Threads

\* A manifest and its chunks.
LEMMA ManifestKinds ==
  ASSUME NEW s \in R!Sessions
  PROVE  /\ s # None
         /\ s.status \in {"ACTIVE", "FINALIZED", "FAILED"}
         /\ s.chunks \in [R!Index -> R!Chunks \cup {None}]
         /\ R!Present(s) \subseteq R!Index
         /\ \A i \in R!Index : i \in R!Present(s) <=> s.chunks[i] # None
         /\ \A i \in R!Present(s) : s.chunks[i] \in R!Chunks /\ s.chunks[i] # None
BY RequestConstants DEF R!Sessions, R!Present

\* One chunk of a copy is replaced, added or removed.
LEMMA ReplacedChunk ==
  ASSUME NEW s \in R!Sessions, NEW i \in R!Index, NEW c \in R!Chunks \cup {None}
  PROVE  /\ R!WithChunk(s, i, c) \in R!Sessions
         /\ R!WithChunk(s, i, c).status = s.status
         /\ R!WithChunk(s, i, c).chunks[i] = c
         /\ \A j \in R!Index \ {i} : R!WithChunk(s, i, c).chunks[j] = s.chunks[j]
         /\ c # None => R!Present(R!WithChunk(s, i, c)) = R!Present(s) \cup {i}
         /\ c = None => R!Present(R!WithChunk(s, i, c)) = R!Present(s) \ {i}
<1> DEFINE w == R!WithChunk(s, i, c)
<1>1. s.chunks \in [R!Index -> R!Chunks \cup {None}]
  BY ManifestKinds
<1>2. w \in R!Sessions /\ w.status = s.status /\ w.chunks = [s.chunks EXCEPT ![i] = c]
  BY <1>1 DEF R!Sessions, R!WithChunk
<1>3. w.chunks[i] = c /\ \A j \in R!Index \ {i} : w.chunks[j] = s.chunks[j]
  BY <1>1, <1>2
<1> HIDE DEF w
<1>4. /\ c # None => R!Present(w) = R!Present(s) \cup {i}
      /\ c = None => R!Present(w) = R!Present(s) \ {i}
  BY <1>3 DEF R!Present
<1> QED
  BY <1>2, <1>3, <1>4 DEF w

\* A copy with one chunk changed owes what that chunk owes.
LEMMA ChunkCopied ==
  ASSUME NEW s \in R!Sessions, Fits(s), NEW i \in R!Present(s), NEW c \in R!Chunks,
         Becomes(s.chunks[i], c), c.media = s.chunks[i].media,
         c.state \in {"RECORDING", "UPLOAD_CANCELLED"} => c.media = None
  PROVE  /\ [pc |-> "save", read |-> s, write |-> R!WithChunk(s, i, c)] \in Plain
         /\ Copied([pc |-> "save", read |-> s, write |-> R!WithChunk(s, i, c)])
         /\ s.chunks[i].state \notin {"RECORDING", "CANCELLED"} =>
              Untouched([pc |-> "save", read |-> s, write |-> R!WithChunk(s, i, c)])
<1> DEFINE x == R!WithChunk(s, i, c)
           w == [pc |-> "save", read |-> s, write |-> x]
<1>1. i \in R!Index /\ c # None /\ s.chunks[i] # None
  BY ManifestKinds, RequestConstants
<1>2. x \in R!Sessions /\ x.status = s.status /\ x.chunks[i] = c
      /\ (\A j \in R!Index \ {i} : x.chunks[j] = s.chunks[j]) /\ R!Present(x) = R!Present(s)
  <2> HIDE DEF x
  <2>1. /\ x \in R!Sessions /\ x.status = s.status /\ x.chunks[i] = c
        /\ (\A j \in R!Index \ {i} : x.chunks[j] = s.chunks[j])
        /\ R!Present(x) = R!Present(s) \cup {i}
    BY <1>1, ReplacedChunk DEF x
  <2> QED
    BY <2>1
<1> HIDE DEF x
<1>3. w \in Plain /\ w.read = s /\ w.write = x
  BY <1>2 DEF Plain
<1>4. w \notin Texts /\ w \notin Unlinks
  BY <1>3, Kinds
<1> HIDE DEF w
<1>5. \A j \in R!Present(s) \ {i} : x.chunks[j] = s.chunks[j]
  BY <1>2 DEF R!Present
<1>6. Fits(x)
  BY <1>2, <1>5 DEF Fits
<1>7. \A j \in R!Present(s) : Becomes(s.chunks[j], x.chunks[j]) /\ x.chunks[j].media = s.chunks[j].media
  BY <1>2, <1>5 DEF Becomes
<1>8. Copied(w)
  BY <1>2, <1>3, <1>4, <1>6, <1>7 DEF Copied
<1>9. s.chunks[i].state \notin {"RECORDING", "CANCELLED"} => Untouched(w)
  BY <1>3, <1>5 DEF Untouched
<1> QED
  BY <1>3, <1>8, <1>9 DEF w, x

\* A thread goes on to what it may be at: nobody else gets in its way.
LEMMA TaskTaken ==
  ASSUME RInv, NEW t \in R!Threads, NEW w \in {R!Idle} \cup Waits \cup Streams \cup Saving,
         thread' = [thread EXCEPT ![t] = w],
         UNCHANGED <<manifest, supplied, cut, stale>>,
         stored' \in [R!Index -> R!Bodies \cup {None}],
         \/ w \notin Streams \cup Saving /\ crossed' = crossed
         \/ R!Locked(t) /\ w.read = thread[t].read /\ crossed' = crossed
         \/ R!LockFree(t) /\ R!Meets(t) /\ w.read = manifest /\ manifest # None,
         t = Processor => w \in {R!Idle} \cup Plain /\ (w \in Plain => Untouched(w)),
         w \in Streams => Uploading(w),
         w \in Saving => Copied(w)
  PROVE  Tasks' /\ Locks' /\ Clears'
<1>1. /\ Tasks /\ Locks /\ Processor \in R!Threads
      /\ \A u \in R!Threads : u = Processor \/ u \in Requests
      /\ t = Processor => t \notin Requests
  BY RequestConstants DEF RInv
<1>2. /\ thread' \in [R!Threads -> {R!Idle} \cup Waits \cup Streams \cup Saving]
      /\ thread'[t] = w /\ \A u \in R!Threads \ {t} : thread'[u] = thread[u]
  BY <1>1 DEF Tasks
<1>3. /\ R!Locked(t)' <=> w \in Streams \cup Saving
      /\ \A u \in R!Threads \ {t} : R!Locked(u)' <=> R!Locked(u)
  BY <1>2, Kinds DEF R!Locked
<1>4. w \in Streams \cup Saving => Fits(w.read)
  BY <1>1, <1>3 DEF Tasks
<1>5. Tasks'
  <2>1. \A u \in R!Threads : R!Locked(u)' => Fits(thread'[u].read)
    BY <1>1, <1>2, <1>3, <1>4 DEF Tasks
  <2>2. \A u \in R!Threads : /\ thread'[u] \in Saving => Copied(thread'[u])
                             /\ thread'[u] \in Streams => Uploading(thread'[u])
    BY <1>1, <1>2 DEF Tasks
  <2>3. thread'[Processor] \in {R!Idle} \cup Plain
        /\ (thread'[Processor] \in Plain => Untouched(thread'[Processor]))
    BY <1>1, <1>2 DEF Tasks
  <2> QED
    BY <1>1, <1>2, <2>1, <2>2, <2>3 DEF Tasks
<1>6. Locks'
  <2>1. stale' => crossed'
    BY <1>1 DEF Locks, R!Meets
  <2>2. CASE w \notin Streams \cup Saving /\ crossed' = crossed
    BY <1>1, <1>2, <1>3, <2>1, <2>2, RequestConstants DEF Locks
  <2>3. CASE R!Locked(t) /\ w.read = thread[t].read /\ crossed' = crossed
    <3>1. \A u \in R!Threads : R!Locked(u)' => R!Locked(u) /\ thread'[u].read = thread[u].read
      BY <1>2, <1>3, <2>3
    <3> QED
      BY <1>1, <2>1, <2>3, <3>1, RequestConstants DEF Locks
  <2>4. CASE R!LockFree(t) /\ R!Meets(t) /\ w.read = manifest
    <3>1. t \in Requests => \A u \in Requests : ~R!Locked(u)
      BY <1>1, <2>4 DEF R!LockFree, R!Service
    <3>2. ~crossed' => ~crossed /\ \A u \in R!Threads : ~R!Locked(u)
      BY <2>4 DEF R!LockFree, R!Meets
    <3>3. \A u, v \in Requests : R!Locked(u)' /\ R!Locked(v)' => u = v
      BY <1>1, <1>3, <3>1, RequestConstants DEF Locks
    <3> QED
      BY <1>2, <1>3, <2>1, <2>4, <3>2, <3>3 DEF Locks
  <2> QED
    BY <2>2, <2>3, <2>4
<1>7. Clears'
  BY DEF RInv, Clears, R!Present
<1> QED
  BY <1>5, <1>6, <1>7

\* So it does when no file is touched.
LEMMA TaskChanges ==
  ASSUME RInv, NEW t \in R!Threads, NEW w \in {R!Idle} \cup Waits \cup Streams \cup Saving,
         thread' = [thread EXCEPT ![t] = w],
         UNCHANGED <<manifest, supplied, cut, stale, stored>>,
         \/ w \notin Streams \cup Saving /\ crossed' = crossed
         \/ R!Locked(t) /\ w.read = thread[t].read /\ crossed' = crossed
         \/ R!LockFree(t) /\ R!Meets(t) /\ w.read = manifest /\ manifest # None,
         t = Processor => w \in {R!Idle} \cup Plain /\ (w \in Plain => Untouched(w)),
         w \in Streams => Uploading(w),
         w \in Saving => Copied(w),
         thread[t].pc # "save", w \notin Stores,
         ~stale /\ w \in Streams /\ w.staged =>
           manifest # None /\ R!InState(manifest, w.index, {"RECORDING"}),
         ~stale /\ w \in Unlinks /\ manifest # None => R!InState(manifest, w.file, {"CANCELLED"}),
         Cancelling'
  PROVE  RInv'
<1>1. Tasks' /\ Locks' /\ Clears'
  <2>1. stored' \in [R!Index -> R!Bodies \cup {None}]
    BY DEF RInv, Tasks
  <2> QED
    BY <2>1, TaskTaken
<1>2. thread'[t] = w /\ \A u \in R!Threads \ {t} : thread'[u] = thread[u]
  BY DEF RInv, Tasks
<1>3. Relied'
  <2>1. Relied /\ Requests \subseteq R!Threads
    BY DEF RInv, R!Threads
  <2> QED
    BY <1>2, <2>1 DEF Relied, Relies, R!InState, R!Present
<1>4. OnDisk'
  <2>1. \A i : Going(i) => Going(i)'
    BY <1>2 DEF Going, R!Threads
  <2> QED
    BY <2>1 DEF RInv, OnDisk, R!Present
<1> QED
  BY <1>1, <1>3, <1>4 DEF RInv

\* The uploads that were cancelled go on waiting to be told.
LEMMA StillCancelling ==
  ASSUME RInv, NEW t \in R!Threads, NEW w,
         thread' = [thread EXCEPT ![t] = w],
         \/ w.pc \in {"wait", "stream"}
         \/ thread[t].pc \notin {"wait", "stream"}
         \/ t \notin asked',
         asked' \subseteq asked, cancelled \cap asked' \subseteq cancelled'
  PROVE  Cancelling'
<1>1. thread'[t] = w /\ \A u \in R!Threads \ {t} : thread'[u] = thread[u]
  BY DEF RInv, Tasks
<1> QED
  BY <1>1 DEF RInv, Cancelling, R!Threads

\* An operation has loaded the manifest.
LEMMA LoadsKeep ==
  ASSUME RInv, NEW t \in R!Threads, NEW w \in Saving,
         thread[t].pc = "idle", R!LockFree(t), R!Meets(t), manifest # None, w.read = manifest,
         thread' = [thread EXCEPT ![t] = w],
         UNCHANGED <<manifest, stored, cancelled, asked, supplied, cut, stale>>,
         t = Processor => w \in Plain /\ Untouched(w),
         w \notin Stores, Copied(w),
         w \in Unlinks => R!InState(manifest, w.file, {"CANCELLED"})
  PROVE  RInv'
<1>1. Cancelling'
  BY StillCancelling
<1>2. w \notin Streams
  BY Kinds
<1> QED
  BY <1>1, <1>2, TaskChanges

\* An operation that goes on to save a copy.
LEMMA LoadsCopy ==
  ASSUME RInv, NEW t \in R!Threads, manifest # None, NEW s,
         R!Loads(t, "save", s),
         [pc |-> "save", read |-> manifest, write |-> s] \in Plain,
         Copied([pc |-> "save", read |-> manifest, write |-> s]),
         t = Processor => Untouched([pc |-> "save", read |-> manifest, write |-> s])
  PROVE  RInv'
<1> DEFINE w == [pc |-> "save", read |-> manifest, write |-> s]
<1>1. /\ thread[t].pc = "idle" /\ R!LockFree(t) /\ R!Meets(t)
      /\ thread' = [thread EXCEPT ![t] = w]
      /\ UNCHANGED <<manifest, stored, cancelled, asked, supplied, cut, stale>>
  BY DEF R!Loads, R!disk, R!uploads
<1>2. w.read = manifest /\ w \in Plain /\ w \in Saving
  BY DEF Saving
<1> HIDE DEF w
<1>3. w \notin Stores /\ w \notin Unlinks
  BY <1>2, Kinds
<1>4. Copied(w) /\ (t = Processor => Untouched(w))
  BY DEF w
<1> QED
  BY <1>1, <1>2, <1>3, <1>4, LoadsKeep

\* An operation that leaves the chunks alone.
LEMMA SessionRequestKeeps ==
  ASSUME RInv, NEW t \in Requests, R!SetCrop(t) \/ R!FinalizeSession(t)
  PROVE  RInv'
<1>1. manifest \in R!Sessions /\ manifest # None /\ Fits(manifest) /\ t \in R!Threads
      /\ t # Processor
  BY RequestConstants DEF RInv, Tasks, R!SetCrop, R!FinalizeSession
<1>2. ASSUME NEW s \in R!Sessions, s.chunks = manifest.chunks,
             \/ s.status = manifest.status
             \/ manifest.status = "ACTIVE" /\ s.status = "FINALIZED",
             R!Loads(t, "save", s)
      PROVE  RInv'
  <2> DEFINE w == [pc |-> "save", read |-> manifest, write |-> s]
  <2>1. w \in Plain /\ w.read = manifest /\ w.write = s
    BY <1>1 DEF Plain
  <2>2. w \notin Texts /\ w \notin Unlinks
    BY <2>1, Kinds
  <2>3. Copied(w)
    <3> HIDE DEF w
    <3>1. R!Present(s) = R!Present(manifest)
      BY <1>2 DEF R!Present
    <3> QED
      BY <1>1, <1>2, <2>1, <2>2, <3>1 DEF Copied, Fits, Becomes
  <2> QED
    BY <1>1, <1>2, <2>1, <2>3, LoadsCopy
<1>3. CASE R!SetCrop(t)
  <2> DEFINE s == [manifest EXCEPT !.crop = ~@]
  <2>1. s \in R!Sessions /\ s.chunks = manifest.chunks /\ s.status = manifest.status
    BY <1>1 DEF R!Sessions
  <2>2. R!Loads(t, "save", s)
    BY <1>3 DEF R!SetCrop
  <2> HIDE DEF s
  <2> QED
    BY <1>2, <2>1, <2>2
<1>4. CASE R!FinalizeSession(t)
  <2> DEFINE s == [manifest EXCEPT !.status = "FINALIZED"]
  <2>1. s \in R!Sessions /\ s.chunks = manifest.chunks /\ s.status = "FINALIZED"
    BY <1>1 DEF R!Sessions
  <2>2. R!Loads(t, "save", s) /\ manifest.status = "ACTIVE"
    BY <1>4 DEF R!FinalizeSession, R!SessionTransitions
  <2> HIDE DEF s
  <2> QED
    BY <1>2, <2>1, <2>2
<1> QED
  BY <1>3, <1>4

\* An operation that changes one chunk.
LEMMA ChunkLoads ==
  ASSUME RInv, NEW t \in R!Threads, manifest # None,
         NEW i \in R!Present(manifest), NEW c \in R!Chunks,
         Becomes(manifest.chunks[i], c), c.media = manifest.chunks[i].media,
         c.state \in {"RECORDING", "UPLOAD_CANCELLED"} => c.media = None,
         t = Processor => manifest.chunks[i].state \notin {"RECORDING", "CANCELLED"},
         R!Loads(t, "save", R!WithChunk(manifest, i, c))
  PROVE  RInv'
<1>1. manifest \in R!Sessions /\ Fits(manifest)
  BY DEF RInv, Tasks
<1>2. /\ [pc |-> "save", read |-> manifest, write |-> R!WithChunk(manifest, i, c)] \in Plain
      /\ Copied([pc |-> "save", read |-> manifest, write |-> R!WithChunk(manifest, i, c)])
      /\ t = Processor =>
           Untouched([pc |-> "save", read |-> manifest, write |-> R!WithChunk(manifest, i, c)])
  BY <1>1, ChunkCopied
<1> QED
  BY <1>2, LoadsCopy

\* An operation that moves one chunk.
LEMMA MoveLoads ==
  ASSUME RInv, NEW t \in R!Threads, manifest # None,
         NEW i \in R!Present(manifest), NEW to \in R!ChunkTransitions(manifest.chunks[i].state),
         to \in R!ChunkStates,
         to \in {"RECORDING", "UPLOAD_CANCELLED"} =>
           manifest.chunks[i].state \in {"RECORDING", "UPLOAD_CANCELLED"},
         t = Processor => manifest.chunks[i].state \notin {"RECORDING", "CANCELLED"},
         R!Loads(t, "save", R!Moved(manifest, i, to))
  PROVE  RInv'
<1>1. manifest \in R!Sessions /\ Fits(manifest)
  BY DEF RInv, Tasks
<1> DEFINE b == manifest.chunks[i]
           c == [b EXCEPT !.state = to]
<1>2. b \in R!Chunks
  BY <1>1, ManifestKinds
<1>3. c \in R!Chunks /\ c.state = to /\ c.media = b.media /\ Becomes(b, c)
  BY <1>2 DEF R!Chunks, Becomes
<1>4. R!Moved(manifest, i, to) = R!WithChunk(manifest, i, c)
  BY DEF R!Moved, R!WithChunk
<1>5. c.state \in {"RECORDING", "UPLOAD_CANCELLED"} => c.media = None
  BY <1>1, <1>3 DEF Fits
<1> HIDE DEF c
<1> QED
  BY <1>3, <1>4, <1>5, ChunkLoads

\* The next chunk is a new one.
LEMMA NextChunkIsNew ==
  ASSUME NEW s \in R!Sessions
  PROVE  R!NextChunkIndex(s) \notin R!Present(s)
<1>1. R!Present(s) \subseteq 0 .. MaxCaptured - 1 /\ MaxCaptured \in Nat
  BY ManifestKinds, RequestConstants DEF R!Index
<1>2. CASE R!Present(s) = {}
  BY <1>2
<1>3. CASE R!Present(s) # {}
  <2> DEFINE above == {n \in Nat : \A j \in R!Present(s) : j <= n}
  <2>1. MaxCaptured \in above /\ above \subseteq Nat
    BY <1>1
  <2>2. \E n \in above : \A j \in above : <<j, n>> \notin OpToRel(<, Nat)
    BY <2>1, NatLessThanWellFounded, WFMin
  <2>3. \A i, j \in Nat : <<j, i>> \notin OpToRel(<, Nat) => i <= j
    BY DEF OpToRel
  <2>4. PICK n \in above : \A j \in above : n <= j
    BY <2>1, <2>2, <2>3
  <2>5. n \in R!Present(s)
    <3> SUFFICES ASSUME n \notin R!Present(s)
                 PROVE  FALSE
      OBVIOUS
    <3>1. n \in Nat /\ \A j \in R!Present(s) : j \in Nat /\ j < n
      BY <1>1
    <3>2. n - 1 \in above
      BY <1>3, <3>1
    <3> QED
      BY <2>4, <3>1, <3>2
  <2>6. PICK m : /\ m = CHOOSE i \in R!Present(s) : \A j \in R!Present(s) : j <= i
                 /\ m \in R!Present(s) /\ \A j \in R!Present(s) : j <= m
    BY <2>4, <2>5
  <2>7. R!NextChunkIndex(s) = 1 + m
    BY <1>3, <2>6 DEF R!NextChunkIndex
  <2> QED
    BY <1>1, <2>6, <2>7
<1> QED
  BY <1>2, <1>3

\* A chunk is begun.
LEMMA StartKeeps ==
  ASSUME RInv, NEW t \in Requests, R!StartChunk(t)
  PROVE  RInv'
<1> DEFINE i == R!NextChunkIndex(manifest)
           c == [state |-> "RECORDING", audio |-> "UNKNOWN", available |-> FALSE,
                 required |-> FALSE, media |-> None]
           s == R!WithChunk(manifest, i, c)
           w == [pc |-> "save", read |-> manifest, write |-> s]
<1>1. manifest \in R!Sessions /\ manifest # None /\ Fits(manifest) /\ t \in R!Threads
      /\ t # Processor /\ i \in R!Index /\ R!Loads(t, "save", s)
  BY RequestConstants DEF RInv, Tasks, R!StartChunk
<1>2. i \notin R!Present(manifest)
  BY <1>1, NextChunkIsNew
<1>3. c \in R!Chunks /\ c # None /\ c.media = None
  <2>1. c \in R!Chunks
    BY DEF R!Chunks, R!ChunkStates, R!Audio
  <2> QED
    BY <2>1, RequestConstants
<1> HIDE DEF i, c
<1>4. s \in R!Sessions /\ s.status = manifest.status /\ s.chunks[i] = c
      /\ (\A j \in R!Index \ {i} : s.chunks[j] = manifest.chunks[j])
      /\ R!Present(s) = R!Present(manifest) \cup {i}
  BY <1>1, <1>3, ReplacedChunk
<1> HIDE DEF s
<1>5. w \in Plain /\ w.read = manifest /\ w.write = s
  BY <1>1, <1>4 DEF Plain
<1>6. w \notin Texts /\ w \notin Unlinks
  BY <1>5, Kinds
<1> HIDE DEF w
<1>7. \A j \in R!Present(manifest) : s.chunks[j] = manifest.chunks[j]
  BY <1>2, <1>4 DEF R!Present
<1>8. Fits(s)
  BY <1>1, <1>3, <1>4, <1>7 DEF Fits
<1>9. Copied(w)
  BY <1>2, <1>3, <1>4, <1>5, <1>6, <1>7, <1>8 DEF Copied, Becomes
<1> QED
  BY <1>1, <1>5, <1>9, LoadsCopy DEF w

\* A transcript clears the chunks there are.
LEMMA AssociateKeeps ==
  ASSUME RInv, NEW t \in Requests, NEW text \in {"one", "two"}, R!AssociateTranscript(t, text)
  PROVE  RInv'
<1> DEFINE clear(i) == IF manifest.chunks[i] = None THEN None
                       ELSE [manifest.chunks[i] EXCEPT !.available = TRUE, !.required = FALSE]
           f == [i \in R!Index |-> clear(i)]
           s == [manifest EXCEPT !.transcript = text, !.chunks = f]
           w == [pc |-> "sidecar", read |-> manifest, text |-> text, write |-> s]
<1>1. /\ manifest \in R!Sessions /\ manifest # None /\ Fits(manifest) /\ t \in R!Threads
      /\ t # Processor
      /\ thread[t].pc = "idle" /\ R!LockFree(t) /\ R!Meets(t)
      /\ thread' = [thread EXCEPT ![t] = w]
      /\ UNCHANGED <<manifest, stored, cancelled, asked, supplied, cut, stale>>
  BY RequestConstants DEF RInv, Tasks, R!AssociateTranscript, R!disk, R!uploads
<1>2. /\ \A i \in R!Present(manifest) :
           /\ clear(i) \in R!Chunks /\ clear(i).available /\ ~clear(i).required
           /\ clear(i).state = manifest.chunks[i].state /\ clear(i).media = manifest.chunks[i].media
      /\ \A i \in R!Index \ R!Present(manifest) : clear(i) = None
  <2>1. \A i \in R!Present(manifest) : manifest.chunks[i] \in R!Chunks /\ manifest.chunks[i] # None
    BY <1>1, ManifestKinds
  <2> QED
    BY <2>1 DEF R!Chunks, R!Present
<1> HIDE DEF clear
<1>3. f \in [R!Index -> R!Chunks \cup {None}] /\ \A i \in R!Index : f[i] = clear(i)
  <2>1. \A i \in R!Index : clear(i) \in R!Chunks \cup {None}
    BY <1>2
  <2> QED
    BY <2>1
<1> HIDE DEF f
<1>4. s \in R!Sessions /\ s.chunks = f /\ s.status = manifest.status
  BY <1>1, <1>3 DEF R!Sessions
<1> HIDE DEF s
<1>5. R!Present(s) = R!Present(manifest) /\ R!Present(s) \subseteq R!Index
  BY <1>2, <1>3, <1>4, RequestConstants DEF R!Present
<1>6. w \in Texts /\ w.read = manifest /\ w.write = s
  BY <1>1, <1>4 DEF Texts
<1> HIDE DEF w
<1>7. w \notin Stores /\ w \notin Unlinks /\ w \in Saving
  BY <1>6, Kinds DEF Saving
<1>8. \A i \in R!Present(s) :
        /\ s.chunks[i].available /\ ~s.chunks[i].required
        /\ s.chunks[i].state = manifest.chunks[i].state
        /\ s.chunks[i].media = manifest.chunks[i].media
  BY <1>2, <1>3, <1>4, <1>5
<1>9. Copied(w)
  <2>1. Fits(s)
    BY <1>1, <1>5, <1>8 DEF Fits
  <2> QED
    BY <1>4, <1>5, <1>6, <1>7, <1>8, <2>1 DEF Copied, Becomes
<1> QED
  BY <1>1, <1>6, <1>7, <1>9, LoadsKeep

\* A cancelled chunk is to be deleted.
LEMMA DeleteChunkKeeps ==
  ASSUME RInv, NEW t \in Requests, NEW i \in R!Index, R!DeleteCancelled(t, i)
  PROVE  RInv'
<1> DEFINE s == R!WithChunk(manifest, i, None)
           w == [pc |-> "unlink", file |-> i, read |-> manifest, write |-> s]
<1>1. /\ manifest \in R!Sessions /\ manifest # None /\ Fits(manifest) /\ t \in R!Threads
      /\ t # Processor /\ R!InState(manifest, i, {"CANCELLED"})
      /\ thread[t].pc = "idle" /\ R!LockFree(t) /\ R!Meets(t)
      /\ thread' = [thread EXCEPT ![t] = w]
      /\ UNCHANGED <<manifest, stored, cancelled, asked, supplied, cut, stale>>
  BY RequestConstants DEF RInv, Tasks, R!DeleteCancelled, R!disk, R!uploads
<1>2. s \in R!Sessions /\ s.status = manifest.status
      /\ (\A j \in R!Index \ {i} : s.chunks[j] = manifest.chunks[j])
      /\ R!Present(s) = R!Present(manifest) \ {i}
  BY <1>1, ReplacedChunk
<1> HIDE DEF s
<1>3. w \in Unlinks /\ w.read = manifest /\ w.write = s /\ w.file = i
  BY <1>1, <1>2 DEF Unlinks
<1> HIDE DEF w
<1>4. w \notin Stores /\ w \notin Texts /\ w \in Saving
  BY <1>3, Kinds DEF Saving
<1>5. \A j \in R!Present(s) : j \in R!Present(manifest) /\ s.chunks[j] = manifest.chunks[j]
  BY <1>2 DEF R!Present
<1>6. Copied(w)
  <2>1. Fits(s)
    BY <1>1, <1>5 DEF Fits
  <2> QED
    BY <1>2, <1>3, <1>4, <1>5, <2>1 DEF Copied, Becomes
<1> QED
  BY <1>1, <1>3, <1>4, <1>6, LoadsKeep

\* The requests about one chunk that save a copy.
LEMMA ChunkRequestKeeps ==
  ASSUME RInv, NEW t \in Requests, NEW i \in R!Index,
         \/ R!CancelUpload(t, i) \/ R!RetryUpload(t, i) \/ R!CancelProcessing(t, i)
         \/ R!RetryProcessing(t, i) \/ (\E audio \in R!Audio : R!DetectAudio(t, i, audio))
  PROVE  RInv'
<1> DEFINE b == manifest.chunks[i]
<1>1. manifest \in R!Sessions /\ manifest # None /\ Fits(manifest) /\ t \in R!Threads
      /\ t # Processor
  BY RequestConstants DEF RInv, Tasks, R!CancelUpload, R!RetryUpload, R!CancelProcessing,
     R!RetryProcessing, R!DetectAudio
<1>2. b # None => i \in R!Present(manifest) /\ b \in R!Chunks
  BY <1>1, ManifestKinds
<1>3. ASSUME b # None, NEW to \in R!ChunkTransitions(b.state), to \in R!ChunkStates,
             to \in {"RECORDING", "UPLOAD_CANCELLED"} => b.state \in {"RECORDING", "UPLOAD_CANCELLED"},
             R!Loads(t, "save", R!Moved(manifest, i, to))
      PROVE  RInv'
  BY <1>1, <1>2, <1>3, MoveLoads
<1>4. CASE R!CancelUpload(t, i) \/ R!RetryUpload(t, i)
  <2>1. b # None /\ \E to \in R!ChunkTransitions(b.state) \cap {"RECORDING", "UPLOAD_CANCELLED"} :
          /\ b.state \in {"RECORDING", "UPLOAD_CANCELLED"}
          /\ R!Loads(t, "save", R!Moved(manifest, i, to))
    BY <1>4 DEF R!CancelUpload, R!RetryUpload, R!InState, R!ChunkTransitions
  <2> QED
    BY <1>3, <2>1 DEF R!ChunkStates
<1>5. CASE R!CancelProcessing(t, i) \/ R!RetryProcessing(t, i)
  <2>1. b # None /\ \E to \in {"CANCELLED", "CANCEL_REQUESTED", "FINALIZED", "PROCESSING"} :
          /\ to \in R!ChunkTransitions(b.state)
          /\ R!Loads(t, "save", R!Moved(manifest, i, to))
    BY <1>5 DEF R!CancelProcessing, R!RetryProcessing, R!InState, R!ChunkTransitions
  <2> QED
    BY <1>3, <2>1 DEF R!ChunkStates
<1>6. CASE \E audio \in R!Audio : R!DetectAudio(t, i, audio)
  <2>1. PICK audio \in R!Audio : R!DetectAudio(t, i, audio)
    BY <1>6
  <2> DEFINE c == R!Heard(b, audio)
  <2>2. b # None /\ b.state # "RECORDING" /\ b.media # None
        /\ R!Loads(t, "save", R!WithChunk(manifest, i, c))
    BY <2>1 DEF R!DetectAudio
  <2>3. c \in R!Chunks /\ c.state = b.state /\ c.media = b.media /\ Becomes(b, c)
    BY <1>2, <2>2 DEF R!Chunks, R!Heard, R!TranscriptRequired, Becomes
  <2>4. b.state \notin {"RECORDING", "UPLOAD_CANCELLED"}
    BY <1>1, <1>2, <2>2 DEF Fits
  <2> HIDE DEF c
  <2> QED
    BY <1>1, <1>2, <2>2, <2>3, <2>4, ChunkLoads
<1> QED
  BY <1>4, <1>5, <1>6

\* The operations of the processor: taken, given up, completed.
LEMMA ProcessorLoads ==
  ASSUME RInv, NEW i \in R!Index,
         R!Take(i) \/ R!GiveUp(i) \/ (\E transcribed \in BOOLEAN : R!Complete(i, transcribed))
  PROVE  RInv'
<1> DEFINE b == manifest.chunks[i]
<1>1. manifest \in R!Sessions /\ manifest # None /\ Fits(manifest) /\ Processor \in R!Threads
      /\ b # None /\ b.state \notin {"RECORDING", "CANCELLED", "UPLOAD_CANCELLED"}
  BY RequestConstants DEF RInv, Tasks, R!Take, R!GiveUp, R!Complete, R!InState
<1>2. i \in R!Present(manifest) /\ b \in R!Chunks
  BY <1>1, ManifestKinds
<1>3. CASE R!Take(i) \/ R!GiveUp(i)
  <2>1. \E to \in {"PROCESSING", "FAILED", "CANCELLED"} :
          /\ to \in R!ChunkTransitions(b.state)
          /\ R!Loads(Processor, "save", R!Moved(manifest, i, to))
    BY <1>3 DEF R!Take, R!GiveUp, R!InState, R!ChunkTransitions
  <2> QED
    BY <1>1, <1>2, <2>1, MoveLoads DEF R!ChunkStates
<1>4. CASE \E transcribed \in BOOLEAN : R!Complete(i, transcribed)
  <2>1. PICK transcribed \in BOOLEAN : R!Complete(i, transcribed)
    BY <1>4
  <2> DEFINE c == R!Completed(b, transcribed)
  <2>2. b.state \in {"PROCESSING", "CANCEL_REQUESTED"}
        /\ R!Loads(Processor, "save", R!WithChunk(manifest, i, c))
    BY <2>1 DEF R!Complete, R!InState
  <2>3. c \in R!Chunks /\ c.state \in {"CANCELLED", "PROCESSED"} /\ c.media = b.media /\ Becomes(b, c)
    <3>1. CASE b.state = "CANCEL_REQUESTED"
      BY <1>2, <3>1 DEF R!Chunks, R!ChunkStates, R!Completed, R!ChunkTransitions, Becomes
    <3>2. CASE b.state = "PROCESSING"
      BY <1>2, <3>2 DEF R!Chunks, R!ChunkStates, R!Completed, R!ChunkTransitions, Becomes,
                        R!TranscriptRequired
    <3> QED
      BY <2>2, <3>1, <3>2
  <2> HIDE DEF c
  <2> QED
    BY <1>1, <1>2, <2>2, <2>3, ChunkLoads
<1> QED
  BY <1>3, <1>4

\* The next step of an operation that has its copy.
LEMMA CopyGoesOn ==
  ASSUME NEW v \in Texts \cup Unlinks, Copied(v)
  PROVE  /\ [v EXCEPT !.pc = "save"].pc = "save"
         /\ [v EXCEPT !.pc = "save"].read = v.read
         /\ [v EXCEPT !.pc = "save"] \in Texts \cup Unlinks
         /\ v \in Texts <=> [v EXCEPT !.pc = "save"] \in Texts
         /\ v \in Unlinks <=> [v EXCEPT !.pc = "save"] \in Unlinks
         /\ v \in Unlinks => [v EXCEPT !.pc = "save"].file = v.file
         /\ Copied([v EXCEPT !.pc = "save"])
<1> DEFINE w == [v EXCEPT !.pc = "save"]
<1>1. CASE v \in Texts
  <2>1. w \in Texts /\ w.pc = "save" /\ w.read = v.read /\ w.write = v.write
    BY <1>1 DEF Texts
  <2> HIDE DEF w
  <2>2. w \notin Unlinks /\ v \notin Unlinks /\ w \notin Stores /\ v \notin Stores
    BY <1>1, <2>1, Kinds
  <2>3. Copied(w)
    BY <1>1, <2>1, <2>2 DEF Copied
  <2> QED
    BY <1>1, <2>1, <2>2, <2>3 DEF w
<1>2. CASE v \in Unlinks
  <2>1. w \in Unlinks /\ w.pc = "save" /\ w.read = v.read /\ w.write = v.write /\ w.file = v.file
    BY <1>2 DEF Unlinks
  <2> HIDE DEF w
  <2>2. w \notin Texts /\ v \notin Texts /\ w \notin Stores /\ v \notin Stores
    BY <1>2, <2>1, Kinds
  <2>3. Copied(w)
    BY <1>2, <2>1, <2>2 DEF Copied
  <2> QED
    BY <1>2, <2>1, <2>2, <2>3 DEF w
<1> QED
  BY <1>1, <1>2

\* The sidecar is written; the copy that says so is saved next.
LEMMA SidecarKeeps ==
  ASSUME RInv, NEW t \in Requests, R!WriteSidecar(t)
  PROVE  RInv'
<1> DEFINE w == [thread[t] EXCEPT !.pc = "save"]
<1>1. /\ thread[t].pc = "sidecar" /\ thread' = [thread EXCEPT ![t] = w]
      /\ UNCHANGED <<manifest, stored, cancelled, asked, supplied, crossed, cut, stale>>
      /\ t \in R!Threads /\ t # Processor /\ Tasks
  BY RequestConstants DEF RInv, R!WriteSidecar, R!uploads
<1>2. thread[t] \in Texts /\ Copied(thread[t]) /\ R!Locked(t)
  <2>1. thread[t] \in Saving
    BY <1>1, TaskKinds
  <2> QED
    BY <1>1, <2>1, Kinds DEF Tasks, R!Locked
<1>3. w.pc = "save" /\ w.read = thread[t].read /\ w \in Texts /\ Copied(w)
  BY <1>2, CopyGoesOn
<1> HIDE DEF w
<1>4. w \in Saving /\ w \notin Unlinks /\ w \notin Stores /\ w \notin Streams
  BY <1>3, Kinds DEF Saving
<1>5. Cancelling'
  BY <1>1, StillCancelling
<1> QED
  BY <1>1, <1>2, <1>3, <1>4, <1>5, TaskChanges

\* The files of the chunks on record are those they were, or go.
LEMMA OnDiskKept ==
  ASSUME OnDisk, UNCHANGED <<manifest, cut, stale>>,
         \A i : Going(i) => Going(i)',
         \A i \in R!Present(manifest) :
           ~stale => \/ stored'[i] = stored[i] \/ manifest.chunks[i].media = None \/ Going(i)'
  PROVE  OnDisk'
<1>1. R!Present(manifest') = R!Present(manifest)
  OBVIOUS
<1> SUFFICES ASSUME ~stale, manifest # None, cut => manifest.status = "ACTIVE",
                    NEW i \in R!Present(manifest)
             PROVE  manifest.chunks[i].media \in {None, stored'[i]} \/ Going(i)'
  BY <1>1 DEF OnDisk
<1>2. manifest.chunks[i].media \in {None, stored[i]} \/ Going(i)
  BY DEF OnDisk
<1> QED
  BY <1>2

\* The file of a cancelled chunk goes; its record is the one the copy leaves out.
LEMMA UnlinkKeeps ==
  ASSUME RInv, NEW t \in Requests, R!Unlink(t)
  PROVE  RInv'
<1> DEFINE w == [thread[t] EXCEPT !.pc = "save"]
<1> PICK n : n = thread[t].file
  OBVIOUS
<1>1. /\ thread[t].pc = "unlink" /\ thread' = [thread EXCEPT ![t] = w]
      /\ stored' = [stored EXCEPT ![n] = None]
      /\ UNCHANGED <<manifest, cancelled, asked, supplied, crossed, cut, stale>>
      /\ t \in R!Threads /\ t # Processor /\ Tasks /\ Locks /\ Relied /\ OnDisk
  BY RequestConstants DEF RInv, R!Unlink, R!uploads
<1>2. thread[t] \in Unlinks /\ Copied(thread[t]) /\ R!Locked(t)
  <2>1. thread[t] \in Saving
    BY <1>1, TaskKinds
  <2> QED
    BY <1>1, <2>1, Kinds DEF Tasks, R!Locked
<1>3. w.pc = "save" /\ w.read = thread[t].read /\ w \in Unlinks /\ Copied(w) /\ w.file = n
  BY <1>2, CopyGoesOn
<1> HIDE DEF w
<1>4. w \in Saving /\ w \notin Stores /\ w \notin Streams
  BY <1>3, Kinds DEF Saving
<1>5. stored' \in [R!Index -> R!Bodies \cup {None}] /\ \A i \in R!Index \ {n} : stored'[i] = stored[i]
  BY <1>1 DEF Tasks
<1>6. Cancelling'
  BY <1>1, StillCancelling
<1>7. Tasks' /\ Locks' /\ Clears'
  BY <1>1, <1>2, <1>3, <1>4, <1>5, TaskTaken
<1>8. thread'[t] = w /\ \A u \in R!Threads \ {t} : thread'[u] = thread[u]
  BY <1>1 DEF Tasks
<1>9. Relied'
  <2>1. \A u \in Requests \ {t} : thread'[u] = thread[u] /\ thread[u] \notin Streams \cup Saving
    <3>1. \A u \in Requests \ {t} : ~R!Locked(u)
      BY <1>1, <1>2 DEF Locks
    <3> QED
      BY <1>1, <1>8, <3>1, TaskKinds DEF R!Threads
  <2>2. ~stale /\ manifest # None => R!InState(manifest, n, {"CANCELLED"})
    BY <1>1, <1>2 DEF Relied, Relies
  <2>3. ASSUME NEW u \in Requests \ {t}
        PROVE  Relies(u)'
    BY <2>1 DEF Relies, Saving
  <2>4. ~stale => Relies(t)'
    BY <1>1, <1>3, <1>4, <1>8, <2>2 DEF Relies, R!InState
  <2> QED
    BY <1>1, <2>3, <2>4 DEF Relied
<1>10. OnDisk'
  <2>1. \A i : Going(i) => Going(i)'
    BY <1>1, <1>8 DEF Going, R!Threads
  <2>2. Going(n)'
    BY <1>3, <1>8 DEF Going
  <2>3. \A i \in R!Present(manifest) :
          i = n \/ stored'[i] = stored[i]
    BY <1>5 DEF R!Present
  <2> QED
    BY <1>1, <2>1, <2>2, <2>3, OnDiskKept
<1> QED
  BY <1>6, <1>7, <1>9, <1>10 DEF RInv

\* An upload is over.
LEMMA LeavesKeeps ==
  ASSUME RInv, NEW t \in Requests, R!Leaves(t), thread[t].pc # "save",
         UNCHANGED <<manifest, stored, supplied, crossed, cut, stale>>
  PROVE  RInv'
<1>1. /\ thread' = [thread EXCEPT ![t] = R!Idle] /\ cancelled' = cancelled \ {t}
      /\ asked' = asked \ {t} /\ t \in R!Threads /\ t # Processor
  BY RequestConstants DEF R!Leaves
<1>2. R!Idle \notin Streams \cup Saving
  BY Kinds
<1>3. Cancelling'
  BY <1>1, StillCancelling
<1> QED
  BY <1>1, <1>2, <1>3, TaskChanges DEF Saving

\* An upload registers, and waits for the lock.
LEMMA UploadWaits ==
  ASSUME RInv, NEW t \in Requests, NEW i \in R!Index, NEW body \in R!Bodies,
         NEW audio \in {"MISSING", None}, R!Upload(t, i, body, audio)
  PROVE  RInv'
<1> DEFINE w == [pc |-> "wait", index |-> i, body |-> body, audio |-> audio]
<1>1. /\ thread' = [thread EXCEPT ![t] = w] /\ cancelled' = cancelled \ {t} /\ thread[t].pc = "idle"
      /\ asked' = asked \ {t} /\ t \in R!Threads /\ t # Processor
      /\ UNCHANGED <<manifest, stored, supplied, crossed, cut, stale>>
  BY RequestConstants DEF R!Upload, R!disk
<1>2. w \in Waits /\ w.pc = "wait"
  BY DEF Waits
<1> HIDE DEF w
<1>3. w \notin Streams \cup Saving
  BY <1>2, Kinds
<1>4. Cancelling'
  BY <1>1, StillCancelling
<1> QED
  BY <1>1, <1>2, <1>3, <1>4, TaskChanges DEF Saving

\* It gets the lock and finds the chunk being recorded, or leaves.
LEMMA BeginUploadKeeps ==
  ASSUME RInv, NEW t \in Requests, R!BeginUpload(t)
  PROVE  RInv'
<1>1. /\ thread[t].pc = "wait" /\ R!LockFree(t)
      /\ UNCHANGED <<manifest, stored, supplied, cut, stale>>
      /\ t \in R!Threads /\ t # Processor /\ Tasks
  BY RequestConstants DEF RInv, R!BeginUpload, R!disk
<1>2. CASE R!Leaves(t) /\ UNCHANGED crossed
  BY <1>1, <1>2, LeavesKeeps
<1>3. CASE ~(R!Leaves(t) /\ UNCHANGED crossed)
  <2> DEFINE v == thread[t]
             w == [pc |-> "stream", index |-> v.index, body |-> v.body, audio |-> v.audio,
                   staged |-> TRUE, read |-> manifest]
  <2>1. /\ thread' = [thread EXCEPT ![t] = w] /\ R!Meets(t)
        /\ UNCHANGED <<cancelled, asked>>
        /\ manifest # None /\ R!MayMove(manifest, v.index, "FINALIZED")
        /\ manifest.chunks[v.index].state = "RECORDING"
    BY <1>3 DEF R!BeginUpload, R!uploads
  <2>2. manifest \in R!Sessions /\ v \in Waits
    BY <1>1, <2>1, TaskKinds DEF Tasks
  <2>3. w \in Streams /\ w.pc = "stream" /\ w.read = manifest /\ w.index = v.index
    BY <2>2 DEF Waits, Streams
  <2>4. R!InState(manifest, v.index, {"RECORDING"}) /\ Uploading(w)
    BY <2>1 DEF R!InState, R!MayMove, Uploading
  <2> HIDE DEF w
  <2>5. w \notin Saving
    BY <2>3, Kinds
  <2>6. Cancelling'
    BY <1>1, <2>1, <2>3, StillCancelling
  <2> QED
    BY <1>1, <2>1, <2>3, <2>4, <2>5, <2>6, TaskChanges DEF Saving
<1> QED
  BY <1>2, <1>3

\* The body has come; a cancelled upload does not get here.
LEMMA EndOfBodyKeeps ==
  ASSUME RInv, NEW t \in Requests, R!EndOfBody(t)
  PROVE  RInv'
<1> DEFINE w == [thread[t] EXCEPT !.pc = "media"]
<1>1. /\ thread[t].pc = "stream" /\ t \notin cancelled /\ thread' = [thread EXCEPT ![t] = w]
      /\ UNCHANGED <<manifest, stored, cancelled, asked, supplied, crossed, cut, stale>>
      /\ t \in R!Threads /\ t # Processor /\ Tasks
  BY RequestConstants DEF RInv, R!EndOfBody, R!Stopped, R!disk, R!uploads
<1>2. thread[t] \in Streams /\ R!Locked(t)
  BY <1>1, TaskKinds DEF R!Locked
<1>3. w \in Streams /\ w.read = thread[t].read /\ w.index = thread[t].index /\ w.staged = thread[t].staged
  BY <1>2 DEF Streams
<1> HIDE DEF w
<1>4. w \notin Saving
  BY <1>3, Kinds
<1>5. t \notin asked
  BY <1>1 DEF RInv, Cancelling
<1>6. Cancelling'
  BY <1>1, <1>5, StillCancelling
<1>7. ~stale /\ w.staged => manifest # None /\ R!InState(manifest, w.index, {"RECORDING"})
  BY <1>2, <1>3 DEF RInv, Relied, Relies
<1>8. Uploading(w)
  BY <1>1, <1>2, <1>3 DEF Tasks, Uploading
<1> QED
  BY <1>1, <1>2, <1>3, <1>4, <1>6, <1>7, <1>8, TaskChanges DEF Saving

\* The body takes its place; the copy that records it is saved next.
LEMMA WriteMediaKeeps ==
  ASSUME RInv, NEW t \in Requests, R!WriteMedia(t)
  PROVE  RInv'
<1> DEFINE v == thread[t]
<1> PICK n : n = v.index
  OBVIOUS
<1>1. /\ v.pc = "media" /\ UNCHANGED <<manifest, supplied, crossed, cut, stale>>
      /\ t \in R!Threads /\ t # Processor /\ Tasks /\ Locks /\ Relied /\ OnDisk
  BY RequestConstants DEF RInv, R!WriteMedia
<1>2. v \in Streams /\ R!Locked(t)
  BY <1>1, TaskKinds DEF R!Locked
<1>3. CASE ~v.staged
  BY <1>1, <1>3, LeavesKeeps DEF R!WriteMedia
<1>4. CASE v.staged
  <2> DEFINE b == v.read.chunks[n]
             heard == IF v.audio = None THEN b.audio ELSE v.audio
             c == [b EXCEPT !.state = "FINALIZED", !.media = v.body, !.audio = heard,
                            !.required = R!TranscriptRequired(heard, b.available)]
             s == R!WithChunk(v.read, n, c)
             w == [pc |-> "save", index |-> n, read |-> v.read, write |-> s]
  <2>1. /\ thread' = [thread EXCEPT ![t] = w] /\ stored' = [stored EXCEPT ![n] = v.body]
        /\ UNCHANGED <<cancelled, asked>>
    BY <1>4 DEF R!WriteMedia, R!uploads
  <2>2. /\ v.read \in R!Sessions /\ n \in R!Index /\ v.body \in R!Bodies /\ v.body # None
        /\ v.audio \in {"MISSING", None}
        /\ Fits(v.read) /\ R!InState(v.read, n, {"RECORDING"})
    BY <1>1, <1>2, RequestConstants DEF Streams, Tasks, Uploading
  <2>3. n \in R!Present(v.read) /\ b \in R!Chunks /\ b.state = "RECORDING"
    BY <2>2, ManifestKinds DEF R!InState
  <2>4. /\ c \in R!Chunks /\ c # None /\ c.media = v.body /\ c.state = "FINALIZED"
        /\ Becomes(b, c)
    <3>1. heard \in R!Audio
      BY <2>2, <2>3 DEF R!Chunks, R!Audio
    <3>2. \A x, y : R!TranscriptRequired(x, y) \in BOOLEAN
      BY DEF R!TranscriptRequired
    <3>3. b.available => ~R!TranscriptRequired(heard, b.available)
      BY DEF R!TranscriptRequired
    <3> HIDE DEF heard
    <3>4. /\ c \in R!Chunks /\ c.media = v.body /\ c.state = "FINALIZED" /\ c.available = b.available
          /\ c.required = R!TranscriptRequired(heard, b.available)
      BY <2>2, <2>3, <3>1, <3>2 DEF R!Chunks, R!ChunkStates
    <3> HIDE DEF c
    <3> QED
      BY <2>3, <3>3, <3>4, RequestConstants DEF Becomes, R!ChunkTransitions
  <2> HIDE DEF c
  <2>5. s \in R!Sessions /\ s.status = v.read.status /\ s.chunks[n] = c
        /\ (\A j \in R!Index \ {n} : s.chunks[j] = v.read.chunks[j])
        /\ R!Present(s) = R!Present(v.read) \cup {n}
    BY <2>2, <2>4, ReplacedChunk
  <2> HIDE DEF s
  <2>6. w \in Stores /\ w.read = v.read /\ w.write = s /\ w.index = n
    BY <2>2, <2>5 DEF Stores
  <2> HIDE DEF w
  <2>7. w \in Saving /\ w \notin Texts /\ w \notin Unlinks /\ w \notin Streams
    BY <2>6, Kinds DEF Saving
  <2>8. \A j \in R!Present(v.read) \ {n} : s.chunks[j] = v.read.chunks[j]
    BY <2>5 DEF R!Present
  <2>9. Copied(w)
    <3>1. Fits(s)
      BY <2>2, <2>4, <2>5, <2>8 DEF Fits
    <3>2. \A j \in R!Present(v.read) : /\ Becomes(v.read.chunks[j], s.chunks[j])
                                       /\ j = n \/ s.chunks[j].media = v.read.chunks[j].media
      BY <2>4, <2>5, <2>8 DEF Becomes
    <3> QED
      BY <2>3, <2>5, <2>6, <2>7, <3>1, <3>2 DEF Copied
  <2>10. /\ stored' \in [R!Index -> R!Bodies \cup {None}] /\ stored'[n] = v.body
         /\ \A i \in R!Index \ {n} : stored'[i] = stored[i]
    BY <1>1, <2>1, <2>2 DEF Tasks
  <2>11. Cancelling'
    BY <1>1, <2>1, StillCancelling
  <2>12. Tasks' /\ Locks' /\ Clears'
    BY <1>1, <1>2, <2>1, <2>6, <2>7, <2>9, <2>10, TaskTaken
  <2>13. thread'[t] = w /\ \A u \in R!Threads \ {t} : thread'[u] = thread[u]
    BY <1>1, <2>1 DEF Tasks
  <2>14. Relied'
    <3>1. \A u \in Requests \ {t} : thread'[u] = thread[u] /\ thread[u] \notin Streams \cup Saving
      <4>1. \A u \in Requests \ {t} : ~R!Locked(u)
        BY <1>1, <1>2 DEF Locks
      <4> QED
        BY <1>1, <2>13, <4>1, TaskKinds DEF R!Threads
    <3>2. ASSUME NEW u \in Requests \ {t}
          PROVE  Relies(u)'
      BY <3>1 DEF Relies, Saving
    <3>3. n \in R!Present(s)
      BY <2>5
    <3>4. Relies(t)'
      BY <2>4, <2>5, <2>6, <2>7, <2>10, <2>13, <3>3 DEF Relies
    <3> QED
      BY <3>2, <3>4 DEF Relied
  <2>15. OnDisk'
    <3>1. \A i : Going(i) => Going(i)'
      BY <1>1, <2>13 DEF Going, R!Threads
    <3>2. ~stale => manifest # None /\ R!InState(manifest, n, {"RECORDING"})
      BY <1>1, <1>2, <1>4 DEF Relied, Relies
    <3>3. ~stale => manifest.chunks[n].media = None
      BY <1>1, <2>2, <3>2 DEF Tasks, Fits, R!InState, R!Present
    <3>4. \A i \in R!Present(manifest) : i = n \/ stored'[i] = stored[i]
      BY <2>10 DEF R!Present
    <3> QED
      BY <1>1, <3>1, <3>3, <3>4, OnDiskKept
  <2> QED
    BY <2>11, <2>12, <2>14, <2>15 DEF RInv
<1> QED
  BY <1>3, <1>4

\* The event of an upload is set; those at their bodies are told.
LEMMA SignalKeeps ==
  ASSUME RInv, NEW i \in R!Index, R!SignalUpload(i)
  PROVE  RInv'
<1>1. /\ UNCHANGED <<manifest, stored, thread, supplied, crossed, cut, stale>>
      /\ cancelled' = cancelled \cup {event[i]}
      /\ asked' \subseteq asked \cup ({event[i]} \cap {t \in Requests : thread[t].pc \in {"wait", "stream"}})
  BY DEF R!SignalUpload, R!disk
<1>2. Tasks' /\ Locks'
  BY <1>1 DEF RInv, Tasks, Locks, R!Locked
<1>3. Relied' /\ OnDisk' /\ Clears'
  <2>1. \A u : Relies(u) => Relies(u)'
    BY <1>1 DEF Relies
  <2>2. \A j : Going(j) => Going(j)'
    BY <1>1 DEF Going
  <2>3. OnDisk'
    BY <1>1, <2>2, OnDiskKept DEF RInv
  <2> QED
    BY <1>1, <2>1, <2>3 DEF RInv, Relied, Clears, R!Present
<1>4. Cancelling'
  BY <1>1 DEF RInv, Cancelling
<1> QED
  BY <1>2, <1>3, <1>4 DEF RInv

\* A copy is saved: that of the only operation at work, or that of one of two.
LEMMA SaveKeeps ==
  ASSUME RInv, NEW t \in R!Threads, R!Save(t)
  PROVE  RInv'
<1> PICK w : w = thread[t]
  OBVIOUS
<1>1. /\ w.pc = "save" /\ manifest' = w.write /\ stale' = (stale \/ manifest # w.read)
      /\ thread' = [thread EXCEPT ![t] = R!Idle]
      /\ supplied' = IF "text" \in DOMAIN w THEN R!Present(w.write)
                     ELSE supplied \cap R!Present(w.write)
      /\ cancelled' = cancelled \ {t}
      /\ UNCHANGED <<stored, asked, crossed, cut>>
      /\ Tasks /\ Locks /\ Relied /\ OnDisk /\ Clears /\ Cancelling
      /\ Processor \in R!Threads /\ Processor \notin Requests
      /\ \A u \in R!Threads : u = Processor \/ u \in Requests
      /\ Requests \subseteq R!Threads
  BY RequestConstants DEF RInv, R!Save
<1>2. /\ w \in Saving /\ Copied(w) /\ R!Locked(t) /\ w.read \in R!Sessions /\ w.write \in R!Sessions
      /\ w.read # None /\ w.write # None
  BY <1>1, TaskKinds, Kinds, RequestConstants DEF Tasks, R!Locked
<1>3. /\ thread' \in [R!Threads -> {R!Idle} \cup Waits \cup Streams \cup Saving]
      /\ thread'[t] = R!Idle /\ \A u \in R!Threads \ {t} : thread'[u] = thread[u]
  BY <1>1 DEF Tasks
<1>4. ~R!Locked(t)' /\ (\A u \in R!Threads \ {t} : R!Locked(u)' <=> R!Locked(u))
      /\ R!Idle \notin Streams \cup Saving
  BY <1>3, Kinds DEF R!Locked
<1>5. Tasks'
  <2>1. Fits(w.write)
    BY <1>2 DEF Copied
  <2>2. \A u \in R!Threads :
          /\ R!Locked(u)' => Fits(thread'[u].read)
          /\ thread'[u] \in Streams => Uploading(thread'[u])
          /\ thread'[u] \in Saving => Copied(thread'[u])
    BY <1>1, <1>3, <1>4 DEF Tasks
  <2>3. thread'[Processor] \in {R!Idle} \cup Plain
        /\ (thread'[Processor] \in Plain => Untouched(thread'[Processor]))
    BY <1>1, <1>3, <1>4 DEF Tasks, Saving
  <2> QED
    BY <1>1, <1>2, <1>3, <2>1, <2>2, <2>3 DEF Tasks
<1>6. Locks'
  <2>1. stale' => crossed
    BY <1>1, <1>2 DEF Locks
  <2>2. ~crossed => \A u \in R!Threads : ~R!Locked(u)'
    BY <1>1, <1>2, <1>4 DEF Locks
  <2> QED
    BY <1>1, <1>4, <2>1, <2>2 DEF Locks
<1>7. Cancelling'
  <2>1. t \notin asked
    BY <1>1 DEF Cancelling
  <2> QED
    BY <1>1, <1>3, <2>1 DEF Cancelling
<1>8. Relied'
  <2> SUFFICES ASSUME ~stale, manifest = w.read, NEW u \in Requests
               PROVE  Relies(u)'
    BY <1>1 DEF Relied
  <2>1. CASE u = t
    BY <1>3, <1>4, <2>1 DEF Relies, Saving
  <2>2. CASE u # t /\ t \in Requests
    <3>1. ~R!Locked(u)
      BY <1>1, <1>2, <2>2 DEF Locks
    <3>2. thread'[u] = thread[u] /\ thread[u] \notin Streams \cup Saving
      BY <1>1, <1>3, <2>2, <3>1, TaskKinds
    <3> QED
      BY <3>2 DEF Relies, Saving
  <2>3. CASE t = Processor
    <3>1. w \in Plain /\ Untouched(w)
      <4>1. w # R!Idle
        BY <1>1, Kinds
      <4> QED
        BY <1>1, <2>3, <4>1 DEF Tasks
    <3>2. thread'[u] = thread[u] /\ Relies(u)
      BY <1>1, <1>3, <2>3 DEF Relied
    <3>3. manifest # None
      BY <1>2
    <3>4. \A n \in R!Index : /\ R!InState(manifest, n, {"RECORDING"}) => R!InState(w.write, n, {"RECORDING"})
                             /\ R!InState(manifest, n, {"CANCELLED"}) => R!InState(w.write, n, {"CANCELLED"})
      BY <3>1 DEF Untouched, R!InState, R!Present
    <3>5. /\ thread[u] \in Streams => thread[u].index \in R!Index
          /\ thread[u] \in Unlinks => thread[u].file \in R!Index
      BY DEF Streams, Unlinks
    <3> QED
      BY <1>1, <1>2, <3>2, <3>3, <3>4, <3>5 DEF Relies
  <2> QED
    BY <1>1, <2>1, <2>2, <2>3
<1>9. OnDisk'
  <2> SUFFICES ASSUME ~stale, manifest = w.read, cut => w.write.status = "ACTIVE",
                      NEW i \in R!Present(w.write)
               PROVE  w.write.chunks[i].media \in {None, stored[i]} \/ Going(i)'
    BY <1>1 DEF OnDisk
  <2>1. CASE i \notin R!Present(w.read)
    BY <1>2, <2>1 DEF Copied
  <2>2. CASE i \in R!Present(w.read) /\ w.write.chunks[i].media = w.read.chunks[i].media
    <3>1. w.write.status = "ACTIVE" => w.read.status = "ACTIVE"
      BY <1>2 DEF Copied
    <3>2. manifest.chunks[i].media \in {None, stored[i]} \/ Going(i)
      BY <1>1, <1>2, <2>2, <3>1 DEF OnDisk
    <3>3. Going(i) => Going(i)'
      <4> SUFFICES ASSUME NEW u \in Requests, thread[u] \in Unlinks, thread[u].pc = "save",
                          thread[u].file = i
                   PROVE  Going(i)'
        BY DEF Going
      <4>1. u # t
        BY <1>2 DEF Copied
      <4>2. thread'[u] = thread[u]
        BY <1>1, <1>3, <4>1
      <4> QED
        BY <4>2 DEF Going
    <3> QED
      BY <2>2, <3>2, <3>3
  <2>3. CASE w \in Stores /\ w.index = i
    <3>1. t \in Requests
      <4>1. t # Processor
        BY <1>1, <2>3, Kinds DEF Tasks, Saving
      <4> QED
        BY <1>1, <4>1
    <3>2. Relies(t)
      BY <1>1, <3>1 DEF Relied
    <3>3. manifest # None
      BY <1>2
    <3> QED
      BY <2>3, <3>2, <3>3 DEF Relies
  <2> QED
    BY <1>2, <2>1, <2>2, <2>3 DEF Copied
<1>10. Clears'
  <2>1. supplied' \subseteq R!Present(w.write)
    BY <1>1
  <2>2. ASSUME ~stale, manifest = w.read, NEW i \in supplied'
        PROVE  w.write.chunks[i].available /\ ~w.write.chunks[i].required
    <3>1. CASE w \in Texts
      BY <1>2, <2>1, <2>2, <3>1 DEF Copied
    <3>2. CASE w \notin Texts
      <4>1. i \in supplied /\ i \in R!Present(w.write)
        BY <1>1, <1>2, <2>2, <3>2, Kinds
      <4>2. i \in R!Present(w.read) /\ w.read.chunks[i].available /\ ~w.read.chunks[i].required
        BY <1>1, <1>2, <2>2, <4>1 DEF Clears
      <4> QED
        BY <1>2, <4>1, <4>2 DEF Copied, Becomes
    <3> QED
      BY <3>1, <3>2
  <2> QED
    BY <1>1, <1>2, <2>1, <2>2 DEF Clears
<1> QED
  BY <1>5, <1>6, <1>7, <1>8, <1>9, <1>10 DEF RInv

\* A new session, when nobody is at work.
LEMMA CreateKeeps ==
  ASSUME RInv, R!CreateSession
  PROVE  RInv'
<1>1. /\ manifest = None /\ (\A t \in R!Threads : ~R!Locked(t))
      /\ \E test \in BOOLEAN : manifest' = R!New(test)
      /\ UNCHANGED <<stored, thread, cancelled, asked, supplied, crossed, cut, stale>>
      /\ Tasks /\ Locks /\ Clears
  BY DEF RInv, R!CreateSession, R!uploads
<1>2. manifest' \in R!Sessions /\ R!Present(manifest') = {}
  <2>1. PICK test \in BOOLEAN : manifest' = R!New(test)
    BY <1>1
  <2>2. R!NoFiles \in [R!Index -> R!Chunks \cup {None}] /\ \A i \in R!Index : R!NoFiles[i] = None
    BY DEF R!NoFiles
  <2>3. R!New(test) \in R!Sessions /\ R!New(test).chunks = R!NoFiles
    BY <2>2 DEF R!New, R!Sessions
  <2> QED
    BY <2>1, <2>2, <2>3 DEF R!Present
<1>3. Tasks' /\ Locks' /\ Cancelling'
  <2>1. \A t \in R!Threads : ~R!Locked(t)'
    BY <1>1 DEF R!Locked
  <2>2. Tasks'
    BY <1>1, <1>2, <2>1 DEF Tasks, Fits
  <2>3. Requests \subseteq R!Threads
    BY DEF R!Threads
  <2>4. Locks'
    BY <1>1, <2>1, <2>3 DEF Locks
  <2> QED
    BY <1>1, <2>2, <2>4 DEF RInv, Cancelling
<1>4. Relied'
  <2>1. \A u \in Requests : thread'[u] = thread[u] /\ thread[u] \notin Streams \cup Saving
    BY <1>1, TaskKinds DEF R!Threads
  <2> QED
    BY <2>1 DEF Relied, Relies, Saving
<1>5. OnDisk' /\ Clears'
  BY <1>1, <1>2 DEF OnDisk, Clears
<1> QED
  BY <1>3, <1>4, <1>5 DEF RInv

\* The folder of a session goes, with the bodies of uploads under way.
LEMMA RemovedKeeps ==
  ASSUME RInv, R!Removed, UNCHANGED <<cancelled, asked, cut, stale>>,
         crossed => crossed', ~crossed' => \A u \in R!Threads : ~R!Locked(u)
  PROVE  RInv'
<1>1. /\ manifest' = None /\ stored' = R!NoFiles /\ supplied' = {}
      /\ thread' = [u \in R!Threads |-> IF thread[u].pc \in {"stream", "media"}
                                        THEN [thread[u] EXCEPT !.staged = FALSE] ELSE thread[u]]
      /\ Tasks /\ Locks
      /\ Processor \in R!Threads /\ Requests \subseteq R!Threads
  BY RequestConstants DEF RInv, R!Removed
<1>2. ASSUME NEW u \in R!Threads
      PROVE  /\ thread'[u] \in {R!Idle} \cup Waits \cup Streams \cup Saving
             /\ thread'[u].pc = thread[u].pc
             /\ \/ thread'[u] = thread[u]
                \/ /\ thread[u] \in Streams /\ thread'[u] \in Streams /\ ~thread'[u].staged
                   /\ thread'[u].read = thread[u].read /\ thread'[u].index = thread[u].index
  <2>1. CASE thread[u].pc \in {"stream", "media"}
    <3>1. thread[u] \in Streams /\ thread'[u] = [thread[u] EXCEPT !.staged = FALSE]
      BY <1>1, <2>1, TaskKinds
    <3> QED
      BY <3>1 DEF Streams
  <2>2. CASE thread[u].pc \notin {"stream", "media"}
    BY <1>1, <2>2 DEF Tasks
  <2> QED
    BY <2>1, <2>2
<1>3. \A u \in R!Threads : R!Locked(u)' <=> R!Locked(u)
  BY <1>2 DEF R!Locked
<1>4. \A u \in R!Threads : R!Locked(u) => thread'[u].read = thread[u].read
  BY <1>2
<1>5. \A w \in Streams : w \notin Saving /\ w \notin Stores /\ w \notin Unlinks
  BY Kinds DEF Saving
<1>6. Tasks'
  <2>1. thread' \in [R!Threads -> {R!Idle} \cup Waits \cup Streams \cup Saving]
    BY <1>1, <1>2
  <2>2. stored' \in [R!Index -> R!Bodies \cup {None}]
    BY <1>1 DEF R!NoFiles
  <2>3. \A u \in R!Threads :
          /\ R!Locked(u)' => Fits(thread'[u].read)
          /\ thread'[u] \in Streams => Uploading(thread'[u])
          /\ thread'[u] \in Saving => Copied(thread'[u])
    <3>1. \A u \in R!Threads : thread'[u] \in Streams => Uploading(thread'[u])
      BY <1>1, <1>2 DEF Tasks, Uploading
    <3> QED
      BY <1>1, <1>2, <1>3, <1>4, <1>5, <3>1 DEF Tasks
  <2>4. thread'[Processor] = thread[Processor]
    BY <1>1, <1>2, <1>5, Kinds DEF Tasks, Saving
  <2> QED
    BY <1>1, <2>1, <2>2, <2>3, <2>4 DEF Tasks
<1>7. Locks' /\ Cancelling'
  <2>1. Locks'
    BY <1>1, <1>3 DEF Locks
  <2>2. Cancelling'
    BY <1>1, <1>2 DEF RInv, Cancelling
  <2> QED
    BY <2>1, <2>2
<1>8. Relied'
  <2>1. ASSUME NEW u \in Requests
        PROVE  Relies(u)'
    <3>1. thread'[u] = thread[u] \/ (thread'[u] \in Streams /\ ~thread'[u].staged)
      BY <1>1, <1>2
    <3>2. thread[u] \in Streams /\ thread'[u] = thread[u] => ~thread[u].staged
      BY <1>1, TaskKinds DEF Streams
    <3> QED
      BY <1>1, <1>5, <3>1, <3>2 DEF Relies
  <2> QED
    BY <2>1 DEF Relied
<1>9. OnDisk' /\ Clears'
  BY <1>1 DEF OnDisk, Clears
<1> QED
  BY <1>6, <1>7, <1>8, <1>9 DEF RInv

\* A session is deleted: under the lock, or as a test session.
LEMMA DeletionKeeps ==
  ASSUME RInv, NEW t \in Requests, R!DeleteSession(t) \/ R!DeleteTestSession(t)
  PROVE  RInv'
<1>1. R!Removed /\ UNCHANGED <<cancelled, asked, cut, stale>>
  BY DEF R!DeleteSession, R!DeleteTestSession, R!uploads
<1>2. crossed' \/ (~crossed /\ \A u \in R!Threads : ~R!Locked(u))
  BY DEF R!DeleteSession, R!DeleteTestSession, R!LockFree, R!Meets
<1>3. crossed => crossed'
  BY DEF R!DeleteSession, R!DeleteTestSession, R!Meets
<1> QED
  BY <1>1, <1>2, <1>3, RemovedKeeps

\* What is found at a start: a chunk keeps its media unless its file is gone.
LEMMA ReconciledChunks ==
  ASSUME Tasks, manifest # None, NEW i \in R!Present(manifest)
  PROVE  LET b == manifest.chunks[i]
             c == R!ReconciledChunk(i)
         IN  /\ c \in R!Chunks /\ c # None
             /\ c.available = b.available /\ c.required = b.required
             /\ \/ b.state = "RECORDING" /\ c.state = "UPLOAD_CANCELLED" /\ c.media = b.media
                \/ c = b
                \/ /\ R!Playable(b) /\ stored[i] = None /\ c.state = "FAILED" /\ c.media = None
<1> DEFINE b == manifest.chunks[i]
           c == R!ReconciledChunk(i)
<1>1. b \in R!Chunks /\ b # None
  BY ManifestKinds DEF Tasks
<1>2. CASE b.state = "RECORDING"
  <2>1. c = [b EXCEPT !.state = "UPLOAD_CANCELLED"]
    BY <1>1, <1>2 DEF R!ReconciledChunk
  <2>2. c \in R!Chunks /\ c.available = b.available /\ c.required = b.required
        /\ c.state = "UPLOAD_CANCELLED" /\ c.media = b.media
    BY <1>1, <2>1 DEF R!Chunks, R!ChunkStates
  <2> HIDE DEF c
  <2> QED
    BY <1>2, <2>2, RequestConstants DEF c
<1>3. CASE b.state # "RECORDING" /\ R!Playable(b) /\ stored[i] = None
  <2>1. c = [b EXCEPT !.state = "FAILED", !.media = None]
    BY <1>1, <1>3 DEF R!ReconciledChunk
  <2>2. c \in R!Chunks /\ c.available = b.available /\ c.required = b.required
        /\ c.state = "FAILED" /\ c.media = None
    BY <1>1, <2>1 DEF R!Chunks, R!ChunkStates
  <2> HIDE DEF c
  <2> QED
    BY <1>3, <2>2, RequestConstants DEF c
<1>4. CASE b.state # "RECORDING" /\ ~(R!Playable(b) /\ stored[i] = None)
  <2>1. c = b
    BY <1>1, <1>4 DEF R!ReconciledChunk
  <2> QED
    BY <1>1, <2>1
<1> QED
  BY <1>2, <1>3, <1>4

\* The manifest after a start: what was ACTIVE failed.
LEMMA ReconciledManifest ==
  ASSUME Tasks, R!Restart
  PROVE  /\ manifest' \in R!Sessions \cup {None}
         /\ manifest' = None <=> manifest = None
         /\ manifest' # None =>
              /\ manifest'.status # "ACTIVE" /\ R!Present(manifest') = R!Present(manifest)
              /\ manifest'.status = manifest.status
                 \/ (manifest.status = "ACTIVE" /\ manifest'.status = "FAILED")
              /\ \A i \in R!Present(manifest) :
                   \/ manifest'.chunks[i] = manifest.chunks[i]
                   \/ /\ manifest.status = "ACTIVE"
                      /\ manifest'.chunks[i] = R!ReconciledChunk(i)
<1>1. manifest' = IF manifest # None /\ manifest.status = "ACTIVE"
                  THEN [manifest EXCEPT !.status = "FAILED",
                          !.chunks = [i \in R!Index |-> R!ReconciledChunk(i)]]
                  ELSE manifest
  BY DEF R!Restart
<1>2. CASE manifest # None /\ manifest.status = "ACTIVE"
  <2> DEFINE f == [i \in R!Index |-> R!ReconciledChunk(i)]
  <2>1. manifest \in R!Sessions
    BY <1>2 DEF Tasks
  <2>2. \A i \in R!Index : i \notin R!Present(manifest) => R!ReconciledChunk(i) = None
    BY DEF R!Present, R!ReconciledChunk
  <2>3. \A i \in R!Index :
          /\ R!ReconciledChunk(i) \in R!Chunks \cup {None}
          /\ R!ReconciledChunk(i) # None <=> i \in R!Present(manifest)
    BY <1>2, <2>2, ReconciledChunks
  <2>4. f \in [R!Index -> R!Chunks \cup {None}] /\ \A i \in R!Index : f[i] = R!ReconciledChunk(i)
    BY <2>3
  <2>5. manifest' = [manifest EXCEPT !.status = "FAILED", !.chunks = f]
    BY <1>1, <1>2
  <2> HIDE DEF f
  <2>6. manifest' \in R!Sessions /\ manifest'.status = "FAILED" /\ manifest'.chunks = f
    BY <2>1, <2>4, <2>5 DEF R!Sessions
  <2>7. R!Present(manifest') = R!Present(manifest)
    BY <2>3, <2>4, <2>6 DEF R!Present
  <2>8. \A i \in R!Present(manifest) : i \in R!Index
    BY DEF R!Present
  <2> QED
    BY <1>2, <2>4, <2>6, <2>7, <2>8, RequestConstants
<1>3. CASE ~(manifest # None /\ manifest.status = "ACTIVE")
  BY <1>1, <1>3 DEF Tasks
<1> QED
  BY <1>2, <1>3

\* The dashboard starts again, with the processor or without.
LEMMA RestartKeepsRequests ==
  ASSUME RInv, R!Restart
  PROVE  RInv'
<1>1. /\ Tasks /\ Locks /\ OnDisk /\ Clears /\ Relied
      /\ Processor \in R!Threads /\ Requests \subseteq R!Threads /\ Processor \notin Requests
      /\ \A u \in R!Threads : u = Processor \/ u \in Requests
      /\ asked' = {} /\ UNCHANGED <<stored, supplied, stale>>
      /\ crossed' = (crossed \/ \E t \in R!Threads : R!Locked(t))
  BY RequestConstants DEF RInv, R!Restart
<1>2. PICK killed \in {Requests, R!Threads} :
        /\ thread' = [t \in R!Threads |-> IF t \in killed THEN R!Idle ELSE thread[t]]
        /\ cut' = (cut \/ \E t \in killed : thread[t].pc = "save" /\ "file" \in DOMAIN thread[t])
  BY Zenon DEF R!Restart
<1>3. /\ thread' \in [R!Threads -> {R!Idle} \cup Waits \cup Streams \cup Saving]
      /\ \A u \in R!Threads : thread'[u] \in {R!Idle, thread[u]}
      /\ \A u \in Requests : thread'[u] = R!Idle
  BY <1>1, <1>2 DEF Tasks
<1>4. R!Idle \notin Streams \cup Saving /\ R!Idle.pc = "idle"
  BY Kinds
<1>5. (\A u \in R!Threads : R!Locked(u)' => R!Locked(u) /\ thread'[u] = thread[u])
      /\ \A u \in Requests : ~R!Locked(u)'
  BY <1>1, <1>3, <1>4 DEF R!Locked
<1> DEFINE old(i) == manifest.chunks[i]
<1>6. ASSUME manifest' # None
      PROVE  /\ manifest # None
             /\ R!Present(manifest') = R!Present(manifest)
  BY <1>1, <1>6, ReconciledManifest
<1>7. ASSUME manifest' # None, NEW i \in R!Present(manifest)
      PROVE  /\ manifest'.chunks[i].available = old(i).available
             /\ manifest'.chunks[i].required = old(i).required
             /\ manifest'.chunks[i].media \in {None, old(i).media}
             /\ manifest'.chunks[i].state \in {"RECORDING", "UPLOAD_CANCELLED"} =>
                  /\ old(i).state \in {"RECORDING", "UPLOAD_CANCELLED"}
                  /\ manifest'.chunks[i].media = old(i).media
  BY <1>1, <1>7, ReconciledManifest, ReconciledChunks
<1>8. Tasks'
  <2>1. manifest' # None => Fits(manifest')
    BY <1>1, <1>6, <1>7, ReconciledManifest DEF Tasks, Fits
  <2>2. \A u \in R!Threads :
          /\ R!Locked(u)' => Fits(thread'[u].read)
          /\ thread'[u] \in Streams => Uploading(thread'[u])
          /\ thread'[u] \in Saving => Copied(thread'[u])
    BY <1>1, <1>3, <1>4, <1>5 DEF Tasks
  <2>3. thread'[Processor] \in {R!Idle} \cup Plain
        /\ (thread'[Processor] \in Plain => Untouched(thread'[Processor]))
    BY <1>1, <1>3, <1>4 DEF Tasks, Saving
  <2>4. manifest' \in R!Sessions \cup {None}
    BY <1>1, ReconciledManifest
  <2> QED
    BY <1>1, <1>3, <2>1, <2>2, <2>3, <2>4 DEF Tasks
<1>9. Locks' /\ Cancelling'
  <2>1. ~crossed' => ~crossed /\ \A u \in R!Threads : ~R!Locked(u)'
    BY <1>1, <1>5
  <2>2. stale' => crossed'
    BY <1>1 DEF Locks
  <2> QED
    BY <1>1, <1>5, <2>1, <2>2 DEF Locks, Cancelling
<1>10. Relied'
  BY <1>1, <1>3, <1>4 DEF Relied, Relies, Saving
<1>11. OnDisk'
  <2> SUFFICES ASSUME ~stale, manifest' # None, cut' => manifest'.status = "ACTIVE",
                      NEW i \in R!Present(manifest)
               PROVE  manifest'.chunks[i].media \in {None, stored[i]}
    BY <1>1, <1>6 DEF OnDisk
  <2>1. ~cut' /\ manifest # None
    BY <1>1, ReconciledManifest
  <2>2. ~cut /\ \A t \in Requests : ~(thread[t].pc = "save" /\ "file" \in DOMAIN thread[t])
    BY <1>1, <1>2, <2>1
  <2>3. ~Going(i)
    <3>1. \A t \in Requests : thread[t] \in Unlinks => "file" \in DOMAIN thread[t]
      BY Kinds DEF Saving
    <3> QED
      BY <2>2, <3>1 DEF Going
  <2>4. old(i).media \in {None, stored[i]}
    BY <1>1, <2>1, <2>2, <2>3 DEF OnDisk
  <2> QED
    BY <1>7, <2>4
<1>12. Clears'
  <2>1. manifest' = None => supplied = {}
    BY <1>1, ReconciledManifest DEF Clears
  <2>2. manifest' # None => supplied \subseteq R!Present(manifest) /\ manifest # None
    BY <1>1, <1>6, ReconciledManifest DEF Clears
  <2>3. ~stale => \A i \in supplied : manifest'.chunks[i].available /\ ~manifest'.chunks[i].required
    BY <1>1, <1>7, <2>1, <2>2 DEF Clears
  <2> QED
    BY <1>1, <1>6, <2>1, <2>2, <2>3 DEF Clears
<1> QED
  BY <1>8, <1>9, <1>10, <1>11, <1>12 DEF RInv

\* Before the first request.
LEMMA RequestInit == Init => RInv
<1> SUFFICES ASSUME Init
             PROVE  RInv
  OBVIOUS
<1>1. /\ manifest = None /\ stored = R!NoFiles /\ thread = [t \in R!Threads |-> R!Idle]
      /\ asked = {} /\ supplied = {} /\ crossed = FALSE /\ cut = FALSE /\ stale = FALSE
      /\ Processor \in R!Threads /\ Requests \subseteq R!Threads
  BY RequestConstants DEF Init, R!Init
<1>2. /\ R!Idle \notin Streams \cup Saving
      /\ \A t \in R!Threads : thread[t] = R!Idle /\ ~R!Locked(t)
  BY <1>1, Kinds DEF R!Locked
<1>3. Tasks
  <2>1. stored \in [R!Index -> R!Bodies \cup {None}]
    BY <1>1 DEF R!NoFiles
  <2>2. R!Idle \notin Plain
    BY <1>2 DEF Saving
  <2> QED
    BY <1>1, <1>2, <2>1, <2>2 DEF Tasks
<1>4. Relied
  BY <1>1, <1>2 DEF Relied, Relies, Saving
<1> QED
  BY <1>1, <1>2, <1>3, <1>4 DEF RInv, Locks, Cancelling, OnDisk, Clears

\* The steps of a request.
LEMMA GoesKeep ==
  ASSUME RInv, NEW t \in Requests, R!Goes(t)
  PROVE  RInv'
<1>1. CASE R!UploadFails(t)
  <2>1. /\ R!Leaves(t) /\ thread[t].pc # "save"
        /\ UNCHANGED <<manifest, stored, supplied, crossed, cut, stale>>
    BY <1>1 DEF R!UploadFails, R!disk
  <2> QED
    BY <2>1, LeavesKeeps
<1> QED
  BY <1>1, SidecarKeeps, UnlinkKeeps, BeginUploadKeeps, EndOfBodyKeeps, WriteMediaKeeps DEF R!Goes

\* Every step of the requests keeps the invariant.
LEMMA RequestNext == RInv /\ [Next]_<<part, chunks, completing, capture, requesting, table>> => RInv'
<1> SUFFICES ASSUME RInv, [Next]_<<part, chunks, completing, capture, requesting, table>>
             PROVE  RInv'
  OBVIOUS
<1>1. CASE UNCHANGED requesting
  <2>1. UNCHANGED <<manifest, stored, thread, cancelled, asked, supplied, crossed, cut, stale>>
    BY <1>1 DEF requesting
  <2>2. Tasks' /\ Locks' /\ Cancelling'
    BY <2>1 DEF RInv, Tasks, Locks, Cancelling, R!Locked
  <2>3. \A u : Relies(u) => Relies(u)'
    BY <2>1 DEF Relies
  <2>4. \A i : Going(i) => Going(i)'
    BY <2>1 DEF Going
  <2>5. OnDisk'
    BY <2>1, <2>4, OnDiskKept DEF RInv
  <2>6. Relied' /\ Clears'
    BY <2>1, <2>3 DEF RInv, Relied, Clears, R!Present
  <2> QED
    BY <2>2, <2>5, <2>6 DEF RInv
<1>2. CASE R!Next
  <2>1. CASE \E t \in Requests : R!SessionRequest(t)
    <3>1. PICK t \in Requests : R!SessionRequest(t)
      BY <2>1
    <3> QED
      BY <3>1, SessionRequestKeeps, DeletionKeeps, AssociateKeeps DEF R!SessionRequest
  <2>2. CASE \E t \in Requests, i \in R!Index : R!ChunkRequest(t, i)
    <3>1. PICK t \in Requests, i \in R!Index : R!ChunkRequest(t, i)
      BY <2>2
    <3> QED
      BY <3>1, UploadWaits, ChunkRequestKeeps, DeleteChunkKeeps DEF R!ChunkRequest
  <2>3. CASE \E i \in R!Index :
               \/ R!SignalUpload(i) \/ R!Take(i) \/ R!GiveUp(i)
               \/ \E transcribed \in BOOLEAN : R!Complete(i, transcribed)
    BY <2>3, SignalKeeps, ProcessorLoads
  <2>4. CASE \E t \in Requests : R!StartChunk(t) \/ R!Goes(t)
    BY <2>4, StartKeeps, GoesKeep
  <2>5. CASE \E t \in R!Threads : R!Save(t)
    BY <2>5, SaveKeeps
  <2>6. CASE R!CreateSession \/ R!Restart
    BY <2>6, CreateKeeps, RestartKeepsRequests
  <2> QED
    BY <1>2, <2>1, <2>2, <2>3, <2>4, <2>5, <2>6 DEF R!Next
<1> QED
  BY <1>1, <1>2 DEF Next, Quiet

\* What the invariant says of the chunks.
LEMMA RequestsImply == RInv => R!ChunksSound
<1> SUFFICES ASSUME RInv
             PROVE  R!ChunksSound
  OBVIOUS
<1>1. R!LostOnlyAcross
  BY DEF RInv, Locks, R!LostOnlyAcross
<1>2. R!CancelStopsUpload
  BY DEF RInv, Cancelling, R!CancelStopsUpload
<1>3. R!PlayableHasMedia
  <2> SUFFICES ASSUME manifest # None, ~stale, ~cut, NEW i \in R!Present(manifest),
                      R!Playable(manifest.chunks[i])
               PROVE  stored[i] = manifest.chunks[i].media
    BY DEF R!PlayableHasMedia
  <2>1. ~Going(i)
    BY DEF RInv, Relied, Relies, Going, R!InState, R!Playable
  <2> QED
    BY <2>1 DEF RInv, OnDisk, R!Playable
<1>4. R!TranscriptClears
  BY DEF RInv, Clears, R!TranscriptClears
<1> QED
  BY <1>1, <1>2, <1>3, <1>4 DEF R!ChunksSound

\* Which steps give the manifest another value.
LEMMA ManifestChanges ==
  ASSUME R!Next
  PROVE  \/ UNCHANGED manifest \/ manifest' = None
         \/ R!CreateSession \/ R!Restart \/ \E t \in R!Threads : R!Save(t)
<1>1. ASSUME NEW t \in Requests, R!SessionRequest(t) \/ R!StartChunk(t)
      PROVE  UNCHANGED manifest \/ manifest' = None
  BY <1>1 DEF R!SessionRequest, R!StartChunk, R!SetCrop, R!FinalizeSession, R!DeleteSession,
     R!DeleteTestSession, R!AssociateTranscript, R!Loads, R!disk, R!Removed
<1>2. ASSUME NEW t \in Requests, R!Goes(t)
      PROVE  UNCHANGED manifest
  BY <1>2 DEF R!Goes, R!WriteSidecar, R!Unlink, R!BeginUpload, R!EndOfBody, R!UploadFails,
     R!WriteMedia, R!disk
<1>3. ASSUME NEW t \in Requests, NEW i \in R!Index, R!ChunkRequest(t, i)
      PROVE  UNCHANGED manifest
  BY <1>3 DEF R!ChunkRequest, R!Upload, R!CancelUpload, R!RetryUpload, R!CancelProcessing,
     R!RetryProcessing, R!DeleteCancelled, R!DetectAudio, R!Loads, R!disk
<1>4. ASSUME NEW i \in R!Index,
             \/ R!SignalUpload(i) \/ R!Take(i) \/ R!GiveUp(i)
             \/ \E transcribed \in BOOLEAN : R!Complete(i, transcribed)
      PROVE  UNCHANGED manifest
  BY <1>4 DEF R!SignalUpload, R!Take, R!GiveUp, R!Complete, R!Loads, R!disk
<1>5. CASE \E t \in Requests : R!SessionRequest(t) \/ R!StartChunk(t)
  BY <1>1, <1>5
<1>6. CASE \E t \in Requests : R!Goes(t)
  BY <1>2, <1>6
<1>7. CASE \E t \in Requests, i \in R!Index : R!ChunkRequest(t, i)
  BY <1>3, <1>7
<1>8. CASE \E i \in R!Index :
             \/ R!SignalUpload(i) \/ R!Take(i) \/ R!GiveUp(i)
             \/ \E transcribed \in BOOLEAN : R!Complete(i, transcribed)
  BY <1>4, <1>8
<1> QED
  BY <1>5, <1>6, <1>7, <1>8 DEF R!Next

\* What is said of one step: a session begins empty, and moves along its state machines.
Allowed ==
  /\ manifest = None /\ manifest' # None => manifest' \in {R!New(TRUE), R!New(FALSE)}
  /\ manifest # None /\ manifest' # None =>
       /\ manifest'.status # manifest.status =>
            manifest'.status \in R!SessionTransitions(manifest.status)
       /\ \A i \in R!Present(manifest) \cap R!Present(manifest') :
            manifest'.chunks[i].state # manifest.chunks[i].state =>
              manifest'.chunks[i].state \in R!ChunkTransitions(manifest.chunks[i].state)

\* A save that is not stale replaces the manifest it read, as the copy owes to it.
LEMMA SaveIsAllowed ==
  ASSUME RInv, NEW t \in R!Threads, R!Save(t), ~stale'
  PROVE  Allowed
<1> PICK w : w = thread[t]
  OBVIOUS
<1>1. w.pc = "save" /\ manifest' = w.write /\ manifest = w.read
  BY DEF R!Save
<1>2. w \in Saving /\ Copied(w) /\ w.read \in R!Sessions /\ w.write \in R!Sessions
  BY <1>1, TaskKinds, Kinds DEF RInv, Tasks
<1>3. manifest # None
  BY <1>1, <1>2, RequestConstants
<1>4. w.write.status # w.read.status => w.write.status \in R!SessionTransitions(w.read.status)
  BY <1>2 DEF Copied, R!SessionTransitions
<1>5. \A i \in R!Present(w.read) \cap R!Present(w.write) :
        w.write.chunks[i].state \in {w.read.chunks[i].state} \cup R!ChunkTransitions(w.read.chunks[i].state)
  BY <1>2 DEF Copied, Becomes
<1> QED
  BY <1>1, <1>3, <1>4, <1>5 DEF Allowed

\* A start fails what was being recorded or lost its file, and no chunk that was processed
\* has lost it.
LEMMA RestartIsAllowed ==
  ASSUME RInv, R!Restart, ~stale'
  PROVE  Allowed
<1>1. Tasks /\ OnDisk /\ Relied /\ ~stale
  BY DEF RInv, R!Restart
<1>2. CASE manifest = None \/ manifest' = None
  BY <1>1, <1>2, ReconciledManifest DEF Allowed
<1>3. CASE manifest # None /\ manifest' # None
  <2>1. manifest'.status # manifest.status => manifest'.status \in R!SessionTransitions(manifest.status)
    BY <1>1, <1>3, ReconciledManifest DEF R!SessionTransitions
  <2>2. ASSUME NEW i \in R!Present(manifest), manifest.status = "ACTIVE",
               R!Playable(manifest.chunks[i]), stored[i] = None
        PROVE  FALSE
    <3>1. ~Going(i)
      BY <1>1, <1>3, <2>2 DEF Relied, Relies, Going, R!InState, R!Playable
    <3>2. manifest.chunks[i].media = None
      BY <1>1, <1>3, <2>2, <3>1 DEF OnDisk
    <3> QED
      BY <2>2, <3>2 DEF R!Playable
  <2>3. ASSUME NEW i \in R!Present(manifest), manifest'.chunks[i].state # manifest.chunks[i].state
        PROVE  manifest'.chunks[i].state \in R!ChunkTransitions(manifest.chunks[i].state)
    <3>1. manifest.status = "ACTIVE" /\ manifest'.chunks[i] = R!ReconciledChunk(i)
      BY <1>1, <1>3, <2>3, ReconciledManifest
    <3>2. \/ manifest.chunks[i].state = "RECORDING" /\ R!ReconciledChunk(i).state = "UPLOAD_CANCELLED"
          \/ R!ReconciledChunk(i) = manifest.chunks[i]
          \/ R!Playable(manifest.chunks[i]) /\ stored[i] = None
      BY <1>1, <1>3, ReconciledChunks
    <3>3. manifest.chunks[i].state = "RECORDING" /\ R!ReconciledChunk(i).state = "UPLOAD_CANCELLED"
      BY <2>2, <2>3, <3>1, <3>2
    <3> QED
      BY <3>1, <3>3 DEF R!ChunkTransitions
  <2> QED
    BY <1>3, <2>1, <2>3 DEF Allowed
<1> QED
  BY <1>2, <1>3

\* No step moves a saved state elsewhere, unless a save was stale.
LEMMA StepsAreAllowed ==
  ASSUME RInv, R!Next, ~stale'
  PROVE  Allowed
<1>1. CASE UNCHANGED manifest \/ manifest' = None
  BY <1>1 DEF Allowed
<1>2. CASE R!CreateSession
  BY <1>2 DEF Allowed, R!CreateSession
<1> QED
  BY <1>1, <1>2, ManifestChanges, SaveIsAllowed, RestartIsAllowed

\* Nothing is lost between the operations of one service, a cancelled upload writes nothing,
\* what is playable has its body, transcripts clear what they cover, and saved states move
\* along their state machines.
THEOREM CaptureIsSafe == Spec => CaptureSafe
<1>1. RInv => (part = "requests" => R!ChunksSound)
  BY RequestsImply
<1>2. RInv /\ [Next]_<<part, chunks, completing, capture, requesting, table>> =>
        [~stale' => Allowed]_R!vars
  <2> SUFFICES ASSUME RInv, [Next]_<<part, chunks, completing, capture, requesting, table>>,
                      R!vars' # R!vars, ~stale'
               PROVE  Allowed
    OBVIOUS
  <2>1. R!Next
    BY DEF Next, Quiet, requesting, R!vars, R!disk, R!uploads, R!bounds
  <2> QED
    BY <2>1, StepsAreAllowed
<1>3. [][~stale' => Allowed]_R!vars => R!MovesAsAllowed
  BY PTL DEF Allowed, R!MovesAsAllowed
<1> QED
  BY <1>1, <1>2, <1>3, RequestInit, RequestNext, PTL DEF Spec, CaptureSafe

-----------------------------------------------------------------------------
(* The table, see MediaTable.                                              *)

\* The constants of the table.
LEMMA TableConstants ==
  /\ "final" \notin Pieces /\ "session" \notin Logical
  /\ MaxTurns \in Nat /\ MaxWalks \in Nat /\ Gap \in Nat /\ Instants \subseteq Nat
BY IntakeAssumption DEF T!TableAssumption

\* What a row is made of, and what a request may be.
SeenSessions == [active : BOOLEAN, piece : [Pieces -> T!PieceStates], recorded : BOOLEAN]

Walking ==
  [at : {"walk"}, folders : SUBSET T!Folders, todo : SUBSET T!Media, sessionListed : BOOLEAN,
   videosListed : SUBSET Logical]

Rowing ==
  [at : {"row"}, folders : SUBSET T!Folders, todo : SUBSET T!Media, sessionListed : BOOLEAN,
   videosListed : SUBSET Logical, file : T!Media, session : SeenSessions]

Ended == [at : {"rest", "done", "error"}]

UnderWay == walk.at \in {"walk", "row"}

Shaped ==
  /\ T!TypeOK /\ walk \in Walking \cup Rowing \cup Ended
  /\ recorded => "final" \in onFile

\* The session has a row only after it was met.
Once == listing["session"] \in {0, 1} /\ (UnderWay /\ ~walk.sessionListed => listing["session"] = 0)

\* What a row offers is what its session says.
Offers == \A o \in offered : o.session \in SeenSessions /\ o.delete = T!DeleteOffered(o.session)

\* The files a walk has rows of, the videos they show, and those the session's row is due to.
Folder(f) == IF f = "final" THEN "final" ELSE "chunks"

Passed ==
  {f \in onFile : /\ Folder(f) \notin walk.folders /\ f \notin walk.todo
                  /\ ~(walk.at = "row" /\ walk.file = f)}

ByFile == {v \in Logical : IF recorded THEN "final" \in Passed ELSE cover[v] \cap Passed # {}}

ShownFiles == IF recorded THEN Passed \cap {"final"} ELSE Passed

\* What a walk with nothing beside it has still to look at, and what it has listed.
Calm == ~disturbed /\ ("final" \in onFile => recorded)

OnTrack ==
  /\ walk.todo \subseteq onFile /\ \A f \in walk.todo : Folder(f) \notin walk.folders
  /\ walk.at = "row" =>
       /\ walk.file \in onFile /\ walk.file \notin walk.todo
       /\ Folder(walk.file) \notin walk.folders
       /\ walk.file # "final" => ~recorded

Listed ==
  /\ \A v \in Logical : listing[v] = IF v \in confirmed /\ v \in ByFile THEN 1 ELSE 0
  /\ walk.sessionListed <=> ShownFiles # {}
  /\ listing["session"] = IF confirmed = {} /\ ShownFiles # {} THEN 1 ELSE 0
  /\ ~recorded => walk.videosListed = confirmed \cap ByFile

\* The inductive invariant of the table.
TInv ==
  /\ Shaped /\ Once /\ Offers
  /\ Calm /\ UnderWay => OnTrack /\ Listed
  /\ T!ListedOnce /\ T!ReadyIsCovered

\* What is kept of a request at each of its points.
LEMMA WalkKinds ==
  ASSUME Shaped
  PROVE  /\ walk.at = "walk" => walk \in Walking
         /\ walk.at = "row" => walk \in Rowing
         /\ UnderWay => /\ walk.folders \subseteq T!Folders /\ walk.todo \subseteq T!Media
                        /\ walk.sessionListed \in BOOLEAN /\ walk.videosListed \subseteq Logical
BY DEF Shaped, Walking, Rowing, Ended, UnderWay

\* What changes beside a walk says nothing of it.
LEMMA TurnKeeps ==
  ASSUME TInv, T!Turn, live' \in BOOLEAN, recorded' \in BOOLEAN, onFile' \subseteq T!Media,
         piece' \in [Pieces -> T!PieceStates], confirmed' \subseteq Logical,
         recorded' => "final" \in onFile'
  PROVE  TInv'
<1>1. /\ UNCHANGED <<walk, listing, offered, walks, judged, grouped, cover>>
      /\ disturbed' = TRUE /\ turns' \in 0 .. MaxTurns
  BY TableConstants DEF T!Turn, T!table, TInv, Shaped, T!TypeOK
<1>2. Shaped'
  BY <1>1 DEF TInv, Shaped, T!TypeOK
<1>3. Once' /\ Offers' /\ T!ReadyIsCovered'
  BY <1>1 DEF TInv, Once, UnderWay, Offers, T!ReadyIsCovered, T!DeleteOffered, T!CaptureUserStatus
<1> QED
  BY <1>1, <1>2, <1>3 DEF TInv, Calm, T!ListedOnce

\* Steps beside a walk.
LEMMA ChangesKeep ==
  ASSUME TInv,
         \/ T!Stop \/ T!PlaceFinal \/ T!RecordFinal
         \/ \E i \in Pieces : T!ChunkMoves(i) \/ T!CleanUp(i)
         \/ \E v \in Logical : T!Review(v)
  PROVE  TInv'
<1> USE DEF T!Media
<1>1. /\ live \in BOOLEAN /\ recorded \in BOOLEAN /\ onFile \subseteq T!Media
      /\ piece \in [Pieces -> T!PieceStates] /\ confirmed \subseteq Logical
      /\ recorded => "final" \in onFile
  BY DEF TInv, Shaped, T!TypeOK
<1>2. CASE T!Stop
  BY <1>1, <1>2, TurnKeeps DEF T!Stop
<1>3. CASE T!PlaceFinal
  BY <1>1, <1>3, TurnKeeps DEF T!PlaceFinal
<1>4. CASE T!RecordFinal
  BY <1>1, <1>4, TurnKeeps DEF T!RecordFinal
<1>5. ASSUME NEW i \in Pieces, T!ChunkMoves(i)
      PROVE  TInv'
  <2>1. PICK s \in T!Follows(piece[i]) : piece' = [piece EXCEPT ![i] = s]
    BY <1>5 DEF T!ChunkMoves
  <2>2. s \in T!PieceStates
    BY DEF T!Follows, T!PieceStates
  <2>3. piece' \in [Pieces -> T!PieceStates]
    BY <1>1, <2>1, <2>2
  <2> QED
    BY <1>1, <1>5, <2>3, TurnKeeps DEF T!ChunkMoves
<1>6. ASSUME NEW i \in Pieces, T!CleanUp(i)
      PROVE  TInv'
  BY <1>1, <1>6, TurnKeeps, TableConstants DEF T!CleanUp
<1>7. ASSUME NEW v \in Logical, T!Review(v)
      PROVE  TInv'
  <2>1. confirmed' \subseteq Logical
    BY <1>1, <1>7 DEF T!Review
  <2> QED
    BY <1>1, <1>7, <2>1, TurnKeeps DEF T!Review
<1> QED
  BY <1>2, <1>3, <1>4, <1>5, <1>6, <1>7

\* A walk has no file behind it when it begins.
LEMMA BeginKeeps ==
  ASSUME TInv, T!BeginWalk
  PROVE  TInv'
<1>1. /\ walk' = [at |-> "walk", folders |-> T!Folders, todo |-> {}, sessionListed |-> FALSE,
                  videosListed |-> {}]
      /\ listing' = [r \in Logical \cup {"session"} |-> 0] /\ offered' = {}
      /\ UNCHANGED <<live, piece, onFile, recorded, grouped, confirmed, cover, turns, judged>>
      /\ disturbed' = FALSE /\ walks' \in 0 .. MaxWalks
  BY TableConstants DEF T!BeginWalk, T!NoRows, T!recording, TInv, Shaped, T!TypeOK
<1>2. walk' \in Walking
  BY <1>1 DEF Walking
<1>3. Shaped'
  BY <1>1, <1>2 DEF TInv, Shaped, T!TypeOK
<1>4. Once' /\ Offers' /\ T!ReadyIsCovered'
  BY <1>1 DEF TInv, Once, Offers, T!ReadyIsCovered
<1>5. Passed' = {}
  BY <1>1 DEF Passed, Folder, T!Folders
<1>6. ByFile' = {} /\ ShownFiles' = {}
  BY <1>5 DEF ByFile, ShownFiles
<1>7. OnTrack' /\ Listed'
  BY <1>1, <1>6 DEF OnTrack, Listed
<1>8. T!ListedOnce'
  BY <1>1 DEF T!ListedOnce
<1> QED
  BY <1>3, <1>4, <1>7, <1>8 DEF TInv

\* A step of the request keeps what was recorded.
LEMMA WalksOn ==
  ASSUME TInv, UNCHANGED <<live, piece, onFile, recorded, grouped, confirmed, cover, disturbed, turns,
                           walks, judged>>,
         walk' \in Walking \cup Rowing \cup Ended,
         listing' \in [Logical \cup {"session"} -> Nat],
         Once', Offers',
         Calm /\ UnderWay' => OnTrack' /\ Listed',
         T!ListedOnce'
  PROVE  TInv'
<1>1. walk'.at \in {"rest", "walk", "row", "done", "error"}
  BY DEF Walking, Rowing, Ended
<1>2. Shaped'
  BY <1>1 DEF TInv, Shaped, T!TypeOK
<1>3. T!ReadyIsCovered' /\ (Calm' => Calm)
  BY DEF TInv, T!ReadyIsCovered, Calm
<1> QED
  BY <1>2, <1>3 DEF TInv

\* A folder that is entered has all its files before it.
LEMMA EnterKeeps ==
  ASSUME TInv, NEW f \in T!Folders, T!Enter(f)
  PROVE  TInv'
<1> DEFINE files == onFile \cap (IF f = "final" THEN {"final"} ELSE Pieces)
<1>1. /\ walk.at = "walk" /\ walk.todo = {} /\ f \in walk.folders
      /\ walk' = [walk EXCEPT !.folders = @ \ {f}, !.todo = files]
      /\ UNCHANGED <<live, piece, onFile, recorded, grouped, confirmed, cover, disturbed, turns,
                     walks, judged, listing, offered>>
  BY DEF T!Enter, T!recording
<1>2. Shaped
  BY DEF TInv
<1>3. walk \in Walking
  BY <1>1, <1>2, WalkKinds
<1>4. onFile \subseteq T!Media /\ listing \in [Logical \cup {"session"} -> Nat]
  BY <1>2 DEF Shaped, T!TypeOK
<1>5. files \subseteq T!Media /\ files \subseteq onFile /\ \A g \in onFile : g \in files <=> Folder(g) = f
  BY <1>4, TableConstants DEF T!Media, T!Folders, Folder
<1> HIDE DEF files
<1>6. /\ walk' \in Walking /\ walk'.at = "walk" /\ walk'.folders = walk.folders \ {f}
      /\ walk'.todo = files /\ walk'.sessionListed = walk.sessionListed
      /\ walk'.videosListed = walk.videosListed
  BY <1>1, <1>3, <1>5 DEF Walking
<1>7. Passed' = Passed
  BY <1>1, <1>5, <1>6 DEF Passed
<1>8. ByFile' = ByFile /\ ShownFiles' = ShownFiles
  BY <1>1, <1>7 DEF ByFile, ShownFiles
<1>9. Calm => OnTrack' /\ Listed'
  BY <1>1, <1>5, <1>6, <1>8 DEF TInv, UnderWay, OnTrack, Listed
<1>10. Once' /\ Offers'
  BY <1>1, <1>6 DEF TInv, Once, UnderWay, Offers
<1>11. T!ListedOnce'
  BY <1>6 DEF T!ListedOnce
<1> QED
  BY <1>1, <1>4, <1>6, <1>9, <1>10, <1>11, WalksOn

\* A file is passed over only if it is gone, or a chunk of a session on record.
LEMMA LookKeeps ==
  ASSUME TInv, NEW f \in T!Media, T!Look(f)
  PROVE  TInv'
<1>1. /\ walk.at = "walk" /\ f \in walk.todo
      /\ UNCHANGED <<live, piece, onFile, recorded, grouped, confirmed, cover, disturbed, turns,
                     walks, judged, listing, offered>>
  BY DEF T!Look, T!recording
<1>2. Shaped
  BY DEF TInv
<1>3. walk \in Walking
  BY <1>1, <1>2, WalkKinds
<1>4. listing \in [Logical \cup {"session"} -> Nat]
  BY <1>2 DEF Shaped, T!TypeOK
<1>5. CASE f \notin onFile \/ (f # "final" /\ recorded)
  <2>1. walk' = [walk EXCEPT !.todo = @ \ {f}]
    BY <1>5 DEF T!Look
  <2>2. /\ walk' \in Walking /\ walk'.at = "walk" /\ walk'.folders = walk.folders
        /\ walk'.todo = walk.todo \ {f} /\ walk'.sessionListed = walk.sessionListed
        /\ walk'.videosListed = walk.videosListed
    BY <1>3, <2>1 DEF Walking
  <2>3. ASSUME Calm
        PROVE  OnTrack' /\ Listed'
    <3>1. OnTrack /\ Listed
      BY <1>1, <2>3 DEF TInv, UnderWay
    <3>2. f \in onFile /\ f # "final" /\ recorded
      BY <1>1, <1>5, <3>1 DEF OnTrack
    <3>3. Passed' = Passed \cup {f}
      BY <1>1, <2>2, <3>1, <3>2 DEF OnTrack, Passed
    <3>4. ByFile' = ByFile /\ ShownFiles' = ShownFiles
      BY <1>1, <3>2, <3>3 DEF ByFile, ShownFiles
    <3> QED
      BY <1>1, <2>2, <3>1, <3>4 DEF OnTrack, Listed
  <2>4. Once' /\ Offers'
    BY <1>1, <2>2 DEF TInv, Once, UnderWay, Offers
  <2>5. T!ListedOnce'
    BY <2>2 DEF T!ListedOnce
  <2> QED
    BY <1>1, <1>4, <2>2, <2>3, <2>4, <2>5, WalksOn
<1>6. CASE ~(f \notin onFile \/ (f # "final" /\ recorded))
  <2>1. walk' = [at |-> "row", folders |-> walk.folders, todo |-> walk.todo \ {f},
                 sessionListed |-> walk.sessionListed, videosListed |-> walk.videosListed,
                 file |-> f, session |-> T!Session]
    BY <1>6 DEF T!Look
  <2>2. T!Session \in SeenSessions
    BY <1>2 DEF Shaped, T!TypeOK, T!Session, SeenSessions
  <2>3. walk' \in Rowing
    BY <1>3, <2>1, <2>2 DEF Walking, Rowing
  <2>4. /\ walk'.at = "row" /\ walk'.folders = walk.folders
        /\ walk'.todo = walk.todo \ {f} /\ walk'.sessionListed = walk.sessionListed
        /\ walk'.videosListed = walk.videosListed /\ walk'.file = f
    BY <2>1
  <2>5. ASSUME Calm
        PROVE  OnTrack' /\ Listed'
    <3>1. OnTrack /\ Listed
      BY <1>1, <2>5 DEF TInv, UnderWay
    <3>2. Passed' = Passed
      BY <1>1, <2>4, <3>1 DEF OnTrack, Passed
    <3>3. ByFile' = ByFile /\ ShownFiles' = ShownFiles
      BY <1>1, <3>2 DEF ByFile, ShownFiles
    <3> QED
      BY <1>1, <1>6, <2>4, <3>1, <3>3 DEF OnTrack, Listed
  <2>6. Once' /\ Offers'
    BY <1>1, <2>4 DEF TInv, Once, UnderWay, Offers
  <2>7. T!ListedOnce'
    BY <2>4 DEF T!ListedOnce
  <2> QED
    BY <1>1, <1>4, <2>3, <2>5, <2>6, <2>7, WalksOn
<1> QED
  BY <1>5, <1>6

\* A request that fails shows nothing, and one that ends has passed every file.
LEMMA EndOfWalk ==
  ASSUME TInv, T!FileGone \/ T!EndWalk
  PROVE  TInv'
<1>1. /\ UNCHANGED <<live, piece, onFile, recorded, grouped, confirmed, cover, disturbed, turns,
                     walks, judged, listing, offered>>
      /\ walk' \in {[at |-> "done"], [at |-> "error"]}
  BY DEF T!FileGone, T!EndWalk, T!recording
<1>2. Shaped
  BY DEF TInv
<1>3. listing \in [Logical \cup {"session"} -> Nat]
  BY <1>2 DEF Shaped, T!TypeOK
<1>4. walk' \in Ended /\ ~UnderWay'
  BY <1>1 DEF Ended, UnderWay
<1>5. Once' /\ Offers'
  BY <1>1, <1>4 DEF TInv, Once, Offers
<1>6. T!ListedOnce'
  <2> SUFFICES ASSUME walk'.at = "done", Calm
               PROVE  /\ \A v \in Logical : listing[v] = IF v \in confirmed /\ T!Visible(v) THEN 1 ELSE 0
                      /\ listing["session"] = IF confirmed = {} /\ onFile # {} THEN 1 ELSE 0
    BY <1>1 DEF T!ListedOnce, T!Visible, Calm
  <2>1. walk.at = "walk" /\ walk.todo = {} /\ walk.folders = {}
    BY DEF T!FileGone, T!EndWalk
  <2>2. Listed /\ Passed = onFile
    BY <2>1 DEF TInv, UnderWay, Passed
  <2>3. recorded => "final" \in onFile
    BY <1>2 DEF Shaped
  <2>4. ShownFiles # {} <=> onFile # {}
    BY <2>2, <2>3 DEF ShownFiles
  <2>5. \A v \in Logical : v \in ByFile <=> T!Visible(v)
    BY <2>2, <2>3 DEF ByFile, T!Visible, Calm
  <2> QED
    BY <2>2, <2>4, <2>5 DEF Listed
<1> QED
  BY <1>1, <1>3, <1>4, <1>5, <1>6, WalksOn

\* What is not refused for its recording or its processing is offered for deletion.
LEMMA OfferedIsRight ==
  ASSUME NEW s \in SeenSessions
  PROVE  /\ T!DeleteAccepted(s) => T!DeleteOffered(s)
         /\ T!DeleteOffered(s) =>
              ~s.active /\ \A i \in Pieces : s.piece[i] \notin {"PROCESSING", "CANCEL_REQUESTED"}
<1>1. ASSUME T!DeleteAccepted(s)
      PROVE  T!DeleteOffered(s)
  <2>1. T!CaptureUserStatus(s) \in {"FAILED", "CANCELLED", "COMPLETED", "FINALIZED"}
    BY <1>1 DEF T!DeleteAccepted, T!CaptureUserStatus
  <2> QED
    BY <1>1, <2>1 DEF T!DeleteAccepted, T!DeleteOffered
<1>2. ASSUME NEW i \in Pieces, s.piece[i] = "CANCEL_REQUESTED"
      PROVE  T!CaptureUserStatus(s) = "CANCEL_REQUESTED"
  BY <1>2 DEF T!CaptureUserStatus
<1>3. ASSUME NEW i \in Pieces, s.piece[i] = "PROCESSING"
      PROVE  T!CaptureUserStatus(s) \in {"CANCEL_REQUESTED", "PROCESSING"}
  BY <1>3 DEF T!CaptureUserStatus
<1> QED
  BY <1>1, <1>2, <1>3 DEF T!DeleteOffered

\* A file that is looked at adds the rows that are still missing.
LEMMA RowLists ==
  ASSUME TInv, T!Row, Calm
  PROVE  OnTrack' /\ Listed'
<1> PICK f : f = walk.file
  OBVIOUS
<1> PICK vs : vs = IF f = "final" THEN confirmed ELSE T!ChunkVideos(f)
  OBVIOUS
<1>1. /\ walk.at = "row" /\ f \in onFile
      /\ listing' = T!Rowed(vs) /\ walk' = T!NextFile(vs)
      /\ UNCHANGED <<onFile, recorded, confirmed, cover, disturbed>>
  BY DEF T!Row, T!recording
<1>2. Shaped /\ OnTrack /\ Listed
  BY <1>1 DEF TInv, UnderWay
<1>3. /\ listing \in [Logical \cup {"session"} -> Nat] /\ f \in T!Media
      /\ confirmed \subseteq Logical /\ (recorded => "final" \in onFile)
      /\ cover \in [Logical -> SUBSET Pieces]
  BY <1>1, <1>2 DEF Shaped, T!TypeOK
<1>4. vs \subseteq confirmed
  BY DEF T!ChunkVideos
<1>5. /\ walk'.at = "walk" /\ walk'.folders = walk.folders /\ walk'.todo = walk.todo
      /\ walk'.sessionListed = TRUE
      /\ walk'.videosListed = walk.videosListed \cup (IF f = "final" THEN {} ELSE vs)
  BY <1>1 DEF T!NextFile
<1>6. /\ \A v \in Logical : listing'[v] = listing[v] + (IF v \in vs THEN 1 ELSE 0)
      /\ listing'["session"] = listing["session"]
                                 + (IF confirmed = {} /\ ~walk.sessionListed THEN 1 ELSE 0)
  BY <1>1, <1>3, <1>4, TableConstants DEF T!Rowed
<1>7. f \notin Passed /\ Passed' = Passed \cup {f}
  BY <1>1, <1>2, <1>5 DEF OnTrack, Passed
<1>8. OnTrack'
  BY <1>1, <1>2, <1>5 DEF OnTrack
<1>9. CASE recorded
  <2>1. f = "final" /\ vs = confirmed
    BY <1>1, <1>2, <1>9 DEF OnTrack
  <2>2. /\ ShownFiles = {} /\ ShownFiles' # {}
        /\ ByFile = {} /\ ByFile' = Logical
    BY <1>1, <1>7, <1>9, <2>1 DEF ShownFiles, ByFile
  <2>3. \A v \in Logical : listing'[v] = IF v \in confirmed' /\ v \in ByFile' THEN 1 ELSE 0
    BY <1>1, <1>2, <1>6, <2>1, <2>2 DEF Listed
  <2>4. listing'["session"] = IF confirmed' = {} /\ ShownFiles' # {} THEN 1 ELSE 0
    BY <1>1, <1>2, <1>6, <2>2 DEF Listed
  <2> QED
    BY <1>1, <1>5, <1>8, <1>9, <2>2, <2>3, <2>4 DEF Listed
<1>10. CASE ~recorded
  <2>1. f # "final" /\ "final" \notin onFile
    BY <1>1, <1>10 DEF Calm
  <2>2. /\ vs = {v \in confirmed : f \in cover[v] /\ v \notin ByFile}
    BY <1>2, <1>10, <2>1 DEF Listed, T!ChunkVideos
  <2>3. ShownFiles' # {} /\ (walk.sessionListed <=> ShownFiles # {})
    BY <1>1, <1>2, <1>7, <1>10 DEF ShownFiles, Listed
  <2>4. \A v \in Logical : v \in ByFile' <=> v \in ByFile \/ f \in cover[v]
    BY <1>1, <1>7, <1>10 DEF ByFile
  <2>5. \A v \in Logical : listing'[v] = IF v \in confirmed /\ v \in ByFile' THEN 1 ELSE 0
    BY <1>2, <1>3, <1>4, <1>6, <2>2, <2>4 DEF Listed
  <2>6. listing'["session"] = IF confirmed = {} /\ ShownFiles' # {} THEN 1 ELSE 0
    BY <1>2, <1>6, <2>3 DEF Listed
  <2>7. walk'.videosListed = confirmed \cap ByFile'
    <3>1. walk'.videosListed = (confirmed \cap ByFile) \cup vs
      BY <1>2, <1>5, <1>10, <2>1 DEF Listed
    <3>2. \A v \in confirmed : v \in Logical
      BY <1>3
    <3> QED
      BY <2>2, <2>4, <3>1, <3>2
  <2> QED
    BY <1>1, <1>5, <1>8, <2>3, <2>5, <2>6, <2>7 DEF Listed
<1> QED
  BY <1>8, <1>9, <1>10

\* A row is made of the session as it was when the file was looked at.
LEMMA RowKeeps ==
  ASSUME TInv, T!Row
  PROVE  TInv'
<1> PICK vs : vs = IF walk.file = "final" THEN confirmed ELSE T!ChunkVideos(walk.file)
  OBVIOUS
<1>1. /\ walk.at = "row"
      /\ listing' = T!Rowed(vs) /\ walk' = T!NextFile(vs)
      /\ UNCHANGED <<live, piece, onFile, recorded, grouped, confirmed, cover, disturbed, turns,
                     walks, judged>>
      /\ offered' \in {offered, offered \cup {[session |-> walk.session,
                                              delete |-> T!DeleteOffered(walk.session)]}}
  BY DEF T!Row, T!recording
<1>2. Shaped /\ Once /\ Offers
  BY DEF TInv
<1>3. /\ listing \in [Logical \cup {"session"} -> Nat] /\ walk \in Rowing
      /\ confirmed \subseteq Logical
  BY <1>1, <1>2, WalkKinds DEF Shaped, T!TypeOK
<1>4. vs \subseteq Logical
  BY <1>3 DEF T!ChunkVideos
<1>5. walk' \in Walking /\ walk'.sessionListed = TRUE /\ walk'.at = "walk"
  BY <1>1, <1>3, <1>4 DEF T!NextFile, Walking, Rowing
<1>6. listing' \in [Logical \cup {"session"} -> Nat]
  BY <1>1, <1>3 DEF T!Rowed
<1>7. listing'["session"] = listing["session"]
                             + (IF confirmed = {} /\ ~walk.sessionListed THEN 1 ELSE 0)
  BY <1>1, <1>3, <1>4, TableConstants DEF T!Rowed
<1>8. Once'
  BY <1>1, <1>2, <1>5, <1>7 DEF Once, UnderWay
<1>9. Offers'
  <2>1. walk.session \in SeenSessions
    BY <1>3 DEF Rowing
  <2> QED
    BY <1>1, <1>2, <2>1 DEF Offers, T!DeleteOffered, T!CaptureUserStatus
<1>10. T!ListedOnce'
  BY <1>5 DEF T!ListedOnce
<1>11. Calm => OnTrack' /\ Listed'
  BY RowLists
<1> QED
  BY <1>1, <1>5, <1>6, <1>8, <1>9, <1>10, <1>11, WalksOn

\* When the first of the segments begins early, none begins late after the one before it,
\* and the last end is not before a stretch longer than the gap, some segment is in it.
LEMMA NoStretchIsMissed ==
  ASSUME NEW n \in Nat, n > 0, NEW t \in [1 .. n -> T!Intervals],
         NEW from \in Instants, NEW to \in Instants, from < to, to - from > Gap,
         t[1][1] <= Gap,
         \A i \in 1 .. n : i + 1 \in 1 .. n => t[i + 1][1] - t[i][2] <= Gap,
         \A i \in 1 .. n : ~(t[i][1] < to /\ t[i][2] > from)
  PROVE  \A i \in 1 .. n : t[i][2] <= from
<1>1. \A i \in 1 .. n : t[i][1] \in Nat /\ t[i][2] \in Nat
  BY TableConstants DEF T!Intervals
<1>2. from \in Nat /\ to \in Nat /\ Gap \in Nat
  BY TableConstants
<1> DEFINE Late == {i \in 1 .. n : t[i][1] >= to}
<1>3. Late = {}
  <2> SUFFICES ASSUME Late # {}
               PROVE  FALSE
    OBVIOUS
  <2>1. Late \in SUBSET Nat
    OBVIOUS
  <2> PICK i \in Late : \A j \in Late : i <= j
    BY <2>1, LeastOne
  <2>2. i \in 1 .. n /\ t[i][1] >= to
    OBVIOUS
  <2>3. 1 \notin Late
    BY <1>1, <1>2
  <2> PICK j : j = i - 1
    OBVIOUS
  <2>4. j \in 1 .. n /\ i = j + 1
    BY <2>2, <2>3
  <2>5. j \notin Late
    BY <2>2, <2>4
  <2>6. t[j][1] < to
    BY <1>1, <1>2, <2>4, <2>5
  <2>7. t[j][2] <= from
    BY <1>1, <1>2, <2>4, <2>6
  <2>8. t[i][1] - t[j][2] <= Gap
    BY <2>2, <2>4
  <2> QED
    BY <1>1, <1>2, <2>2, <2>4, <2>7, <2>8
<1>4. ASSUME NEW i \in 1 .. n
      PROVE  t[i][2] <= from
  <2>1. t[i][1] < to
    <3>1. ~(t[i][1] >= to)
      BY <1>3
    <3>2. t[i][1] \in Nat
      BY <1>1
    <3> QED
      BY <1>2, <3>1, <3>2
  <2>2. ~(t[i][2] > from)
    BY <2>1
  <2>3. t[i][2] \in Nat
    BY <1>1
  <2> QED
    BY <1>2, <2>2, <2>3
<1> QED
  BY <1>4

\* Two segments at most are put in order, and each keeps its bounds.
LEMMA OrderKeeps ==
  ASSUME NEW n \in 0 .. 2, NEW segments \in [1 .. n -> T!Intervals]
  PROVE  /\ T!InOrder(segments) \in [1 .. n -> T!Intervals]
         /\ \A i \in 1 .. n : \E j \in 1 .. n : T!InOrder(segments)[i] = segments[j]
<1> DEFINE Fit(p) == /\ T!IsInjective(p)
                     /\ \A i, j \in DOMAIN segments :
                          i < j => T!NoLater(segments[p[i]], segments[p[j]])
<1>1. \E p \in [1 .. n -> 1 .. n] : Fit(p)
  <2> DEFINE same == [i \in 1 .. n |-> i]
             swap == [i \in 1 .. n |-> 3 - i]
  <2>1. \A i \in 1 .. n : segments[i][1] \in Nat /\ segments[i][2] \in Nat
    BY TableConstants DEF T!Intervals
  <2>2. same \in [1 .. n -> 1 .. n] /\ T!IsInjective(same)
    BY DEF T!IsInjective
  <2>3. CASE n < 2
    <3>1. ~(\E i, j \in 1 .. n : i < j)
      BY <2>3
    <3> QED
      BY <2>2, <3>1
  <2>4. CASE n = 2
    <3>1. \A i, j \in 1 .. n : i < j => i = 1 /\ j = 2
      BY <2>4
    <3>2. CASE T!NoLater(segments[1], segments[2])
      <4>1. Fit(same)
        BY <2>2, <2>4, <3>1, <3>2
      <4> QED
        BY <2>2, <4>1
    <3>3. CASE ~T!NoLater(segments[1], segments[2])
      <4>1. T!NoLater(segments[2], segments[1])
        BY <2>1, <2>4, <3>3 DEF T!NoLater
      <4>2. swap \in [1 .. n -> 1 .. n] /\ T!IsInjective(swap) /\ swap[1] = 2 /\ swap[2] = 1
        BY <2>4 DEF T!IsInjective
      <4>3. Fit(swap)
        BY <2>4, <3>1, <4>1, <4>2
      <4> QED
        BY <4>2, <4>3
    <3> QED
      BY <3>2, <3>3
  <2> QED
    BY <2>3, <2>4
<1>2. PICK p \in [1 .. n -> 1 .. n] : p = CHOOSE q \in [DOMAIN segments -> DOMAIN segments] : Fit(q)
  BY <1>1
<1>3. T!InOrder(segments) = [i \in 1 .. n |-> segments[p[i]]]
  BY <1>2 DEF T!InOrder
<1> QED
  BY <1>3

\* In a transcript that is judged READY no long stretch is without a segment.
LEMMA JudgedRightly ==
  ASSUME NEW n \in 0 .. 2, NEW segments \in [1 .. n -> T!Intervals],
         NEW duration \in Instants \cup {None}, T!Coverage(segments, duration) = "READY",
         NEW from \in Instants, NEW to \in Instants,
         from < to, to <= duration, to - from > Gap
  PROVE  \E i \in 1 .. n : segments[i][1] < to /\ segments[i][2] > from
<1>1. PICK t : t = T!InOrder(segments)
  OBVIOUS
<1>2. PICK ends : ends = {t[i][2] : i \in DOMAIN t}
  OBVIOUS
<1>3. PICK last : last = CHOOSE e \in ends : \A f \in ends : f <= e
  OBVIOUS
<1>4. t \in [1 .. n -> T!Intervals] /\ \A i \in 1 .. n : \E j \in 1 .. n : t[i] = segments[j]
  BY <1>1, OrderKeeps
<1>5. /\ segments # <<>> /\ duration # None
      /\ ~(t[1][1] > Gap)
      /\ ~(\E i \in DOMAIN t : i + 1 \in DOMAIN t /\ t[i + 1][1] - t[i][2] > Gap)
      /\ ~(duration - last > Gap)
  BY <1>1, <1>2, <1>3 DEF T!Coverage
<1>6. n # 0
  <2>1. ASSUME n = 0
        PROVE  segments = <<>>
    BY <2>1
  <2> QED
    BY <1>5, <2>1
<1>7. \A i \in 1 .. n : t[i][1] \in Nat /\ t[i][2] \in Nat
  BY <1>4, TableConstants DEF T!Intervals
<1>8. from \in Nat /\ to \in Nat /\ Gap \in Nat /\ duration \in Nat
  BY <1>5, TableConstants
<1>9. SUFFICES ASSUME ~\E i \in 1 .. n : segments[i][1] < to /\ segments[i][2] > from
               PROVE  FALSE
  OBVIOUS
<1>10. \A i \in 1 .. n : ~(t[i][1] < to /\ t[i][2] > from)
  BY <1>4, <1>9
<1>11. t[1][1] <= Gap
  <2>1. t[1][1] \in Nat
    BY <1>6, <1>7
  <2> QED
    BY <1>5, <1>8, <2>1
<1>12. ASSUME NEW i \in 1 .. n, i + 1 \in 1 .. n
       PROVE  t[i + 1][1] - t[i][2] <= Gap
  <2>1. ~(t[i + 1][1] - t[i][2] > Gap)
    BY <1>4, <1>5, <1>12
  <2>2. t[i + 1][1] \in Nat /\ t[i][2] \in Nat
    BY <1>7, <1>12
  <2> QED
    BY <1>8, <2>1, <2>2
<1>13. \A i \in 1 .. n : t[i][2] <= from
  <2>1. n \in Nat /\ n > 0
    BY <1>6
  <2>2. \A i \in 1 .. n : i + 1 \in 1 .. n => t[i + 1][1] - t[i][2] <= Gap
    BY <1>12
  <2> QED
    BY <1>4, <1>10, <1>11, <2>1, <2>2, NoStretchIsMissed
<1>14. \E e \in ends : \A f \in ends : f <= e
  <2>1. CASE n = 1
    <3>1. ends = {t[1][2]} /\ t[1][2] \in Nat
      BY <1>2, <1>4, <1>7, <2>1
    <3> QED
      BY <3>1
  <2>2. CASE n = 2
    <3>1. ends = {t[1][2], t[2][2]}
      BY <1>2, <1>4, <2>2
    <3>2. t[1][2] \in Nat /\ t[2][2] \in Nat
      BY <1>7, <2>2
    <3>3. t[1][2] <= t[2][2] \/ t[2][2] <= t[1][2]
      BY <3>2
    <3> QED
      BY <3>1, <3>2, <3>3
  <2> QED
    BY <1>6, <2>1, <2>2
<1>15. last \in ends
  BY <1>3, <1>14
<1>16. PICK i \in 1 .. n : last = t[i][2]
  BY <1>2, <1>4, <1>15
<1>17. last \in Nat /\ last <= from
  BY <1>7, <1>13, <1>16
<1> QED
  BY <1>5, <1>8, <1>17

\* A transcript is judged by itself.
LEMMA JudgeKeeps ==
  ASSUME TInv, T!Judge
  PROVE  TInv'
<1>1. UNCHANGED <<live, piece, onFile, recorded, grouped, confirmed, cover, disturbed, turns,
                  walks, walk, listing, offered>>
  BY DEF T!Judge, T!recording, T!table
<1>2. Shaped' /\ Once' /\ Offers' /\ T!ListedOnce'
  BY <1>1 DEF TInv, Shaped, T!TypeOK, Once, UnderWay, Offers, T!DeleteOffered,
     T!CaptureUserStatus, T!ListedOnce, T!Visible
<1>3. Passed' = Passed
  BY <1>1 DEF Passed
<1>4. ByFile' = ByFile /\ ShownFiles' = ShownFiles
  BY <1>1, <1>3 DEF ByFile, ShownFiles
<1>5. Calm' /\ UnderWay' => OnTrack' /\ Listed'
  BY <1>1, <1>4 DEF TInv, Calm, UnderWay, OnTrack, Listed
<1>6. T!ReadyIsCovered'
  <2>1. PICK n \in 0 .. 2 : \E segments \in [1 .. n -> T!Intervals], duration \in Instants \cup {None} :
          judged' = [segments |-> segments, duration |-> duration,
                     verdict |-> T!Coverage(segments, duration)]
    BY DEF T!Judge
  <2>2. PICK segments \in [1 .. n -> T!Intervals], duration \in Instants \cup {None} :
          judged' = [segments |-> segments, duration |-> duration,
                     verdict |-> T!Coverage(segments, duration)]
    BY <2>1
  <2>3. /\ judged'.segments = segments /\ judged'.duration = duration
        /\ judged'.verdict = T!Coverage(segments, duration) /\ DOMAIN segments = 1 .. n
    BY <2>2
  <2> QED
    BY <2>3, JudgedRightly DEF T!ReadyIsCovered
<1> QED
  BY <1>2, <1>5, <1>6 DEF TInv

\* The table is kept while nothing of it moves.
LEMMA TableRests ==
  ASSUME TInv, UNCHANGED table
  PROVE  TInv'
<1>1. UNCHANGED <<live, piece, onFile, recorded, grouped, confirmed, cover, disturbed, turns,
                  walks, walk, listing, offered, judged>>
  BY DEF table
<1>2. Shaped' /\ Once' /\ Offers' /\ T!ListedOnce' /\ T!ReadyIsCovered'
  BY <1>1 DEF TInv, Shaped, T!TypeOK, Once, UnderWay, Offers, T!DeleteOffered,
     T!CaptureUserStatus, T!ListedOnce, T!Visible, T!ReadyIsCovered
<1>3. Passed' = Passed
  BY <1>1 DEF Passed
<1>4. ByFile' = ByFile /\ ShownFiles' = ShownFiles
  BY <1>1, <1>3 DEF ByFile, ShownFiles
<1>5. Calm' /\ UnderWay' => OnTrack' /\ Listed'
  BY <1>1, <1>4 DEF TInv, Calm, UnderWay, OnTrack, Listed
<1> QED
  BY <1>2, <1>5 DEF TInv

\* No recording is listed before the table is asked for.
LEMMA TableInit == Init => TInv
<1> SUFFICES ASSUME T!Init
             PROVE  TInv
  BY DEF Init
<1>1. /\ walk = T!Resting /\ listing = [r \in Logical \cup {"session"} |-> 0] /\ offered = {}
      /\ disturbed = FALSE /\ turns = 0 /\ walks = 0 /\ judged = None
      /\ piece \in [Pieces -> {"FINALIZED", "PROCESSED", "RECORDING"}] /\ grouped \in BOOLEAN
      /\ cover \in IF grouped THEN [Logical -> SUBSET (onFile \ {"final"})] ELSE {[v \in Logical |-> {}]}
      /\ confirmed \in IF grouped THEN SUBSET Logical ELSE {{}}
  BY DEF T!Init, T!NoRows
<1>2. /\ live \in BOOLEAN /\ recorded \in BOOLEAN /\ onFile \subseteq T!Media
      /\ recorded => "final" \in onFile
  BY DEF T!Init, T!Media
<1>3. walk \in Ended /\ walk.at = "rest"
  BY <1>1 DEF T!Resting, Ended
<1>4. confirmed \subseteq Logical /\ cover \in [Logical -> SUBSET Pieces]
  <2>1. CASE grouped
    <3>1. SUBSET (onFile \ {"final"}) \subseteq SUBSET Pieces
      BY <1>2 DEF T!Media
    <3> QED
      BY <1>1, <2>1, <3>1
  <2>2. CASE ~grouped
    BY <1>1, <2>2
  <2> QED
    BY <2>1, <2>2
<1>5. piece \in [Pieces -> T!PieceStates]
  BY <1>1 DEF T!PieceStates
<1>6. T!TypeOK
  <2>1. listing \in [Logical \cup {"session"} -> Nat]
    BY <1>1
  <2>2. {live, recorded, grouped, disturbed} \subseteq BOOLEAN
    BY <1>1, <1>2
  <2>3. turns \in 0 .. MaxTurns /\ walks \in 0 .. MaxWalks
    BY <1>1, TableConstants
  <2> QED
    BY <1>2, <1>3, <1>4, <1>5, <2>1, <2>2, <2>3 DEF T!TypeOK
<1> QED
  BY <1>1, <1>2, <1>3, <1>6 DEF TInv, Shaped, Once, Offers, UnderWay, T!ListedOnce, T!ReadyIsCovered

\* Every step of the table keeps the invariant.
LEMMA TableNext == TInv /\ [Next]_<<part, chunks, completing, capture, requesting, table>> => TInv'
<1> SUFFICES ASSUME TInv, [Next]_<<part, chunks, completing, capture, requesting, table>>
             PROVE  TInv'
  OBVIOUS
<1>1. CASE UNCHANGED table
  BY <1>1, TableRests
<1>2. CASE T!Next
  <2>1. CASE T!Stop \/ T!PlaceFinal \/ T!RecordFinal
    BY <2>1, ChangesKeep
  <2>2. CASE \E i \in Pieces : T!ChunkMoves(i) \/ T!CleanUp(i)
    BY <2>2, ChangesKeep
  <2>3. CASE \E v \in Logical : T!Review(v)
    BY <2>3, ChangesKeep
  <2>4. CASE T!BeginWalk \/ T!FileGone \/ T!Row \/ T!EndWalk \/ T!Judge
    BY <2>4, BeginKeeps, EndOfWalk, RowKeeps, JudgeKeeps
  <2>5. CASE \E f \in T!Folders : T!Enter(f)
    BY <2>5, EnterKeeps
  <2>6. CASE \E f \in T!Media : T!Look(f)
    BY <2>6, LookKeeps
  <2> QED
    BY <1>2, <2>1, <2>2, <2>3, <2>4, <2>5, <2>6 DEF T!Next
<1> QED
  BY <1>1, <1>2 DEF Next, Unasked

\* When nothing happens beside the walk each recording is listed once, a session has at most
\* one row of its own, deletion is offered when it would be accepted and never of a session at
\* work, and a transcript judged READY has no long stretch without a segment.
THEOREM TableIsSafe == Spec => []TableSafe
<1>1. TInv => TableSafe
  <2> SUFFICES ASSUME TInv
               PROVE  T!TableSafe
    BY DEF TableSafe
  <2>1. T!SessionOnce
    BY DEF TInv, Once, T!SessionOnce
  <2>2. T!OfferIsRight
    BY OfferedIsRight DEF TInv, Offers, T!OfferIsRight
  <2> QED
    BY <2>1, <2>2 DEF TInv, T!TableSafe
<1> QED
  BY <1>1, TableInit, TableNext, PTL DEF Spec

-----------------------------------------------------------------------------
(* Types, of every part.                                                   *)

\* What the requests keep beside their manifest, its files and their threads.
Booked ==
  /\ sidecar \in {"one", "two", None}
  /\ event \in [R!Index -> Requests \cup {None}]
  /\ cancelled \cup shared \cup asked \subseteq Requests
  /\ supplied \subseteq R!Index
  /\ ops \in 0 .. MaxOps /\ restarts \in 0 .. MaxCrashes

\* One more operation is within its bound.
LEMMA OneMore ==
  ASSUME Booked, R!Counted
  PROVE  ops' \in 0 .. MaxOps
BY RequestConstants DEF Booked, R!Counted

\* What an operation that loads the manifest leaves as it was.
LEMMA LoadsIsBooked ==
  ASSUME Booked, NEW t, NEW p, NEW copy, R!Loads(t, p, copy)
  PROVE  Booked'
<1>1. UNCHANGED <<sidecar, event, cancelled, shared, asked, supplied, restarts>> /\ R!Counted
  BY DEF R!Loads, R!disk, R!uploads
<1> QED
  BY <1>1, OneMore DEF Booked

\* The requests of a session.
LEMMA SessionIsBooked ==
  ASSUME Booked, NEW t \in Requests, R!SessionRequest(t) \/ R!StartChunk(t)
  PROVE  Booked'
<1>1. CASE R!SetCrop(t) \/ R!FinalizeSession(t) \/ R!StartChunk(t)
  BY <1>1, LoadsIsBooked DEF R!SetCrop, R!FinalizeSession, R!StartChunk
<1>2. CASE R!DeleteSession(t) \/ R!DeleteTestSession(t)
  <2>1. /\ UNCHANGED <<event, cancelled, shared, asked, restarts>> /\ R!Counted
        /\ sidecar' = None /\ supplied' = {}
    BY <1>2 DEF R!DeleteSession, R!DeleteTestSession, R!Removed, R!uploads
  <2> QED
    BY <2>1, OneMore DEF Booked
<1>3. CASE \E text \in {"one", "two"} : R!AssociateTranscript(t, text)
  <2>1. UNCHANGED <<sidecar, event, cancelled, shared, asked, supplied, restarts>> /\ R!Counted
    BY <1>3 DEF R!AssociateTranscript, R!disk, R!uploads
  <2> QED
    BY <2>1, OneMore DEF Booked
<1> QED
  BY <1>1, <1>2, <1>3 DEF R!SessionRequest

\* The requests of a chunk.
LEMMA ChunkIsBooked ==
  ASSUME Booked, NEW t \in Requests, NEW i \in R!Index, R!ChunkRequest(t, i)
  PROVE  Booked'
<1>1. CASE \E body \in R!Bodies, audio \in {"MISSING", None} : R!Upload(t, i, body, audio)
  <2>1. PICK others \in SUBSET Requests :
          /\ event' = [event EXCEPT ![i] = t]
          /\ cancelled' = cancelled \ {t} /\ asked' = asked \ {t}
          /\ shared' \in {shared \ {t}, shared \cup others \cup {t}}
          /\ UNCHANGED <<sidecar, supplied, restarts>> /\ R!Counted
    BY <1>1 DEF R!Upload, R!disk
  <2> QED
    BY <2>1, OneMore DEF Booked
<1>2. CASE R!DeleteCancelled(t, i)
  <2>1. UNCHANGED <<sidecar, event, cancelled, shared, asked, supplied, restarts>> /\ R!Counted
    BY <1>2 DEF R!DeleteCancelled, R!disk, R!uploads
  <2> QED
    BY <2>1, OneMore DEF Booked
<1>3. CASE \/ R!CancelUpload(t, i) \/ R!RetryUpload(t, i)
           \/ R!CancelProcessing(t, i) \/ R!RetryProcessing(t, i)
           \/ \E audio \in R!Audio : R!DetectAudio(t, i, audio)
  BY <1>3, LoadsIsBooked DEF R!CancelUpload, R!RetryUpload, R!CancelProcessing,
     R!RetryProcessing, R!DetectAudio
<1> QED
  BY <1>1, <1>2, <1>3 DEF R!ChunkRequest

\* The steps of a request.
LEMMA GoesIsBooked ==
  ASSUME RInv, Booked, NEW t \in Requests, R!Goes(t)
  PROVE  Booked'
<1>1. Tasks /\ t \in R!Threads
  BY RequestConstants DEF RInv
<1>2. CASE R!WriteSidecar(t)
  <2>1. thread[t] \in Texts
    BY <1>1, <1>2, TaskKinds, Kinds DEF R!WriteSidecar
  <2>2. thread[t].text \in {"one", "two"}
    BY <2>1 DEF Texts
  <2>3. UNCHANGED <<event, cancelled, shared, asked, supplied, ops, restarts>>
        /\ sidecar' = thread[t].text
    BY <1>2 DEF R!WriteSidecar, R!uploads, R!bounds
  <2> QED
    BY <2>2, <2>3 DEF Booked
<1>3. CASE R!Unlink(t) \/ R!EndOfBody(t)
  <2>1. UNCHANGED <<sidecar, event, cancelled, shared, asked, supplied, ops, restarts>>
    BY <1>3 DEF R!Unlink, R!EndOfBody, R!uploads, R!bounds, R!disk
  <2> QED
    BY <2>1 DEF Booked
<1>4. ASSUME UNCHANGED <<sidecar, supplied, ops, restarts>>,
             UNCHANGED R!uploads \/ R!Leaves(t)
      PROVE  Booked'
  BY <1>4 DEF Booked, R!Leaves, R!uploads
<1>5. CASE R!BeginUpload(t) \/ R!UploadFails(t) \/ R!WriteMedia(t)
  <2>1. UNCHANGED <<sidecar, supplied, ops, restarts>>
    BY <1>5 DEF R!BeginUpload, R!UploadFails, R!WriteMedia, R!disk, R!bounds
  <2>2. UNCHANGED R!uploads \/ R!Leaves(t)
    BY <1>5 DEF R!BeginUpload, R!UploadFails, R!WriteMedia
  <2> QED
    BY <1>4, <2>1, <2>2
<1> QED
  BY <1>2, <1>3, <1>5 DEF R!Goes

\* A save books what it says.
LEMMA SaveIsBooked ==
  ASSUME Booked, NEW t \in R!Threads, R!Save(t)
  PROVE  Booked'
<1>1. /\ supplied' \in {R!Present(thread[t].write), supplied \cap R!Present(thread[t].write)}
      /\ event' \in [R!Index -> {event[i] : i \in R!Index} \cup {None}]
      /\ shared' \subseteq shared /\ cancelled' \subseteq cancelled
      /\ UNCHANGED <<sidecar, asked, ops, restarts>>
  BY DEF R!Save, R!bounds
<1>2. supplied' \subseteq R!Index
  BY <1>1 DEF R!Present
<1>3. event' \in [R!Index -> Requests \cup {None}]
  <2>1. {event[i] : i \in R!Index} \subseteq Requests \cup {None}
    BY DEF Booked
  <2> QED
    BY <1>1, <2>1
<1> QED
  BY <1>1, <1>2, <1>3 DEF Booked

\* Every step of the requests keeps the types of what is beside them.
LEMMA BookedNext ==
  ASSUME RInv, Booked, [Next]_<<part, chunks, completing, capture, requesting, table>>
  PROVE  Booked'
<1>1. CASE UNCHANGED requesting
  BY <1>1 DEF requesting, Booked
<1>2. CASE R!Next
  <2>1. CASE R!CreateSession
    <3>1. UNCHANGED <<sidecar, event, cancelled, shared, asked, supplied, restarts>> /\ R!Counted
      BY <2>1 DEF R!CreateSession, R!uploads
    <3> QED
      BY <3>1, OneMore DEF Booked
  <2>2. CASE R!Restart
    <3>1. /\ UNCHANGED <<sidecar, supplied, ops>>
          /\ event' = [i \in R!Index |-> None] /\ cancelled' = {} /\ shared' = {} /\ asked' = {}
          /\ restarts < MaxCrashes /\ restarts' = restarts + 1
      BY <2>2 DEF R!Restart, R!NoFiles
    <3>2. restarts' \in 0 .. MaxCrashes
      BY <3>1, RequestConstants DEF Booked
    <3> QED
      BY <3>1, <3>2 DEF Booked
  <2>3. CASE \E t \in Requests : R!SessionRequest(t) \/ R!StartChunk(t) \/ R!Goes(t)
    BY <2>3, SessionIsBooked, GoesIsBooked
  <2>4. CASE \E t \in Requests, i \in R!Index : R!ChunkRequest(t, i)
    BY <2>4, ChunkIsBooked
  <2>5. CASE \E t \in R!Threads : R!Save(t)
    BY <2>5, SaveIsBooked
  <2>6. CASE \E i \in R!Index : R!SignalUpload(i)
    <3>1. PICK i \in R!Index : R!SignalUpload(i)
      BY <2>6
    <3>2. /\ event[i] \in Requests /\ cancelled' = cancelled \cup {event[i]}
          /\ asked' \subseteq asked \cup {event[i]}
          /\ UNCHANGED <<sidecar, event, shared, supplied, restarts>> /\ R!Counted
      BY <3>1 DEF R!SignalUpload, R!disk, Booked
    <3> QED
      BY <3>2, OneMore DEF Booked
  <2>7. CASE \E i \in R!Index :
               \/ R!Take(i) \/ R!GiveUp(i) \/ \E transcribed \in BOOLEAN : R!Complete(i, transcribed)
    BY <2>7, LoadsIsBooked DEF R!Take, R!GiveUp, R!Complete
  <2> QED
    BY <1>2, <2>1, <2>2, <2>3, <2>4, <2>5, <2>6, <2>7 DEF R!Next
<1> QED
  BY <1>1, <1>2 DEF Next, Quiet

\* The part a behaviour is about.
PartTyped == part \in {"chunks", "completing", "capture", "requests", "table"}

\* Every state of a part is of its type.
THEOREM IntakeTypes == Spec => []TypeOK
<1>1. Init => PartTyped /\ Booked
  <2> SUFFICES ASSUME Init
               PROVE  Booked
    BY DEF Init, PartTyped
  <2>1. /\ sidecar = None /\ event = [i \in R!Index |-> None] /\ cancelled = {} /\ shared = {}
        /\ asked = {} /\ supplied = {} /\ ops = 0 /\ restarts = 0
    BY DEF Init, R!Init, R!NoFiles
  <2> QED
    BY <2>1, RequestConstants DEF Booked
<1>2. PartTyped /\ [Next]_<<part, chunks, completing, capture, requesting, table>> => PartTyped'
  BY DEF PartTyped, Next
<1>3. RInv /\ Booked => R!TypeOK
  <2> SUFFICES ASSUME RInv, Booked
               PROVE  R!TypeOK
    OBVIOUS
  <2>1. Tasks
    BY DEF RInv
  <2>2. \A t \in R!Threads :
          thread[t].pc \in {"idle", "wait", "stream", "media", "sidecar", "unlink", "save"}
    BY <2>1, TaskKinds
  <2> QED
    BY <2>1, <2>2 DEF Tasks, Booked, R!TypeOK
<1>4. UInv /\ SInv /\ CInv /\ RInv /\ Booked /\ TInv /\ PartTyped => TypeOK
  BY <1>3 DEF UInv, SInv, CInv, Typed, TInv, Shaped, PartTyped, TypeOK
<1>5. RInv /\ Booked /\ [Next]_<<part, chunks, completing, capture, requesting, table>> => Booked'
  BY BookedNext
<1> QED
  BY <1>1, <1>2, <1>4, <1>5, UploadInit, UploadNext, SessionInit, SessionNext, CaptureInit,
     CaptureNext, RequestInit, RequestNext, TableInit, TableNext, PTL DEF Spec

=============================================================================
