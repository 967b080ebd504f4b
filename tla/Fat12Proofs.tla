----------------------------- MODULE Fat12Proofs -----------------------------
(***************************************************************************)
(* Proofs about Fat12, for every FAT, disk and segment size.               *)
(***************************************************************************)
EXTENDS Fat12, Induction, TLAPS

USE Fat12Assumption

(* The low twelve bits of a word are what it was built from. *)
Twelve == 0 .. 4095

Low(x, y) == (x + 4096 * y) % 4096

LEMMA LowTwelveBits ==
  ASSUME NEW x \in Twelve, NEW y \in 0 .. 15
  PROVE  Low(x, y) = x
BY DEF Low, Twelve

(* get_next_cluster finds a cluster's entry in the packed bytes: the one    *)
(* the format of the disk put there, for odd and even clusters.             *)
THEOREM NextClusterDecodes ==
  ASSUME fat \in [0 .. LAST -> 0 .. LAST_MARK], NEW c \in 0 .. LAST
  PROVE  GetNextCluster(c) = fat[c]
<1> DEFINE j == c \div 2
           a == fat[2 * j]
           b == fat[2 * j + 1]
<1>1. j \in Nat /\ (c = 2 * j \/ c = 2 * j + 1) /\ 2 * j + 1 <= LAST
  OBVIOUS
<1>2. a \in 0 .. 4095 /\ b \in 0 .. 4095
  <2>1. 2 * j \in 0 .. LAST /\ 2 * j + 1 \in 0 .. LAST
    BY <1>1
  <2>2. \A x \in 0 .. LAST : fat[x] \in 0 .. LAST_MARK
    BY Zenon
  <2> HIDE DEF j
  <2>3. a \in 0 .. LAST_MARK /\ b \in 0 .. LAST_MARK
    BY <2>1, <2>2, Zenon
  <2>4. LAST_MARK = 4095
    BY DEF LAST_MARK
  <2> HIDE DEF a, b
  <2> QED
    BY <2>3, <2>4
<1>3. /\ FatByte(3 * j) = a % 256
      /\ FatByte(3 * j + 1) = (a \div 256) + 16 * (b % 16)
      /\ FatByte(3 * j + 2) = b \div 16
  <2> HIDE DEF j
  <2>1. /\ (3 * j) % 3 = 0 /\ (3 * j) \div 3 = j
        /\ (3 * j + 1) % 3 = 1 /\ (3 * j + 1) \div 3 = j
        /\ (3 * j + 2) % 3 = 2 /\ (3 * j + 2) \div 3 = j
    BY <1>1
  <2> QED
    BY <2>1 DEF FatByte
<1>4. CASE c = 2 * j
  <2>1. c + c \div 2 = 3 * j /\ c % 2 # 1
    BY <1>1, <1>4
  <2> HIDE DEF j, a, b
  <2> DEFINE t == b % 16
  <2>2. ((a % 256) + 256 * ((a \div 256) + 16 * t)) % 4096 = a
    <3>1. t \in 0 .. 15
      BY <1>2
    <3> HIDE DEF t
    <3>2. (a % 256) + 256 * ((a \div 256) + 16 * t) = a + 4096 * t
      BY <1>2, <3>1
    <3>3. (a + 4096 * t) % 4096 = a
      <4>1. a \in Twelve
        BY <1>2 DEF Twelve
      <4>2. Low(a, t) = a
        BY <3>1, <4>1, LowTwelveBits, Zenon
      <4> QED
        BY <4>2 DEF Low
    <3> QED
      BY <3>2, <3>3
  <2>3. GetNextCluster(c) = a
    BY <1>3, <2>1, <2>2 DEF GetNextCluster
  <2> QED
    BY <1>4, <2>3 DEF a
<1>5. CASE c = 2 * j + 1
  <2>1. c + c \div 2 = 3 * j + 1 /\ c % 2 = 1 /\ (3 * j + 1) + 1 = 3 * j + 2
    BY <1>1, <1>5
  <2> HIDE DEF j, a, b
  <2>2. ((a \div 256) + 16 * (b % 16) + 256 * (b \div 16)) \div 16 = b
    BY <1>2
  <2>3. GetNextCluster(c) = b
    BY <1>3, <2>1, <2>2 DEF GetNextCluster
  <2> QED
    BY <1>5, <2>3 DEF b
<1> QED
  BY <1>1, <1>4, <1>5

-----------------------------------------------------------------------------
(* What is read of a cluster is its contents or junk. *)
LEMMA ReadClusterType ==
  ASSUME NEW c PROVE ReadCluster(c) \in {JUNK} \cup DataClusters
BY DEF ReadCluster

(* The FAT gives a number of twelve bits. *)
LEMMA NextClustersType ==
  ASSUME TypeOK PROVE NextClusters(curr_cluster) \subseteq 0 .. LAST_MARK
<1>1. CASE curr_cluster \in 0 .. LAST
  <2>1. GetNextCluster(curr_cluster) = fat[curr_cluster]
    BY <1>1, NextClusterDecodes DEF TypeOK
  <2> QED
    BY <1>1, <2>1 DEF TypeOK, NextClusters
<1>2. CASE curr_cluster \notin 0 .. LAST
  BY <1>2 DEF NextClusters, END, LAST_MARK
<1> QED
  BY <1>1, <1>2

(* A turn of the loop keeps the types: the chain never leaves 12 bits, the  *)
(* copy never leaves the segment.                                           *)
LEMMA AdvanceType ==
  ASSUME TypeOK, NEW data \in {JUNK} \cup DataClusters,
         NEW next \in 0 .. LAST_MARK, Advance(data, next), failed' \in {0, 1}
  PROVE  TypeOK'
<1>1. curr_cluster' \in 0 .. LAST_MARK
  BY DEF Advance
<1>2. offset' \in 0 .. SLOTS - 1
  <2>1. offset + 1 \in Nat
    BY DEF TypeOK
  <2> QED
    BY <2>1 DEF Advance, StoreCluster
<1>3. mem' \in [0 .. SLOTS - 1 -> {JUNK} \cup DataClusters]
  BY DEF TypeOK, Advance, StoreCluster
<1>4. turns' \in 0 .. MaxTurns
  BY DEF TypeOK, Advance, MaxTurns
<1>5. st' \in {"loop", "loaded"}
  BY DEF Advance
<1> QED
  BY <1>1, <1>2, <1>3, <1>4, <1>5 DEF TypeOK, Advance

(* Loading keeps within the FAT's 12 bits and the program's segment,        *)
(* whatever the FAT holds, cyclic and broken chains included.               *)
THEOREM Fat12TypeCorrect == Spec => []TypeOK
<1>1. Init => TypeOK
  <2> SUFFICES ASSUME Init PROVE TypeOK
    OBVIOUS
  <2>1. PICK f \in [DataClusters -> {0, BAD, END, LAST_MARK} \cup DataClusters] :
          fat = [c \in 0 .. LAST |-> IF c \in DataClusters THEN f[c]
                                     ELSE IF c = 0 THEN MEDIA ELSE LAST_MARK]
    BY DEF Init
  <2>2. \A c \in DataClusters : f[c] \in 0 .. LAST_MARK
    <3>1. {0, BAD, END, LAST_MARK} \cup DataClusters \subseteq 0 .. LAST_MARK
      BY DEF BAD, END, LAST_MARK, DataClusters
    <3> QED
      BY <3>1
  <2>3. fat \in [0 .. LAST -> 0 .. LAST_MARK]
    <3>1. MEDIA \in 0 .. LAST_MARK /\ LAST_MARK \in 0 .. LAST_MARK
      BY DEF MEDIA, LAST_MARK
    <3> QED
      BY <2>1, <2>2, <3>1
  <2> QED
    <3>1. 0 \in 0 .. LAST /\ 0 \in 0 .. LAST_MARK /\ 0 \in 0 .. SLOTS - 1
      BY DEF LAST_MARK
    <3> QED
      BY <2>3, <3>1 DEF Init, TypeOK, MaxTurns
<1>2. TypeOK /\ [Next]_vars => TypeOK'
  <2> SUFFICES ASSUME TypeOK, [Next]_vars PROVE TypeOK'
    OBVIOUS
  <2>1. CASE LoadFile
    <3>1. start' \in 0 .. LAST /\ curr_cluster' \in 0 .. LAST_MARK
      BY <2>1 DEF LoadFile, DataClusters, LAST_MARK
    <3> QED
      BY <2>1, <3>1 DEF LoadFile, TypeOK
  <2>2. CASE Turn
    <3>1. PICK next \in NextClusters(curr_cluster) :
            Advance(ReadCluster(curr_cluster), next)
      BY <2>2 DEF Turn
    <3>2. next \in 0 .. LAST_MARK /\ failed' \in {0, 1}
      BY <2>2, NextClustersType DEF Turn, TypeOK
    <3> QED
      BY <3>1, <3>2, AdvanceType, ReadClusterType
  <2>3. CASE TurnFails
    <3>1. CASE iflag = 1
      <4>1. STALE \subseteq 0 .. LAST_MARK
        BY StaleAssumption DEF LAST_MARK
      <4>2. failed' \in {0, 1}
        BY <2>3, <3>1 DEF TurnFails
      <4>3. \E data \in {JUNK, ReadCluster(curr_cluster)},
              next \in 0 .. LAST_MARK : Advance(data, next)
        BY <2>3, <3>1, <4>1, NextClustersType DEF TurnFails
      <4> QED
        BY <4>2, <4>3, AdvanceType, ReadClusterType
    <3>2. CASE iflag # 1
      <4>1. /\ st' = "halted"
            /\ UNCHANGED <<fat, start, curr_cluster, turns, offset, mem, iflag, failed>>
        BY <2>3, <3>2 DEF TurnFails
      <4> QED
        BY <4>1 DEF TypeOK
    <3> QED
      BY <3>1, <3>2
  <2>4. CASE UNCHANGED vars
    BY <2>4 DEF vars, TypeOK
  <2> QED
    BY <2>1, <2>2, <2>3, <2>4 DEF Next, Stopped
<1> QED
  BY <1>1, <1>2, PTL DEF Spec

-----------------------------------------------------------------------------
(* The cluster after cluster x, by the FAT's own entry; past the end of    *)
(* the file there is no other.                                             *)
Follow(x) == IF x \in DataClusters THEN fat[x] ELSE x

ChainBody(c) == [k \in 0 .. MaxTurns |-> IF k = 0 THEN start
                   ELSE IF c[k - 1] \in DataClusters THEN fat[c[k - 1]] ELSE c[k - 1]]

(* The recursive definition of Chain has a solution, so it means what it   *)
(* says.                                                                   *)
LEMMA ChainUnfolds ==
  ASSUME TypeOK
  PROVE  /\ Chain[0] = start
         /\ \A k \in 1 .. MaxTurns : Chain[k] = Follow(Chain[k - 1])
<1> DEFINE D == 0 .. LAST_MARK
           g == [x \in D |-> Follow(x)]
<1>1. g \in [D -> D] /\ start \in D /\ MaxTurns \in Nat
  <2>1. \A x \in 0 .. LAST : fat[x] \in 0 .. LAST_MARK
    BY DEF TypeOK
  <2>2. DataClusters \subseteq 0 .. LAST /\ 0 .. LAST \subseteq 0 .. LAST_MARK
    BY DEF DataClusters, LAST_MARK
  <2>3. \A x \in D : Follow(x) \in D
    BY <2>1, <2>2 DEF Follow
  <2>4. start \in D /\ MaxTurns \in Nat
    BY <2>2 DEF TypeOK, MaxTurns
  <2> HIDE DEF D
  <2>5. QED
    BY <2>3, <2>4
<1> HIDE DEF D
<1>2. PICK f \in [0 .. MaxTurns -> D] :
         f[0] = start /\ \A k \in 1 .. MaxTurns : f[k] = g[f[k - 1]]
  <2> HIDE DEF g
  <2>1. \E f : Iterates(f, D, start, g, MaxTurns)
    BY <1>1, Iteration
  <2>2. QED
    BY <2>1 DEF Iterates
<1>3. \A k \in 1 .. MaxTurns : f[k] = Follow(f[k - 1])
  <2>1. \A k \in 1 .. MaxTurns : k - 1 \in 0 .. MaxTurns
    BY <1>1
  <2>2. QED
    BY <1>2, <2>1
<1>4. f = ChainBody(f)
  <2>1. \A k \in 0 .. MaxTurns : k = 0 \/ k \in 1 .. MaxTurns
    BY <1>1
  <2>2. QED
    BY <1>2, <1>3, <2>1 DEF ChainBody, Follow
<1>5. Chain = CHOOSE c : c = ChainBody(c)
  BY DEF Chain, ChainBody
<1>6. Chain = ChainBody(Chain)
  BY <1>4, <1>5, Zenon
<1>7. QED
  BY <1>1, <1>6 DEF ChainBody, Follow

(* The chain starts at the file's first cluster, after a step too. *)
StartsAtStart == Chain[0] = start

LEMMA ChainStart == TypeOK => StartsAtStart
BY ChainUnfolds DEF StartsAtStart

LEMMA ChainStarts == TypeOK' => StartsAtStart'
BY ChainStart, PTL

-----------------------------------------------------------------------------
(* Before a file is loaded nothing has been written. *)
IdleInv ==
  st = "idle" => /\ turns = 0 /\ offset = 0 /\ failed = 0
                 /\ mem = [i \in 0 .. SLOTS - 1 |-> JUNK]

(* Loading a file of n clusters follows its chain and, when the clusters   *)
(* can be read and fit, has copied those behind it.                        *)
OnChain(n) ==
  ChainLength(n) /\ failed = 0 =>
    /\ st = "loop" => turns < n /\ curr_cluster = Chain[turns]
    /\ n <= SLOTS /\ Readable(n) =>
         /\ st = "loop" => offset = turns /\ HoldsFile(turns)
         /\ st = "loaded" => HoldsFile(n)

FileInv == TypeOK /\ IdleInv /\ \A n \in 1 .. MaxTurns : OnChain(n)

(* The chain depends on the FAT and the directory entry only. *)
LEMMA SameChain ==
  ASSUME UNCHANGED <<fat, start>>
  PROVE  /\ Chain' = Chain
         /\ \A n \in 1 .. MaxTurns : ChainLength(n)' <=> ChainLength(n)
         /\ \A n \in 1 .. MaxTurns : Readable(n)' <=> Readable(n)
<1>1. Chain' = Chain
  BY DEF Chain
<1>2. QED
  BY <1>1 DEF ChainLength, Readable

(* One turn that the drive answers moves on by one cluster of the file. *)
LEMMA TurnFollows ==
  ASSUME FileInv, Turn, NEW n \in 1 .. MaxTurns, ChainLength(n), failed = 0
  PROVE  /\ st = "loop" /\ turns \in Nat /\ turns < n /\ curr_cluster = Chain[turns]
         /\ turns' = turns + 1 /\ curr_cluster' = Chain[turns + 1]
         /\ StoreCluster(ReadCluster(Chain[turns]))
         /\ st' = IF turns + 1 < n THEN "loop" ELSE "loaded"
<1>1. PICK next \in NextClusters(curr_cluster) : Advance(ReadCluster(curr_cluster), next)
  BY DEF Turn
<1>2. st = "loop" /\ turns \in Nat /\ turns < n /\ curr_cluster = Chain[turns] /\ TypeOK
  BY <1>1 DEF FileInv, OnChain, TypeOK, Advance
<1>3. MaxTurns \in Nat /\ n \in Nat /\ turns < MaxTurns /\ turns \in 0 .. n - 1
  BY <1>2 DEF MaxTurns
<1>4. curr_cluster \in DataClusters /\ curr_cluster \in 0 .. LAST
  BY <1>2, <1>3 DEF ChainLength, DataClusters
<1>5. next = fat[curr_cluster]
  BY <1>2, <1>4, NextClusterDecodes DEF NextClusters, TypeOK
<1>6. Chain[turns + 1] = fat[curr_cluster]
  <2>1. turns + 1 \in 1 .. MaxTurns /\ (turns + 1) - 1 = turns
    BY <1>2, <1>3
  <2>2. Chain[turns + 1] = Follow(Chain[turns])
    BY <1>2, <2>1, ChainUnfolds
  <2>3. QED
    BY <1>2, <1>4, <2>2 DEF Follow
<1>7. turns' = turns + 1 /\ curr_cluster' = Chain[turns + 1]
      /\ StoreCluster(ReadCluster(Chain[turns]))
  BY <1>1, <1>2, <1>3, <1>5, <1>6 DEF Advance
<1>8. st' = IF Chain[turns + 1] < END THEN "loop" ELSE "loaded"
  BY <1>1, <1>5, <1>6 DEF Advance, GoOn
<1>9. CASE turns + 1 < n
  <2>1. turns + 1 \in 0 .. n - 1
    BY <1>3, <1>9
  <2>2. Chain[turns + 1] \in DataClusters
    BY <2>1 DEF ChainLength
  <2>3. QED
    BY <1>2, <1>7, <1>8, <1>9, <2>2 DEF DataClusters, END
<1>10. CASE ~(turns + 1 < n)
  <2>1. turns + 1 = n
    BY <1>3, <1>10
  <2>2. Chain[turns + 1] >= END /\ Chain[turns + 1] \in Int
    <3>1. fat[curr_cluster] \in 0 .. LAST_MARK
      BY <1>2, <1>4 DEF TypeOK
    <3>2. Chain[n] >= END
      BY DEF ChainLength
    <3>3. Chain[turns + 1] \in 0 .. LAST_MARK
      BY <1>6, <3>1, Zenon
    <3>4. Chain[turns + 1] >= END
      BY <2>1, <3>2, Zenon
    <3>5. \A c \in 0 .. LAST_MARK : c \in Int
      BY DEF LAST_MARK
    <3>6. QED
      BY <3>3, <3>4, <3>5, Zenon
  <2>3. QED
    BY <1>2, <1>7, <1>8, <1>10, <2>2 DEF END
<1>11. QED
  BY <1>9, <1>10

(* A turn that the drive answers keeps what has been copied right. *)
LEMMA TurnKeepsChain ==
  ASSUME FileInv, Turn, NEW n \in 1 .. MaxTurns PROVE OnChain(n)'
<1>1. UNCHANGED <<fat, start, failed>>
  BY DEF Turn, Advance
<1>2. Chain' = Chain /\ (ChainLength(n)' <=> ChainLength(n)) /\ (Readable(n)' <=> Readable(n))
  BY <1>1, SameChain
<1>3. SUFFICES ASSUME ChainLength(n), failed = 0
               PROVE  /\ st' = "loop" => turns' < n /\ curr_cluster' = Chain[turns']
                      /\ n <= SLOTS /\ Readable(n) =>
                           /\ st' = "loop" => offset' = turns' /\ HoldsFile(turns)'
                           /\ st' = "loaded" => HoldsFile(n)'
  BY <1>1, <1>2 DEF OnChain
<1>4. /\ st = "loop" /\ turns \in Nat /\ turns < n /\ curr_cluster = Chain[turns]
      /\ turns' = turns + 1 /\ curr_cluster' = Chain[turns + 1]
      /\ StoreCluster(ReadCluster(Chain[turns]))
      /\ st' = IF turns + 1 < n THEN "loop" ELSE "loaded"
  BY <1>3, TurnFollows
<1>5. ASSUME n <= SLOTS, Readable(n)
      PROVE  /\ turns + 1 < n => offset' = turns + 1
             /\ \A i \in 0 .. SLOTS - 1 : mem'[i] = IF i < turns + 1 THEN Chain[i] ELSE JUNK
  <2>1. offset = turns /\ HoldsFile(turns) /\ TypeOK
    BY <1>3, <1>4, <1>5 DEF FileInv, OnChain
  <2>2. turns \in 0 .. n - 1 /\ turns \in 0 .. SLOTS - 1 /\ n \in Nat
    BY <1>4, <1>5 DEF MaxTurns
  <2>3. ReadCluster(Chain[turns]) = Chain[turns]
    BY <1>5, <2>2 DEF Readable, ReadCluster
  <2>4. mem' = [mem EXCEPT ![turns] = Chain[turns]] /\ offset' = (turns + 1) % SLOTS
    BY <1>4, <2>1, <2>3 DEF StoreCluster
  <2>5. turns + 1 < n => offset' = turns + 1
    BY <1>4, <1>5, <2>2, <2>4
  <2>6. \A i \in 0 .. SLOTS - 1 : mem'[i] = IF i < turns + 1 THEN Chain[i] ELSE JUNK
    <3>1. TAKE i \in 0 .. SLOTS - 1
    <3>2. mem[i] = IF i < turns THEN Chain[i] ELSE JUNK
      BY <2>1 DEF HoldsFile
    <3>3. mem'[i] = IF i = turns THEN Chain[turns] ELSE mem[i]
      BY <2>1, <2>2, <2>4 DEF TypeOK
    <3>4. QED
      BY <1>4, <3>2, <3>3
  <2>7. QED
    BY <2>5, <2>6
<1>6. CASE turns + 1 < n
  BY <1>2, <1>4, <1>5, <1>6 DEF HoldsFile
<1>7. CASE ~(turns + 1 < n)
  <2>1. turns + 1 = n
    BY <1>4, <1>7 DEF MaxTurns
  <2>2. QED
    BY <1>2, <1>4, <1>5, <1>7, <2>1 DEF HoldsFile
<1>8. QED
  BY <1>6, <1>7

(* Types, the idle segment and the chain, whatever the drive does. *)
THEOREM LoadingInvariant == Spec => []FileInv
<1>1. Init => IdleInv /\ \A n \in 1 .. MaxTurns : OnChain(n)
  BY DEF Init, IdleInv, OnChain
<1>2. TypeOK /\ TypeOK' /\ FileInv /\ [Next]_vars => FileInv'
  <2> SUFFICES ASSUME TypeOK, TypeOK', FileInv, [Next]_vars
               PROVE  IdleInv' /\ \A n \in 1 .. MaxTurns : OnChain(n)'
    BY DEF FileInv
  <2>1. CASE LoadFile
    <3>1. st' = "loop" /\ turns' = 0 /\ offset' = 0 /\ curr_cluster' = start' /\ failed' = 0
          /\ mem' = [i \in 0 .. SLOTS - 1 |-> JUNK]
      BY <2>1 DEF LoadFile, FileInv, IdleInv
    <3>2. Chain'[0] = start'
      BY ChainStarts DEF StartsAtStart
    <3>3. IdleInv'
      BY <3>1 DEF IdleInv
    <3>4. HoldsFile(turns)'
      BY <3>1 DEF HoldsFile
    <3>5. \A n \in 1 .. MaxTurns : OnChain(n)'
      BY <3>1, <3>2, <3>4 DEF OnChain, MaxTurns
    <3>6. QED
      BY <3>3, <3>5
  <2>2. CASE Turn
    <3>1. IdleInv'
      BY <2>2 DEF Turn, Advance, IdleInv
    <3>2. QED
      BY <2>2, <3>1, TurnKeepsChain
  <2>3. CASE TurnFails
    <3>1. failed' = 1 \/ st' = "halted"
      BY <2>3 DEF TurnFails
    <3>2. st' # "idle"
      BY <2>3 DEF TurnFails, Advance
    <3>3. QED
      BY <3>1, <3>2 DEF IdleInv, OnChain
  <2>4. CASE UNCHANGED vars
    <3>1. /\ UNCHANGED <<st, failed, turns, curr_cluster, offset, mem>>
          /\ Chain' = Chain
          /\ \A n \in 1 .. MaxTurns : ChainLength(n)' <=> ChainLength(n)
          /\ \A n \in 1 .. MaxTurns : Readable(n)' <=> Readable(n)
      BY <2>4, SameChain DEF vars
    <3>2. \A n : HoldsFile(n)' <=> HoldsFile(n)
      BY <3>1 DEF HoldsFile
    <3>3. IdleInv'
      BY <3>1 DEF IdleInv, FileInv
    <3>4. \A n \in 1 .. MaxTurns : OnChain(n)'
      BY <3>1, <3>2 DEF FileInv, OnChain
    <3>5. QED
      BY <3>3, <3>4
  <2>5. QED
    BY <2>1, <2>2, <2>3, <2>4 DEF Next, Stopped
<1>3. Spec => []TypeOK
  BY Fat12TypeCorrect
<1>4. TypeOK /\ IdleInv /\ (\A n \in 1 .. MaxTurns : OnChain(n)) => FileInv
  BY DEF FileInv
<1>5. QED
  BY <1>1, <1>2, <1>3, <1>4, PTL DEF Spec

(* While a file with a proper chain is loaded the loop reads its clusters  *)
(* only, for every FAT, disk and starting cluster.                         *)
THEOREM LoadStaysOnChain == Spec => []StaysOnChain
<1>1. FileInv => StaysOnChain
  BY DEF FileInv, OnChain, StaysOnChain
<1>2. QED
  BY <1>1, LoadingInvariant, PTL

(* A file whose clusters fit and can be read is in the segment when it is  *)
(* loaded, complete and in order, and nothing else has been written.       *)
THEOREM LoadsAreCorrect == Spec => []LoadCorrect
<1>1. FileInv => LoadCorrect
  <2>1. SUFFICES ASSUME FileInv, st = "loaded", failed = 0, NEW n \in 1 .. SLOTS,
                        ChainLength(n), Readable(n)
                 PROVE  HoldsFile(n)
    BY DEF LoadCorrect
  <2>2. n \in 1 .. MaxTurns /\ n <= SLOTS
    BY <2>1 DEF ChainLength
  <2>3. QED
    BY <2>1, <2>2 DEF FileInv, OnChain
<1>2. QED
  BY <1>1, LoadingInvariant, PTL
=============================================================================
