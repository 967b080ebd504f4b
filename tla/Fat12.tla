-------------------------------- MODULE Fat12 --------------------------------
(***************************************************************************)
(* Loading a file's contents, fs/msdos/fs.c: load_file_content follows the *)
(* cluster chain in the packed 12-bit FAT (get_next_cluster), reads each   *)
(* cluster (read_cluster) and copies it to the segment of the program      *)
(* (load_to_memory of kernel/kernio.c), whose 16-bit offset wraps at 64K.  *)
(*                                                                         *)
(* A cluster's contents are named by its number; the segment is divided    *)
(* into the 4096-byte slots the loop fills.  Clusters stay below 341: up   *)
(* to there every entry lies within the FAT's first sector (module Floppy  *)
(* has what happens to one that does not).                                 *)
(***************************************************************************)
EXTENDS Integers

CONSTANTS LAST,            \* the last cluster of the disk
          SLOTS,           \* clusters that fit into a segment (16)
          DATA_START,      \* first sector of the data section
          PER_CLUSTER,     \* sectors per cluster (8)
          SECTORS,         \* sectors per track (18)
          STALE            \* next clusters a stale sector buffer may give

(* Entries come in pairs, so the last one has an odd number. *)
ASSUME Fat12Assumption ==
  /\ LAST \in 3 .. 340 /\ LAST % 2 = 1 /\ SLOTS \in Nat \ {0}
  /\ DATA_START \in Nat /\ PER_CLUSTER \in Nat \ {0} /\ SECTORS \in Nat \ {0}

ASSUME StaleAssumption == STALE \subseteq 0 .. 4095

JUNK == -1                 \* contents of no cluster
BAD == 4087                \* 0FF7h, the mark of a bad cluster
END == 4088                \* 0FF8h, the first of the end marks
MEDIA == 4080              \* 0FF0h, what the FAT holds for cluster 0
LAST_MARK == 4095          \* 0FFFh

DataClusters == 2 .. LAST

VARIABLES fat,             \* the FAT: an entry for every cluster
          st,              \* "idle", "loop", "loaded" or "halted"
          start,           \* file->starting_cluster
          curr_cluster,    \* the cluster the next turn reads
          turns,           \* turns so far, up to one more than clusters
          offset,          \* the slot the next turn fills
          mem,             \* the segment
          iflag,           \* the interrupt flag while loading
          failed           \* 1 once the drive failed and the loop went on

vars == <<fat, st, start, curr_cluster, turns, offset, mem, iflag, failed>>

MaxTurns == LAST           \* a chain without a cycle is shorter

TypeOK ==
  /\ fat \in [0 .. LAST -> 0 .. LAST_MARK]
  /\ st \in {"idle", "loop", "loaded", "halted"}
  /\ start \in 0 .. LAST /\ curr_cluster \in 0 .. LAST_MARK
  /\ turns \in 0 .. MaxTurns
  /\ offset \in 0 .. SLOTS - 1
  /\ mem \in [0 .. SLOTS - 1 -> {JUNK} \cup DataClusters]
  /\ iflag \in {0, 1} /\ failed \in {0, 1}

(* The FAT as bytes, two entries in three: the format of the disk. *)
FatByte(k) ==
  LET j == k \div 3 IN
  IF k % 3 = 0 THEN fat[2 * j] % 256
  ELSE IF k % 3 = 1 THEN (fat[2 * j] \div 256) + 16 * (fat[2 * j + 1] % 16)
  ELSE fat[2 * j + 1] \div 16

(* Mutant: the nibbles of odd and even clusters are exchanged. *)
GetNextClusterSwapped(c) ==
  LET cluster_entry == c + c \div 2
      next_cluster == FatByte(cluster_entry) + 256 * FatByte(cluster_entry + 1)
  IN  IF c % 2 = 0 THEN next_cluster \div 16 ELSE next_cluster % 4096

(* get_next_cluster: the word at one and a half times the cluster's number *)
(* holds the entry in its high or its low twelve bits.                     *)
GetNextCluster(c) ==
  LET cluster_entry == c + c \div 2
      next_cluster == FatByte(cluster_entry) + 256 * FatByte(cluster_entry + 1)
  IN  IF c % 2 = 1 THEN next_cluster \div 16 ELSE next_cluster % 4096

(* read_cluster: the position, as a sector, and what a read of a whole     *)
(* cluster from there brings.  One that starts in the last sector of a     *)
(* track is read from the wrong head (Floppy), one that is no data cluster *)
(* brings something else of the disk.                                      *)
FirstSector(c) == DATA_START + PER_CLUSTER * (c - 2)

ReadCluster(c) ==
  IF c \in DataClusters /\ FirstSector(c) % SECTORS # SECTORS - 1 THEN c ELSE JUNK

(* A file without clusters has starting cluster 0 in its directory entry. *)
Init ==
  /\ \E f \in [DataClusters -> {0, BAD, END, LAST_MARK} \cup DataClusters] :
       fat = [c \in 0 .. LAST |-> IF c \in DataClusters THEN f[c]
                                  ELSE IF c = 0 THEN MEDIA ELSE LAST_MARK]
  /\ st = "idle" /\ start = 0 /\ curr_cluster = 0 /\ turns = 0 /\ offset = 0
  /\ mem = [i \in 0 .. SLOTS - 1 |-> JUNK]
  /\ iflag = 0
  /\ failed = 0

(* load_file_content is called; interrupts are on only for init. *)
LoadFile ==
  /\ st = "idle"
  /\ start' \in {0} \cup DataClusters
  /\ curr_cluster' = start'
  /\ iflag' \in {0, 1}
  /\ st' = "loop"
  /\ UNCHANGED <<fat, turns, offset, mem, failed>>

(* Mutant: the offset does not wrap. *)
StoreBeyond(data) ==
  /\ mem' = [mem EXCEPT ![offset] = data]
  /\ offset' = offset + 1

(* Mutant: the offset stays. *)
StoreInPlace(data) ==
  /\ mem' = [mem EXCEPT ![offset] = data]
  /\ UNCHANGED offset

(* load_to_memory and the step of offset, which is 16 bits of di. *)
StoreCluster(data) ==
  /\ mem' = [mem EXCEPT ![offset] = data]
  /\ offset' = (offset + 1) % SLOTS

(* Mutant: only the first end mark ends the loop. *)
GoOnUntilEnd(c) == c # END

(* The condition of the do loop. *)
GoOn(c) == c < END

(* What the FAT's sector gives for the next cluster.  What it holds beyond *)
(* the clusters of the disk is not modelled: anything.                     *)
NextClusters(c) ==
  IF c \in 0 .. LAST THEN {GetNextCluster(c)} ELSE {0, END}

(* A turn of the loop that copies data and goes on with cluster next. *)
Advance(data, next) ==
  /\ st = "loop"
  /\ StoreCluster(data)
  /\ curr_cluster' = next
  /\ turns' = IF turns < MaxTurns THEN turns + 1 ELSE turns
  /\ st' = IF GoOn(next) THEN "loop" ELSE "loaded"
  /\ UNCHANGED <<fat, start, iflag>>

(* A turn.  Beyond the disk the drive may fail or, as the cylinder is a    *)
(* byte, find a sector somewhere else.                                     *)
Turn ==
  /\ \E next \in NextClusters(curr_cluster) : Advance(ReadCluster(curr_cluster), next)
  /\ UNCHANGED failed

(* A turn in which the drive fails, for the cluster, for the FAT, or both: *)
(* with interrupts off halt stops the processor, else read goes on with    *)
(* what the buffers held, the next cluster included.                       *)
TurnFails ==
  \/ /\ iflag = 1
     /\ \/ \E next \in NextClusters(curr_cluster) : Advance(JUNK, next)
        \/ \E data \in {JUNK, ReadCluster(curr_cluster)},
             next \in STALE : Advance(data, next)
     /\ failed' = 1
  \/ /\ iflag = 0 /\ st = "loop"
     /\ st' = "halted"
     /\ UNCHANGED <<fat, start, curr_cluster, turns, offset, mem, iflag, failed>>

(* load_file_content has returned, or the processor has stopped. *)
Stopped == st \in {"loaded", "halted"} /\ UNCHANGED vars

Next == LoadFile \/ Turn \/ TurnFails \/ Stopped

Spec == Init /\ [][Next]_vars

(* The processor goes on; the drive answers. *)
FairSpec == Spec /\ WF_vars(Turn)

-----------------------------------------------------------------------------
(* The file the directory entry describes: its clusters, by the FAT's own  *)
(* entries.                                                                *)
Chain ==
  LET c[k \in 0 .. MaxTurns] ==
        IF k = 0 THEN start
        ELSE IF c[k - 1] \in DataClusters THEN fat[c[k - 1]] ELSE c[k - 1]
  IN  c

(* The chain has n clusters, all of them on the disk, and ends. *)
ChainLength(n) ==
  /\ n \in 1 .. MaxTurns /\ Chain[n] >= END
  /\ \A k \in 0 .. n - 1 : Chain[k] \in DataClusters

Readable(n) == \A k \in 0 .. n - 1 : ReadCluster(Chain[k]) # JUNK

(* What the segment holds of a file is right up to cluster n: its clusters *)
(* in order, and nothing beyond them.                                      *)
HoldsFile(n) ==
  \A i \in 0 .. SLOTS - 1 : mem[i] = IF i < n THEN Chain[i] ELSE JUNK

(* A file with a proper chain of no more clusters than fit into a segment, *)
(* none of them starting in the last sector of a track, is in the segment, *)
(* complete and in order, when loading ends without a failure of the drive,*)
(* and nothing else of the segment has been written: chains in any order   *)
(* through odd and even clusters, each end mark, an exactly full segment.  *)
LoadCorrect ==
  st = "loaded" /\ failed = 0 =>
    \A n \in 1 .. SLOTS : ChainLength(n) /\ Readable(n) => HoldsFile(n)

(* While a file with a proper chain is loaded, the loop reads its clusters *)
(* only: it never runs on into a free, bad or foreign cluster, but after a *)
(* failure of the drive.                                                   *)
StaysOnChain ==
  \A n \in 1 .. MaxTurns :
    ChainLength(n) /\ st = "loop" /\ failed = 0 => turns < n /\ curr_cluster = Chain[turns]

(* A file with a proper chain is loaded, or the drive fails: load and with *)
(* it run_program go on.                                                   *)
LoadEnds ==
  (st = "loop" /\ \E n \in 1 .. MaxTurns : ChainLength(n))
    ~> (st \in {"loaded", "halted"} \/ failed = 1)
=============================================================================
