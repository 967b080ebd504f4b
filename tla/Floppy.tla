------------------------------- MODULE Floppy -------------------------------
(***************************************************************************)
(* Reading a floppy drive: lba_to_chs and the block-device path of lseek   *)
(* and read, kernel/kernio.c, on the kernel's descriptor of the drive.     *)
(* read turns the position into a cylinder, head and sector, then reads    *)
(* one sector per turn of its loop into sector_buf and copies from there.  *)
(*                                                                         *)
(* A byte of the disk is named by its position, and a buffer holds the     *)
(* names of the bytes it was filled with, or JUNK: a buffer is right when  *)
(* byte k of it is the byte at the position asked for plus k.  The drive   *)
(* itself (int 13h) is external: it delivers the sector that the           *)
(* cylinder, head and sector number address, or fails.                     *)
(***************************************************************************)
EXTENDS Integers

CONSTANTS SECTOR,          \* bytes per sector (512)
          SECTORS,         \* sectors per track (18)
          HEADS,           \* heads (2)
          CYLINDERS,       \* cylinders (80)
          BYTE,            \* values of an unsigned char (256), which a cylinder is
          MaxCount,        \* bound: the longest read
          MaxPos           \* bound: how far the position is followed

ASSUME FloppyAssumption ==
  /\ SECTOR \in Nat \ {0} /\ SECTORS \in Nat \ {0} /\ HEADS \in Nat \ {0}
  /\ CYLINDERS \in Nat \ {0} /\ MaxCount \in Nat
  /\ BYTE \in Nat /\ BYTE > CYLINDERS
  /\ MaxPos \in Nat

(* The position is followed past the end of the disk, but not to where the *)
(* sector number outgrows the 16 bits of lba_to_chs's argument.            *)
ASSUME SectorNumberFits == MaxPos \div SECTOR < 65536

DiskSectors == CYLINDERS * HEADS * SECTORS
DiskBytes == DiskSectors * SECTOR
AddressedSectors == BYTE * HEADS * SECTORS     \* before the cylinder wraps
JUNK == -1

VARIABLES st,              \* "idle", "loop" (in read's loop) or "halted"
          pos,             \* fd_list[fd].pos
          count,           \* read's argument
          chs,             \* read's cylinder, head and sector
          num_sectors,     \* sectors still to be read
          num_bytes,       \* bytes still to be copied
          sector_offset,   \* where in the sector the bytes start
          new_buf,         \* where in the caller's buffer they go
          buf,             \* the caller's buffer
          sector_buf,      \* the number of the sector it holds, or JUNK
          iflag,           \* the interrupt flag while reading
          faulted          \* a sector of this read failed

vars == <<st, pos, count, chs, num_sectors, num_bytes, sector_offset, new_buf,
          buf, sector_buf, iflag, faulted>>

(* Mutant: the head changes one sector earlier still. *)
LbaToChsEarly(lba) == [cylinder |-> (lba \div (SECTORS * HEADS)) % BYTE,
                       head |-> ((lba + 2) \div SECTORS) % HEADS,
                       sector |-> (lba % SECTORS) + 1]

(* lba_to_chs *)
LbaToChs(lba) == [cylinder |-> (lba \div (SECTORS * HEADS)) % BYTE,
                  head |-> ((lba + 1) \div SECTORS) % HEADS,
                  sector |-> (lba % SECTORS) + 1]

(* The sector of the disk the hardware finds at an address. *)
SectorAt(a) == (a.cylinder * HEADS + a.head) * SECTORS + a.sector - 1

Valid(a) == a.cylinder < CYLINDERS /\ a.head < HEADS /\ a.sector \in 1 .. SECTORS

SectorsFor(n) == IF n = 0 THEN 0 ELSE (n - 1) \div SECTOR + 1

TypeOK ==
  /\ st \in {"idle", "loop", "halted"}
  /\ pos \in 0 .. MaxPos /\ count \in 0 .. MaxCount
  /\ chs \in [cylinder : 0 .. BYTE - 1, head : 0 .. HEADS - 1, sector : 1 .. SECTORS + 1]
  /\ num_sectors \in 0 .. SectorsFor(MaxCount) /\ num_bytes \in 0 .. MaxCount
  /\ sector_offset \in 0 .. SECTOR - 1
  /\ new_buf \in 0 .. MaxCount + SECTOR
  /\ buf \in [0 .. MaxCount - 1 -> JUNK .. DiskBytes - 1]
  /\ sector_buf \in JUNK .. DiskSectors - 1
  /\ iflag \in {0, 1} /\ faulted \in BOOLEAN

Init ==
  /\ st = "idle" /\ pos = 0 /\ count = 0
  /\ chs = [cylinder |-> 0, head |-> 0, sector |-> 1]
  /\ num_sectors = 0 /\ num_bytes = 0 /\ sector_offset = 0 /\ new_buf = 0
  /\ buf = [k \in 0 .. MaxCount - 1 |-> JUNK] /\ sector_buf = JUNK
  /\ iflag = 0 /\ faulted = FALSE

(* lseek *)
Lseek ==
  /\ st = "idle"
  /\ pos' \in 0 .. MaxPos
  /\ UNCHANGED <<st, count, chs, num_sectors, num_bytes, sector_offset, new_buf, buf,
                 sector_buf, iflag, faulted>>

(* read up to its loop.  Its locals and the caller's buffer hold whatever  *)
(* was in memory; interrupts are on only while init is loaded.  There is   *)
(* no test for the end of the disk: a read may start at or run past it.    *)
Read ==
  /\ st = "idle"
  /\ count' \in 0 .. MaxCount /\ pos + count' <= MaxPos
  /\ iflag' \in {0, 1}
  /\ st' = "loop"
  /\ chs' = LbaToChs(pos \div SECTOR)
  /\ num_sectors' = SectorsFor(count')
  /\ num_bytes' = count'
  /\ sector_offset' = pos % SECTOR
  /\ new_buf' = 0
  /\ buf' = [k \in 0 .. MaxCount - 1 |-> JUNK]
  /\ sector_buf' = JUNK /\ faulted' = FALSE
  /\ UNCHANGED pos

(* Mutant: the end of the track is noticed one sector too late. *)
CarryLate ==
  IF chs.sector <= SECTORS + 1 THEN chs
  ELSE LET h == (chs.head + 1) % HEADS
       IN  [sector |-> 1, head |-> h,
            cylinder |-> IF h = 0 THEN (chs.cylinder + 1) % BYTE ELSE chs.cylinder]

(* The head of the loop: past the last sector of a track the next head, or *)
(* the first head of the next cylinder.                                    *)
Carry ==
  IF chs.sector <= SECTORS THEN chs
  ELSE LET h == (chs.head + 1) % HEADS
       IN  [sector |-> 1, head |-> h,
            cylinder |-> IF h = 0 THEN (chs.cylinder + 1) % BYTE ELSE chs.cylinder]

(* Byte o of sector_buf when it holds sector s; beyond its end lies        *)
(* whatever follows it on the kernel's stack.                              *)
BufferByte(s, o) == IF s = JUNK \/ o >= SECTOR THEN JUNK ELSE s * SECTOR + o

(* Mutant: a short last sector is not told apart. *)
CopyUnderflows(s) ==
  /\ buf' = [k \in 0 .. MaxCount - 1 |->
               IF k >= new_buf /\ k < new_buf + num_bytes
               THEN BufferByte(s, sector_offset + k - new_buf)
               ELSE buf[k]]
  /\ num_bytes' = num_bytes - (SECTOR - sector_offset)
  /\ new_buf' = new_buf + SECTOR - sector_offset
  /\ num_sectors' = num_sectors - 1
  /\ chs' = [Carry EXCEPT !.sector = @ + 1]
  /\ sector_offset' = 0
  /\ sector_buf' = s

(* Mutant: sector_offset is kept for the next sector. *)
CopyKeepsOffset(s) ==
  LET n == IF num_bytes > SECTOR THEN SECTOR ELSE num_bytes IN
  /\ buf' = [k \in 0 .. MaxCount - 1 |->
               IF k >= new_buf /\ k < new_buf + n
               THEN BufferByte(s, sector_offset + k - new_buf)
               ELSE buf[k]]
  /\ num_bytes' = IF num_bytes > SECTOR THEN num_bytes - (SECTOR - sector_offset) ELSE 0
  /\ new_buf' = new_buf + SECTOR - sector_offset
  /\ num_sectors' = num_sectors - 1
  /\ chs' = [Carry EXCEPT !.sector = @ + 1]
  /\ sector_buf' = s
  /\ UNCHANGED sector_offset

(* Mutant: every turn copies a whole sector. *)
CopyWholeSector(s) ==
  /\ buf' = [k \in 0 .. MaxCount - 1 |->
               IF k >= new_buf /\ k < new_buf + SECTOR
               THEN BufferByte(s, sector_offset + k - new_buf)
               ELSE buf[k]]
  /\ num_bytes' = IF num_bytes > SECTOR THEN num_bytes - (SECTOR - sector_offset) ELSE 0
  /\ new_buf' = new_buf + SECTOR - sector_offset
  /\ num_sectors' = num_sectors - 1
  /\ chs' = [Carry EXCEPT !.sector = @ + 1]
  /\ sector_offset' = 0
  /\ sector_buf' = s

(* The rest of a turn, with sector s in sector_buf. *)
CopySector(s) ==
  LET n == IF num_bytes > SECTOR THEN SECTOR ELSE num_bytes IN
  /\ buf' = [k \in 0 .. MaxCount - 1 |->
               IF k >= new_buf /\ k < new_buf + n
               THEN BufferByte(s, sector_offset + k - new_buf)
               ELSE buf[k]]
  /\ num_bytes' = IF num_bytes > SECTOR THEN num_bytes - (SECTOR - sector_offset) ELSE 0
  /\ new_buf' = new_buf + SECTOR - sector_offset
  /\ num_sectors' = num_sectors - 1
  /\ chs' = [Carry EXCEPT !.sector = @ + 1]
  /\ sector_offset' = 0
  /\ sector_buf' = s

(* One turn of the loop in which the drive delivers the sector. *)
Turn ==
  /\ st = "loop" /\ num_sectors > 0 /\ Valid(Carry)
  /\ CopySector(SectorAt(Carry))
  /\ UNCHANGED <<st, pos, count, iflag, faulted>>

(* Mutant: a failed sector is tried again, without end. *)
FaultRetries ==
  /\ st = "loop" /\ num_sectors > 0
  /\ faulted' = TRUE
  /\ st' = IF iflag = 0 THEN "halted" ELSE st
  /\ UNCHANGED <<pos, count, chs, num_sectors, num_bytes, sector_offset, new_buf, buf,
                 sector_buf, iflag>>

(* One turn in which it fails: hlt.  With interrupts off that is the end;  *)
(* with interrupts on the turn goes on with what sector_buf holds.         *)
Fault ==
  /\ st = "loop" /\ num_sectors > 0
  /\ faulted' = TRUE
  /\ IF iflag = 0
     THEN /\ st' = "halted"
          /\ UNCHANGED <<chs, num_sectors, num_bytes, sector_offset, new_buf, buf, sector_buf>>
     ELSE st' = st /\ CopySector(sector_buf)
  /\ UNCHANGED <<pos, count, iflag>>

(* The loop is done: the position moves on by the bytes asked for. *)
Finish ==
  /\ st = "loop" /\ num_sectors = 0
  /\ st' = "idle"
  /\ pos' = pos + count
  /\ UNCHANGED <<count, chs, num_sectors, num_bytes, sector_offset, new_buf, buf,
                 sector_buf, iflag, faulted>>

Stopped == st = "halted" /\ UNCHANGED vars

Next == Lseek \/ Read \/ Turn \/ Fault \/ Finish \/ Stopped

Spec == Init /\ [][Next]_vars

(* The drive answers: with the sector, or with a failure if there is none. *)
FairSpec == Spec /\ WF_vars(Turn \/ Finish \/ (Fault /\ ~Valid(Carry)))

-----------------------------------------------------------------------------
(* The sector a read starts in is not the last of its track... *)
StartsInsideTrack == (pos \div SECTOR) % SECTORS # SECTORS - 1

(* ... and the bytes asked for end in the last of the sectors read, which  *)
(* are counted as if the read began at the start of one.                   *)
EndsInSectorsRead == (pos % SECTOR) + count <= SECTOR * SectorsFor(count)

(* The read ends before the cylinder, an unsigned char, wraps to 0. *)
Addressable == pos + count < AddressedSectors * SECTOR

Done == st = "loop" /\ num_sectors = 0 /\ ~faulted

BufferIsRight == \A k \in 0 .. count - 1 : buf[k] = pos + k

(* The sector of docs/flp_sector_map.xlsx whose turn it is. *)
MapSector == pos \div SECTOR + SectorsFor(count) - num_sectors

(* A read that starts inside a track and spans no more sectors than its    *)
(* length needs delivers the bytes asked for if it ends at all, across     *)
(* tracks, heads and cylinders and in spite of the copy past sector_buf's  *)
(* end in the first turn: all reads of whole sectors and clusters, and of  *)
(* directory entries, that do not start in the last sector of a track.  A  *)
(* read past the end of the disk delivers nothing in place of what is not  *)
(* there, up to where the cylinder wraps: from there it would deliver the  *)
(* start of the disk.                                                      *)
ReadCorrect ==
  Done /\ StartsInsideTrack /\ EndsInSectorsRead /\ Addressable => BufferIsRight

(* After any number of turns a read that starts inside a track is at the   *)
(* sector that many sectors further on, whether or not sectors failed and  *)
(* also past the end of the disk.                                          *)
AddressFollowsMap ==
  st = "loop" /\ StartsInsideTrack /\ Addressable => SectorAt(chs) = MapSector

(* Read makes no test for the end of the disk; the drive does.  What such  *)
(* a read asks for is a sector the drive has as long as the sector whose   *)
(* turn it is is on the disk, and none it has once it is past the end:     *)
(* running off the disk is a failed sector, never another sector's bytes.  *)
AddressExists ==
  st = "loop" /\ num_sectors > 0 /\ StartsInsideTrack /\ Addressable =>
    (Valid(Carry) <=> MapSector < DiskSectors)

(* No turn writes past the end of the caller's buffer, also when the copy  *)
(* is a whole sector from the middle of sector_buf.                        *)
WritesInBuffer ==
  [][\A k \in 0 .. MaxCount - 1 : k >= count /\ st = "loop" => buf'[k] = buf[k]]_vars

(* A read ends or, after a failure, halts; it goes on for ever only if the *)
(* drive does.                                                             *)
ReadEnds == (st = "loop") ~> (st # "loop")

(* docs/flp_sector_map.xlsx numbers the sectors of a diskette: the last    *)
(* sector of a track (18 on track 0) is followed by sector 1 of the next.  *)
(* The sector in sector_buf is the one the map gives.                      *)
SectorMapFollowed ==
  st = "loop" /\ ~faulted /\ sector_buf # JUNK =>
    sector_buf = MapSector - 1

(* The reads of get_next_cluster (fs/msdos/fs.c), two bytes at any         *)
(* position of a FAT.                                                      *)
EntryRead == Done /\ StartsInsideTrack /\ count = 2 => BufferIsRight
=============================================================================
