---------------------------- MODULE FloppyProofs ----------------------------
(***************************************************************************)
(* Proofs about Floppy at the geometry read fills in for both drives, 18   *)
(* sectors and 2 heads, with a cylinder of eight bits, for every position   *)
(* (past the end of the disk too), length, disk size and sector size.      *)
(***************************************************************************)
EXTENDS Floppy, TLAPS

USE FloppyAssumption

Geometry1440 == SECTORS = 18 /\ HEADS = 2 /\ BYTE = 256

(* lba_to_chs finds every sector but the last of a track, as long as the   *)
(* cylinder fits its eight bits.                                           *)
THEOREM LbaToChsInsideTrack ==
  ASSUME Geometry1440, NEW lba \in Nat, lba % 18 # 17, lba < 9216
  PROVE  /\ SectorAt(LbaToChs(lba)) = lba
         /\ LbaToChs(lba) \in [cylinder : Nat, head : {0, 1}, sector : 1 .. 18]
BY DEF Geometry1440, SectorAt, LbaToChs

(* It takes the last sector of a track for that of the other head. *)
THEOREM LbaToChsLastSector ==
  ASSUME Geometry1440, NEW lba \in Nat, lba % 18 = 17, lba < 9216
  PROVE  SectorAt(LbaToChs(lba)) = IF lba % 36 = 17 THEN lba + 18 ELSE lba - 18
BY DEF Geometry1440, SectorAt, LbaToChs

-----------------------------------------------------------------------------
(* The sectors a read of n bytes takes are a number. *)
LEMMA SectorsForNat == ASSUME NEW n \in Nat PROVE SectorsFor(n) \in Nat
<1>1. CASE n = 0
  BY <1>1 DEF SectorsFor
<1>2. CASE n # 0
  <2>1. n - 1 \in Nat
    BY <1>2
  <2>2. (n - 1) \div SECTOR \in Nat
    BY <2>1
  <2> QED
    BY <1>2, <2>2 DEF SectorsFor
<1> QED
  BY <1>1, <1>2

(* Moving on to the next head or cylinder leaves the sector within its     *)
(* track, and does not change the sector meant unless the cylinder wraps.  *)
LEMMA CarryKeepsSector ==
  ASSUME Geometry1440, chs \in [cylinder : 0 .. 255, head : {0, 1}, sector : 1 .. 19]
  PROVE  /\ Carry \in [cylinder : 0 .. 255, head : {0, 1}, sector : 1 .. 18]
         /\ SectorAt(chs) < 9216 => SectorAt(Carry) = SectorAt(chs)
<1>1. CASE chs.sector <= 18
  BY <1>1 DEF Carry, Geometry1440
<1>2. CASE chs.sector = 19 /\ chs.head = 0
  <2>1. Carry = [sector |-> 1, head |-> 1, cylinder |-> chs.cylinder]
    BY <1>2 DEF Carry, Geometry1440
  <2>2. QED
    BY <1>2, <2>1 DEF SectorAt, Geometry1440
<1>3. CASE chs.sector = 19 /\ chs.head = 1
  <2>1. Carry = [sector |-> 1, head |-> 0, cylinder |-> (chs.cylinder + 1) % 256]
    BY <1>3 DEF Carry, Geometry1440
  <2>2. (chs.cylinder + 1) % 256 \in 0 .. 255
    OBVIOUS
  <2>3. SectorAt(chs) = chs.cylinder * 36 + 36
    BY <1>3 DEF SectorAt, Geometry1440
  <2>4. SectorAt(chs) < 9216 => (chs.cylinder + 1) % 256 = chs.cylinder + 1
    BY <2>3
  <2>5. SectorAt(Carry) = ((chs.cylinder + 1) % 256) * 36
    BY <2>1, <2>2 DEF SectorAt, Geometry1440
  <2>6. QED
    BY <2>1, <2>2, <2>3, <2>4, <2>5
<1> QED
  BY <1>1, <1>2, <1>3

-----------------------------------------------------------------------------
(* Arithmetic of sectors: SECTOR is a symbol, so products by it need care. *)
LEMMA DivMod ==
  ASSUME NEW n \in Nat
  PROVE  /\ n \div SECTOR \in Nat /\ n % SECTOR \in 0 .. SECTOR - 1
         /\ n = (n \div SECTOR) * SECTOR + (n % SECTOR)
BY Z3

(* Multiples of the sector size are ordered like their factors. *)
LEMMA Multiples ==
  ASSUME NEW a \in Int, NEW b \in Int
  PROVE  /\ a * SECTOR \in Int /\ (a + 1) * SECTOR = a * SECTOR + SECTOR
         /\ (a + b) * SECTOR = a * SECTOR + b * SECTOR
         /\ a <= b => a * SECTOR <= b * SECTOR
         /\ a * SECTOR < b * SECTOR => a < b
<1>1. a * SECTOR \in Int /\ (a + 1) * SECTOR = a * SECTOR + SECTOR
  OBVIOUS
<1>2. (a + b) * SECTOR = a * SECTOR + b * SECTOR
  OBVIOUS
<1>3. a <= b => a * SECTOR <= b * SECTOR
  OBVIOUS
<1>4. b <= a => b * SECTOR <= a * SECTOR
  OBVIOUS
<1>5. a * SECTOR < b * SECTOR => a < b
  BY <1>1, <1>4
<1>6. QED
  BY <1>1, <1>2, <1>3, <1>5

(* The sectors counted for n bytes cover them, the last one not in vain. *)
LEMMA SectorsCover ==
  ASSUME NEW n \in Nat
  PROVE  /\ SectorsFor(n) \in Nat /\ (n = 0 <=> SectorsFor(n) = 0)
         /\ n > 0 => (SectorsFor(n) - 1) * SECTOR <= n - 1
         /\ n <= SectorsFor(n) * SECTOR
         /\ n <= SECTOR => SectorsFor(n) <= 1
<1>1. CASE n = 0
  BY <1>1 DEF SectorsFor
<1>2. CASE n # 0
  <2> DEFINE q == (n - 1) \div SECTOR
  <2>1. n - 1 \in Nat
    BY <1>2
  <2>2. q \in Nat /\ (n - 1) % SECTOR \in 0 .. SECTOR - 1
        /\ n - 1 = q * SECTOR + ((n - 1) % SECTOR)
    BY <2>1, DivMod
  <2>3. SectorsFor(n) = q + 1
    BY <1>2 DEF SectorsFor
  <2> HIDE DEF q
  <2>4. q * SECTOR \in Int /\ (q + 1) * SECTOR = q * SECTOR + SECTOR
    BY <2>2, Multiples
  <2>5. q * SECTOR <= n - 1 /\ n <= (q + 1) * SECTOR
    BY <2>2, <2>4
  <2>6. n <= SECTOR => q < 1
    <3>1. 1 * SECTOR = SECTOR
      OBVIOUS
    <3>2. q * SECTOR < 1 * SECTOR => q < 1
      BY <2>2, Multiples
    <3>3. QED
      BY <2>5, <2>4, <3>1, <3>2
  <2>7. QED
    BY <1>2, <2>2, <2>3, <2>5, <2>6
<1>3. QED
  BY <1>1, <1>2

(* More bytes never take fewer sectors. *)
LEMMA SectorsMonotone ==
  ASSUME NEW m \in Nat, NEW n \in Nat, m <= n PROVE SectorsFor(m) <= SectorsFor(n)
<1>1. CASE m = 0
  BY <1>1, SectorsCover
<1>2. CASE m # 0
  <2> DEFINE a == SectorsFor(m)
             b == SectorsFor(n)
  <2>1. a \in Nat /\ b \in Nat /\ (a - 1) * SECTOR <= m - 1 /\ n <= b * SECTOR
    BY <1>2, SectorsCover
  <2> HIDE DEF a, b
  <2>2. (a - 1) * SECTOR < b * SECTOR
    <3>1. (a - 1) * SECTOR \in Int /\ b * SECTOR \in Int
      BY <2>1, Multiples
    <3>2. QED
      BY <2>1, <3>1
  <2>3. a - 1 < b
    BY <2>1, <2>2, Multiples
  <2>4. QED
    BY <2>1, <2>3 DEF a, b
<1>3. QED
  BY <1>1, <1>2

-----------------------------------------------------------------------------
(* The turns of the loop a read has made. *)
Turns == SectorsFor(count) - num_sectors

(* The bytes asked for are where the position is followed, and a read that *)
(* starts inside a track is where the map says, up to where the cylinder   *)
(* wraps.                                                                  *)
RangeInv ==
  st = "loop" => /\ pos + count <= MaxPos
                 /\ num_sectors <= SectorsFor(count)
                 /\ StartsInsideTrack /\ Addressable =>
                      SectorAt(chs) = pos \div SECTOR + Turns

(* Where in the sector the next bytes are and where in the buffer they go. *)
OffsetInv ==
  st = "loop" =>
    /\ sector_offset = IF Turns = 0 THEN pos % SECTOR ELSE 0
    /\ new_buf + (pos % SECTOR) = Turns * SECTOR + sector_offset
    /\ num_bytes = 0 \/ new_buf + num_bytes = count
    /\ num_bytes = 0 => new_buf >= count \/ num_sectors = 0

(* The part of the buffer that lies behind new_buf is right. *)
CopiedInv ==
  st = "loop" /\ ~faulted /\ StartsInsideTrack /\ Addressable =>
    \A k \in 0 .. count - 1 : k < new_buf => buf[k] = pos + k

FloppyInv == TypeOK /\ RangeInv /\ OffsetInv /\ CopiedInv

(* What a turn of the loop can rely on. *)
LEMMA InLoop ==
  ASSUME Geometry1440, FloppyInv, st = "loop", num_sectors > 0
  PROVE  /\ pos \in Nat /\ count \in Nat /\ count > 0 /\ num_sectors \in Nat
         /\ Turns \in Nat /\ Turns * SECTOR \in Int /\ Turns * SECTOR <= count - 1
         /\ pos \div SECTOR \in Nat /\ pos % SECTOR \in 0 .. SECTOR - 1
         /\ pos = (pos \div SECTOR) * SECTOR + (pos % SECTOR)
         /\ Addressable => pos \div SECTOR + Turns < 9216
         /\ sector_offset \in 0 .. pos % SECTOR /\ new_buf \in 0 .. count - 1
<1> DEFINE q == pos \div SECTOR
           o == pos % SECTOR
           n == SectorsFor(count)
           t == Turns
<1>1. /\ pos \in Nat /\ count \in Nat /\ num_sectors \in Nat /\ new_buf \in Nat
      /\ sector_offset \in Nat
  BY DEF FloppyInv, TypeOK
<1>2. q \in Nat /\ o \in 0 .. SECTOR - 1 /\ pos = q * SECTOR + o
  BY <1>1, DivMod
<1>3. n \in Nat /\ num_sectors <= n /\ t = n - num_sectors
  BY <1>1, SectorsForNat DEF FloppyInv, RangeInv, Turns
<1>4. t \in Nat /\ t <= n - 1
  BY <1>1, <1>3
<1>5. count > 0 /\ (n - 1) * SECTOR <= count - 1
  BY <1>1, <1>3, SectorsCover
<1>6. Addressable => pos + count < 9216 * SECTOR
  BY DEF Addressable, AddressedSectors, Geometry1440
<1>7. sector_offset = (IF t = 0 THEN o ELSE 0) /\ new_buf + o = t * SECTOR + sector_offset
  BY DEF FloppyInv, OffsetInv
<1> HIDE DEF q, o, n, t
<1>9. t * SECTOR \in Int /\ q * SECTOR \in Int /\ (n - 1) * SECTOR \in Int
      /\ t * SECTOR <= (n - 1) * SECTOR /\ (q + t) * SECTOR = q * SECTOR + t * SECTOR
      /\ 9216 * SECTOR \in Int
  BY <1>2, <1>3, <1>4, Multiples
<1>10. t * SECTOR <= count - 1
  BY <1>1, <1>5, <1>9
<1>11. Addressable => (q + t) * SECTOR < 9216 * SECTOR
  BY <1>1, <1>2, <1>6, <1>9, <1>10
<1>12. Addressable => q + t < 9216
  BY <1>2, <1>4, <1>11, Multiples
<1>13. sector_offset \in 0 .. o
  BY <1>1, <1>2, <1>7
<1>14. new_buf \in 0 .. count - 1
  BY <1>1, <1>2, <1>7, <1>9, <1>10, <1>13
<1>15. QED
  BY <1>1, <1>2, <1>4, <1>5, <1>9, <1>10, <1>12, <1>13, <1>14 DEF q, o, t

(* Numbers of sectors on the disk and addresses on it. *)
LEMMA OnDisk ==
  \A c \in Nat, h \in {0, 1}, x \in 1 .. 18, n \in Nat :
    c * 36 + h * 18 + x - 1 < n * 36 <=> c < n
OBVIOUS

(* The sector at an address, and at the one behind it. *)
LEMMA SectorAtIs ==
  ASSUME Geometry1440, NEW a \in [cylinder : 0 .. 255, head : {0, 1}, sector : 1 .. 18]
  PROVE  /\ SectorAt(a) = a.cylinder * 36 + a.head * 18 + a.sector - 1 /\ SectorAt(a) \in Nat
         /\ [a EXCEPT !.sector = @ + 1] \in [cylinder : 0 .. 255, head : {0, 1}, sector : 1 .. 19]
         /\ SectorAt([a EXCEPT !.sector = @ + 1]) = SectorAt(a) + 1
         /\ SectorAt(a) < DiskSectors <=> Valid(a)
<1> DEFINE b == [a EXCEPT !.sector = @ + 1]
<1>1. a.cylinder \in 0 .. 255 /\ a.head \in {0, 1} /\ a.sector \in 1 .. 18
  OBVIOUS
<1>2. SectorAt(a) = a.cylinder * 36 + a.head * 18 + a.sector - 1 /\ SectorAt(a) \in Nat
  <2>1. SectorAt(a) = (a.cylinder * 2 + a.head) * 18 + a.sector - 1
    BY DEF SectorAt, Geometry1440
  <2>2. \A c \in 0 .. 255, h \in {0, 1}, x \in 1 .. 18 :
          /\ (c * 2 + h) * 18 + x - 1 = c * 36 + h * 18 + x - 1
          /\ c * 36 + h * 18 + x - 1 \in Nat
    OBVIOUS
  <2>3. /\ (a.cylinder * 2 + a.head) * 18 + a.sector - 1
             = a.cylinder * 36 + a.head * 18 + a.sector - 1
        /\ a.cylinder * 36 + a.head * 18 + a.sector - 1 \in Nat
    BY <1>1, <2>2
  <2>4. QED
    BY <2>1, <2>3
<1>3. b.cylinder = a.cylinder /\ b.head = a.head /\ b.sector = a.sector + 1
      /\ b \in [cylinder : 0 .. 255, head : {0, 1}, sector : 1 .. 19]
  OBVIOUS
<1>4. SectorAt(b) = SectorAt(a) + 1
  <2>1. SectorAt(b) = (b.cylinder * 2 + b.head) * 18 + b.sector - 1
        /\ SectorAt(a) = (a.cylinder * 2 + a.head) * 18 + a.sector - 1
    BY DEF SectorAt, Geometry1440
  <2> HIDE DEF b
  <2>2. QED
    BY <1>1, <1>3, <2>1
<1>5. DiskSectors = CYLINDERS * 36
  BY DEF DiskSectors, Geometry1440
<1>6. Valid(a) <=> a.cylinder < CYLINDERS
  BY <1>1 DEF Valid, Geometry1440
<1>7. SectorAt(a) < DiskSectors <=> a.cylinder < CYLINDERS
  <2>1. a.cylinder \in Nat
    BY <1>1
  <2>2. (a.cylinder * 36 + a.head * 18 + a.sector - 1 < CYLINDERS * 36) <=> a.cylinder < CYLINDERS
    BY <1>1, <2>1, OnDisk
  <2>3. QED
    BY <1>2, <1>5, <2>2
<1>8. QED
  BY <1>2, <1>3, <1>4, <1>6, <1>7

(* What a read asks for: where it starts inside a track, the sector of the *)
(* map, which the drive has exactly if it is on the disk.                  *)
LEMMA AddressIsValid ==
  ASSUME Geometry1440, FloppyInv, st = "loop", num_sectors > 0
  PROVE  /\ Carry \in [cylinder : 0 .. 255, head : {0, 1}, sector : 1 .. 18]
         /\ StartsInsideTrack /\ Addressable =>
              /\ SectorAt(Carry) = pos \div SECTOR + Turns
              /\ SectorAt(chs) = pos \div SECTOR + Turns
              /\ Valid(Carry) <=> pos \div SECTOR + Turns < DiskSectors
<1>1. chs \in [cylinder : 0 .. 255, head : {0, 1}, sector : 1 .. 19]
  BY DEF FloppyInv, TypeOK, Geometry1440
<1>2. /\ Carry \in [cylinder : 0 .. 255, head : {0, 1}, sector : 1 .. 18]
      /\ SectorAt(chs) < 9216 => SectorAt(Carry) = SectorAt(chs)
  BY <1>1, CarryKeepsSector
<1>3. StartsInsideTrack /\ Addressable =>
        SectorAt(chs) < 9216 /\ SectorAt(chs) = pos \div SECTOR + Turns
  BY InLoop DEF FloppyInv, RangeInv
<1>5. SectorAt(Carry) < DiskSectors <=> Valid(Carry)
  BY <1>2, SectorAtIs
<1>6. QED
  BY <1>2, <1>3, <1>5

(* A byte of sector_buf is junk or a byte of the disk. *)
LEMMA BufferByteTyped ==
  ASSUME NEW s \in JUNK .. DiskSectors - 1, NEW x \in Nat
  PROVE  BufferByte(s, x) \in JUNK .. DiskBytes - 1
<1>1. DiskSectors \in Nat /\ DiskBytes = DiskSectors * SECTOR
  <2>1. CYLINDERS * HEADS \in Nat
    OBVIOUS
  <2>2. CYLINDERS * HEADS * SECTORS \in Nat
    BY <2>1
  <2>3. QED
    BY <2>2 DEF DiskSectors, DiskBytes
<1>2. DiskBytes \in Nat
  BY <1>1
<1>3. CASE s = JUNK \/ x >= SECTOR
  BY <1>2, <1>3 DEF BufferByte, JUNK
<1>4. CASE s # JUNK /\ x < SECTOR
  <2>1. s \in Nat /\ s + 1 <= DiskSectors
    BY <1>1, <1>4 DEF JUNK
  <2>2. s * SECTOR \in Nat
    BY <2>1
  <2>3. (s + 1) * SECTOR = s * SECTOR + SECTOR /\ (s + 1) * SECTOR <= DiskSectors * SECTOR
    BY <1>1, <2>1, Multiples
  <2>4. QED
    BY <1>1, <1>2, <1>4, <2>2, <2>3 DEF BufferByte, JUNK
<1>5. QED
  BY <1>3, <1>4

(* A turn of the loop keeps the types and the range of the read. *)
LEMMA CopyTypes ==
  ASSUME Geometry1440, FloppyInv, st = "loop", num_sectors > 0,
         NEW s \in JUNK .. DiskSectors - 1, CopySector(s),
         st' = "loop", UNCHANGED <<pos, count>>, iflag' \in {0, 1}, faulted' \in BOOLEAN
  PROVE  TypeOK' /\ RangeInv' /\ Turns' = Turns + 1
<1>1. /\ pos \in Nat /\ count \in Nat /\ count <= MaxCount /\ num_sectors \in Nat
      /\ num_bytes \in 0 .. MaxCount /\ sector_offset \in 0 .. SECTOR - 1
      /\ new_buf \in 0 .. count - 1
      /\ num_sectors <= SectorsFor(MaxCount) /\ SectorsFor(MaxCount) \in Nat
      /\ buf \in [0 .. MaxCount - 1 -> JUNK .. DiskBytes - 1]
  <2>1. SectorsFor(MaxCount) \in Nat
    BY SectorsForNat
  <2>2. pos \in Nat /\ count \in Nat /\ num_sectors \in Nat /\ new_buf \in 0 .. count - 1
    BY InLoop
  <2>3. /\ num_bytes \in 0 .. MaxCount /\ sector_offset \in 0 .. SECTOR - 1
        /\ count \in 0 .. MaxCount /\ num_sectors \in 0 .. SectorsFor(MaxCount)
        /\ buf \in [0 .. MaxCount - 1 -> JUNK .. DiskBytes - 1]
    BY DEF FloppyInv, TypeOK
  <2>4. QED
    BY <2>1, <2>2, <2>3
<1>2. num_sectors' = num_sectors - 1 /\ num_sectors' \in 0 .. SectorsFor(MaxCount)
  <2>1. num_sectors' = num_sectors - 1
    BY DEF CopySector
  <2>2. QED
    BY <1>1, <2>1
<1>3. num_bytes' \in 0 .. MaxCount /\ sector_offset' = 0 /\ sector_buf' = s
      /\ new_buf' \in 0 .. MaxCount + SECTOR
  <2>1. /\ num_bytes' = IF num_bytes > SECTOR THEN num_bytes - (SECTOR - sector_offset) ELSE 0
        /\ new_buf' = new_buf + SECTOR - sector_offset
        /\ sector_offset' = 0 /\ sector_buf' = s
    BY DEF CopySector
  <2>2. QED
    BY <1>1, <2>1
<1>4. buf' \in [0 .. MaxCount - 1 -> JUNK .. DiskBytes - 1]
  <2> DEFINE n == IF num_bytes > SECTOR THEN SECTOR ELSE num_bytes
  <2>1. \A k \in 0 .. MaxCount - 1 : k >= new_buf =>
          BufferByte(s, sector_offset + k - new_buf) \in JUNK .. DiskBytes - 1
    <3>1. TAKE k \in 0 .. MaxCount - 1
    <3>2. SUFFICES ASSUME k >= new_buf
                   PROVE  BufferByte(s, sector_offset + k - new_buf) \in JUNK .. DiskBytes - 1
      OBVIOUS
    <3>3. sector_offset + k - new_buf \in Nat
      BY <1>1, <3>2
    <3>4. QED
      BY <3>3, BufferByteTyped
  <2>2. \A k \in 0 .. MaxCount - 1 : buf[k] \in JUNK .. DiskBytes - 1
    BY <1>1
  <2>3. buf' = [k \in 0 .. MaxCount - 1 |->
                  IF k >= new_buf /\ k < new_buf + n
                  THEN BufferByte(s, sector_offset + k - new_buf) ELSE buf[k]]
    BY DEF CopySector
  <2> HIDE DEF n
  <2>4. QED
    BY <2>1, <2>2, <2>3
<1>5. /\ Carry \in [cylinder : 0 .. 255, head : {0, 1}, sector : 1 .. 18]
      /\ StartsInsideTrack /\ Addressable => SectorAt(Carry) = pos \div SECTOR + Turns
  BY AddressIsValid
<1>6. chs' = [Carry EXCEPT !.sector = @ + 1]
  BY DEF CopySector
<1>7. chs' \in [cylinder : 0 .. 255, head : {0, 1}, sector : 1 .. 19]
      /\ SectorAt(chs') = SectorAt(Carry) + 1 /\ SectorAt(Carry) \in Nat
  BY <1>5, <1>6, SectorAtIs
<1>8. SectorAt(chs') = SectorAt(Carry) + 1 /\ SectorAt(Carry) \in Int
  BY <1>7
<1>10. chs' \in [cylinder : 0 .. BYTE - 1, head : 0 .. HEADS - 1, sector : 1 .. SECTORS + 1]
  BY <1>7 DEF Geometry1440
<1>11. TypeOK'
  <2>1. st' \in {"idle", "loop", "halted"} /\ pos' \in 0 .. MaxPos /\ count' \in 0 .. MaxCount
    BY <1>1 DEF FloppyInv, TypeOK
  <2>2. sector_offset' \in 0 .. SECTOR - 1 /\ sector_buf' \in JUNK .. DiskSectors - 1
    BY <1>3
  <2>3. QED
    BY <1>2, <1>3, <1>4, <1>10, <2>1, <2>2 DEF TypeOK
<1>12. Turns' = Turns + 1 /\ Turns \in Nat
  <2>1. SectorsFor(count) \in Nat /\ SectorsFor(count') = SectorsFor(count)
    BY <1>1, SectorsForNat
  <2>2. Turns \in Nat
    BY InLoop
  <2>3. QED
    BY <1>1, <1>2, <2>1, <2>2 DEF Turns
<1>13. (StartsInsideTrack' <=> StartsInsideTrack) /\ (Addressable' <=> Addressable)
  BY DEF StartsInsideTrack, Addressable
<1>14. RangeInv'
  <2> DEFINE q == pos \div SECTOR
             a == SectorAt(Carry)
             t == Turns
  <2>1. pos + count <= MaxPos /\ num_sectors <= SectorsFor(count)
    BY DEF FloppyInv, RangeInv
  <2>2. q \in Int /\ t \in Int /\ a \in Int /\ SectorsFor(count) \in Int
    BY <1>1, <1>8, <1>12, SectorsForNat
  <2>3. q' = q /\ SectorAt(chs') = a + 1 /\ Turns' = t + 1
    BY <1>8, <1>12
  <2>4. pos' + count' <= MaxPos /\ num_sectors' <= SectorsFor(count')
    BY <1>1, <1>2, <2>1, <2>2
  <2>5. StartsInsideTrack /\ Addressable => a = q + t
    BY <1>5
  <2> HIDE DEF q, a, t
  <2>6. StartsInsideTrack /\ Addressable => a + 1 = q + (t + 1)
    BY <2>2, <2>5
  <2>7. QED
    BY <1>13, <2>3, <2>4, <2>6 DEF RangeInv, q
<1>15. QED
  BY <1>11, <1>12, <1>14

(* A turn of the loop keeps the book of what was copied where. *)
LEMMA CopyOffsets ==
  ASSUME Geometry1440, FloppyInv, st = "loop", num_sectors > 0, NEW s, CopySector(s),
         Turns' = Turns + 1, UNCHANGED <<pos, count>>
  PROVE  OffsetInv'
<1> DEFINE o == pos % SECTOR
           t == Turns
           m == t * SECTOR
<1>1. /\ count \in Nat /\ count > 0 /\ num_sectors \in Nat /\ t \in Nat /\ m \in Int
      /\ o \in 0 .. SECTOR - 1 /\ sector_offset \in 0 .. o /\ new_buf \in 0 .. count - 1
  BY InLoop
<1>2. /\ sector_offset = (IF t = 0 THEN o ELSE 0) /\ new_buf + o = m + sector_offset
      /\ num_bytes = 0 \/ new_buf + num_bytes = count
      /\ num_bytes = 0 => new_buf >= count \/ num_sectors = 0
  BY DEF FloppyInv, OffsetInv
<1>3. num_bytes \in Nat
  BY DEF FloppyInv, TypeOK
<1>4. /\ num_bytes' = IF num_bytes > SECTOR THEN num_bytes - (SECTOR - sector_offset) ELSE 0
      /\ new_buf' = new_buf + SECTOR - sector_offset
      /\ num_sectors' = num_sectors - 1 /\ sector_offset' = 0
  BY DEF CopySector
<1>5. (t + 1) * SECTOR = m + SECTOR
  BY <1>1, Multiples
<1>6. count <= SECTOR => SectorsFor(count) <= 1 /\ SectorsFor(count) \in Nat
  BY <1>1, SectorsCover
<1>7. t = SectorsFor(count) - num_sectors /\ (t = 0 => m = 0)
  BY DEF Turns
<1> HIDE DEF o, t, m
<1>8. new_buf + num_bytes = count
  BY <1>1, <1>2, <1>3
<1>9. new_buf' + o = m + SECTOR
  BY <1>1, <1>2, <1>4
<1>10. num_bytes' = 0 \/ new_buf' + num_bytes' = count
  BY <1>1, <1>3, <1>4, <1>8
<1>11. num_bytes' = 0 => new_buf' >= count \/ num_sectors' = 0
  <2>1. SUFFICES ASSUME num_bytes' = 0 PROVE new_buf' >= count \/ num_sectors' = 0
    OBVIOUS
  <2>2. num_bytes <= SECTOR
    BY <1>1, <1>3, <1>4, <2>1
  <2>3. CASE t = 0
    <3>1. count <= SECTOR \/ new_buf' >= count
      BY <1>1, <1>2, <1>3, <1>4, <1>7, <1>8, <2>2, <2>3
    <3>2. CASE count <= SECTOR
      BY <1>1, <1>4, <1>6, <1>7, <2>3, <3>2
    <3>3. QED
      BY <3>1, <3>2
  <2>4. CASE t # 0
    BY <1>1, <1>2, <1>3, <1>4, <1>8, <2>2, <2>4
  <2>5. QED
    BY <2>3, <2>4
<1>12. Turns' = t + 1 /\ t + 1 # 0 /\ pos' % SECTOR = o
  BY <1>1 DEF o, t
<1>13. QED
  BY <1>4, <1>5, <1>9, <1>10, <1>11, <1>12 DEF OffsetInv

(* A turn that the drive answers adds right bytes behind new_buf. *)
LEMMA CopyIsRight ==
  ASSUME Geometry1440, FloppyInv, st = "loop", num_sectors > 0,
         ~faulted, StartsInsideTrack, Addressable, CopySector(SectorAt(Carry)), UNCHANGED <<pos, count>>
  PROVE  \A k \in 0 .. count - 1 : k < new_buf' => buf'[k] = pos + k
<1> DEFINE q == pos \div SECTOR
           o == pos % SECTOR
           t == Turns
           s == SectorAt(Carry)
           n == IF num_bytes > SECTOR THEN SECTOR ELSE num_bytes
<1>1. /\ pos \in Nat /\ count \in Nat /\ t \in Nat /\ t * SECTOR \in Int /\ q \in Nat
      /\ o \in 0 .. SECTOR - 1 /\ pos = q * SECTOR + o
      /\ sector_offset \in 0 .. o /\ new_buf \in 0 .. count - 1
  BY InLoop
<1>2. count <= MaxCount /\ num_bytes \in Nat
  BY DEF FloppyInv, TypeOK
<1>3. /\ new_buf + o = t * SECTOR + sector_offset
      /\ num_bytes = 0 \/ new_buf + num_bytes = count
      /\ num_bytes = 0 => new_buf >= count \/ num_sectors = 0
  BY DEF FloppyInv, OffsetInv
<1>4. s = q + t
  BY AddressIsValid
<1>5. q * SECTOR \in Int /\ (q + t) * SECTOR = q * SECTOR + t * SECTOR
  BY <1>1, Multiples
<1>6. /\ buf' = [k \in 0 .. MaxCount - 1 |->
                   IF k >= new_buf /\ k < new_buf + n
                   THEN BufferByte(s, sector_offset + k - new_buf) ELSE buf[k]]
      /\ new_buf' = new_buf + SECTOR - sector_offset
  BY DEF CopySector
<1>7. \A k \in 0 .. count - 1 : k < new_buf => buf[k] = pos + k
  BY DEF FloppyInv, CopiedInv
<1>8. n = IF num_bytes > SECTOR THEN SECTOR ELSE num_bytes
  OBVIOUS
<1> HIDE DEF q, o, t, s, n
<1>9. new_buf + num_bytes = count
  BY <1>1, <1>2, <1>3
<1>10. SUFFICES ASSUME NEW k \in 0 .. count - 1, k < new_buf' PROVE buf'[k] = pos + k
  OBVIOUS
<1>11. k \in 0 .. MaxCount - 1
  BY <1>1, <1>2
<1>12. CASE k < new_buf
  <2>1. buf'[k] = buf[k]
    BY <1>1, <1>6, <1>11, <1>12
  <2>2. QED
    BY <1>7, <1>12, <2>1
<1>13. CASE k >= new_buf
  <2>1. k < new_buf + n
    BY <1>1, <1>2, <1>6, <1>8, <1>9, <1>10, <1>13
  <2>2. buf'[k] = BufferByte(s, sector_offset + k - new_buf)
    BY <1>6, <1>11, <1>13, <2>1
  <2>3. sector_offset + k - new_buf < SECTOR
    BY <1>1, <1>6, <1>10
  <2>4. s # JUNK
    BY <1>1, <1>4 DEF JUNK
  <2>5. buf'[k] = s * SECTOR + (sector_offset + k - new_buf)
    BY <1>1, <2>2, <2>3, <2>4 DEF BufferByte
  <2>6. s * SECTOR = q * SECTOR + t * SECTOR
    BY <1>4, <1>5
  <2>7. QED
    BY <1>1, <1>3, <1>5, <2>5, <2>6
<1>14. QED
  BY <1>1, <1>12, <1>13

(* The start of a read establishes the invariant of its loop. *)
LEMMA ReadEstablishes == ASSUME Geometry1440, FloppyInv, Read PROVE FloppyInv'
<1> DEFINE q == pos \div SECTOR
           o == pos % SECTOR
           n == SectorsFor(count')
<1>1. /\ pos \in 0 .. MaxPos /\ pos \in Nat /\ pos' = pos
      /\ count' \in 0 .. MaxCount /\ count' \in Nat /\ pos + count' <= MaxPos
      /\ iflag' \in {0, 1} /\ st' = "loop"
  <2>1. pos \in 0 .. MaxPos
    BY DEF FloppyInv, TypeOK
  <2>2. /\ pos' = pos /\ count' \in 0 .. MaxCount /\ pos + count' <= MaxPos
        /\ iflag' \in {0, 1} /\ st' = "loop"
    BY DEF Read
  <2>3. pos \in Nat
    BY <2>1
  <2>4. count' \in Nat
    BY <2>2
  <2>5. QED
    BY <2>1, <2>2, <2>3, <2>4, Zenon
<1>2. /\ chs' = LbaToChs(q) /\ num_sectors' = n /\ num_bytes' = count'
      /\ sector_offset' = o /\ new_buf' = 0
      /\ buf' = [k \in 0 .. MaxCount - 1 |-> JUNK]
      /\ sector_buf' = JUNK /\ faulted' = FALSE
  BY DEF Read
<1>3. q \in Nat /\ o \in 0 .. SECTOR - 1 /\ pos = q * SECTOR + o
  BY <1>1, DivMod
<1>4. n \in Nat /\ (count' = 0 <=> n = 0) /\ n <= SectorsFor(MaxCount)
      /\ SectorsFor(MaxCount) \in Nat
  <2>1. n \in Nat /\ (count' = 0 <=> n = 0)
    BY <1>1, SectorsCover
  <2>2. SectorsFor(MaxCount) \in Nat
    BY SectorsForNat
  <2>3. count' <= MaxCount
    BY <1>1
  <2>4. n <= SectorsFor(MaxCount)
    BY <1>1, <2>3, SectorsMonotone
  <2>5. QED
    BY <2>1, <2>2, <2>4
<1>5. Turns' = 0
  BY <1>2, <1>4 DEF Turns
<1>6. DiskSectors = CYLINDERS * 36 /\ DiskSectors \in Nat /\ DiskBytes = DiskSectors * SECTOR
      /\ DiskBytes \in Nat
  <2>1. DiskSectors = CYLINDERS * 36 /\ DiskSectors \in Nat
    BY DEF DiskSectors, Geometry1440
  <2>2. QED
    BY <2>1 DEF DiskBytes
<1> HIDE DEF q, o, n
<1>7. Addressable' => q < 9216
  <2>1. SUFFICES ASSUME Addressable' PROVE q < 9216
    OBVIOUS
  <2>2. AddressedSectors = 9216
    BY DEF AddressedSectors, Geometry1440
  <2>3. pos' + count' < AddressedSectors * SECTOR
    BY <2>1 DEF Addressable
  <2>4. pos' = pos /\ pos \in Int /\ count' \in Nat
    BY <1>1
  <2>5. q * SECTOR \in Int /\ AddressedSectors * SECTOR \in Int
    BY <1>3, <2>2, Multiples
  <2> DEFINE e == AddressedSectors * SECTOR
             m == q * SECTOR
  <2>6. m \in Int /\ e \in Int /\ pos = m + o /\ o \in Nat /\ pos + count' < e
    BY <1>3, <2>3, <2>4, <2>5
  <2> HIDE DEF e, m
  <2>7. m < e
    <3> DEFINE c == count'
    <3>1. c \in Nat /\ m \in Int /\ e \in Int /\ o \in Nat /\ (m + o) + c < e
      BY <2>4, <2>6
    <3> HIDE DEF c
    <3>2. QED
      BY <3>1
  <2>8. QED
    BY <1>3, <2>2, <2>7, Multiples DEF e, m
<1>8. LbaToChs(q) \in [cylinder : 0 .. BYTE - 1, head : 0 .. HEADS - 1,
                       sector : 1 .. SECTORS + 1]
  BY <1>3 DEF LbaToChs, Geometry1440
<1>9. StartsInsideTrack' /\ Addressable' => SectorAt(LbaToChs(q)) = q
  <2>1. StartsInsideTrack' => q % 18 # 17
    BY <1>1 DEF StartsInsideTrack, Geometry1440, q
  <2>2. QED
    BY <1>3, <1>7, <2>1, LbaToChsInsideTrack
<1>10. TypeOK'
  <2>1. buf' \in [0 .. MaxCount - 1 -> JUNK .. DiskBytes - 1]
    BY <1>2, <1>6 DEF JUNK
  <2>2. sector_buf' \in JUNK .. DiskSectors - 1 /\ new_buf' \in 0 .. MaxCount + SECTOR
    BY <1>2, <1>6 DEF JUNK
  <2>3. num_sectors' \in 0 .. SectorsFor(MaxCount)
    BY <1>2, <1>4
  <2>4. pos' \in 0 .. MaxPos
    BY <1>1
  <2>5. QED
    BY <1>1, <1>2, <1>3, <1>8, <2>1, <2>2, <2>3, <2>4 DEF TypeOK
<1>11. RangeInv'
  <2>1. pos' \div SECTOR = q /\ num_sectors' <= SectorsFor(count')
    BY <1>1, <1>2, <1>4 DEF q, n
  <2>2. q + Turns' = q
    BY <1>3, <1>5
  <2>3. StartsInsideTrack' /\ Addressable' => SectorAt(chs') = q + Turns'
    BY <1>2, <1>9, <2>2
  <2>4. pos' + count' <= MaxPos
    BY <1>1
  <2>5. QED
    BY <2>1, <2>3, <2>4 DEF RangeInv
<1>12. OffsetInv'
  <2>1. pos' % SECTOR = o /\ Turns' * SECTOR = 0
    BY <1>1, <1>5 DEF o
  <2>2. num_bytes' = 0 => new_buf' >= count' \/ num_sectors' = 0
    BY <1>2, <1>4
  <2>3. new_buf' + o = 0 + sector_offset' /\ new_buf' + num_bytes' = count'
    <3>1. \A c \in Nat : 0 + c = c
      OBVIOUS
    <3>2. QED
      BY <1>1, <1>2, <3>1, Zenon
  <2>4. QED
    BY <1>2, <1>5, <2>1, <2>2, <2>3 DEF OffsetInv
<1>13. CopiedInv'
  BY <1>1, <1>2 DEF CopiedInv
<1>14. QED
  BY <1>10, <1>11, <1>12, <1>13 DEF FloppyInv

(* FloppyInv is inductive. *)
LEMMA FloppyInvStep == ASSUME Geometry1440, FloppyInv, [Next]_vars PROVE FloppyInv'
<1>1. CASE Lseek
  BY <1>1 DEF Lseek, FloppyInv, TypeOK, RangeInv, OffsetInv, CopiedInv
<1>2. CASE Read
  BY <1>2, ReadEstablishes
<1>3. CASE Turn
  <2>1. /\ st = "loop" /\ num_sectors > 0 /\ Valid(Carry) /\ CopySector(SectorAt(Carry))
        /\ UNCHANGED <<st, pos, count, iflag, faulted>>
    BY <1>3 DEF Turn
  <2>2. SectorAt(Carry) \in JUNK .. DiskSectors - 1
    <3>1. Carry \in [cylinder : 0 .. 255, head : {0, 1}, sector : 1 .. 18]
      BY <2>1, AddressIsValid
    <3>2. SectorAt(Carry) \in Nat /\ SectorAt(Carry) < DiskSectors
      BY <2>1, <3>1, SectorAtIs
    <3>3. DiskSectors \in Int
      BY DEF DiskSectors, Geometry1440
    <3>4. QED
      BY <3>2, <3>3 DEF JUNK
  <2>3. TypeOK' /\ RangeInv' /\ Turns' = Turns + 1
    BY <2>1, <2>2, CopyTypes DEF FloppyInv, TypeOK
  <2>4. OffsetInv'
    BY <2>1, <2>3, CopyOffsets
  <2>5. CopiedInv'
    <3>1. SUFFICES ASSUME ~faulted', StartsInsideTrack', Addressable'
                   PROVE  \A k \in 0 .. count' - 1 : k < new_buf' => buf'[k] = pos' + k
      BY DEF CopiedInv
    <3>2. ~faulted /\ StartsInsideTrack /\ Addressable
      BY <2>1, <3>1 DEF StartsInsideTrack, Addressable
    <3>3. QED
      BY <2>1, <3>2, CopyIsRight
  <2>6. QED
    BY <2>3, <2>4, <2>5 DEF FloppyInv
<1>4. CASE Fault /\ iflag = 0
  <2>1. st' = "halted"
    BY <1>4 DEF Fault
  <2>2. QED
    BY <1>4, <2>1 DEF Fault, FloppyInv, TypeOK, RangeInv, OffsetInv, CopiedInv
<1>5. CASE Fault /\ iflag # 0
  <2>1. /\ st = "loop" /\ num_sectors > 0 /\ CopySector(sector_buf) /\ faulted' = TRUE
        /\ UNCHANGED <<st, pos, count, iflag>>
    BY <1>5 DEF Fault
  <2>2. sector_buf \in JUNK .. DiskSectors - 1
    BY DEF FloppyInv, TypeOK
  <2>3. TypeOK' /\ RangeInv' /\ Turns' = Turns + 1
    BY <2>1, <2>2, CopyTypes DEF FloppyInv, TypeOK
  <2>4. OffsetInv'
    BY <2>1, <2>3, CopyOffsets
  <2>5. CopiedInv'
    BY <2>1 DEF CopiedInv
  <2>6. QED
    BY <2>3, <2>4, <2>5 DEF FloppyInv
<1>6. CASE Finish
  <2>1. st' = "idle" /\ pos' = pos + count /\ st = "loop"
    BY <1>6 DEF Finish
  <2>2. pos' \in 0 .. MaxPos
    BY <2>1 DEF FloppyInv, TypeOK, RangeInv
  <2>3. TypeOK'
    BY <1>6, <2>1, <2>2 DEF Finish, FloppyInv, TypeOK
  <2>4. QED
    BY <2>1, <2>3 DEF FloppyInv, RangeInv, OffsetInv, CopiedInv
<1>7. CASE UNCHANGED vars
  BY <1>7 DEF vars, FloppyInv, TypeOK, RangeInv, OffsetInv, CopiedInv, StartsInsideTrack,
    Addressable, Turns
<1>8. QED
  BY <1>1, <1>2, <1>3, <1>4, <1>5, <1>6, <1>7 DEF Next, Stopped

(* Types, addresses, offsets and the copied part, whatever is read and     *)
(* whichever sectors fail.                                                 *)
THEOREM FloppyInvariant == ASSUME Geometry1440 PROVE Spec => []FloppyInv
<1>1. Init => FloppyInv
  <2>1. SUFFICES ASSUME Init PROVE TypeOK
    BY DEF Init, FloppyInv, RangeInv, OffsetInv, CopiedInv
  <2>2. DiskSectors \in Nat
    BY DEF DiskSectors, Geometry1440
  <2>3. DiskBytes \in Nat /\ SectorsFor(MaxCount) \in Nat
    BY <2>2, SectorsForNat DEF DiskBytes
  <2>4. buf \in [0 .. MaxCount - 1 -> JUNK .. DiskBytes - 1]
    BY <2>1, <2>3 DEF Init, JUNK
  <2>5. chs \in [cylinder : 0 .. BYTE - 1, head : 0 .. HEADS - 1, sector : 1 .. SECTORS + 1]
    BY <2>1 DEF Init
  <2>6. /\ pos \in 0 .. MaxPos /\ count \in 0 .. MaxCount
        /\ num_sectors \in 0 .. SectorsFor(MaxCount) /\ num_bytes \in 0 .. MaxCount
        /\ sector_offset \in 0 .. SECTOR - 1 /\ new_buf \in 0 .. MaxCount + SECTOR
    BY <2>1, <2>3 DEF Init
  <2>7. sector_buf \in JUNK .. DiskSectors - 1
    BY <2>1, <2>2 DEF Init, JUNK
  <2>8. st \in {"idle", "loop", "halted"} /\ iflag \in {0, 1} /\ faulted \in BOOLEAN
    BY <2>1 DEF Init
  <2>9. QED
    BY <2>4, <2>5, <2>6, <2>7, <2>8 DEF TypeOK
<1>2. FloppyInv /\ [Next]_vars => FloppyInv'
  BY FloppyInvStep
<1>3. QED
  BY <1>1, <1>2, PTL DEF Spec

(* Counters, offsets and what the buffers name stay in range wherever the  *)
(* position is, past the end of the disk too: the bytes left never go      *)
(* below zero, the place in the buffer stays within a sector of the        *)
(* caller's end, and every byte delivered is one of the disk.  That the    *)
(* position itself stays below MaxPos is the bound of the model.           *)
THEOREM FloppyTypeCorrect == ASSUME Geometry1440 PROVE Spec => []TypeOK
<1>1. FloppyInv => TypeOK
  BY DEF FloppyInv
<1>2. QED
  BY <1>1, FloppyInvariant, PTL

(* The sector whose turn it is, by the turns made. *)
LEMMA MapSectorIs ==
  ASSUME FloppyInv PROVE MapSector = pos \div SECTOR + Turns
<1>1. pos \in Nat /\ count \in Nat
  BY DEF FloppyInv, TypeOK
<1>2. SectorsFor(count) \in Nat /\ pos \div SECTOR \in Nat
  BY <1>1, SectorsForNat, DivMod
<1>3. num_sectors \in Nat
  BY SectorsForNat DEF FloppyInv, TypeOK
<1>4. QED
  BY <1>2, <1>3 DEF MapSector, Turns

(* Whatever a read that starts inside a track has been through - the end of *)
(* a track, of a cylinder, failed sectors - the next sector it asks for is  *)
(* the next one of the map in docs/flp_sector_map.xlsx.                     *)
THEOREM AddressesFollowMap ==
  ASSUME Geometry1440 PROVE Spec => []AddressFollowsMap
<1>1. FloppyInv => AddressFollowsMap
  <2>1. SUFFICES ASSUME FloppyInv, st = "loop", StartsInsideTrack, Addressable
                 PROVE  SectorAt(chs) = MapSector
    BY DEF AddressFollowsMap
  <2>2. MapSector = pos \div SECTOR + Turns
    BY <2>1, MapSectorIs
  <2>3. QED
    BY <2>1, <2>2 DEF FloppyInv, RangeInv
<1>2. QED
  BY <1>1, FloppyInvariant, PTL

(* A read that starts inside a track asks for a sector the drive has       *)
(* exactly while the sector whose turn it is is on the disk: with no test  *)
(* for the end in read, running off the disk is still always a failed      *)
(* sector, up to where the cylinder wraps.                                 *)
THEOREM AddressesExist == ASSUME Geometry1440 PROVE Spec => []AddressExists
<1>1. FloppyInv => AddressExists
  BY AddressIsValid, MapSectorIs DEF AddressExists
<1>2. QED
  BY <1>1, FloppyInvariant, PTL

(* A read that starts inside a track and spans no more sectors than were   *)
(* counted for it delivers the bytes asked for.                            *)
THEOREM ReadsAreCorrect == ASSUME Geometry1440 PROVE Spec => []ReadCorrect
<1>1. FloppyInv => ReadCorrect
  <2>1. SUFFICES ASSUME FloppyInv, Done, StartsInsideTrack, EndsInSectorsRead,
                        Addressable
                 PROVE  BufferIsRight
    BY DEF ReadCorrect
  <2> DEFINE o == pos % SECTOR
             n == SectorsFor(count)
  <2>2. st = "loop" /\ num_sectors = 0 /\ ~faulted
    BY <2>1 DEF Done
  <2>3. pos \in Nat /\ count \in Nat /\ new_buf \in Nat
    BY <2>1 DEF FloppyInv, TypeOK
  <2>4. n \in Nat /\ (count = 0 <=> n = 0) /\ o \in Nat /\ n * SECTOR \in Int
    BY <2>3, SectorsCover, DivMod, Multiples
  <2>5. o + count <= n * SECTOR
    BY <2>1, <2>3, <2>4 DEF EndsInSectorsRead
  <2>6. Turns = n
    BY <2>2, <2>4 DEF Turns
  <2>7. sector_offset = (IF n = 0 THEN o ELSE 0) /\ new_buf + o = n * SECTOR + sector_offset
    BY <2>1, <2>2, <2>6 DEF FloppyInv, OffsetInv
  <2> HIDE DEF o, n
  <2>8. count = 0 \/ new_buf >= count
    BY <2>3, <2>4, <2>5, <2>7
  <2>9. QED
    BY <2>1, <2>2, <2>3, <2>8 DEF FloppyInv, CopiedInv, BufferIsRight
<1>2. QED
  BY <1>1, FloppyInvariant, PTL

(* No turn writes past the end of the caller's buffer. *)
THEOREM WritesStayInBuffer == ASSUME Geometry1440 PROVE Spec => WritesInBuffer
<1> DEFINE Kept == \A k \in 0 .. MaxCount - 1 : k >= count /\ st = "loop" => buf'[k] = buf[k]
<1>1. ASSUME FloppyInv, st = "loop", num_sectors > 0, NEW s, CopySector(s) PROVE Kept
  <2>1. SUFFICES ASSUME NEW k \in 0 .. MaxCount - 1, k >= count PROVE buf'[k] = buf[k]
    OBVIOUS
  <2>2. count \in Nat /\ new_buf \in 0 .. count - 1
    BY <1>1, InLoop
  <2>3. num_bytes \in Nat /\ (num_bytes = 0 \/ new_buf + num_bytes = count)
    BY <1>1 DEF FloppyInv, TypeOK, OffsetInv
  <2>4. ~(k >= new_buf /\ k < new_buf + (IF num_bytes > SECTOR THEN SECTOR ELSE num_bytes))
    BY <2>1, <2>2, <2>3
  <2>5. QED
    BY <1>1, <2>4 DEF CopySector
<1>2. FloppyInv /\ [Next]_vars => [Kept]_vars
  <2>1. SUFFICES ASSUME FloppyInv, Next PROVE Kept
    OBVIOUS
  <2>2. CASE Turn \/ (Fault /\ iflag # 0)
    BY <1>1, <2>1, <2>2 DEF Turn, Fault
  <2>3. CASE Read
    BY <2>3 DEF Read
  <2>4. CASE Lseek \/ Finish \/ Stopped \/ (Fault /\ iflag = 0)
    BY <2>4 DEF Lseek, Finish, Stopped, Fault, vars
  <2>5. QED
    BY <2>1, <2>2, <2>3, <2>4 DEF Next
<1>3. QED
  BY <1>2, FloppyInvariant, PTL DEF Spec, WritesInBuffer

(* The reads ReadsAreCorrect is about: those that start on a sector        *)
(* boundary, as cluster and FAT reads do, and those that lie within one    *)
(* sector, as the reads of directory entries do.                           *)
THEOREM WholeSectorsEnd ==
  ASSUME pos \in Nat, count \in Nat,
         pos % SECTOR = 0 \/ (count > 0 /\ (pos % SECTOR) + count <= SECTOR)
  PROVE  EndsInSectorsRead
<1> DEFINE n == SectorsFor(count)
<1>1. n \in Nat /\ (count = 0 <=> n = 0) /\ count <= n * SECTOR /\ n * SECTOR \in Int
  BY SectorsCover, Multiples
<1>2. pos % SECTOR \in Nat
  BY DivMod
<1>3. EndsInSectorsRead <=> (pos % SECTOR) + count <= n * SECTOR
  BY <1>1, <1>2 DEF EndsInSectorsRead
<1> HIDE DEF n
<1>4. CASE pos % SECTOR = 0
  BY <1>1, <1>2, <1>3, <1>4
<1>5. CASE count > 0 /\ (pos % SECTOR) + count <= SECTOR
  <2>1. 1 * SECTOR <= n * SECTOR /\ 1 * SECTOR = SECTOR
    BY <1>1, <1>5, Multiples
  <2>2. QED
    BY <1>1, <1>2, <1>3, <1>5, <2>1
<1>6. QED
  BY <1>4, <1>5
=============================================================================
