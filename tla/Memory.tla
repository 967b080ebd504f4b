------------------------------- MODULE Memory -------------------------------
(***************************************************************************)
(* The segment allocator, mm/mm.c.  A segment is named by its index in     *)
(* seg_arr: entry i describes the 64K segment at address i * 0x1000.  The  *)
(* table is represented by the set of entries whose used flag is 1.        *)
(***************************************************************************)
EXTENDS Integers

CONSTANT NUM_SEG       \* entries of seg_arr (10 in include/linux/mm.h)

ASSUME NumSegAssumption == NUM_SEG \in Nat /\ NUM_SEG >= 3

VARIABLE used          \* the entries of seg_arr whose used flag is 1

Segs == 0 .. NUM_SEG - 1

LOW_SEG == 0           \* interrupt vectors, boot loader and BIOS data
KERNEL_SEG == 1        \* the kernel's code, data and stack

MemTypeOK == used \subseteq Segs

(* init_seg: the first two segments are taken, the others are free. *)
InitSegValue == {LOW_SEG, KERNEL_SEG}

FreeSegs == Segs \ used

(* Mutant: the used flag is not set. *)
GetFreeSegUnmarked(seg) ==
  /\ seg \in FreeSegs
  /\ \A s \in FreeSegs : seg <= s
  /\ used' = used

(* get_free_seg takes the first free entry.  With none left the local      *)
(* variable seg is returned uninitialised: any segment number may come     *)
(* back, and no used flag is written.                                      *)
GetFreeSeg(seg) ==
  IF FreeSegs = {}
  THEN seg \in Segs /\ used' = used
  ELSE /\ seg \in FreeSegs
       /\ \A s \in FreeSegs : seg <= s
       /\ used' = used \cup {seg}

(* release_seg clears the used flag of the entry with that address. *)
ReleaseSeg(seg) == used' = used \ {seg}

=============================================================================
