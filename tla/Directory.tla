------------------------------ MODULE Directory ------------------------------
(***************************************************************************)
(* The root directory, fs/msdos/fs.c: the loader reads it whole and looks  *)
(* for a name (get_root_files, get_file), service 9 lists it               *)
(* (list_root_files), programs open, seek, read and close it and the drive *)
(* it lies on.  All reads go through the kernel's descriptors (Files).     *)
(*                                                                         *)
(* Positions are counted in entries.  Of an entry the model keeps what     *)
(* get_entry_type looks at and the name; extensions are never compared.    *)
(***************************************************************************)
EXTENDS Files, Sequences, FiniteSetsExt

CONSTANTS Names,           \* names of files, apart from upper and lower case
          ENTRIES,         \* bs.root_dir_entries
          ROOM,            \* files that fit into the 512 bytes of an answer
          MAX_POS,         \* bound on the position programs read up to
          Offsets          \* bound: where programs seek

ASSUME DirectoryAssumption ==
  /\ Names # {} /\ ENTRIES \in 1 .. 256 /\ ROOM \in Nat \ {0}
  /\ MAX_POS \in Nat /\ MAX_POS >= ROOT_START + ENTRIES
  /\ Offsets \subseteq Nat

NONE == -1                 \* get_file has found nothing

(* first: the first byte of the name, 0E5h, 0 or a character; attr: lfn is *)
(* 0Fh, vol has the volume bit; vfat: the other three conditions of a VFAT *)
(* entry hold.  Names on the disk are in upper case.                       *)
Entry(first, attr, vfat, name) ==
  [first |-> first, attr |-> attr, vfat |-> vfat, name |-> <<name, "upper">>]

Entries ==
  LET n == CHOOSE x \in Names : TRUE
  IN  {Entry("e5", "file", FALSE, n), Entry("00", "file", FALSE, n),
       Entry("char", "vol", FALSE, n), Entry("char", "dir", FALSE, n)}
      \cup {Entry("char", "lfn", v, n) : v \in BOOLEAN}
      \cup {Entry("char", "file", FALSE, x) : x \in Names}

(* What a stale buffer may be taken for: of the kinds get_file does not    *)
(* tell apart, one each.                                                   *)
StaleEntries == {e \in Entries : e.first # "e5" /\ e.attr = "file"}

Typed == Names \X {"upper", "lower"}

Slots == 0 .. ENTRIES - 1

VARIABLES dir,             \* the directory on the disk
          st,              \* "read" and "list" are the loops, "found" and
                           \* "answered" their ends
          iflag,           \* the interrupt flag in get_root_files
          file_list,       \* load's copy of the directory, as far as it is read
          name,            \* the name load looks for, as typed
          found,           \* what get_file found: a slot of file_list
          listed           \* the files put into the answer, by slot

vars == <<fileVars, dir, st, iflag, file_list, name, found, listed>>

TypeOK ==
  /\ dir \in [Slots -> Entries]
  /\ FilesTypeOK
  /\ st \in {"idle", "read", "found", "list", "answered", "halted"}
  /\ iflag \in {0, 1}
  /\ file_list \in Seq(Entries) /\ Len(file_list) <= ENTRIES
  /\ name \in Typed
  /\ found \in {NONE} \cup Slots
  /\ listed \in Seq(Slots) /\ Len(listed) <= ROOM

-----------------------------------------------------------------------------
(* Mutant: the volume bit is not tested. *)
GetEntryTypeNoLabel(e) ==
  IF e.first = "e5" THEN "deleted"
  ELSE IF e.first = "00" THEN "none"
  ELSE IF e.attr = "lfn" /\ e.vfat THEN "vfat"
  ELSE "file"

GetEntryType(e) ==
  IF e.first = "e5" THEN "deleted"
  ELSE IF e.first = "00" THEN "none"
  ELSE IF e.attr = "lfn" /\ e.vfat THEN "vfat"
  ELSE IF e.attr \in {"lfn", "vol"} THEN "vollabel"
  ELSE "file"

(* stoupper *)
Stoupper(n) == <<n[1], "upper">>

Matches(n) ==
  {k \in Slots : /\ GetEntryType(file_list[k + 1]) = "file"
                 /\ file_list[k + 1].name = n}

(* get_file, on load's copy. *)
GetFile(n) ==
  IF Matches(n) = {} THEN NONE ELSE Min(Matches(n))

NoName == <<CHOOSE x \in Names : TRUE, "upper">>

(* mount has opened "/". *)
Init ==
  /\ dir \in [Slots -> Entries]
  /\ FilesInit /\ st = "idle" /\ iflag = 0
  /\ file_list = <<>>
  /\ name = NoName
  /\ found = NONE /\ listed = <<>>

Idle == st \in {"idle", "found", "answered"}

(* load: get_root_files begins; with interrupts on when it is for init. *)
Load ==
  /\ Idle
  /\ Rewind
  /\ st' = "read" /\ file_list' = <<>> /\ found' = NONE /\ listed' = <<>>
  /\ iflag' \in {0, 1}
  /\ name' \in Typed
  /\ UNCHANGED dir

(* Mutant: read does not move the position. *)
ReadRootStays == UNCHANGED fileVars

(* read(5,...,0) of one entry. *)
ReadRoot == Read(ROOT_DIR, 1, TRUE)

(* The entries read may bring from where it reads now: around the          *)
(* directory lie the FAT and the data section.                             *)
EntriesAt(p) ==
  IF p - ROOT_START \in Slots THEN {dir[p - ROOT_START]} ELSE Entries

(* A turn of get_root_files' loop in which read brought entry e. *)
ReadEntry(e) ==
  /\ st = "read" /\ Len(file_list) < ENTRIES
  /\ file_list' = Append(file_list, e)
  /\ ReadRoot
  /\ UNCHANGED <<dir, st, iflag, name, found, listed>>

ReadTurn == \E e \in EntriesAt(ReadFrom(ROOT_DIR, TRUE)) : ReadEntry(e)

(* After the loop: stoupper and get_file, and if there is such a file,     *)
(* load_file_content (Fat12), whose last read is one of the FAT, before    *)
(* the directory.                                                          *)
Search ==
  /\ st = "read" /\ Len(file_list) = ENTRIES
  /\ found' = GetFile(Stoupper(name))
  /\ st' = "found"
  /\ file_list' = <<>>
  /\ IF found' = NONE THEN UNCHANGED fd_list
     ELSE \E p \in 0 .. ROOT_START : fd_list' = [fd_list EXCEPT ![DRIVE_B].pos = p]
  /\ UNCHANGED <<files_table, dir, iflag, name, listed>>

(* Service 9: open("/"), lseek and list_root_files. *)
List ==
  /\ Idle
  /\ Rewind
  /\ st' = "list" /\ listed' = <<>> /\ found' = NONE
  /\ iflag' = 0 /\ name' = NoName
  /\ UNCHANGED <<dir, file_list>>

(* Mutant: the room in the answer is not checked. *)
RoomForever == TRUE

(* num_read_entries > 0 *)
RoomLeft == Len(listed) < ROOM

(* get_root_next_file finds an entry. *)
MoreEntries == fd_list[ROOT_DIR].pos + 1 <= ENTRIES

(* A turn of the loop.  The tests for a deleted entry and for the end mark *)
(* that follow the first one never succeed: get_entry_type has made the    *)
(* loop continue already.  Files are named by their slots.                 *)
ListTurn ==
  /\ st = "list" /\ RoomLeft /\ MoreEntries
  /\ ReadRoot
  /\ LET at == ReadFrom(ROOT_DIR, TRUE)
     IN  \E e \in EntriesAt(at) :
           listed' = IF GetEntryType(e) # "file" THEN listed
                     ELSE Append(listed, at - ROOT_START)
  /\ UNCHANGED <<dir, st, iflag, file_list, name, found>>

ListEnd ==
  /\ st = "list" /\ ~(RoomLeft /\ MoreEntries)
  /\ st' = "answered"
  /\ UNCHANGED <<fileVars, dir, iflag, file_list, name, found, listed>>

(* The program goes on, and the answer is no longer looked at. *)
GoOn ==
  /\ st' = "idle" /\ listed' = <<>>
  /\ iflag' = 0 /\ name' = NoName /\ found' = NONE
  /\ UNCHANGED <<dir, file_list>>

(* Services 10, 11 and 12 of the running program. *)
ProgramMoves ==
  /\ Idle
  /\ \E fd \in {DRIVE_B, ROOT_DIR} :
       \/ ProgramOpen(fd)
       \/ ProgramClose(fd)
       \/ \E offset \in Offsets : ProgramLseek(fd, offset)
  /\ GoOn

(* Service 13: a program reads n entries.  What it gets of the drive or    *)
(* the directory is at ReadFrom(fd, FALSE).                                *)
ProgramRead ==
  /\ Idle
  /\ \E fd \in OpenFds, n \in 1 .. 2 :
       /\ ReadFrom(fd, FALSE) + n <= MAX_POS /\ fd_list[ROOT_DIR].pos + n <= MAX_POS
       /\ Read(fd, n, FALSE)
       /\ GoOn

(* The drive fails: the processor halts for good, in a program's read too, *)
(* or, with interrupts on, read takes what lies in its buffer for the      *)
(* entry.                                                                  *)
DriveFails ==
  \/ iflag = 1 /\ \E e \in StaleEntries : ReadEntry(e)
  \/ /\ \/ st = "read" /\ Len(file_list) < ENTRIES /\ iflag = 0
        \/ st = "list" /\ RoomLeft /\ MoreEntries
        \/ Idle
     /\ st' = "halted"
     /\ file_list' = <<>> /\ name' = NoName /\ found' = NONE /\ listed' = <<>>
     /\ iflag' = 0
     /\ UNCHANGED <<fileVars, dir>>

(* The processor has stopped. *)
Halted == st = "halted" /\ UNCHANGED vars

KernelStep == ReadTurn \/ Search \/ ListTurn \/ ListEnd

Next == Load \/ KernelStep \/ List \/ ProgramMoves \/ ProgramRead \/ DriveFails \/ Halted

Spec == Init /\ [][Next]_vars

(* The processor does not stop inside the kernel. *)
FairSpec == Spec /\ WF_vars(KernelStep)

-----------------------------------------------------------------------------
(* What counts as a file: a file or a subdirectory by its own 32 bytes.    *)
(* Those behind a 00 entry are counted too, as the code takes them, though *)
(* the comments in fs.c let such an entry end the directory: what that     *)
(* does to a listing is NothingBehindEnd.                                  *)
IsFile(e) == e.first = "char" /\ e.attr \in {"file", "dir"}

FileSlots == {k \in Slots : IsFile(dir[k])}

(* In the order of the directory, each once. *)
InOrder(q) == \A j, k \in 1 .. Len(q) : j < k => q[j] < q[k]

(* An answer to service 9 has the first files of the directory, in its     *)
(* order, each once and none but files (no deleted entry, label or part of *)
(* a long name), as many as fit: wherever loads, listings and programs'    *)
(* reads of descriptor 5 had left the shared position.  Files behind a 00  *)
(* entry are files here (IsFile).                                          *)
ListingCorrect ==
  st = "answered" =>
    /\ InOrder(listed)
    /\ Range(listed) \subseteq FileSlots
    /\ \A k \in FileSlots \ Range(listed) : Len(listed) = ROOM /\ k > listed[ROOM]

(* A load in a system call finds the first file of the name, typed in any  *)
(* case, and nothing if there is none; it never mistakes a deleted entry,  *)
(* a label or a long name's part for it, wherever the shared position was. *)
(* A file behind a 00 entry is one here (IsFile): get_file has no test for *)
(* the end mark.                                                           *)
SearchCorrect ==
  st = "found" /\ iflag = 0 =>
    LET hits == {k \in Slots : IsFile(dir[k]) /\ dir[k].name[1] = name[1]}
    IN  found = IF hits = {} THEN NONE ELSE Min(hits)

(* A load or a listing comes to its end, or the drive fails. *)
DirectoryEnds == st \in {"read", "list"} ~> st \in {"found", "answered", "halted"}

(* An entry whose name begins with 0 ends the directory, as get_entry_type *)
(* says of it: nothing behind it is listed.                                *)
NothingBehindEnd ==
  \A k \in 1 .. Len(listed) : \A e \in 0 .. listed[k] : dir[e].first # "00"

(* arch/8088/kernel/io.c lists lseek, service 12, as "Move the file        *)
(* pointer": the program's next read of the directory is at the offset.    *)
(* lseek moves the pointer in the program's table; read consults the       *)
(* kernel's, seeks the drive in the program's and reads it by the          *)
(* kernel's: the program gets what lies where the drive was left, by a     *)
(* load, a listing or another read.                                        *)
LseekMoves ==
  [][\A offset \in Offsets :
       ProgramMoves /\ ProgramLseek(ROOT_DIR, offset) =>
         ReadFrom(ROOT_DIR, FALSE)' = ROOT_START + offset]_vars
=============================================================================
