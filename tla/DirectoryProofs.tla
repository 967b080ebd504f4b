--------------------------- MODULE DirectoryProofs ---------------------------
(***************************************************************************)
(* What the loader and service 9 find in the root directory, for every     *)
(* disk, every number of entries and room, and whatever programs do with   *)
(* their descriptors: no call of a program changes the shape of the        *)
(* kernel's table, so a load or a listing that has rewound descriptor 5    *)
(* reads the directory wherever the drive was left.                        *)
(***************************************************************************)
EXTENDS Directory, Induction, TLAPS

(* Parents never change: the directory lies on drive B, the keyboard and   *)
(* the drive on nothing, and drive A was never opened.                     *)
Shape ==
  /\ fd_list \in [OpenFds -> FileDescriptors]
  /\ fd_list[ROOT_DIR].pfd = DRIVE_B /\ fd_list[ROOT_DIR].pfd_offset = ROOT_START
  /\ fd_list[DRIVE_B].pfd = NO_PARENT
  /\ fd_list[STDIN].pfd = NO_PARENT
  /\ fd_list[DRIVE_A].pfd = STDIN

-----------------------------------------------------------------------------
(* What the table looks like decides what read does, in all of its cases.  *)
LEMMA ShapeDevices ==
  ASSUME Shape
  PROVE  /\ Device(ROOT_DIR) = DRIVE_B /\ Device(DRIVE_B) = DRIVE_B
         /\ Device(STDIN) = STDIN /\ Device(DRIVE_A) = STDIN
         /\ ParentPos(ROOT_DIR) = ROOT_START + fd_list[ROOT_DIR].pos
BY DEF Shape, Device, ParentPos, DRIVE_B, DRIVE_A, STDIN, ROOT_DIR, NO_PARENT

(* Positions are numbers, for every descriptor there is.                   *)
LEMMA ShapePositions ==
  ASSUME Shape
  PROVE  /\ \A fd \in OpenFds : fd_list[fd].pos \in Nat
         /\ ROOT_START \in Nat /\ ENTRIES \in Nat \ {0} /\ ROOM \in Nat \ {0}
BY FilesAssumption, DirectoryAssumption DEF Shape, FileDescriptors

(* A new value of positions leaves the shape alone.                        *)
LEMMA ShapeOfPositions ==
  ASSUME Shape,
         NEW pos \in [OpenFds -> Nat],
         fd_list' = [fd \in OpenFds |-> [fd_list[fd] EXCEPT !.pos = pos[fd]]]
  PROVE  /\ Shape'
         /\ \A fd \in OpenFds : fd_list'[fd].pos = pos[fd]
<1>1. \A fd \in OpenFds : fd_list[fd] \in FileDescriptors
  BY DEF Shape
<1>2. \A fd \in OpenFds : /\ fd_list'[fd] \in FileDescriptors
                          /\ fd_list'[fd].pos = pos[fd]
                          /\ fd_list'[fd].pfd = fd_list[fd].pfd
                          /\ fd_list'[fd].pfd_offset = fd_list[fd].pfd_offset
  BY <1>1 DEF FileDescriptors
<1>3. {STDIN, DRIVE_A, DRIVE_B, ROOT_DIR} \subseteq OpenFds
  BY DEF OpenFds
<1>4. fd_list' \in [OpenFds -> FileDescriptors]
  BY <1>2
<1>5. QED
  BY <1>2, <1>3, <1>4 DEF Shape

(* read moves the drive and the directory together, the keyboard neither:  *)
(* whoever reads.                                                          *)
LEMMA ReadMoves ==
  ASSUME Shape, NEW fd \in OpenFds, NEW n \in Nat, NEW kernel \in BOOLEAN,
         Read(fd, n, kernel)
  PROVE  /\ Shape'
         /\ fd = ROOT_DIR =>
              /\ fd_list'[DRIVE_B].pos = ReadFrom(ROOT_DIR, kernel) + n
              /\ fd_list'[ROOT_DIR].pos = fd_list[ROOT_DIR].pos + n
         /\ fd \in {STDIN, DRIVE_A} =>
              /\ fd_list'[DRIVE_B].pos = fd_list[DRIVE_B].pos
              /\ fd_list'[ROOT_DIR].pos = fd_list[ROOT_DIR].pos
<1> DEFINE from == ReadFrom(fd, kernel)
           pos == [f \in OpenFds |->
                     IF f = Device(fd) THEN from + BytesRead(fd, n)
                     ELSE IF f = fd THEN fd_list[f].pos + BytesRead(fd, n)
                     ELSE fd_list[f].pos]
<1>1. /\ Device(ROOT_DIR) = DRIVE_B /\ Device(DRIVE_B) = DRIVE_B
      /\ Device(STDIN) = STDIN /\ Device(DRIVE_A) = STDIN
      /\ ParentPos(ROOT_DIR) = ROOT_START + fd_list[ROOT_DIR].pos
  BY ShapeDevices
<1>2. /\ \A f \in OpenFds : fd_list[f].pos \in Nat
      /\ ROOT_START \in Nat
  BY ShapePositions
<1>3. Device(fd) \in OpenFds
  BY <1>1 DEF OpenFds
<1>4. BytesRead(fd, n) \in Nat
  BY DEF BytesRead
<1>5. fd_list[DRIVE_A].pfd_offset \in Nat /\ fd_list[DRIVE_A].pos \in Nat
  BY <1>2 DEF Shape, OpenFds, FileDescriptors
<1>6. from \in Nat
  BY <1>1, <1>2, <1>3, <1>5 DEF ReadFrom, OpenFds, ParentPos
<1>7. pos \in [OpenFds -> Nat]
  BY <1>2, <1>4, <1>6
<1>8. fd_list \in [OpenFds -> FileDescriptors]
  BY DEF Shape
<1>9. fd_list' = [f \in OpenFds |-> [fd_list[f] EXCEPT !.pos = pos[f]]]
  <2>1. \A f \in OpenFds : fd_list[f] = [fd_list[f] EXCEPT !.pos = fd_list[f].pos]
    BY <1>8 DEF FileDescriptors
  <2>2. QED
    BY <2>1 DEF Read
<1>10. Shape' /\ \A f \in OpenFds : fd_list'[f].pos = pos[f]
  <2> HIDE DEF pos
  <2>1. QED
    BY <1>7, <1>9, ShapeOfPositions
<1>11. DRIVE_B \in OpenFds /\ ROOT_DIR \in OpenFds /\ STDIN # DRIVE_B /\ STDIN # ROOT_DIR
       /\ DRIVE_A # DRIVE_B /\ DRIVE_A # ROOT_DIR /\ ROOT_DIR # DRIVE_B
  BY DEF OpenFds, STDIN, DRIVE_A, DRIVE_B, ROOT_DIR
<1>12. ASSUME fd = ROOT_DIR
       PROVE  /\ fd_list'[DRIVE_B].pos = ReadFrom(ROOT_DIR, kernel) + n
              /\ fd_list'[ROOT_DIR].pos = fd_list[ROOT_DIR].pos + n
  BY <1>1, <1>10, <1>11, <1>12 DEF BytesRead
<1>13. ASSUME fd \in {STDIN, DRIVE_A}
       PROVE  /\ fd_list'[DRIVE_B].pos = fd_list[DRIVE_B].pos
              /\ fd_list'[ROOT_DIR].pos = fd_list[ROOT_DIR].pos
  BY <1>1, <1>10, <1>11, <1>13 DEF BytesRead
<1>14. QED
  BY <1>10, <1>12, <1>13

(* lseek(5, 0) by the kernel. *)
LEMMA RewindMoves ==
  ASSUME Shape, Rewind
  PROVE  Shape' /\ fd_list'[ROOT_DIR].pos = 0
<1>1. fd_list \in [OpenFds -> FileDescriptors] /\ ROOT_DIR \in OpenFds
  BY DEF Shape, OpenFds
<1>2. fd_list'[ROOT_DIR] \in FileDescriptors /\ fd_list'[ROOT_DIR].pos = 0
      /\ fd_list'[ROOT_DIR].pfd = fd_list[ROOT_DIR].pfd
      /\ fd_list'[ROOT_DIR].pfd_offset = fd_list[ROOT_DIR].pfd_offset
  BY <1>1 DEF Rewind, FileDescriptors
<1>3. \A f \in OpenFds \ {ROOT_DIR} : fd_list'[f] = fd_list[f]
  BY <1>1 DEF Rewind
<1>4. fd_list' \in [OpenFds -> FileDescriptors]
  BY <1>1, <1>2, <1>3 DEF Rewind
<1>5. {STDIN, DRIVE_A, DRIVE_B} \subseteq OpenFds \ {ROOT_DIR}
  BY DEF OpenFds, STDIN, DRIVE_A, DRIVE_B, ROOT_DIR
<1>6. QED
  BY <1>2, <1>3, <1>4, <1>5 DEF Shape

(* The drive's position alone leaves the shape as it is, too. *)
LEMMA DriveMoves ==
  ASSUME Shape, NEW p \in Nat, fd_list' = [fd_list EXCEPT ![DRIVE_B].pos = p]
  PROVE  Shape'
<1>1. fd_list \in [OpenFds -> FileDescriptors] /\ DRIVE_B \in OpenFds
  BY DEF Shape, OpenFds
<1>2. fd_list'[DRIVE_B] \in FileDescriptors
      /\ fd_list'[DRIVE_B].pfd = fd_list[DRIVE_B].pfd
  BY <1>1 DEF FileDescriptors
<1>3. \A f \in OpenFds \ {DRIVE_B} : fd_list'[f] = fd_list[f]
  BY <1>1
<1>4. fd_list' \in [OpenFds -> FileDescriptors]
  BY <1>1, <1>2, <1>3
<1>5. {STDIN, DRIVE_A, ROOT_DIR} \subseteq OpenFds \ {DRIVE_B}
  BY DEF OpenFds, STDIN, DRIVE_A, DRIVE_B, ROOT_DIR
<1>6. QED
  BY <1>2, <1>3, <1>4, <1>5 DEF Shape

-----------------------------------------------------------------------------
(* What mount leaves has the shape. *)
LEMMA InitReads == Init => Shape
<1> SUFFICES ASSUME Init PROVE Shape
  OBVIOUS
<1>1. PICK p \in 0 .. ROOT_START :
        fd_list = [fd \in OpenFds |->
          IF fd = DRIVE_A THEN Closed
          ELSE IF fd = DRIVE_B THEN [Opened(fd) EXCEPT !.pos = p]
          ELSE Opened(fd)]
  BY DEF Init, FilesInit
<1>2. p \in Nat /\ ROOT_START \in Nat
  BY FilesAssumption
<1>3. /\ fd_list[ROOT_DIR] = [pos |-> 0, pfd |-> DRIVE_B, pfd_offset |-> ROOT_START]
      /\ fd_list[DRIVE_B] = [pos |-> p, pfd |-> NO_PARENT, pfd_offset |-> 0]
      /\ fd_list[STDIN] = [pos |-> 0, pfd |-> NO_PARENT, pfd_offset |-> 0]
      /\ fd_list[DRIVE_A] = [pos |-> 0, pfd |-> 0, pfd_offset |-> 0]
  BY <1>1 DEF Opened, Closed, OpenFds, STDIN, DRIVE_A, DRIVE_B, ROOT_DIR
<1>4. \A fd \in OpenFds : fd_list[fd] \in FileDescriptors
  BY <1>2, <1>3 DEF OpenFds, FileDescriptors, STDIN
<1>5. Shape
  BY <1>1, <1>3, <1>4 DEF Shape, STDIN
<1>6. QED
  BY <1>5

(* Every step of the directory, of programs and of the drive. *)
LEMMA NextReads == Shape /\ [Next]_vars => Shape'
<1> SUFFICES ASSUME Shape, [Next]_vars PROVE Shape'
  OBVIOUS
<1>1. CASE Load \/ List
  BY <1>1, RewindMoves DEF Load, List
<1>2. ASSUME ReadRoot PROVE Shape'
  BY <1>2, ReadMoves DEF ReadRoot, OpenFds
<1>3. CASE ReadTurn \/ ListTurn
  BY <1>2, <1>3 DEF ReadTurn, ReadEntry, ListTurn
<1>4. CASE Search
  <2>1. CASE found' = NONE
    BY <1>4, <2>1 DEF Search, Shape
  <2>2. CASE found' # NONE
    <3>1. PICK p \in 0 .. ROOT_START : fd_list' = [fd_list EXCEPT ![DRIVE_B].pos = p]
      BY <1>4, <2>2 DEF Search
    <3>2. p \in Nat
      BY FilesAssumption
    <3>3. QED
      BY <3>1, <3>2, DriveMoves
  <2>3. QED
    BY <2>1, <2>2
<1>5. CASE ListEnd
  BY <1>5 DEF ListEnd, fileVars, Shape
<1>6. CASE ProgramMoves
  <2>1. UNCHANGED fd_list
    BY <1>6 DEF ProgramMoves, ProgramOpen, ProgramClose, ProgramLseek
  <2>2. QED
    BY <2>1 DEF Shape
<1>7. CASE ProgramRead
  <2>1. PICK fd \in OpenFds, n \in 1 .. 2 : Read(fd, n, FALSE)
    BY <1>7 DEF ProgramRead
  <2>2. n \in Nat
    OBVIOUS
  <2>3. QED
    BY <2>1, <2>2, ReadMoves
<1>8. CASE DriveFails
  <2>1. CASE \E e \in StaleEntries : ReadEntry(e)
    BY <1>2, <2>1 DEF ReadEntry
  <2>2. CASE UNCHANGED fileVars
    BY <2>2 DEF fileVars, Shape
  <2>3. QED
    BY <1>8, <2>1, <2>2 DEF DriveFails
<1>9. CASE UNCHANGED vars
  BY <1>9 DEF vars, fileVars, Shape
<1>10. QED
  BY <1>1, <1>3, <1>4, <1>5, <1>6, <1>7, <1>8, <1>9 DEF Next, KernelStep, Halted

-----------------------------------------------------------------------------
(* What the loader and service 9 find.  A load's copy is the directory so  *)
(* far, up to the position; a listing has the files before the position.   *)
CopyInv ==
  st = "read" =>
    /\ fd_list[ROOT_DIR].pos = Len(file_list)
    /\ iflag = 0 => \A k \in 1 .. Len(file_list) : file_list[k] = dir[k - 1]

ListInv ==
  st = "list" =>
    /\ fd_list[ROOT_DIR].pos <= ENTRIES
    /\ InOrder(listed)
    /\ Range(listed) = {k \in FileSlots : k < fd_list[ROOT_DIR].pos}

DirInv == TypeOK /\ Shape /\ CopyInv /\ ListInv /\ ListingCorrect /\ SearchCorrect

(* The numbers of the module. *)
LEMMA Numbers ==
  /\ ROOT_START \in Nat /\ ENTRIES \in Nat /\ ENTRIES >= 1 /\ ROOM \in Nat /\ ROOM >= 1
  /\ Slots \subseteq Nat /\ Slots \subseteq Int
  /\ DRIVE_B \in OpenFds /\ ROOT_DIR \in OpenFds /\ STDIN \in OpenFds /\ DRIVE_A \in OpenFds
BY FilesAssumption, DirectoryAssumption DEF Slots, OpenFds

(* get_entry_type is right about every entry. *)
LEMMA EntryTypes == \A e \in Entries : GetEntryType(e) = "file" <=> IsFile(e)
BY DEF Entries, Entry, GetEntryType, IsFile

(* Names on the disk are in upper case. *)
LEMMA UpperCase ==
  ASSUME NEW e \in Entries, NEW n \in Typed
  PROVE  e.name = Stoupper(n) <=> e.name[1] = n[1]
<1>1. PICK x \in Names : e.name = <<x, "upper">>
  <2>1. (CHOOSE x \in Names : TRUE) \in Names
    BY DirectoryAssumption
  <2>2. QED
    BY <2>1 DEF Entries, Entry
<1>2. QED
  BY <1>1 DEF Stoupper, Typed

(* The least slot of a set is one of them, and there is but one. *)
LEMMA LeastSlot == \A T \in SUBSET Slots : T # {} => Min(T) \in T
<1>1. TAKE T \in SUBSET Slots
<1>2. HAVE T # {}
<1>3. T \in SUBSET Nat
  BY Numbers
<1>4. \E x \in T : \A y \in T : x <= y
  BY <1>2, <1>3, LeastNumber
<1>5. QED
  BY <1>4 DEF Min

(* read leaves the tables as tables. *)
LEMMA ReadTypes ==
  ASSUME FilesTypeOK, Shape, NEW fd \in OpenFds, NEW n \in Nat, NEW kernel \in BOOLEAN,
         Read(fd, n, kernel)
  PROVE  FilesTypeOK'
<1>1. fd_list' \in [OpenFds -> FileDescriptors]
  BY ReadMoves DEF Shape
<1>2. Device(fd) \in OpenFds
  BY ShapeDevices DEF OpenFds
<1>3. ParentPos(fd) \in Nat
  <2>1. fd_list[fd] \in FileDescriptors
    BY DEF Shape
  <2>2. QED
    BY <2>1, Numbers DEF ParentPos, FileDescriptors
<1>4. files_table' \in [OpenFds -> Nat]
  BY <1>2, <1>3 DEF Read, FilesTypeOK
<1>5. QED
  BY <1>1, <1>4 DEF FilesTypeOK

(* A turn of either loop reads the entry at the position, and moves on. *)
LEMMA RootTurn ==
  ASSUME TypeOK, Shape, ReadRoot
  PROVE  /\ FilesTypeOK' /\ fd_list[ROOT_DIR].pos \in Nat
         /\ fd_list'[ROOT_DIR].pos = fd_list[ROOT_DIR].pos + 1
         /\ ReadFrom(ROOT_DIR, TRUE) - ROOT_START = fd_list[ROOT_DIR].pos
         /\ fd_list[ROOT_DIR].pos < ENTRIES =>
              /\ fd_list[ROOT_DIR].pos \in Slots
              /\ EntriesAt(ReadFrom(ROOT_DIR, TRUE)) = {dir[fd_list[ROOT_DIR].pos]}
<1>1. Shape
  OBVIOUS
<1>2. FilesTypeOK'
  BY <1>1, Numbers, ReadTypes DEF ReadRoot, TypeOK
<1>3. fd_list'[ROOT_DIR].pos = fd_list[ROOT_DIR].pos + 1
  BY <1>1, Numbers, ReadMoves DEF ReadRoot
<1>4. fd_list[ROOT_DIR].pos \in Nat
  BY <1>1, Numbers, ShapePositions
<1>5. ReadFrom(ROOT_DIR, TRUE) = ROOT_START + fd_list[ROOT_DIR].pos
  BY <1>1, ShapeDevices DEF ReadFrom, DRIVE_B, ROOT_DIR
<1>6. ReadFrom(ROOT_DIR, TRUE) - ROOT_START = fd_list[ROOT_DIR].pos
  <2>1. \A a, b \in Nat : (a + b) - a = b
    OBVIOUS
  <2>2. (ROOT_START + fd_list[ROOT_DIR].pos) - ROOT_START = fd_list[ROOT_DIR].pos
    BY <1>4, <2>1, Numbers
  <2>3. QED
    BY <1>5, <2>2, Zenon
<1>7. ASSUME fd_list[ROOT_DIR].pos < ENTRIES
      PROVE  /\ fd_list[ROOT_DIR].pos \in Slots
             /\ EntriesAt(ReadFrom(ROOT_DIR, TRUE)) = {dir[fd_list[ROOT_DIR].pos]}
  <2>1. fd_list[ROOT_DIR].pos \in Slots
    BY <1>4, <1>7, Numbers DEF Slots
  <2>2. QED
    BY <1>6, <2>1 DEF EntriesAt
<1>8. QED
  BY <1>2, <1>3, <1>4, <1>6, <1>7

(* Programs' calls leave the tables as tables. *)
LEMMA ProgramTypes ==
  ASSUME FilesTypeOK, NEW fd \in OpenFds,
         \/ ProgramOpen(fd)
         \/ ProgramClose(fd)
         \/ \E offset \in Offsets : ProgramLseek(fd, offset)
  PROVE  FilesTypeOK'
<1>1. \E p \in Nat : files_table' = [files_table EXCEPT ![fd] = p]
  BY DirectoryAssumption DEF ProgramOpen, ProgramClose, ProgramLseek, Opened, Closed
<1>2. UNCHANGED fd_list
  BY DEF ProgramOpen, ProgramClose, ProgramLseek
<1>3. QED
  BY <1>1, <1>2 DEF FilesTypeOK

LEMMA InitDir == Init => DirInv
<1> SUFFICES ASSUME Init PROVE DirInv
  OBVIOUS
<1>1. Shape
  BY InitReads
<1>2. FilesTypeOK
  BY <1>1 DEF Shape, FilesTypeOK, Init, FilesInit
<1>3. NoName \in Typed
  BY DirectoryAssumption DEF NoName, Typed
<1>4. TypeOK
  BY <1>2, <1>3, Numbers DEF Init, TypeOK
<1>5. QED
  BY <1>1, <1>4 DEF Init, DirInv, CopyInv, ListInv, ListingCorrect, SearchCorrect

(* load begins with an empty copy, service 9 with an empty answer. *)
LEMMA RewindDir ==
  ASSUME DirInv, Load \/ List
  PROVE  TypeOK' /\ CopyInv' /\ ListInv' /\ ListingCorrect' /\ SearchCorrect'
<1>1. FilesTypeOK' /\ fd_list'[ROOT_DIR].pos = 0
  <2>1. Shape' /\ fd_list'[ROOT_DIR].pos = 0
    BY RewindMoves DEF DirInv, Load, List
  <2>2. QED
    BY <2>1 DEF DirInv, TypeOK, FilesTypeOK, Shape, Load, List, Rewind
<1>2. NoName \in Typed
  BY DirectoryAssumption DEF NoName, Typed
<1>3. TypeOK'
  <2>1. TypeOK /\ listed' = <<>> /\ found' = NONE /\ UNCHANGED dir
        /\ st' \in {"read", "list"} /\ iflag' \in {0, 1} /\ name' \in Typed
    BY <1>2 DEF DirInv, Load, List
  <2>2. file_list' = <<>> \/ file_list' = file_list
    BY DEF Load, List
  <2>3. file_list' \in Seq(Entries) /\ Len(file_list') <= ENTRIES
    <3>1. CASE file_list' = <<>>
      BY <3>1, Numbers
    <3>2. CASE file_list' = file_list
      BY <2>1, <3>2 DEF TypeOK
    <3>3. QED
      BY <2>2, <3>1, <3>2
  <2>4. listed' \in Seq(Slots) /\ Len(listed') <= ROOM
    BY <2>1, Numbers
  <2>5. QED
    BY <1>1, <2>1, <2>3, <2>4 DEF TypeOK
<1>4. CopyInv'
  BY <1>1 DEF Load, List, CopyInv
<1>5. ListInv'
  <2>1. SUFFICES ASSUME st' = "list"
                 PROVE  0 <= ENTRIES /\ InOrder(listed') /\ Range(listed') = {}
                        /\ \A k \in FileSlots' : ~(k < 0)
    BY <1>1 DEF ListInv
  <2>2. listed' = <<>>
    BY DEF Load, List
  <2>3. QED
    BY <2>2, Numbers DEF InOrder, Range, FileSlots
<1>6. ListingCorrect' /\ SearchCorrect'
  BY DEF Load, List, ListingCorrect, SearchCorrect
<1>7. QED
  BY <1>3, <1>4, <1>5, <1>6

(* A turn of get_root_files copies the entry at the position, if the drive *)
(* answered.                                                               *)
LEMMA ReadEntryDir ==
  ASSUME DirInv, NEW e \in Entries, ReadEntry(e),
         iflag = 1 \/ e \in EntriesAt(ReadFrom(ROOT_DIR, TRUE))
  PROVE  TypeOK' /\ CopyInv' /\ ListInv' /\ ListingCorrect' /\ SearchCorrect'
<1>1. TypeOK /\ Shape /\ ReadRoot /\ CopyInv
  BY DEF DirInv, ReadEntry
<1>2. FilesTypeOK' /\ fd_list'[ROOT_DIR].pos = fd_list[ROOT_DIR].pos + 1
  BY <1>1, RootTurn
<1>3. /\ st = "read" /\ Len(file_list) < ENTRIES /\ file_list \in Seq(Entries)
      /\ file_list' = Append(file_list, e) /\ fd_list[ROOT_DIR].pos = Len(file_list)
  BY <1>1 DEF ReadEntry, TypeOK, CopyInv
<1>4. file_list' \in Seq(Entries) /\ Len(file_list') = Len(file_list) + 1
      /\ Len(file_list) \in Nat
  BY <1>3
<1>5. TypeOK'
  <2>1. Len(file_list') <= ENTRIES
    BY <1>3, <1>4, Numbers
  <2>2. QED
    BY <1>1, <1>2, <1>4, <2>1 DEF ReadEntry, TypeOK
<1>6. CopyInv'
  <2>1. fd_list'[ROOT_DIR].pos = Len(file_list')
    BY <1>2, <1>3, <1>4
  <2>2. ASSUME iflag = 0, NEW k \in 1 .. Len(file_list') PROVE file_list'[k] = dir[k - 1]
    <3>1. e = dir[Len(file_list)]
      <4>1. EntriesAt(ReadFrom(ROOT_DIR, TRUE)) = {dir[fd_list[ROOT_DIR].pos]}
        BY <1>1, <1>3, RootTurn
      <4>2. e \in EntriesAt(ReadFrom(ROOT_DIR, TRUE))
        <5>1. iflag # 1
          BY <2>2
        <5>2. QED
          BY <5>1, Zenon
      <4>3. QED
        BY <1>3, <4>1, <4>2
    <3>2. CASE k = Len(file_list) + 1
      BY <1>3, <1>4, <3>1, <3>2
    <3>3. CASE k \in 1 .. Len(file_list)
      BY <1>1, <1>3, <2>2, <3>3 DEF CopyInv
    <3>4. QED
      BY <1>4, <3>2, <3>3
  <2>3. QED
    BY <1>3, <2>1, <2>2 DEF CopyInv, ReadEntry
<1>7. ListInv' /\ ListingCorrect' /\ SearchCorrect'
  BY <1>3 DEF ReadEntry, ListInv, ListingCorrect, SearchCorrect
<1>8. QED
  BY <1>5, <1>6, <1>7

(* get_file finds the first file of the name. *)
LEMMA SearchDir ==
  ASSUME DirInv, Search
  PROVE  TypeOK' /\ CopyInv' /\ ListInv' /\ ListingCorrect' /\ SearchCorrect'
<1>1. TypeOK /\ Shape /\ CopyInv
  BY DEF DirInv
<1>2. FilesTypeOK'
  <2>1. fd_list' \in [OpenFds -> FileDescriptors]
    <3>1. CASE found' = NONE
      BY <1>1, <3>1 DEF Search, Shape
    <3>2. CASE found' # NONE
      <4>1. PICK p \in 0 .. ROOT_START : fd_list' = [fd_list EXCEPT ![DRIVE_B].pos = p]
        BY <3>2 DEF Search
      <4>2. p \in Nat
        BY Numbers
      <4>3. Shape'
        BY <1>1, <4>1, <4>2, DriveMoves
      <4>4. QED
        BY <4>3 DEF Shape
    <3>3. QED
      BY <3>1, <3>2
  <2>2. QED
    BY <1>1, <2>1 DEF TypeOK, FilesTypeOK, Search
<1>3. found' = GetFile(Stoupper(name)) /\ Len(file_list) = ENTRIES /\ st = "read"
  BY DEF Search
<1>4. found' \in {NONE} \cup Slots
  <2>1. Matches(Stoupper(name)) \in SUBSET Slots
    BY DEF Matches
  <2>2. QED
    BY <1>3, <2>1, LeastSlot DEF GetFile
<1>5. TypeOK'
  BY <1>1, <1>2, <1>4, Numbers DEF TypeOK, Search
<1>6. SearchCorrect'
  <2> DEFINE hits == {k \in Slots : IsFile(dir[k]) /\ dir[k].name[1] = name[1]}
  <2>1. SUFFICES ASSUME iflag = 0 PROVE found' = IF hits = {} THEN NONE ELSE Min(hits)
    BY DEF SearchCorrect, Search
  <2>2. ASSUME NEW k \in Slots
        PROVE  (GetEntryType(file_list[k + 1]) = "file" /\ file_list[k + 1].name = Stoupper(name))
               <=> (IsFile(dir[k]) /\ dir[k].name[1] = name[1])
    <3>1. k + 1 \in 1 .. Len(file_list) /\ (k + 1) - 1 = k
      BY <1>3, Numbers DEF Slots
    <3>2. file_list[k + 1] = dir[k]
      BY <1>1, <1>3, <2>1, <3>1 DEF CopyInv
    <3>3. dir[k] \in Entries /\ name \in Typed
      BY <1>1 DEF TypeOK
    <3>4. QED
      BY <3>2, <3>3, EntryTypes, UpperCase
  <2>3. Matches(Stoupper(name)) = hits
    BY <2>2 DEF Matches
  <2>4. QED
    BY <1>3, <2>3 DEF GetFile
<1>7. CopyInv' /\ ListInv' /\ ListingCorrect'
  BY DEF Search, CopyInv, ListInv, ListingCorrect
<1>8. QED
  BY <1>5, <1>6, <1>7

(* A turn of list_root_files puts the entry at the position, if a file,    *)
(* behind the files before it.                                             *)
LEMMA ListTurnDir ==
  ASSUME DirInv, ListTurn
  PROVE  TypeOK' /\ CopyInv' /\ ListInv' /\ ListingCorrect' /\ SearchCorrect'
<1> DEFINE p == fd_list[ROOT_DIR].pos
<1>1. TypeOK /\ Shape /\ ListInv /\ ReadRoot /\ st = "list" /\ MoreEntries /\ RoomLeft
  BY DEF DirInv, ListTurn
<1>2. FilesTypeOK' /\ p \in Nat /\ fd_list'[ROOT_DIR].pos = p + 1
  BY <1>1, RootTurn
<1>3. p < ENTRIES
  BY <1>1, <1>2, Numbers DEF MoreEntries
<1>4. p \in Slots /\ EntriesAt(ReadFrom(ROOT_DIR, TRUE)) = {dir[p]}
      /\ ReadFrom(ROOT_DIR, TRUE) - ROOT_START = p
  BY <1>1, <1>3, RootTurn
<1> HIDE DEF p
<1>5. listed' = IF IsFile(dir[p]) THEN Append(listed, p) ELSE listed
  <2>1. dir[p] \in Entries
    BY <1>1, <1>4 DEF TypeOK
  <2>2. listed' = IF GetEntryType(dir[p]) # "file" THEN listed ELSE Append(listed, p)
    BY <1>4 DEF ListTurn
  <2>3. QED
    BY <2>1, <2>2, EntryTypes
<1>6. listed \in Seq(Slots) /\ Len(listed) < ROOM /\ Len(listed) \in Nat
  BY <1>1 DEF TypeOK, RoomLeft
<1>7. UNCHANGED <<dir, st, iflag, file_list, name, found>>
  BY DEF ListTurn
<1>8. listed' \in Seq(Slots) /\ Len(listed') <= ROOM
  BY <1>4, <1>5, <1>6, Numbers
<1>9. TypeOK'
  BY <1>1, <1>2, <1>7, <1>8 DEF TypeOK
<1>10. InOrder(listed) /\ \A k : k \in Range(listed) <=> k \in FileSlots /\ k < p
  BY <1>1 DEF ListInv, p
<1>11. InOrder(listed')
  <2>1. CASE ~IsFile(dir[p])
    BY <1>5, <1>10, <2>1
  <2>2. CASE IsFile(dir[p])
    <3>1. \A k \in 1 .. Len(listed) : listed[k] < p
      BY <1>6, <1>10 DEF Range
    <3>2. SUFFICES ASSUME NEW j \in 1 .. Len(listed'), NEW k \in 1 .. Len(listed'), j < k
                   PROVE  listed'[j] < listed'[k]
      BY DEF InOrder
    <3>3. Len(listed') = Len(listed) + 1 /\ j \in 1 .. Len(listed)
      BY <1>5, <1>6, <2>2, <3>2
    <3>4. CASE k = Len(listed) + 1
      BY <1>5, <1>6, <2>2, <3>1, <3>3, <3>4
    <3>5. CASE k \in 1 .. Len(listed)
      BY <1>5, <1>6, <1>10, <2>2, <3>2, <3>3, <3>5 DEF InOrder
    <3>6. QED
      BY <1>6, <3>2, <3>3, <3>4, <3>5
  <2>3. QED
    BY <2>1, <2>2
<1>12. Range(listed') = {k \in FileSlots : k < p + 1}
  <2>1. \A k \in FileSlots : k < p + 1 <=> k < p \/ k = p
    BY <1>2, Numbers DEF FileSlots
  <2>2. p \in FileSlots <=> IsFile(dir[p])
    BY <1>4 DEF FileSlots
  <2>3. CASE ~IsFile(dir[p])
    BY <1>5, <1>10, <2>1, <2>2, <2>3
  <2>4. CASE IsFile(dir[p])
    <3>1. Range(listed') = Range(listed) \cup {p}
      BY <1>5, <1>6, <2>4 DEF Range
    <3>2. QED
      BY <1>10, <2>1, <2>2, <2>4, <3>1
  <2>5. QED
    BY <2>3, <2>4
<1>13. ListInv'
  <2>1. FileSlots' = FileSlots
    BY <1>7 DEF FileSlots
  <2>2. p + 1 <= ENTRIES
    BY <1>2, <1>3, Numbers
  <2>3. QED
    BY <1>2, <1>11, <1>12, <2>1, <2>2 DEF ListInv
<1>14. CopyInv' /\ ListingCorrect' /\ SearchCorrect'
  BY <1>1, <1>7 DEF CopyInv, ListingCorrect, SearchCorrect
<1>15. QED
  BY <1>9, <1>13, <1>14

(* The answer: all files are before the position, or the room is used up.  *)
LEMMA ListEndDir ==
  ASSUME DirInv, ListEnd
  PROVE  TypeOK' /\ CopyInv' /\ ListInv' /\ ListingCorrect' /\ SearchCorrect'
<1> DEFINE p == fd_list[ROOT_DIR].pos
<1>1. TypeOK /\ ListInv /\ st = "list" /\ ~(RoomLeft /\ MoreEntries) /\ UNCHANGED <<dir, listed>>
  BY DEF DirInv, ListEnd
<1>2. p \in Nat /\ p <= ENTRIES
  BY <1>1, Numbers, ShapePositions DEF DirInv, ListInv
<1>3. InOrder(listed) /\ Range(listed) = {k \in FileSlots : k < p}
  BY <1>1 DEF ListInv
<1>4. p = ENTRIES \/ Len(listed) = ROOM
  BY <1>1, <1>2, Numbers DEF RoomLeft, MoreEntries, TypeOK
<1> HIDE DEF p
<1>5. ASSUME NEW k \in FileSlots \ Range(listed) PROVE Len(listed) = ROOM /\ k > listed[ROOM]
  <2>1. k \in Nat /\ k < ENTRIES /\ ~(k < p)
    BY <1>3, Numbers DEF FileSlots, Slots
  <2>2. Len(listed) = ROOM
    BY <1>2, <1>4, <2>1, Numbers
  <2>3. ROOM \in DOMAIN listed
    BY <1>1, <2>2, Numbers DEF TypeOK
  <2>4. listed[ROOM] < p /\ listed[ROOM] \in Nat
    BY <1>3, <2>3, Numbers DEF Range, FileSlots
  <2>5. QED
    BY <1>2, <2>1, <2>2, <2>4
<1>6. ListingCorrect'
  <2>1. FileSlots' = FileSlots /\ Range(listed)' = Range(listed)
    BY <1>1 DEF FileSlots, Range
  <2>2. Range(listed) \subseteq FileSlots
    BY <1>3
  <2>3. QED
    BY <1>1, <1>3, <1>5, <2>1, <2>2 DEF ListingCorrect, InOrder
<1>7. TypeOK'
  BY <1>1 DEF ListEnd, TypeOK, fileVars, FilesTypeOK
<1>8. CopyInv' /\ ListInv' /\ SearchCorrect'
  BY DEF ListEnd, CopyInv, ListInv, SearchCorrect
<1>9. QED
  BY <1>6, <1>7, <1>8

(* What programs do to the descriptors keeps them in their types. *)
LEMMA ProgramDir ==
  ASSUME DirInv, ProgramMoves \/ ProgramRead
  PROVE  TypeOK' /\ CopyInv' /\ ListInv' /\ ListingCorrect' /\ SearchCorrect'
<1>1. TypeOK /\ Shape /\ Idle /\ ListingCorrect
  BY DEF DirInv, ProgramMoves, ProgramRead
<1>2. GoOn
  BY DEF ProgramMoves, ProgramRead
<1>3. FilesTypeOK'
  <2>1. CASE ProgramMoves
    <3>1. PICK fd \in {DRIVE_B, ROOT_DIR} :
             \/ ProgramOpen(fd)
             \/ ProgramClose(fd)
             \/ \E offset \in Offsets : ProgramLseek(fd, offset)
      BY <2>1 DEF ProgramMoves
    <3>2. fd \in OpenFds /\ FilesTypeOK
      BY <1>1, Numbers DEF TypeOK
    <3>3. QED
      BY <3>1, <3>2, ProgramTypes
  <2>2. CASE ProgramRead
    <3>1. PICK fd \in OpenFds, n \in 1 .. 2 : Read(fd, n, FALSE)
      BY <2>2 DEF ProgramRead
    <3>2. n \in Nat /\ FilesTypeOK
      BY <1>1 DEF TypeOK
    <3>3. QED
      BY <1>1, <3>1, <3>2, ReadTypes
  <2>3. QED
    BY <2>1, <2>2
<1>4. /\ st' = "idle" /\ listed' = <<>>
      /\ iflag' = 0 /\ name' = NoName /\ found' = NONE /\ UNCHANGED <<dir, file_list>>
  BY <1>2 DEF GoOn
<1>5. NoName \in Typed /\ NONE \in {NONE} \cup Slots
  BY DirectoryAssumption DEF NoName, Typed
<1>6. listed' \in Seq(Slots) /\ Len(listed') <= ROOM
  BY <1>4, Numbers
<1>7. TypeOK'
  BY <1>1, <1>3, <1>4, <1>5, <1>6 DEF TypeOK
<1>8. ListingCorrect'
  BY <1>4 DEF ListingCorrect
<1>9. CopyInv' /\ ListInv' /\ SearchCorrect'
  BY <1>4 DEF CopyInv, ListInv, SearchCorrect
<1>10. QED
  BY <1>7, <1>8, <1>9

(* Every step keeps the loader's copy and the listing right. *)
LEMMA NextDir == DirInv /\ [Next]_vars => DirInv'
<1> SUFFICES ASSUME DirInv, [Next]_vars PROVE DirInv'
  OBVIOUS
<1>1. SUFFICES TypeOK' /\ CopyInv' /\ ListInv' /\ ListingCorrect' /\ SearchCorrect'
  <2>1. Shape'
    BY NextReads DEF DirInv
  <2>2. QED
    BY <2>1 DEF DirInv
<1>2. CASE Load \/ List
  BY <1>2, RewindDir
<1>3. CASE ReadTurn
  <2>1. PICK e \in EntriesAt(ReadFrom(ROOT_DIR, TRUE)) : ReadEntry(e)
    BY <1>3 DEF ReadTurn
  <2>2. e \in Entries
    <3>1. dir \in [Slots -> Entries]
      BY DEF DirInv, TypeOK
    <3>2. QED
      BY <2>1, <3>1 DEF EntriesAt
  <2>3. QED
    BY <2>1, <2>2, ReadEntryDir
<1>4. CASE Search
  BY <1>4, SearchDir
<1>5. CASE ListTurn
  BY <1>5, ListTurnDir
<1>6. CASE ListEnd
  BY <1>6, ListEndDir
<1>7. CASE ProgramMoves \/ ProgramRead
  BY <1>7, ProgramDir
<1>8. CASE DriveFails
  <2>1. CASE iflag = 1 /\ \E e \in StaleEntries : ReadEntry(e)
    BY <2>1, ReadEntryDir DEF StaleEntries
  <2>2. CASE /\ st' = "halted"
             /\ file_list' = <<>> /\ name' = NoName /\ found' = NONE /\ listed' = <<>>
             /\ iflag' = 0
             /\ UNCHANGED <<fileVars, dir>>
    <3>1. NoName \in Typed
      BY DirectoryAssumption DEF NoName, Typed
    <3>2. TypeOK'
      BY <2>2, <3>1, Numbers DEF DirInv, TypeOK, fileVars, FilesTypeOK
    <3>3. QED
      BY <2>2, <3>2 DEF CopyInv, ListInv, ListingCorrect, SearchCorrect
  <2>3. QED
    BY <1>8, <2>1, <2>2 DEF DriveFails
<1>9. CASE UNCHANGED vars
  <2>1. UNCHANGED <<fd_list, files_table, dir, st, iflag, file_list, name, found, listed>>
    BY <1>9 DEF vars, fileVars
  <2>2. FileSlots' = FileSlots
    BY <2>1 DEF FileSlots
  <2>3. TypeOK' /\ CopyInv'
    BY <2>1 DEF DirInv, TypeOK, FilesTypeOK, CopyInv
  <2>4. ListInv' /\ ListingCorrect'
    BY <2>1, <2>2 DEF DirInv, ListInv, ListingCorrect, InOrder, Range
  <2>5. SearchCorrect'
    BY <2>1 DEF DirInv, SearchCorrect
  <2>6. QED
    BY <2>3, <2>4, <2>5
<1>10. QED
  BY <1>2, <1>3, <1>4, <1>5, <1>6, <1>7, <1>8, <1>9 DEF Next, KernelStep, Halted

THEOREM DirectoryInvariant == Spec => []DirInv
BY InitDir, NextDir, PTL DEF Spec

(* The tables, the copy and the answer keep their bounds. *)
THEOREM DirectoryTypeCorrect == Spec => []TypeOK
<1>1. DirInv => TypeOK
  BY DEF DirInv
<1>2. QED
  BY <1>1, DirectoryInvariant, PTL

(* Service 9 answers with the first files of the directory, as many as     *)
(* fit, for every directory and room: the theorem of ListingCorrect.       *)
THEOREM ListingsAreCorrect == Spec => []ListingCorrect
<1>1. DirInv => ListingCorrect
  BY DEF DirInv
<1>2. QED
  BY <1>1, DirectoryInvariant, PTL

(* The loader finds the first file of the name, for every directory: the   *)
(* theorem of SearchCorrect.                                               *)
THEOREM SearchesAreCorrect == Spec => []SearchCorrect
<1>1. DirInv => SearchCorrect
  BY DEF DirInv
<1>2. QED
  BY <1>1, DirectoryInvariant, PTL
=============================================================================
