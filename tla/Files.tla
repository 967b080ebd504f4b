-------------------------------- MODULE Files --------------------------------
(***************************************************************************)
(* File descriptors, kernel/kernio.c.  There is a table for the kernel,    *)
(* fd_list, and one in every process descriptor, files_table.  open, close *)
(* and lseek use the table of the pid they are given; read looks only into *)
(* fd_list, and when the descriptor has a parent (the root directory, 5,   *)
(* lies on drive B, 4) moves the parent's position in the CALLER's table   *)
(* before it reads the parent as the kernel.                               *)
(*                                                                         *)
(* Positions are counted in directory entries of 32 bytes.  The size field *)
(* is written and never used, and is left out.  Of files_table the model   *)
(* keeps the positions, as nothing is ever read from it.  Drive A (3) is   *)
(* never opened by the kernel: fd_list[3].pfd is 0 and reading it reads    *)
(* the keyboard.                                                           *)
(***************************************************************************)
EXTENDS Integers

CONSTANT ROOT_START        \* get_root_offset(), in entries

ASSUME FilesAssumption == ROOT_START \in Nat \ {0}

STDIN == 0
DRIVE_A == 3
DRIVE_B == 4
ROOT_DIR == 5

NO_PARENT == -1            \* pfd of a device

OpenFds == {STDIN, DRIVE_A, DRIVE_B, ROOT_DIR}

FileDescriptors == [pos : Nat, pfd : {NO_PARENT, STDIN, DRIVE_B}, pfd_offset : {0, ROOT_START}]

VARIABLES fd_list,         \* the kernel's table
          files_table      \* the running process's, by positions

fileVars == <<fd_list, files_table>>

FilesTypeOK ==
  /\ fd_list \in [OpenFds -> FileDescriptors]
  /\ files_table \in [OpenFds -> Nat]

(* What open leaves in entry fd: the devices have no parent.  Their        *)
(* pfd_offset is not written for the drives, and never used.               *)
Opened(fd) ==
  IF fd = ROOT_DIR
  THEN [pos |-> 0, pfd |-> DRIVE_B, pfd_offset |-> ROOT_START]
  ELSE [pos |-> 0, pfd |-> NO_PARENT, pfd_offset |-> 0]

Closed == [pos |-> 0, pfd |-> 0, pfd_offset |-> 0]

(* startk: /dev/stdin, and in mount /dev/fdb and "/", after which the boot *)
(* sector and the FAT have been read.  run_program opens /dev/stdin for    *)
(* every process.                                                          *)
FilesInit ==
  /\ \E p \in 0 .. ROOT_START :
       fd_list = [fd \in OpenFds |->
         IF fd = DRIVE_A THEN Closed
         ELSE IF fd = DRIVE_B THEN [Opened(fd) EXCEPT !.pos = p]
         ELSE Opened(fd)]
  /\ files_table = [fd \in OpenFds |-> 0]

-----------------------------------------------------------------------------
(* open, close and lseek with the pid of a process. *)
ProgramOpen(fd) ==
  /\ files_table' = [files_table EXCEPT ![fd] = Opened(fd).pos]
  /\ UNCHANGED fd_list

ProgramClose(fd) ==
  /\ files_table' = [files_table EXCEPT ![fd] = Closed.pos]
  /\ UNCHANGED fd_list

ProgramLseek(fd, offset) ==
  /\ files_table' = [files_table EXCEPT ![fd] = offset]
  /\ UNCHANGED fd_list

(* The device at the end of the "device loop". *)
Device(fd) == IF fd_list[fd].pfd = NO_PARENT THEN fd ELSE fd_list[fd].pfd

(* Where lseek puts the parent. *)
ParentPos(fd) == fd_list[fd].pfd_offset + fd_list[fd].pos

(* The position the device is read at. *)
ReadFrom(fd, kernel) ==
  IF kernel /\ Device(fd) # fd THEN ParentPos(fd) ELSE fd_list[Device(fd)].pos

(* bytes_read: the keyboard has no position.  (For descriptors 1 and 2 it  *)
(* is uninitialised; their positions are never used.)                      *)
BytesRead(fd, n) == IF Device(fd) = DRIVE_B THEN n ELSE 0

(* read of n entries: the position of the device and of the descriptor     *)
(* itself.                                                                 *)
Read(fd, n, kernel) ==
  LET from == ReadFrom(fd, kernel)
  IN  /\ fd_list' = [f \in OpenFds |->
           IF f = Device(fd) THEN [fd_list[f] EXCEPT !.pos = from + BytesRead(fd, n)]
           ELSE IF f = fd THEN [fd_list[f] EXCEPT !.pos = @ + BytesRead(fd, n)]
           ELSE fd_list[f]]
      /\ files_table' =
           IF kernel \/ Device(fd) = fd THEN files_table
           ELSE [files_table EXCEPT ![Device(fd)] = ParentPos(fd)]

(* Mutant: the position is left where it was. *)
RewindNothing == UNCHANGED fileVars

(* lseek(5,0,0,0): get_root_files, and service 9 after its open("/",0,0),  *)
(* which leaves the entry as it was opened by mount.                       *)
Rewind ==
  /\ fd_list' = [fd_list EXCEPT ![ROOT_DIR].pos = 0]
  /\ UNCHANGED files_table
=============================================================================
