------------------------------ MODULE ProcTable ------------------------------
(***************************************************************************)
(* The process table, kernel/sched.c.  Slot i of the model is              *)
(* processes[i - 1] of the code, so that a registered process sits in the  *)
(* slot of its own pid.  A slot is free when its pid field is 0; the other *)
(* fields of a free slot keep what the last owner left there.              *)
(*                                                                         *)
(* The descriptor holds a files_table of NUM_FILES = 5 entries, but open   *)
(* answers descriptor 5 for the root directory and -1 for an unknown path, *)
(* and close and lseek index the table with any int.  Where such an entry  *)
(* lies follows from the layout of ProcessDesc and FileDescriptor: entry 5 *)
(* of a process on the NEXT descriptor, entry -2 on the process's own,     *)
(* entry -14 on the one two slots down.  running_proc follows the table.   *)
(* What lies in front of the table and behind running_proc is the linker's *)
(* affair; of a descriptor the model keeps pid, ppid, cs, state and name,  *)
(* and the name only as register_proc stored it.                           *)
(***************************************************************************)
EXTENDS Integers

CONSTANTS NUM_PROCESSES,   \* slots of processes (9 in include/linux/sched.h)
          ProcNames        \* the names a process can be registered under

ASSUME NumProcessesAssumption == NUM_PROCESSES \in Nat /\ NUM_PROCESSES >= 1

VARIABLES procs,           \* the array processes
          running          \* running_proc: a pid, or 0

READY == "READY"
RUNNING == "RUNNING"

Slots == 1 .. NUM_PROCESSES
Pids == 0 .. NUM_PROCESSES

NO_ADDRESS == -1           \* a value of cs that is no segment address

Descriptors(segs) == [pid : Pids, ppid : Pids, cs : segs \cup {NO_ADDRESS},
                      state : {READY, RUNNING}, name : ProcNames]

ProcTypeOK(segs) ==
  /\ procs \in [Slots -> Descriptors(segs)]
  /\ running \in Pids

(* init_processes: every slot is free and nobody runs. *)
InitProcesses ==
  /\ procs' = [i \in Slots |-> [procs[i] EXCEPT !.pid = 0]]
  /\ running' = 0

(* set_running_proc: the process that ran becomes READY, pid RUNNING. *)
SetRunningProc(pid) ==
  /\ procs' = [i \in Slots |->
                 IF i = pid THEN [procs[i] EXCEPT !.state = RUNNING]
                 ELSE IF i = running THEN [procs[i] EXCEPT !.state = READY]
                 ELSE procs[i]]
  /\ running' = pid

FreeSlots == {i \in Slots : procs[i].pid = 0}

(* register_proc fills the first free slot and stores its pid through the  *)
(* pointer it is given.  With no slot left it returns -1, which load       *)
(* ignores, and the caller's pid stays uninitialised: any number.          *)
RegisterProc(pid, ppid, seg, name) ==
  IF FreeSlots = {}
  THEN pid \in Slots /\ procs' = procs
  ELSE /\ pid \in FreeSlots
       /\ \A i \in FreeSlots : pid <= i
       /\ procs' = [procs EXCEPT ![pid] =
                      [pid |-> pid, ppid |-> ppid, cs |-> seg,
                       state |-> READY, name |-> name]]

(* unregister_proc frees the slot and leaves the rest of it. *)
UnregisterProc(pid) == procs' = [procs EXCEPT ![pid].pid = 0]

(* Mutant: the entry lies on the process's own descriptor. *)
OpenRootOnSelf(pid) ==
  procs' = [procs EXCEPT ![pid].cs = NO_ADDRESS]

(* open("/") by process pid writes size, pfd and pfd_offset of entry 5: the *)
(* ss, ds and cs of the next descriptor.  pid 0 has the kernel's fd_list.   *)
OpenRoot(pid) ==
  procs' = [i \in Slots |->
              IF i = pid + 1 /\ pid # 0 THEN [procs[i] EXCEPT !.cs = NO_ADDRESS]
              ELSE procs[i]]

-----------------------------------------------------------------------------
(* The table by bytes: where descriptor i, running_proc and entry fd of the *)
(* files_table of process pid begin, and their fields.                      *)
DESC == 304
FILES_TABLE == 64
FILE == 48
DescAt(i) == (i - 1) * DESC
RUNNING_PROC == DescAt(NUM_PROCESSES + 1)
EntryAt(pid, fd) == DescAt(pid) + FILES_TABLE + fd * FILE

AT_PID == 0                 \* in ProcessDesc
AT_CS == 44
AT_PPID == 52
AT_STATE == 60
AT_PATHNAME == 0           \* in FileDescriptor
AT_POS == 32
CLOSED == {AT_PATHNAME, AT_POS, 36, 40, 44}  \* with size, pfd and pfd_offset

(* close zeroes an entry, wherever it lies; READY is 0. *)
CloseFd(pid, fd) ==
  LET Zeroed(a) == a - EntryAt(pid, fd) \in CLOSED
  IN  /\ procs' = [i \in Slots |->
             [procs[i] EXCEPT
                !.pid = IF Zeroed(DescAt(i) + AT_PID) THEN 0 ELSE @,
                !.cs = IF Zeroed(DescAt(i) + AT_CS) THEN 0 ELSE @,
                !.ppid = IF Zeroed(DescAt(i) + AT_PPID) THEN 0 ELSE @,
                !.state = IF Zeroed(DescAt(i) + AT_STATE) THEN READY ELSE @]]
      /\ running' = IF Zeroed(RUNNING_PROC) THEN 0 ELSE running

(* lseek stores the offset in the entry's pos.  By the layout that is never *)
(* a cs, a ppid or a state.                                                 *)
LseekFd(pid, fd, offset) ==
  LET Stored(a) == a = EntryAt(pid, fd) + AT_POS
  IN  /\ procs' = [i \in Slots |->
             IF Stored(DescAt(i) + AT_PID) THEN [procs[i] EXCEPT !.pid = offset]
             ELSE procs[i]]
      /\ running' = IF Stored(RUNNING_PROC) THEN offset ELSE running

=============================================================================
