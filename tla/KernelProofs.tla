---------------------------- MODULE KernelProofs ----------------------------
(***************************************************************************)
(* Proofs about Kernel for every number of segments, process slots, saved  *)
(* stacks, files, words and nesting depth within Fits.  KInv of KernelInv  *)
(* is inductive; the safety properties of Kernel are its consequences.     *)
(***************************************************************************)
EXTENDS KernelInv, TLAPS

USE NumSegAssumption, NumProcessesAssumption, SwitchAssumption, KernelAssumption

(* mm.c: while the segments 0 .. n + 1 are taken and there is one more,    *)
(* get_free_seg takes segment n + 2.                                       *)
LEMMA FirstFreeSeg ==
  ASSUME NEW n \in Nat, n + 2 < NUM_SEG, used = 0 .. n + 1,
         NEW seg, GetFreeSeg(seg)
  PROVE  seg = n + 2 /\ used' = 0 .. n + 2
<1>1. n + 2 \in FreeSegs
  BY DEF FreeSegs, Segs
<1>2. seg \in FreeSegs /\ (\A s \in FreeSegs : seg <= s) /\ used' = used \cup {seg}
  BY <1>1 DEF GetFreeSeg
<1>3. seg \in Int /\ seg >= n + 2 /\ seg <= n + 2
  BY <1>1, <1>2 DEF FreeSegs, Segs
<1>4. QED
  BY <1>2, <1>3

(* sched.c: while the slots 1 .. n are taken and no other, register_proc   *)
(* fills slot n + 1.                                                       *)
LEMMA FirstFreeSlot ==
  ASSUME NEW n \in Nat, n < NUM_PROCESSES,
         \A i \in 1 .. n : procs[i].pid = i,
         \A i \in Slots : i > n => procs[i].pid = 0,
         NEW pid, NEW ppid, NEW seg, NEW name,
         RegisterProc(pid, ppid, seg, name)
  PROVE  /\ pid = n + 1
         /\ procs' = [procs EXCEPT ![n + 1] =
                        [pid |-> n + 1, ppid |-> ppid, cs |-> seg,
                         state |-> READY, name |-> name]]
<1>1. n + 1 \in FreeSlots
  BY DEF FreeSlots, Slots
<1>2. \A i \in FreeSlots : i \in Int /\ i >= n + 1
  BY DEF FreeSlots, Slots
<1>3. pid \in FreeSlots /\ (\A i \in FreeSlots : pid <= i)
  BY <1>1 DEF RegisterProc
<1>4. pid = n + 1
  BY <1>1, <1>2, <1>3
<1>5. QED
  BY <1>1, <1>4 DEF RegisterProc

(* The operations of ContextSwitch and ProcTable keep their state typed. *)
LEMMA SwitchTypes ==
  ASSUME kmem \in [1 .. KSTACK -> Frames], bak \in [ss : Segs, sp : Nat], suserp \in Nat,
         ustk \in [1 .. USER_STACKS - 1 -> [ss : Segs, sp : StackOffsets]],
         dsuser \in Segs, params \in Words, umem \in [Segs -> UserMemory],
         regs \in [ss : Segs, sp : Nat, ds : Segs], iflag \in {0, 1}
  PROVE  SwitchTypeOK
BY DEF SwitchTypeOK

(* Memory as a program finds it is typed. *)
LEMMA BlankTyped == BlankMemory \in UserMemory
BY DEF BlankMemory, UserMemory

(* The two segments init_seg reserves are segments. *)
LEMMA SegsTyped == LOW_SEG \in Segs /\ KERNEL_SEG \in Segs
BY DEF Segs, LOW_SEG, KERNEL_SEG

(* The data the boot loader leaves is typed. *)
LEMMA ImageTyped ==
  /\ ImageKmem \in [1 .. KSTACK -> Frames]
  /\ ImageUstk \in [1 .. USER_STACKS - 1 -> [ss : Segs, sp : StackOffsets]]
  /\ ImageBak \in [ss : Segs, sp : Nat]
  /\ KernelRegs \in [ss : Segs, sp : Nat, ds : Segs]
<1>1. ImageKmem \in [1 .. KSTACK -> Frames]
  BY SegsTyped DEF ImageKmem, Frames
<1>2. ImageUstk \in [1 .. USER_STACKS - 1 -> [ss : Segs, sp : StackOffsets]]
  BY SegsTyped DEF ImageUstk
<1>3. QED
  BY <1>1, <1>2, SegsTyped DEF ImageBak, KernelRegs

(* boot.asm *)
LEMMA LoadImageType ==
  ASSUME SwitchTypeOK, LoadImage PROVE SwitchTypeOK'
BY ImageTyped, SegsTyped DEF SwitchTypeOK, LoadImage

(* farcall, into a program *)
LEMMA FarCallType ==
  ASSUME SwitchTypeOK, NEW seg \in Segs, NEW pid \in Nat, FarCall(seg, pid)
  PROVE  SwitchTypeOK'
<1>1. kmem' \in [1 .. KSTACK -> Frames]
  <2>1. [kind |-> FARCALL, seg |-> seg, pid |-> pid, fl |-> iflag] \in Frames
    BY DEF SwitchTypeOK, Frames
  <2>2. QED
    BY <2>1 DEF SwitchTypeOK, FarCall
<1>2. bak' \in [ss : Segs, sp : Nat] /\ regs' \in [ss : Segs, sp : Nat, ds : Segs]
  BY DEF SwitchTypeOK, FarCall
<1>3. QED
  BY <1>1, <1>2 DEF SwitchTypeOK, FarCall

(* farcall, after the far return *)
LEMMA FarReturnType ==
  ASSUME SwitchTypeOK, bak.sp \in 1 .. KSTACK, FarReturn
  PROVE  SwitchTypeOK'
<1>1. umem' \in [Segs -> UserMemory]
  BY BlankTyped DEF SwitchTypeOK, FarReturn
<1>2. regs' \in [ss : Segs, sp : Nat, ds : Segs]
  BY SegsTyped DEF SwitchTypeOK, FarReturn
<1>3. iflag' \in {0, 1}
  BY DEF SwitchTypeOK, FarReturn, ReturnFrame, Frames
<1>4. QED
  BY <1>1, <1>2, <1>3 DEF SwitchTypeOK, FarReturn

(* int 80h *)
LEMMA IntrType ==
  ASSUME SwitchTypeOK, NEW sp \in StackOffsets, NEW w \in Words, NEW pid \in Nat,
         Intr(sp, w, pid)
  PROVE  SwitchTypeOK'
<1>1. kmem' \in [1 .. KSTACK -> Frames]
  <2>1. [kind |-> INTR, seg |-> regs.ds, pid |-> pid, fl |-> 0] \in Frames
    BY DEF SwitchTypeOK, Frames
  <2>2. QED
    BY <2>1 DEF SwitchTypeOK, Intr
<1>2. ustk' \in [1 .. USER_STACKS - 1 -> [ss : Segs, sp : StackOffsets]]
  <2>1. [ss |-> regs.ss, sp |-> sp] \in [ss : Segs, sp : StackOffsets]
    BY DEF SwitchTypeOK
  <2>2. QED
    BY <2>1 DEF SwitchTypeOK, Intr
<1>3. umem' \in [Segs -> UserMemory]
  <2>1. \A u \in UserMemory : /\ [u EXCEPT !.sysparam = w] \in UserMemory
                              /\ [u EXCEPT !.sp = sp] \in UserMemory
                              /\ [u EXCEPT !.fl = iflag] \in UserMemory
    BY DEF SwitchTypeOK, UserMemory
  <2>2. QED
    BY <2>1 DEF SwitchTypeOK, Intr
<1>4. regs' \in [ss : Segs, sp : Nat, ds : Segs]
  <2>1. regs' = [ss |-> bak.ss, sp |-> bak.sp + 1, ds |-> KERNEL_SEG]
    BY DEF Intr
  <2>2. bak.ss \in Segs /\ bak.sp + 1 \in Nat
    BY DEF SwitchTypeOK
  <2>3. QED
    BY <2>1, <2>2, SegsTyped
<1>5. suserp' \in Nat /\ dsuser' \in Segs
  <2>1. suserp' = suserp + 1 /\ dsuser' = regs.ds
    BY DEF Intr
  <2>2. QED
    BY <2>1 DEF SwitchTypeOK
<1>6. params' \in Words /\ iflag' \in {0, 1} /\ bak' \in [ss : Segs, sp : Nat]
  BY DEF SwitchTypeOK, Intr
<1>7. QED
  BY <1>1, <1>2, <1>3, <1>4, <1>5, <1>6 DEF SwitchTypeOK

(* sysexit *)
LEMMA SysExitType ==
  ASSUME SwitchTypeOK, regs.sp \in 1 .. KSTACK, suserp \in 1 .. USER_STACKS - 1, SysExit
  PROVE  SwitchTypeOK'
<1>1. EntryFrame.seg \in Segs
  BY DEF SwitchTypeOK, EntryFrame, Frames
<1>2. ustk[suserp] \in [ss : Segs, sp : StackOffsets]
  BY DEF SwitchTypeOK
<1>3. umem' \in [Segs -> UserMemory]
  BY <1>1 DEF SwitchTypeOK, SysExit, UserMemory
<1>4. /\ bak' \in [ss : Segs, sp : Nat] /\ suserp' \in Nat
      /\ regs' \in [ss : Segs, sp : Nat, ds : Segs]
  <2>1. /\ bak' = [ss |-> regs.ss, sp |-> regs.sp - 1] /\ suserp' = suserp - 1
        /\ regs' = [ss |-> ustk[suserp].ss, sp |-> ustk[suserp].sp, ds |-> EntryFrame.seg]
    BY DEF SysExit
  <2>2. regs.ss \in Segs /\ regs.sp - 1 \in Nat /\ suserp - 1 \in Nat
    BY DEF SwitchTypeOK
  <2>3. ustk[suserp].ss \in Segs /\ ustk[suserp].sp \in Nat
    BY <1>2, SwitchAssumption
  <2>4. QED
    BY <1>1, <2>1, <2>2, <2>3
<1>5. iflag' \in {0, 1}
  BY <1>2 DEF SwitchTypeOK, SysExit, UserMemory
<1>6. QED
  BY <1>3, <1>4, <1>5 DEF SwitchTypeOK, SysExit

(* dispatch, storing an answer *)
LEMMA StoreParamType ==
  ASSUME SwitchTypeOK, NEW w \in Words, StoreParam(w) PROVE SwitchTypeOK'
BY DEF SwitchTypeOK, StoreParam

(* load_to_memory *)
LEMMA LoadSegmentType ==
  ASSUME SwitchTypeOK, NEW seg \in Segs, LoadSegment(seg) PROVE SwitchTypeOK'
BY BlankTyped DEF SwitchTypeOK, LoadSegment

(* Segments up to the next program's exist. *)
LEMMA SegmentsFit ==
  ASSUME Fits, suserp \in Nat, suserp < MaxNest PROVE 0 .. suserp + 2 \subseteq Segs
BY NumSegAssumption, KernelAssumption DEF Fits, Segs

(* 0 is what unregister_proc and close write. *)
LEMMA ZeroTyped == 0 \in Pids /\ 0 \in Segs
BY DEF Pids, Segs

(* sched.c and the writes of open, close and lseek into the table *)
LEMMA ProcTypes ==
  ASSUME ProcTypeOK(Segs)
  PROVE  /\ InitProcesses => ProcTypeOK(Segs)'
         /\ \A pid \in Pids : SetRunningProc(pid) => ProcTypeOK(Segs)'
         /\ \A pid \in Slots : running' = running /\ UnregisterProc(pid) => ProcTypeOK(Segs)'
         /\ \A pid \in Pids : running' = running /\ OpenRoot(pid) => ProcTypeOK(Segs)'
         /\ \A pid, fd : CloseFd(pid, fd) => ProcTypeOK(Segs)'
         /\ \A pid, fd : \A offset \in Pids : LseekFd(pid, fd, offset) => ProcTypeOK(Segs)'
<1> DEFINE D == Descriptors(Segs)
<1>1. /\ \A d \in D : /\ [d EXCEPT !.pid = 0] \in D
                     /\ [d EXCEPT !.state = READY] \in D
                     /\ [d EXCEPT !.state = RUNNING] \in D
                     /\ [d EXCEPT !.cs = NO_ADDRESS] \in D
                     /\ \A n \in Pids : [d EXCEPT !.pid = n] \in D
  BY ZeroTyped DEF Descriptors
<1>2. procs \in [Slots -> D] /\ running \in Pids
  BY DEF ProcTypeOK
<1>3. Slots \subseteq Pids /\ 0 \in Pids
  BY DEF Slots, Pids
<1>4. \A d \in D : \A a, b, c, e \in BOOLEAN :
        [d EXCEPT !.pid = IF a THEN 0 ELSE @, !.cs = IF b THEN 0 ELSE @,
                  !.ppid = IF c THEN 0 ELSE @, !.state = IF e THEN READY ELSE @] \in D
  BY ZeroTyped DEF Descriptors
<1> HIDE DEF D
<1>5. \A P \in [Slots -> D], r \in Pids : procs' = P /\ running' = r => ProcTypeOK(Segs)'
  BY DEF ProcTypeOK, D
<1>6. InitProcesses => ProcTypeOK(Segs)'
  BY <1>1, <1>2, <1>3, <1>5 DEF InitProcesses
<1>7. \A pid \in Pids : SetRunningProc(pid) => ProcTypeOK(Segs)'
  BY <1>1, <1>2, <1>3, <1>5 DEF SetRunningProc
<1>8. \A pid \in Slots : running' = running /\ UnregisterProc(pid) => ProcTypeOK(Segs)'
  BY <1>1, <1>2, <1>5 DEF UnregisterProc
<1>9. \A pid \in Pids : running' = running /\ OpenRoot(pid) => ProcTypeOK(Segs)'
  BY <1>1, <1>2, <1>5 DEF OpenRoot
<1>10. ASSUME NEW pid, NEW fd, CloseFd(pid, fd) PROVE ProcTypeOK(Segs)'
  <2> DEFINE Z(a) == a - EntryAt(pid, fd) \in CLOSED
             New(i) == [procs[i] EXCEPT
                          !.pid = IF Z(DescAt(i) + AT_PID) THEN 0 ELSE @,
                          !.cs = IF Z(DescAt(i) + AT_CS) THEN 0 ELSE @,
                          !.ppid = IF Z(DescAt(i) + AT_PPID) THEN 0 ELSE @,
                          !.state = IF Z(DescAt(i) + AT_STATE) THEN READY ELSE @]
  <2>1. procs' = [i \in Slots |-> New(i)] /\ running' \in {0, running}
    BY <1>10 DEF CloseFd
  <2>2. \A i \in Slots : New(i) \in D
    <3>1. \A a : Z(a) \in BOOLEAN
      OBVIOUS
    <3> HIDE DEF Z
    <3>2. QED
      BY <1>2, <1>4, <3>1
  <2> HIDE DEF New
  <2>3. QED
    BY <1>2, <1>3, <1>5, <2>1, <2>2
<1>11. \A pid, fd : \A offset \in Pids : LseekFd(pid, fd, offset) => ProcTypeOK(Segs)'
  BY <1>1, <1>2, <1>5 DEF LseekFd
<1>12. QED
  BY <1>6, <1>7, <1>8, <1>9, <1>10, <1>11

(* Where the entries of the descriptors open answers lie: those inside     *)
(* files_table on no field of a process descriptor, 5 on pid and cs of the *)
(* next, -1 on ppid and state of the process's own.                        *)
LEMMA CloseAnswered ==
  ASSUME ProcTypeOK(Segs), NEW pid \in Slots, pid < NUM_PROCESSES, NEW fd \in Answers,
         CloseFd(pid, fd)
  PROVE  /\ running' = running
         /\ \A i \in Slots :
              /\ procs'[i].name = procs[i].name
              /\ procs'[i].pid \in {0, procs[i].pid}
              /\ i # pid + 1 => procs'[i].pid = procs[i].pid /\ procs'[i].cs = procs[i].cs
              /\ procs'[i].ppid \in {0, procs[i].ppid}
              /\ procs'[i].state \in {READY, procs[i].state}
<1> DEFINE Z(a) == a - EntryAt(pid, fd) \in CLOSED
<1>1. /\ procs' = [i \in Slots |->
           [procs[i] EXCEPT !.pid = IF Z(DescAt(i) + AT_PID) THEN 0 ELSE @,
                            !.cs = IF Z(DescAt(i) + AT_CS) THEN 0 ELSE @,
                            !.ppid = IF Z(DescAt(i) + AT_PPID) THEN 0 ELSE @,
                            !.state = IF Z(DescAt(i) + AT_STATE) THEN READY ELSE @]]
      /\ running' = IF Z(RUNNING_PROC) THEN 0 ELSE running
  BY DEF CloseFd
<1>2. pid \in Int /\ NUM_PROCESSES \in Int /\ \A i \in Slots : i \in Int
  BY DEF Slots
<1>3. ~Z(RUNNING_PROC)
  BY <1>2 DEF CLOSED, EntryAt, DescAt, RUNNING_PROC, DESC, FILES_TABLE, FILE, AT_PATHNAME,
     AT_POS, Answers
<1>4. \A i \in Slots : i # pid + 1 => ~Z(DescAt(i) + AT_PID) /\ ~Z(DescAt(i) + AT_CS)
  BY <1>2 DEF CLOSED, EntryAt, DescAt, DESC, FILES_TABLE, FILE, AT_PATHNAME, AT_POS,
     AT_PID, AT_CS, Answers
<1>5. \A i \in Slots : procs[i] \in Descriptors(Segs)
  BY DEF ProcTypeOK
<1> HIDE DEF Z
<1>6. QED
  BY <1>1, <1>3, <1>4, <1>5 DEF Descriptors

(* lseek of a descriptor open answers never leaves files_table for a pid.  *)
LEMMA LseekAnswered ==
  ASSUME ProcTypeOK(Segs), NEW pid \in Slots, NEW fd \in Answers, NEW offset,
         LseekFd(pid, fd, offset)
  PROVE  running' = running /\ \A i \in Slots : procs'[i] = procs[i]
<1>1. pid \in Int /\ NUM_PROCESSES \in Int /\ \A i \in Slots : i \in Int
  BY DEF Slots
<1>2. RUNNING_PROC # EntryAt(pid, fd) + AT_POS
  BY <1>1 DEF EntryAt, DescAt, RUNNING_PROC, DESC, FILES_TABLE, FILE, AT_POS, Answers
<1>3. \A i \in Slots : DescAt(i) + AT_PID # EntryAt(pid, fd) + AT_POS
  BY <1>1 DEF EntryAt, DescAt, DESC, FILES_TABLE, FILE, AT_POS, AT_PID, Answers
<1>4. QED
  BY <1>2, <1>3 DEF LseekFd

(* Power on. *)
LEMMA InitKInv == ASSUME Fits PROVE Init => KInv
<1> SUFFICES ASSUME Init PROVE KInv
  OBVIOUS
<1>1. TypeOK
  <2>1. MemTypeOK
    BY DEF Init, MemTypeOK
  <2>2. ProcTypeOK(Segs)
    BY ZeroTyped DEF Init, ProcTypeOK, Descriptors
  <2>3. SwitchTypeOK
    <3>1. umem \in [Segs -> UserMemory]
      BY BlankTyped DEF Init
    <3>2. QED
      BY <3>1, ImageTyped, SegsTyped DEF Init, SwitchTypeOK
  <2>4. pc \in PCs /\ run \in [seg : Segs, pid : Pids, ret : {0, 1}] /\ stray \in BOOLEAN
    <3>1. run \in [seg : Segs, pid : Pids, ret : {0, 1}]
      BY ZeroTyped DEF Init
    <3>2. QED
      BY <3>1 DEF Init, PCs
  <2>5. QED
    BY <2>1, <2>2, <2>3, <2>4 DEF TypeOK
<1>2. DepthInv /\ RegsInv /\ StartedInv /\ SuspendedInv /\ SegInv /\ RunInv /\ KProcs
  BY DEF Init, DepthInv, RegsInv, StartedInv, SuspendedInv, SegInv, RunInv, KProcs, FrameInv,
         ProcInv, StateInv, AnsweredInv, Up, Serving
<1>3. QED
  BY <1>1, <1>2 DEF KInv, KBase

-----------------------------------------------------------------------------
(* Every action preserves KInv. *)

(* startk, up to its loop *)
LEMMA BootStep == ASSUME Fits, KInv, Boot PROVE KInv'
<1>1. TypeOK'
  BY DEF KInv, KBase, TypeOK, Boot, MemTypeOK, ProcTypeOK, SwitchTypeOK, PCs, InitSegValue,
         Segs, LOW_SEG, KERNEL_SEG
<1>2. QED
  BY <1>1 DEF KInv, KBase, Boot, DepthInv, RegsInv, StartedInv, SuspendedInv, SegInv, RunInv,
     KProcs, FrameInv, ProcInv, StateInv, AnsweredInv, Up, Depth, Serving, FlagOf, KernelRegs,
     KERNEL_SEG, LOW_SEG, InitSegValue

(* startk, a turn of its loop *)
LEMMA StartkLoopStep == ASSUME Fits, KInv, StartkLoop PROVE KInv'
<1>1. TypeOK'
  BY ProcTypes DEF KInv, KBase, TypeOK, StartkLoop, MemTypeOK, SwitchTypeOK, switchVars, PCs
<1>2. ProcInv'
  BY DEF KInv, KBase, TypeOK, ProcTypeOK, Descriptors, StartkLoop, InitProcesses, DepthInv,
         ProcInv, Up, Depth, switchVars
<1>3. KBase'
  BY <1>1 DEF KInv, KBase, StartkLoop, switchVars, DepthInv, RegsInv, StartedInv,
     SuspendedInv, SegInv, RunInv, Up, Depth, Serving
<1>4. FrameInv' /\ StateInv' /\ AnsweredInv'
  BY DEF KInv, KBase, StartkLoop, switchVars, DepthInv, FrameInv, StateInv, AnsweredInv, Up,
     Depth
<1>5. QED
  BY <1>2, <1>3, <1>4 DEF KInv, KProcs

(* load, the file found *)
LEMMA LoadFoundStep == ASSUME Fits, KInv, LoadFound PROVE KInv'
<1> USE DEF KInv, KBase, LoadFound
<1> PICK seg \in Segs, pid \in Slots :
       /\ GetFreeSeg(seg)
       /\ LoadSegment(seg)
       /\ RegisterProc(pid, running, seg, ProgramName)
       /\ run' = [seg |-> seg, pid |-> pid, ret |-> 0]
  OBVIOUS
<1>0. /\ suserp \in Nat /\ suserp < MaxNest
      /\ used = 0 .. suserp + 1 /\ Depth = suserp
  BY DEF DepthInv, SegInv, Up, Depth
<1>1. seg = suserp + 2 /\ used' = 0 .. suserp + 2
  BY <1>0, FirstFreeSeg DEF Fits
<1>3. TypeOK'
  <2>1. MemTypeOK'
    BY <1>0, <1>1, SegmentsFit, Zenon DEF MemTypeOK
  <2>2. ProcTypeOK(Segs)'
    <3>1. [pid |-> pid, ppid |-> running, cs |-> seg,
           state |-> READY, name |-> ProgramName] \in Descriptors(Segs)
      BY DEF TypeOK, ProcTypeOK, Descriptors, Slots, Pids
    <3>2. QED
      BY <3>1 DEF TypeOK, ProcTypeOK, RegisterProc
  <2>3. SwitchTypeOK'
    BY LoadSegmentType DEF TypeOK
  <2>4. run' \in [seg : Segs, pid : Pids, ret : {0, 1}]
    BY DEF Slots, Pids
  <2>5. QED
    BY <2>1, <2>2, <2>3, <2>4 DEF TypeOK, PCs
<1>4. DepthInv' /\ SegInv' /\ RunInv'
  BY <1>0, <1>1 DEF DepthInv, SegInv, RunInv, LoadSegment, Up, Depth, Serving
<1>5. umem' = [umem EXCEPT ![suserp + 2] = BlankMemory]
  BY <1>1 DEF LoadSegment
<1>6. RegsInv'
  BY <1>0, <1>1, <1>5 DEF RegsInv, LoadSegment, Up, FlagOf, BlankMemory, TypeOK, SwitchTypeOK
<1>7. StartedInv'
  BY <1>0 DEF StartedInv, LoadSegment, Up, Depth
<1>8. SuspendedInv'
  <2>1. \A i \in 1 .. suserp : umem'[i + 1] = umem[i + 1]
    BY <1>0, <1>5 DEF TypeOK, SwitchTypeOK
  <2>2. QED
    BY <1>0, <2>1 DEF SuspendedInv, LoadSegment, Up
<1>9. ASSUME ~stray' PROVE KProcs'
  <2>0. KProcs /\ running = suserp
    BY <1>0, <1>9 DEF KProcs, ProcInv, Up
  <2>1. /\ pid = suserp + 1
        /\ procs' = [procs EXCEPT ![suserp + 1] =
                       [pid |-> suserp + 1, ppid |-> running, cs |-> seg,
                        state |-> READY, name |-> ProgramName]]
    BY <1>0, <2>0, FirstFreeSlot DEF Fits, KProcs, ProcInv, Up
  <2>2. \A i \in Slots : i # suserp + 1 => procs'[i] = procs[i]
    BY <2>1 DEF TypeOK, ProcTypeOK
  <2>3. procs'[suserp + 1] = [pid |-> suserp + 1, ppid |-> running, cs |-> seg,
                              state |-> READY, name |-> ProgramName]
    BY <2>1 DEF TypeOK, ProcTypeOK
  <2>4. \A i \in 1 .. suserp : i \in Slots /\ i # suserp + 1
    BY <1>0 DEF Slots, Fits
  <2>5. ProcInv'
    BY <1>0, <1>1, <2>0, <2>1, <2>2, <2>3, <2>4
       DEF KProcs, ProcInv, LoadSegment, Up, Depth, Slots
  <2>6. StateInv'
    BY <1>0, <2>0, <2>2, <2>4 DEF KProcs, StateInv, LoadSegment, Up, Depth
  <2>7. FrameInv' /\ AnsweredInv'
    BY <1>0, <2>0 DEF KProcs, FrameInv, AnsweredInv, LoadSegment, Up, Depth
  <2>8. QED
    BY <2>5, <2>6, <2>7 DEF KProcs
<1>10. QED
  BY <1>3, <1>4, <1>6, <1>7, <1>8, <1>9

(* load, the file not found or not read *)
LEMMA LoadNothingStep == ASSUME Fits, KInv, pc = "load", LoadNothing PROVE KInv'
<1> USE DEF KInv, KBase, LoadNothing
<1> PICK seg \in Segs : GetFreeSeg(seg) /\ run' = [run EXCEPT !.seg = seg, !.ret = 1]
  OBVIOUS
<1>0. /\ suserp \in Nat /\ suserp < MaxNest /\ used = 0 .. suserp + 1 /\ Depth = suserp
  BY DEF DepthInv, SegInv, Up, Depth
<1>1. seg = suserp + 2 /\ used' = 0 .. suserp + 2
  BY <1>0, FirstFreeSeg DEF Fits
<1>2. run' \in [seg : Segs, pid : Pids, ret : {0, 1}] /\ run'.seg = seg
  BY DEF TypeOK
<1>3. TypeOK'
  <2>1. MemTypeOK'
    BY <1>0, <1>1, SegmentsFit, Zenon DEF MemTypeOK
  <2>2. QED
    BY <2>1, <1>2 DEF TypeOK, ProcTypeOK, SwitchTypeOK, switchVars, PCs
<1>4. DepthInv' /\ SegInv' /\ RunInv'
  BY <1>0, <1>1, <1>2 DEF DepthInv, SegInv, RunInv, switchVars, Up, Depth, Serving
<1>5. RegsInv' /\ StartedInv' /\ SuspendedInv'
  BY <1>0 DEF RegsInv, StartedInv, SuspendedInv, switchVars, Up, Depth
<1>6. ~stray' => KProcs'
  BY <1>0 DEF KProcs, FrameInv, ProcInv, StateInv, AnsweredInv, switchVars, Up, Depth
<1>7. QED
  BY <1>3, <1>4, <1>5, <1>6

(* run_program, starting the program *)
LEMMA ExecStep == ASSUME Fits, KInv, Exec PROVE KInv'
<1> USE DEF KInv, KBase, Exec
<1>0. /\ suserp \in Nat /\ suserp < MaxNest /\ run.seg = suserp + 2
      /\ run.seg \in Segs /\ run.pid \in Slots /\ run.pid \in Pids
      /\ regs = [ss |-> KERNEL_SEG, sp |-> 2 * suserp, ds |-> KERNEL_SEG]
      /\ iflag = FlagOf(suserp + 1)
  BY DEF DepthInv, SegInv, RunInv, RegsInv, Up, Depth, TypeOK, Fits, Segs, Slots
<1>1. TypeOK'
  <2>1. ProcTypeOK(Segs)'
    BY <1>0, ProcTypes DEF TypeOK
  <2>2. SwitchTypeOK'
    BY <1>0, FarCallType DEF TypeOK, Slots
  <2>3. QED
    BY <2>1, <2>2 DEF TypeOK, MemTypeOK, PCs
<1>2. DepthInv' /\ SegInv' /\ RunInv'
  BY <1>0 DEF DepthInv, SegInv, RunInv, FarCall, Up, Depth, Serving
<1>3. RegsInv'
  BY <1>0 DEF RegsInv, FarCall, Up
<1>4. /\ kmem'[2 * (suserp + 1) - 1] = [kind |-> FARCALL, seg |-> suserp + 2,
                                       pid |-> run.pid, fl |-> FlagOf(suserp + 1)]
      /\ \A j \in 1 .. 2 * suserp : kmem'[j] = kmem[j]
  <2>1. 2 * suserp + 1 \in 1 .. KSTACK /\ 2 * (suserp + 1) - 1 = 2 * suserp + 1
    BY <1>0
  <2>2. kmem' = [kmem EXCEPT ![2 * suserp + 1] =
          [kind |-> FARCALL, seg |-> suserp + 2, pid |-> run.pid, fl |-> FlagOf(suserp + 1)]]
    BY <1>0 DEF FarCall
  <2>3. QED
    BY <1>0, <2>1, <2>2 DEF TypeOK, SwitchTypeOK
<1>5. suserp' = suserp /\ Depth' = suserp + 1 /\ Depth = suserp
  BY DEF FarCall, Depth
<1>6. \A i \in 1 .. suserp : 2 * i - 1 \in 1 .. 2 * suserp /\ 2 * i \in 1 .. 2 * suserp
  BY <1>0
<1>7. StartedInv'
  <2>1. SUFFICES ASSUME NEW i \in 1 .. suserp + 1
                 PROVE  /\ kmem'[2 * i - 1].kind = FARCALL /\ kmem'[2 * i - 1].seg = i + 1
                        /\ kmem'[2 * i - 1].pid \in Slots /\ kmem'[2 * i - 1].fl = FlagOf(i)
    BY <1>5 DEF StartedInv
  <2>2. CASE i \in 1 .. suserp
    BY <1>4, <1>5, <1>6, <2>2 DEF StartedInv, Up
  <2>3. CASE i = suserp + 1
    BY <1>0, <1>4, <2>3
  <2>4. QED
    BY <1>0, <2>2, <2>3
<1>8. SuspendedInv'
  BY <1>0, <1>4, <1>6 DEF SuspendedInv, FarCall, Up
<1>9. ASSUME ~stray' PROVE KProcs'
  <2>0. KProcs /\ running = suserp /\ run.pid = suserp + 1 /\ running' = suserp + 1
    BY <1>5, <1>9 DEF KProcs, ProcInv, Up, SetRunningProc
  <2>1. \A i \in 1 .. suserp + 1 : i \in Slots
    BY <1>0 DEF Slots, Fits
  <2>2. ProcInv'
    <3>1. \A i \in Slots : /\ procs'[i].pid = procs[i].pid /\ procs'[i].cs = procs[i].cs
                           /\ procs'[i].ppid = procs[i].ppid
      BY <1>0 DEF SetRunningProc, TypeOK, ProcTypeOK, Descriptors
    <3>2. QED
      BY <1>0, <1>5, <2>0, <2>1, <3>1 DEF KProcs, ProcInv, Up, Slots
  <2>3. StateInv'
    <3>1. \A i \in Slots : procs'[i].state = RUNNING =>
             i = suserp + 1 \/ (i # suserp /\ procs[i].state = RUNNING)
      BY <1>0, <2>0 DEF SetRunningProc, TypeOK, ProcTypeOK, Descriptors, READY, RUNNING
    <3>2. QED
      BY <1>0, <1>5, <2>0, <2>1, <3>1 DEF KProcs, StateInv, Up
  <2>4. FrameInv'
    <3>1. \A i \in 1 .. suserp : kmem'[2 * i].pid = i /\ kmem'[2 * i - 1].pid = i
      BY <1>4, <1>5, <1>6, <2>0 DEF KProcs, FrameInv, Up
    <3>2. kmem'[2 * (suserp + 1) - 1].pid = suserp + 1
      BY <1>4, <2>0
    <3>3. QED
      BY <1>0, <1>5, <3>1, <3>2 DEF FrameInv
  <2>5. QED
    BY <2>2, <2>3, <2>4 DEF KProcs, AnsweredInv
<1>10. QED
  BY <1>1, <1>2, <1>3, <1>7, <1>8, <1>9

(* run_program, the program returns *)
LEMMA ReturnStep == ASSUME Fits, KInv, Return PROVE KInv'
<1> USE DEF KInv, KBase, Return
<1>0. /\ suserp \in Nat /\ suserp < MaxNest /\ Depth = suserp + 1
      /\ bak = [ss |-> KERNEL_SEG, sp |-> 2 * suserp + 1]
      /\ suserp' = suserp /\ Depth' = suserp
  BY DEF DepthInv, RegsInv, Depth, FarReturn
<1>1. /\ ReturnFrame.seg = suserp + 2 /\ ReturnFrame.pid \in Slots
      /\ ReturnFrame.fl = FlagOf(suserp + 1) /\ ReturnFrame = kmem[2 * (suserp + 1) - 1]
  <2>1. 2 * (suserp + 1) - 1 = 2 * suserp + 1 /\ suserp + 1 \in 1 .. Depth
    BY <1>0
  <2>2. QED
    BY <1>0, <2>1 DEF StartedInv, Up, ReturnFrame
<1>2. suserp + 2 \in Segs
  BY <1>0 DEF Segs, Fits
<1>3. /\ umem' = [umem EXCEPT ![suserp + 2] = BlankMemory]
      /\ procs' = [procs EXCEPT ![ReturnFrame.pid].pid = 0]
      /\ run' = [seg |-> suserp + 2, pid |-> ReturnFrame.pid, ret |-> 0]
      /\ regs' = [ss |-> KERNEL_SEG, sp |-> 2 * suserp, ds |-> KERNEL_SEG]
      /\ iflag' = FlagOf(suserp + 1)
  BY <1>0, <1>1 DEF FarReturn, UnregisterProc
<1>4. TypeOK'
  <2>1. ProcTypeOK(Segs)'
    BY <1>1, ProcTypes DEF TypeOK
  <2>2. SwitchTypeOK'
    BY <1>0, FarReturnType DEF TypeOK
  <2>3. run' \in [seg : Segs, pid : Pids, ret : {0, 1}]
    BY <1>1, <1>2, <1>3 DEF Slots, Pids
  <2>4. QED
    BY <2>1, <2>2, <2>3 DEF TypeOK, MemTypeOK, PCs
<1>5. DepthInv' /\ SegInv' /\ RunInv'
  BY <1>0, <1>3 DEF DepthInv, SegInv, RunInv, Up, Serving
<1>6. RegsInv'
  BY <1>0, <1>3 DEF RegsInv, Up
<1>7. StartedInv'
  <2>1. kmem' = kmem /\ Up /\ \A i \in 1 .. suserp : i \in 1 .. Depth
    BY <1>0 DEF FarReturn, Up
  <2>2. QED
    BY <1>0, <2>1 DEF StartedInv
<1>8. SuspendedInv'
  <2>1. \A i \in 1 .. suserp : umem'[i + 1] = umem[i + 1]
    <3>1. \A i \in 1 .. suserp : i + 1 \in Segs /\ i + 1 # suserp + 2
      BY <1>0, SegmentsFit
    <3>2. umem \in [Segs -> UserMemory]
      BY DEF TypeOK, SwitchTypeOK
    <3>3. QED
      BY <1>3, <3>1, <3>2, Zenon
  <2>2. QED
    BY <1>0, <2>1 DEF SuspendedInv, FarReturn, Up
<1>9. ASSUME ~stray' PROVE KProcs'
  <2>0. KProcs /\ ReturnFrame.pid = suserp + 1 /\ suserp + 1 \in Slots
    <3>1. KProcs /\ suserp + 1 \in 1 .. Depth /\ Up
      BY <1>0, <1>9 DEF Up
    <3>2. QED
      BY <1>0, <1>1, <3>1 DEF KProcs, FrameInv
  <2>1. \A i \in Slots : i # suserp + 1 => procs'[i] = procs[i]
    BY <1>3, <2>0 DEF TypeOK, ProcTypeOK
  <2>2. \A i \in 1 .. suserp : i \in Slots /\ i # suserp + 1 /\ i \in 1 .. suserp + 1
    BY <1>0 DEF Slots, Fits
  <2>3. procs'[suserp + 1].pid = 0
    BY <1>3, <2>0 DEF TypeOK, ProcTypeOK, Descriptors
  <2>4. ProcInv'
    BY <1>0, <2>0, <2>1, <2>2, <2>3 DEF KProcs, ProcInv, Up, Slots
  <2>5. StateInv'
    BY <1>0, <2>0, <2>1, <2>2 DEF KProcs, StateInv, Up
  <2>6. FrameInv' /\ AnsweredInv'
    BY <1>0, <2>0, <2>2 DEF KProcs, FrameInv, AnsweredInv, FarReturn, Up
  <2>7. QED
    BY <2>4, <2>5, <2>6 DEF KProcs
<1>10. QED
  BY <1>4, <1>5, <1>6, <1>7, <1>8, <1>9

(* run_program, release_seg *)
LEMMA ReleaseStep == ASSUME Fits, KInv, Release PROVE KInv'
<1> USE DEF KInv, KBase, Release
<1>0. /\ suserp \in Nat /\ suserp < MaxNest /\ Depth = suserp
      /\ regs = [ss |-> KERNEL_SEG, sp |-> 2 * suserp, ds |-> KERNEL_SEG]
      /\ run.seg = suserp + 2 /\ used = 0 .. suserp + 2
      /\ suserp' = suserp
  BY DEF DepthInv, RegsInv, SegInv, Up, Depth, switchVars
<1>1. pc' = IF suserp = 0 THEN "startk" ELSE "reply"
  BY <1>0
<1>2. Depth' = suserp
  BY <1>0, <1>1 DEF Depth
<1>3. used' = 0 .. suserp + 1
  BY <1>0 DEF ReleaseSeg
<1>4. TypeOK'
  BY <1>1 DEF TypeOK, MemTypeOK, ReleaseSeg, ProcTypeOK, SwitchTypeOK, switchVars, PCs
<1>5. DepthInv' /\ SegInv' /\ RunInv'
  BY <1>0, <1>1, <1>2, <1>3 DEF DepthInv, SegInv, RunInv, Up, Serving
<1>6. RegsInv' /\ StartedInv' /\ SuspendedInv'
  BY <1>0, <1>1, <1>2 DEF RegsInv, StartedInv, SuspendedInv, Up, switchVars
<1>7. ~stray' => KProcs'
  BY <1>0, <1>1, <1>2 DEF KProcs, FrameInv, ProcInv, StateInv, AnsweredInv, Up, switchVars
<1>8. QED
  BY <1>4, <1>5, <1>6, <1>7

(* What KInv says of the program that is being served. *)
LEMMA Served ==
  ASSUME Fits, KInv, pc \in Serving
  PROVE  /\ suserp \in 1 .. MaxNest /\ suserp \in 1 .. USER_STACKS - 1 /\ Depth = suserp
         /\ regs = [ss |-> KERNEL_SEG, sp |-> 2 * suserp, ds |-> KERNEL_SEG]
         /\ EntryFrame = kmem[2 * suserp] /\ EntryFrame.seg = suserp + 1
         /\ EntryFrame.pid \in Pids /\ (~stray => EntryFrame.pid = suserp)
         /\ ustk[suserp] = [ss |-> suserp + 1, sp |-> umem[suserp + 1].sp]
         /\ umem[suserp + 1].fl = FlagOf(suserp)
         /\ suserp \in Slots /\ suserp \in Pids /\ suserp + 1 \in Segs /\ Up
         /\ iflag = 0
<1>1. Up /\ pc # "user" /\ pc \notin {"exec", "release"}
  BY DEF Up, Serving
<1>2. suserp \in 1 .. MaxNest /\ suserp \in 1 .. USER_STACKS - 1 /\ Depth = suserp
  BY <1>1 DEF KInv, KBase, DepthInv, Depth
<1>3. regs = [ss |-> KERNEL_SEG, sp |-> 2 * suserp, ds |-> KERNEL_SEG] /\ iflag = 0
  BY <1>1, <1>2 DEF KInv, KBase, RegsInv, FlagOf
<1>4. /\ kmem[2 * suserp].seg = suserp + 1 /\ kmem[2 * suserp].pid \in Pids
      /\ ustk[suserp] = [ss |-> suserp + 1, sp |-> umem[suserp + 1].sp]
      /\ umem[suserp + 1].fl = FlagOf(suserp)
  BY <1>1, <1>2 DEF KInv, KBase, SuspendedInv
<1>5. suserp \in Slots /\ suserp \in Pids /\ suserp + 1 \in Segs
  BY <1>2 DEF Slots, Pids, Segs, Fits
<1>6. ~stray => kmem[2 * suserp].pid = suserp
  BY <1>1, <1>2 DEF KInv, KProcs, FrameInv
<1>7. QED
  BY <1>1, <1>2, <1>3, <1>4, <1>5, <1>6 DEF EntryFrame

(* A service that leaves everything but the parameter buffer and the       *)
(* process table alone, and of that, unless a descriptor was stray, all    *)
(* but dead slots and fields nobody relies on.                             *)
LEMMA ServiceStep ==
  ASSUME Fits, KInv, pc \in Serving \ {"reply", "sysexit"}, pc' = "sysexit",
         NEW w \in Words, StoreParam(w), ProcTypeOK(Segs)', UNCHANGED <<used, run, stray>>,
         ~stray =>
           /\ running' = running
           /\ \A i \in 1 .. suserp :
                /\ procs'[i].pid = procs[i].pid /\ procs'[i].cs = procs[i].cs
                /\ procs'[i].ppid \in {0, procs[i].ppid}
                /\ procs'[i].state \in {READY, procs[i].state}
           /\ \A i \in Slots : i > suserp => procs'[i].pid \in {0, procs[i].pid}
  PROVE  KInv'
<1>0. Up /\ suserp \in 1 .. MaxNest /\ Depth = suserp /\ suserp' = suserp /\ Depth' = suserp
  BY Served DEF StoreParam, Depth
<1>1. TypeOK'
  BY StoreParamType DEF KInv, KBase, TypeOK, MemTypeOK, PCs
<1>2. pc \notin {"exec", "release", "startk", "user", "boot", "reply"}
  BY DEF Serving
<1>3. DepthInv' /\ SegInv' /\ RunInv'
  BY <1>0, <1>2 DEF KInv, KBase, DepthInv, SegInv, RunInv, Up, Serving
<1>4. RegsInv' /\ StartedInv' /\ SuspendedInv'
  BY <1>0, <1>2 DEF KInv, KBase, RegsInv, StartedInv, SuspendedInv, StoreParam, Up
<1>5. ASSUME ~stray' PROVE KProcs'
  <2>0. ~stray /\ KProcs
    BY <1>5 DEF KInv
  <2>1. ProcInv'
    BY <1>0, <1>2, <2>0 DEF KProcs, ProcInv, Up
  <2>2. StateInv'
    BY <1>0, <2>0 DEF KProcs, StateInv, Up, READY, RUNNING
  <2>3. FrameInv' /\ AnsweredInv'
    BY <1>0, <2>0 DEF KProcs, FrameInv, AnsweredInv, StoreParam, Up
  <2>4. QED
    BY <2>1, <2>2, <2>3 DEF KProcs
<1>6. QED
  BY <1>1, <1>3, <1>4, <1>5 DEF KInv, KBase

(* dispatch, case 10 *)
LEMMA DispatchOpenStep == ASSUME Fits, KInv, DispatchOpen PROVE KInv'
<1>1. pc \in Serving \ {"reply", "sysexit"}
  BY DEF DispatchOpen, Serving
<1>2. /\ EntryFrame.pid \in Pids /\ suserp \in Nat /\ (~stray => EntryFrame.pid = suserp)
      /\ \A i \in 1 .. suserp : i \in Slots /\ i # suserp + 1
  BY <1>1, Served DEF Slots
<1>3. PICK w \in Words : StoreParam(w)
  BY DEF DispatchOpen, Answers
<1>4. pc' = "sysexit" /\ UNCHANGED <<used, running, run, stray>>
  BY DEF DispatchOpen
<1>5. ProcTypeOK(Segs)'
  BY <1>2, <1>4, ProcTypes DEF DispatchOpen, KInv, KBase, TypeOK, ProcTypeOK
<1>6. ~stray => /\ \A i \in Slots : i # suserp + 1 => procs'[i] = procs[i]
                /\ \A i \in Slots : procs'[i].pid = procs[i].pid
  BY <1>2 DEF DispatchOpen, OpenRoot, KInv, KBase, TypeOK, ProcTypeOK, Descriptors
<1>7. QED
  BY <1>1, <1>2, <1>3, <1>4, <1>5, <1>6, ServiceStep

(* dispatch, case 11 *)
LEMMA DispatchCloseStep == ASSUME Fits, KInv, DispatchClose PROVE KInv'
<1>1. pc \in Serving \ {"reply", "sysexit"} /\ pc = "close"
  BY DEF DispatchClose, Serving
<1>2. /\ ~stray => EntryFrame.pid = suserp
      /\ suserp \in Slots /\ suserp < NUM_PROCESSES /\ suserp \in Nat
      /\ \A i \in 1 .. suserp : i \in Slots /\ i # suserp + 1
  BY <1>1, Served DEF Slots, Fits
<1>3. params \in Words /\ StoreParam(params)
  BY DEF DispatchClose, StoreParam, switchVars, KInv, KBase, TypeOK, SwitchTypeOK
<1>4. ProcTypeOK(Segs) /\ ProcTypeOK(Segs)'
  BY ProcTypes DEF DispatchClose, KInv, KBase, TypeOK
<1>5. CloseFd(EntryFrame.pid, params) /\ pc' = "sysexit" /\ UNCHANGED <<used, run, stray>>
  BY DEF DispatchClose
<1>6. ASSUME ~stray
      PROVE  /\ running' = running
             /\ \A i \in 1 .. suserp :
                  /\ procs'[i].pid = procs[i].pid /\ procs'[i].cs = procs[i].cs
                  /\ procs'[i].ppid \in {0, procs[i].ppid}
                  /\ procs'[i].state \in {READY, procs[i].state}
             /\ \A i \in Slots : i > suserp => procs'[i].pid \in {0, procs[i].pid}
  <2>1. params \in Answers /\ CloseFd(suserp, params)
    BY <1>1, <1>2, <1>5, <1>6 DEF KInv, KProcs, AnsweredInv
  <2>2. QED
    BY <1>2, <1>4, <2>1, CloseAnswered
<1>7. QED
  BY <1>1, <1>3, <1>4, <1>5, <1>6, ServiceStep

(* dispatch, case 12 *)
LEMMA DispatchLseekStep == ASSUME Fits, KInv, DispatchLseek PROVE KInv'
<1>1. pc \in Serving \ {"reply", "sysexit"} /\ pc = "lseek"
  BY DEF DispatchLseek, Serving
<1>2. /\ ~stray => EntryFrame.pid = suserp
      /\ suserp \in Slots /\ \A i \in 1 .. suserp : i \in Slots
  BY <1>1, Served DEF Slots
<1>3. params \in Words /\ StoreParam(params)
  BY DEF DispatchLseek, StoreParam, switchVars, KInv, KBase, TypeOK, SwitchTypeOK
<1>4. PICK offset \in Offsets : LseekFd(EntryFrame.pid, params, offset)
  BY DEF DispatchLseek
<1>5. pc' = "sysexit" /\ UNCHANGED <<used, run, stray>>
  BY DEF DispatchLseek
<1>6. ProcTypeOK(Segs) /\ ProcTypeOK(Segs)'
  BY <1>4, ProcTypes DEF KInv, KBase, TypeOK
<1>7. ASSUME ~stray PROVE running' = running /\ \A i \in Slots : procs'[i] = procs[i]
  <2>1. params \in Answers /\ LseekFd(suserp, params, offset)
    BY <1>1, <1>2, <1>4, <1>7 DEF KInv, KProcs, AnsweredInv
  <2>2. QED
    BY <1>2, <1>6, <2>1, LseekAnswered
<1>8. QED
  BY <1>1, <1>2, <1>3, <1>5, <1>6, <1>7, ServiceStep

(* The services that at most store a word. *)
LEMMA StoreStep ==
  ASSUME Fits, KInv, KeyArrives \/ DispatchReadDisk \/ DispatchOther PROVE KInv'
<1>1. /\ pc \in Serving \ {"reply", "sysexit"} /\ pc' = "sysexit"
      /\ UNCHANGED <<used, procs, running, run, stray>>
  BY DEF KeyArrives, DispatchReadDisk, DispatchOther, Serving
<1>2. \E w \in Words : StoreParam(w)
  BY DEF KeyArrives, DispatchReadDisk, DispatchOther, StoreParam, switchVars, KInv, KBase,
         TypeOK, SwitchTypeOK
<1>3. ProcTypeOK(Segs)'
  BY <1>1 DEF KInv, KBase, TypeOK, ProcTypeOK
<1>4. QED
  BY <1>1, <1>2, <1>3, ServiceStep

(* The machine stops. *)
LEMMA HaltStep ==
  ASSUME Fits, KInv, DispatchHalt \/ DiskHalt PROVE KInv'
<1>1. pc' = "halted" /\ UNCHANGED <<used, procs, running, switchVars, run, stray>>
  <2>1. CASE DispatchHalt
    <3>1. pc \in Serving
      BY <2>1 DEF DispatchHalt, Serving
    <3>2. QED
      BY <2>1, <3>1, Served DEF DispatchHalt
  <2>2. QED
    BY <2>1 DEF DiskHalt
<1>2. TypeOK'
  BY <1>1 DEF KInv, KBase, TypeOK, MemTypeOK, ProcTypeOK, SwitchTypeOK, switchVars, PCs
<1>3. DepthInv'
  BY <1>1 DEF KInv, KBase, DepthInv, switchVars, Serving
<1>4. ~Up' /\ pc' \notin {"boot", "exec", "user", "close", "lseek"}
  BY <1>1 DEF Up
<1>5. QED
  BY <1>2, <1>3, <1>4 DEF KInv, KBase, RegsInv, StartedInv, SuspendedInv, SegInv, RunInv,
     KProcs, FrameInv, ProcInv, StateInv, AnsweredInv

(* dispatch, case 2 *)
LEMMA RebootStep == ASSUME Fits, KInv, DispatchReboot PROVE KInv'
<1>1. TypeOK'
  BY LoadImageType DEF DispatchReboot, KInv, KBase, TypeOK, MemTypeOK, ProcTypeOK, PCs
<1>2. DepthInv' /\ RegsInv' /\ RunInv' /\ AnsweredInv'
  BY DEF DispatchReboot, LoadImage, DepthInv, RegsInv, RunInv, AnsweredInv, Serving, Up
<1>3. ~Up'
  BY DEF DispatchReboot, Up
<1>4. QED
  BY <1>1, <1>2, <1>3 DEF KInv, KBase, StartedInv, SuspendedInv, SegInv, KProcs, FrameInv,
     ProcInv, StateInv

(* dispatch, case 7 *)
LEMMA ReplyStep == ASSUME Fits, KInv, Reply PROVE KInv'
<1>1. pc \in Serving /\ pc = "reply" /\ pc' = "sysexit" /\ stray' = stray
  BY DEF Reply, Serving
<1>2. /\ EntryFrame.pid \in Pids /\ (~stray => EntryFrame.pid = suserp)
      /\ suserp \in Slots /\ suserp \in Nat
      /\ suserp \in 1 .. MaxNest /\ Depth = suserp /\ Up
      /\ \A i \in 1 .. suserp : i \in Slots
  BY <1>1, Served DEF Slots
<1>3. SetRunningProc(EntryFrame.pid) /\ StoreParam(run.ret) /\ UNCHANGED <<used, run>>
  BY DEF Reply
<1>4. suserp' = suserp /\ Depth' = suserp /\ running' = EntryFrame.pid
  BY <1>1, <1>3 DEF StoreParam, Depth, SetRunningProc
<1>5. TypeOK'
  <2>1. run.ret \in Words
    BY DEF KInv, KBase, TypeOK, Answers
  <2>2. SwitchTypeOK'
    BY <2>1, <1>3, StoreParamType DEF KInv, KBase, TypeOK
  <2>3. ProcTypeOK(Segs)'
    BY <1>2, <1>3, ProcTypes DEF KInv, KBase, TypeOK
  <2>4. QED
    BY <1>1, <1>3, <2>2, <2>3 DEF KInv, KBase, TypeOK, MemTypeOK, PCs
<1>6. DepthInv' /\ SegInv' /\ RunInv'
  BY <1>1, <1>2, <1>3, <1>4 DEF KInv, KBase, DepthInv, SegInv, RunInv, Up, Serving
<1>7. RegsInv' /\ StartedInv' /\ SuspendedInv'
  BY <1>1, <1>2, <1>3, <1>4 DEF KInv, KBase, RegsInv, StartedInv, SuspendedInv, StoreParam, Up
<1>8. ASSUME ~stray' PROVE KProcs'
  <2>0. KProcs /\ SetRunningProc(suserp) /\ running' = suserp
    BY <1>1, <1>2, <1>3, <1>4, <1>8 DEF KInv
  <2>1. \A i \in Slots : /\ procs'[i].pid = procs[i].pid /\ procs'[i].cs = procs[i].cs
                         /\ procs'[i].ppid = procs[i].ppid
    BY <2>0 DEF SetRunningProc, KInv, KBase, TypeOK, ProcTypeOK, Descriptors
  <2>2. ProcInv'
    BY <1>1, <1>2, <1>4, <2>0, <2>1 DEF KProcs, ProcInv, Up
  <2>3. \A i \in Slots : procs'[i].state = RUNNING =>
           i = suserp \/ (i # running /\ procs[i].state = RUNNING)
    BY <2>0 DEF SetRunningProc, KInv, KBase, TypeOK, ProcTypeOK, Descriptors, READY, RUNNING
  <2>4. StateInv'
    BY <1>2, <1>4, <2>0, <2>3 DEF KProcs, StateInv, Up
  <2>5. FrameInv' /\ AnsweredInv'
    BY <1>1, <1>2, <1>3, <1>4, <2>0 DEF KProcs, FrameInv, AnsweredInv, StoreParam, Up
  <2>6. QED
    BY <2>2, <2>4, <2>5 DEF KProcs
<1>9. QED
  BY <1>5, <1>6, <1>7, <1>8 DEF KInv, KBase

(* sysexit *)
LEMMA LeaveKernelStep == ASSUME Fits, KInv, LeaveKernel PROVE KInv'
<1>1. pc \in Serving /\ pc = "sysexit" /\ pc' = "user" /\ SysExit
      /\ UNCHANGED <<used, procs, running, run, stray>>
  BY DEF LeaveKernel, Serving
<1>2. /\ suserp \in 1 .. MaxNest /\ suserp \in 1 .. USER_STACKS - 1 /\ Depth = suserp /\ Up
      /\ regs = [ss |-> KERNEL_SEG, sp |-> 2 * suserp, ds |-> KERNEL_SEG]
      /\ EntryFrame.seg = suserp + 1
      /\ ustk[suserp] = [ss |-> suserp + 1, sp |-> umem[suserp + 1].sp]
      /\ umem[suserp + 1].fl = FlagOf(suserp) /\ suserp + 1 \in Segs
  BY <1>1, Served
<1>3. /\ umem' = [umem EXCEPT ![suserp + 1].sysparam = params]
      /\ bak' = [ss |-> KERNEL_SEG, sp |-> 2 * suserp - 1]
      /\ regs' = [ss |-> suserp + 1, sp |-> umem[suserp + 1].sp, ds |-> suserp + 1]
      /\ suserp' = suserp - 1 /\ iflag' = FlagOf(suserp)
      /\ UNCHANGED <<kmem, ustk>>
  BY <1>1, <1>2 DEF SysExit
<1>4. Depth' = suserp
  BY <1>1, <1>2, <1>3 DEF Depth
<1>5. TypeOK'
  <2>1. SwitchTypeOK'
    BY <1>1, <1>2, SysExitType DEF KInv, KBase, TypeOK
  <2>2. QED
    BY <1>1, <2>1 DEF KInv, KBase, TypeOK, MemTypeOK, ProcTypeOK, PCs
<1>6. \A s \in Segs : umem'[s].sp = umem[s].sp /\ umem'[s].fl = umem[s].fl
  BY <1>3 DEF KInv, KBase, TypeOK, SwitchTypeOK, UserMemory
<1>7. DepthInv' /\ SegInv' /\ RunInv'
  BY <1>1, <1>2, <1>3, <1>4 DEF KInv, KBase, DepthInv, SegInv, RunInv, Up, Serving
<1>8. RegsInv'
  <2>1. suserp' + 1 = suserp /\ suserp' + 2 = suserp + 1 /\ 2 * suserp' + 1 = 2 * suserp - 1
    BY <1>2, <1>3
  <2>2. QED
    BY <1>1, <1>2, <1>3, <1>6, <2>1 DEF RegsInv, Up
<1>9. StartedInv'
  BY <1>1, <1>2, <1>3, <1>4 DEF KInv, KBase, StartedInv, Up
<1>10. SuspendedInv'
  <2>1. \A i \in 1 .. suserp' : i \in 1 .. suserp /\ i + 1 \in Segs
    BY <1>2, <1>3 DEF Segs
  <2>2. QED
    BY <1>2, <1>3, <1>6, <2>1 DEF KInv, KBase, SuspendedInv, Up
<1>11. ASSUME ~stray' PROVE KProcs'
  <2>1. KProcs /\ \A i \in 1 .. suserp' : i \in 1 .. suserp
    BY <1>1, <1>2, <1>3, <1>11 DEF KInv
  <2>2. ProcInv' /\ StateInv'
    BY <1>1, <1>2, <1>4, <2>1 DEF KProcs, ProcInv, StateInv, Up
  <2>3. FrameInv' /\ AnsweredInv'
    BY <1>1, <1>2, <1>3, <1>4, <2>1 DEF KProcs, FrameInv, AnsweredInv, Up
  <2>4. QED
    BY <2>2, <2>3 DEF KProcs
<1>12. QED
  BY <1>5, <1>7, <1>8, <1>9, <1>10, <1>11 DEF KInv, KBase

(* int 80h *)
LEMMA SyscallStep == ASSUME Fits, KInv, Syscall PROVE KInv'
<1>0. PICK s \in Services, sp \in StackOffsets :
        /\ s = RUN => suserp + 1 < MaxNest
        /\ \E w \in Arguments(s) :
             /\ Intr(sp, w, running) /\ pc' = Handler(s, w)
             /\ stray' = (stray \/ (s \in {CLOSE, LSEEK} /\ w \notin Answers))
  BY DEF Syscall
<1>1. PICK w \in Arguments(s) :
        /\ Intr(sp, w, running) /\ pc' = Handler(s, w)
        /\ stray' = (stray \/ (s \in {CLOSE, LSEEK} /\ w \notin Answers))
  BY <1>0
<1>2. pc = "user" /\ Up /\ UNCHANGED <<used, procs, running, run>>
  BY DEF Syscall, Up
<1>3. /\ suserp \in Nat /\ suserp < MaxNest /\ Depth = suserp + 1 /\ running \in Pids
      /\ bak = [ss |-> KERNEL_SEG, sp |-> 2 * suserp + 1]
      /\ regs.ss = suserp + 2 /\ regs.ds = suserp + 2 /\ iflag = FlagOf(suserp + 1)
  BY <1>2 DEF KInv, KBase, DepthInv, RegsInv, TypeOK, ProcTypeOK, Depth
<1>4. w \in Words
  BY DEF Arguments
<1>5. /\ pc' \in (Serving \ {"reply", "sysexit"}) \cup {"load"} /\ (pc' = "load" => s = RUN)
      /\ pc' \in {"close", "lseek"} => s \in {CLOSE, LSEEK}
  BY <1>1 DEF Handler, Serving
<1>6. /\ pc' \in PCs /\ Up' /\ pc' \notin {"exec", "release", "startk", "user", "boot", "reply"}
  BY <1>5 DEF Serving, PCs, Up
<1>7. /\ suserp' = suserp + 1 /\ Depth' = suserp + 1
      /\ regs' = [ss |-> KERNEL_SEG, sp |-> 2 * (suserp + 1), ds |-> KERNEL_SEG]
      /\ iflag' = 0
  BY <1>1, <1>3, <1>6 DEF Intr, Depth
<1>8. /\ kmem' = [kmem EXCEPT ![2 * (suserp + 1)] =
                   [kind |-> INTR, seg |-> suserp + 2, pid |-> running, fl |-> 0]]
      /\ ustk' = [ustk EXCEPT ![suserp + 1] = [ss |-> suserp + 2, sp |-> sp]]
  <2>1. bak.sp + 1 = 2 * (suserp + 1)
    BY <1>3
  <2>2. QED
    BY <1>1, <1>3, <2>1 DEF Intr
<1>9. /\ umem'[suserp + 2].sp = sp /\ umem'[suserp + 2].fl = FlagOf(suserp + 1)
      /\ \A t \in Segs : t # suserp + 2 => umem'[t] = umem[t]
  <2>1. suserp + 2 \in Segs
    BY <1>3 DEF Segs, Fits
  <2>2. umem' = [umem EXCEPT ![suserp + 2].sysparam = w,
                             ![suserp + 2].sp = sp, ![suserp + 2].fl = FlagOf(suserp + 1)]
    BY <1>1, <1>3 DEF Intr
  <2>3. QED
    BY <2>1, <2>2 DEF KInv, KBase, TypeOK, SwitchTypeOK, UserMemory
<1>10. TypeOK'
  <2>1. SwitchTypeOK'
    BY <1>1, <1>3, <1>4, IntrType DEF KInv, KBase, TypeOK, Pids
  <2>2. QED
    BY <1>1, <1>2, <1>6, <2>1 DEF KInv, KBase, TypeOK, MemTypeOK, ProcTypeOK
<1>11. DepthInv'
  BY <1>0, <1>3, <1>5, <1>6, <1>7 DEF DepthInv, Serving
<1>12. SegInv' /\ RegsInv' /\ RunInv'
  BY <1>2, <1>3, <1>6, <1>7 DEF KInv, KBase, SegInv, RegsInv, RunInv, FlagOf
<1>13. StartedInv'
  <2>1. \A i \in 1 .. suserp + 1 : 2 * i - 1 # 2 * (suserp + 1) /\ 2 * i - 1 \in 1 .. KSTACK
    BY <1>3
  <2>2. \A i \in 1 .. suserp + 1 : kmem'[2 * i - 1] = kmem[2 * i - 1]
    BY <1>8, <2>1 DEF KInv, KBase, TypeOK, SwitchTypeOK
  <2>3. QED
    BY <1>2, <1>3, <1>7, <2>2 DEF KInv, KBase, StartedInv
<1>14. SuspendedInv'
  <2>1. /\ 2 * (suserp + 1) \in 1 .. KSTACK /\ suserp + 1 \in 1 .. USER_STACKS - 1
        /\ suserp + 1 + 1 = suserp + 2
    BY <1>3
  <2>2. /\ kmem'[2 * (suserp + 1)] =
              [kind |-> INTR, seg |-> suserp + 2, pid |-> running, fl |-> 0]
        /\ ustk'[suserp + 1] = [ss |-> suserp + 2, sp |-> sp]
    BY <1>8, <2>1 DEF KInv, KBase, TypeOK, SwitchTypeOK
  <2>3. \A i \in 1 .. suserp : /\ 2 * i # 2 * (suserp + 1) /\ 2 * i \in 1 .. KSTACK
                               /\ i # suserp + 1 /\ i \in 1 .. USER_STACKS - 1
                               /\ i + 1 # suserp + 2 /\ i + 1 \in Segs
    BY <1>3 DEF Segs, Fits
  <2>4. \A i \in 1 .. suserp : /\ kmem'[2 * i] = kmem[2 * i] /\ ustk'[i] = ustk[i]
                               /\ umem'[i + 1] = umem[i + 1]
    BY <1>8, <1>9, <2>3 DEF KInv, KBase, TypeOK, SwitchTypeOK
  <2>5. \A i \in 1 .. suserp + 1 : i \in 1 .. suserp \/ i = suserp + 1
    BY <1>3
  <2>6. SUFFICES ASSUME NEW i \in 1 .. suserp + 1
                 PROVE  /\ kmem'[2 * i].kind = INTR /\ kmem'[2 * i].seg = i + 1
                        /\ kmem'[2 * i].pid \in Pids
                        /\ ustk'[i] = [ss |-> i + 1, sp |-> umem'[i + 1].sp]
                        /\ umem'[i + 1].fl = FlagOf(i)
    BY <1>7 DEF SuspendedInv
  <2>7. CASE i \in 1 .. suserp
    BY <1>2, <2>4, <2>7 DEF KInv, KBase, SuspendedInv
  <2>8. CASE i = suserp + 1
    BY <1>3, <1>9, <2>1, <2>2, <2>8
  <2>9. QED
    BY <2>5, <2>7, <2>8
<1>15. ASSUME ~stray' PROVE KProcs'
  <2>0. ~stray /\ KProcs /\ running = suserp + 1
        /\ (s \in {CLOSE, LSEEK} => w \in Answers)
    BY <1>1, <1>2, <1>3, <1>15 DEF KInv, KProcs, ProcInv
  <2>1. ProcInv' /\ StateInv'
    BY <1>2, <1>3, <1>6, <1>7, <2>0 DEF KProcs, ProcInv, StateInv
  <2>2. AnsweredInv'
    BY <1>1, <1>5, <2>0 DEF AnsweredInv, Intr
  <2>3. FrameInv'
    <3>1. 2 * (suserp + 1) \in 1 .. KSTACK
      BY <1>3
    <3>2. kmem'[2 * (suserp + 1)].pid = suserp + 1
      BY <1>8, <2>0, <3>1 DEF KInv, KBase, TypeOK, SwitchTypeOK
    <3>3. \A i \in 1 .. suserp + 1 : 2 * i - 1 # 2 * (suserp + 1) /\ 2 * i - 1 \in 1 .. KSTACK
      BY <1>3
    <3>4. \A i \in 1 .. suserp + 1 : kmem'[2 * i - 1] = kmem[2 * i - 1]
      BY <1>8, <3>3 DEF KInv, KBase, TypeOK, SwitchTypeOK
    <3>5. \A i \in 1 .. suserp : 2 * i # 2 * (suserp + 1) /\ 2 * i \in 1 .. KSTACK
      BY <1>3
    <3>6. \A i \in 1 .. suserp : kmem'[2 * i] = kmem[2 * i]
      BY <1>8, <3>5 DEF KInv, KBase, TypeOK, SwitchTypeOK
    <3>7. \A i \in 1 .. suserp + 1 : i \in 1 .. suserp \/ i = suserp + 1
      BY <1>3
    <3>8. \A i \in 1 .. suserp + 1 : kmem'[2 * i].pid = i
      BY <1>2, <2>0, <3>2, <3>6, <3>7 DEF KProcs, FrameInv
    <3>9. QED
      BY <1>2, <1>3, <1>7, <2>0, <3>4, <3>8 DEF KProcs, FrameInv
  <2>4. QED
    BY <2>1, <2>2, <2>3 DEF KProcs
<1>16. QED
  BY <1>10, <1>11, <1>12, <1>13, <1>14, <1>15 DEF KInv, KBase

-----------------------------------------------------------------------------
(* KInv is inductive. *)
LEMMA NextStep == ASSUME Fits, KInv, [Next]_vars PROVE KInv'
<1>1. CASE KernelStep
  BY <1>1, BootStep, StartkLoopStep, LoadFoundStep, LoadNothingStep, ExecStep, ReleaseStep,
     ReplyStep, DispatchOpenStep, DispatchCloseStep, DispatchLseekStep, StoreStep, HaltStep,
     RebootStep, LeaveKernelStep
     DEF KernelStep, LoadMissing
<1>2. CASE Environment
  BY <1>2, SyscallStep, ReturnStep, StoreStep, LoadNothingStep, HaltStep
     DEF Environment, DiskPause
<1>3. CASE UNCHANGED vars
  <2>1. KBase'
    BY <1>3 DEF vars, switchVars, KInv, KBase, TypeOK, MemTypeOK, ProcTypeOK, SwitchTypeOK,
       DepthInv, RegsInv, StartedInv, SuspendedInv, SegInv, RunInv, Up, Depth
  <2>2. ~stray' => KProcs'
    BY <1>3 DEF vars, switchVars, KInv, KProcs, FrameInv, ProcInv, StateInv, AnsweredInv, Up,
       Depth
  <2>3. QED
    BY <2>1, <2>2 DEF KInv
<1>4. QED
  BY <1>1, <1>2, <1>3 DEF Next, Stopped

(* Segments, frames and saved stacks stay where the nesting depth says,    *)
(* whatever programs call, return, open, close, move, halt or reboot, and  *)
(* pids do while programs close and move descriptors open answered.        *)
THEOREM KernelInvariant == ASSUME Fits PROVE Spec => []KInv
<1>1. Init => KInv
  BY InitKInv
<1>2. KInv /\ [Next]_vars => KInv'
  BY NextStep
<1>3. QED
  BY <1>1, <1>2, PTL DEF Spec

(* Every variable of the kernel keeps its type: indices into the kernel's  *)
(* stack, the saved stacks and the process table never leave them.         *)
THEOREM TypeCorrect == ASSUME Fits PROVE Spec => []TypeOK
<1>1. KInv => TypeOK
  BY DEF KInv, KBase
<1>2. QED
  BY <1>1, KernelInvariant, PTL

(* What KInv makes of the safety properties of Kernel. *)
LEMMA Consequences ==
  ASSUME Fits, KInv
  PROVE  /\ SegmentsExclusive /\ NoSegmentLeak /\ ProcTree /\ OneRunning
         /\ StacksBalanced /\ ContextRestored /\ ServedWithInterruptsOff
<1>0. /\ suserp \in Nat /\ Depth \in Nat /\ suserp < USER_STACKS
      /\ Depth = IF pc = "user" THEN suserp + 1 ELSE suserp
  BY DEF KInv, KBase, DepthInv, Depth
<1>1. Up => \A i \in 1 .. Depth : SegOf(i) = i + 1 /\ kmem[2 * i - 1].kind = FARCALL
  BY DEF KInv, KBase, StartedInv, SegOf
<1>2. Up => /\ Loading = IF pc \in {"exec", "release"} THEN {Depth + 2} ELSE {}
            /\ used = (0 .. Depth + 1) \cup Loading
  <2>1. CASE pc \in {"exec", "release"}
    <3>1. Depth = suserp
      BY <1>0, <2>1
    <3>2. Up => run.seg = suserp + 2 /\ used = 0 .. suserp + 2
      BY <2>1 DEF KInv, KBase, SegInv
    <3>3. 0 .. suserp + 2 = (0 .. suserp + 1) \cup {suserp + 2}
      BY <1>0
    <3>4. QED
      BY <2>1, <3>1, <3>2, <3>3 DEF Loading
  <2>2. CASE pc \notin {"exec", "release"}
    BY <2>2 DEF KInv, KBase, SegInv, Loading
  <2>3. QED
    BY <2>1, <2>2
<1>3. SegmentsExclusive
  BY <1>0, <1>1, <1>2 DEF SegmentsExclusive, InitSegValue, LOW_SEG, KERNEL_SEG
<1>4. NoSegmentLeak
  <2>1. SUFFICES ASSUME Up
                 PROVE  0 .. Depth + 1 = {0, 1} \cup {SegOf(i) : i \in 1 .. Depth}
    BY <1>2 DEF NoSegmentLeak, InitSegValue, LOW_SEG, KERNEL_SEG
  <2>2. \A x \in 0 .. Depth + 1 : x \in {0, 1} \cup {SegOf(i) : i \in 1 .. Depth}
    <3>1. TAKE x \in 0 .. Depth + 1
    <3>2. CASE x \in {0, 1}
      BY <3>2
    <3>3. CASE x \notin {0, 1}
      <4>1. x - 1 \in 1 .. Depth /\ x = (x - 1) + 1
        BY <1>0, <3>3
      <4>2. QED
        BY <1>1, <2>1, <4>1
    <3>4. QED
      BY <3>2, <3>3
  <2>3. \A i \in 1 .. Depth : SegOf(i) \in 0 .. Depth + 1
    BY <1>0, <1>1, <2>1
  <2>4. {0, 1} \subseteq 0 .. Depth + 1
    BY <1>0
  <2>5. QED
    BY <2>2, <2>3, <2>4
<1>5. ProcTree
  BY <1>0, <1>1 DEF KInv, KProcs, ProcInv, ProcTree
<1>6. OneRunning
  BY <1>0 DEF KInv, KProcs, FrameInv, ProcInv, StateInv, OneRunning, Up
<1>7. StacksBalanced
  BY <1>0, <1>1 DEF KInv, KBase, RegsInv, SuspendedInv, StacksBalanced
<1>8. ContextRestored
  BY <1>0, <1>1 DEF KInv, KBase, RegsInv, ContextRestored, Up
<1>9. ServedWithInterruptsOff
  BY <1>0 DEF KInv, KBase, RegsInv, ServedWithInterruptsOff, Up, FlagOf
<1>10. QED
  BY <1>3, <1>4, <1>5, <1>6, <1>7, <1>8, <1>9

(* No two nested programs ever share a segment, and none is given the      *)
(* kernel's: get_free_seg and release_seg as run_program uses them.        *)
THEOREM SegmentsAreExclusive == ASSUME Fits PROVE Spec => []SegmentsExclusive
BY KernelInvariant, Consequences, PTL

(* mm.c's table holds exactly the segments on the call stack.              *)
THEOREM NothingLeaks == ASSUME Fits PROVE Spec => []NoSegmentLeak
BY KernelInvariant, Consequences, PTL

(* For programs that close and move descriptors open answered, the process *)
(* table mirrors the call stack, in spite of the writes of open("/") and   *)
(* close past the ends of files_table, for 5 and -1.                       *)
THEOREM ProcessTreeHolds == ASSUME Fits PROVE Spec => []ProcTree
BY KernelInvariant, Consequences, PTL

(* For the same programs, running_proc is the one on the processor or      *)
(* being served, and every dispatch holds its own caller's pid.            *)
THEOREM RunningIsTop == ASSUME Fits PROVE Spec => []OneRunning
BY KernelInvariant, Consequences, PTL

(* spbak and suserp stay in step with the frames on the kernel's stack,    *)
(* whatever descriptors programs pass.                                     *)
THEOREM StacksStayBalanced == ASSUME Fits PROVE Spec => []StacksBalanced
BY KernelInvariant, Consequences, PTL

(* sysexit and farcall give the processor back to a program with its own   *)
(* SS, SP and DS.                                                          *)
THEOREM ContextIsRestored == ASSUME Fits PROVE Spec => []ContextRestored
BY KernelInvariant, Consequences, PTL

(* System calls are served with interrupts off.                            *)
THEOREM ServedMasked == ASSUME Fits PROVE Spec => []ServedWithInterruptsOff
BY KernelInvariant, Consequences, PTL
=============================================================================
