---------------------------- MODULE CallsProofs ----------------------------
(***************************************************************************)
(* The refinement of KernelCalls, proved: every step of the kernel is a    *)
(* step of ProgramCalls or leaves its stack, phase and word alone.         *)
(***************************************************************************)
EXTENDS KernelCalls, KernelProofs, SequenceTheorems

USE NumSegAssumption, NumProcessesAssumption, SwitchAssumption, KernelAssumption

(* While a program has been loaded and not yet started, the slot and the   *)
(* segment load filled in are those of the call being served.              *)
LoadedInv ==
  pc = "exec" /\ ~stray => /\ CallWord \in Files
                           /\ procs[suserp + 1].name = CallWord
                           /\ umem[suserp + 2].sysparam = Data

(* What the abstract stack is, segment i + 1 being that of program i. *)
StackShape ==
  On => /\ DOMAIN CallStack = 1 .. Depth
        /\ CallStack = [i \in 1 .. Depth |->
             [name |-> procs[i].name,
              mem |-> IF pc = "sysexit" /\ i = Depth THEN params
                      ELSE umem[i + 1].sysparam]]

(* The frames of the kernel's stack name the segments by depth.            *)
LEMMA StackIs == KInv => StackShape
<1>1. SUFFICES ASSUME KInv, On PROVE StackShape
  BY DEF StackShape
<1>2. \A i \in 1 .. Depth : SegOf(i) = i + 1
  BY <1>1 DEF KInv, KBase, StartedInv, SegOf, On
<1>3. QED
  BY <1>1, <1>2 DEF StackShape, CallStack, MemoryOf

(* The same after a step. *)
LEMMA StackIsNext == KInv' => StackShape'
BY StackIs, PTL

(* The abstract stack is as high as programs are nested. *)
LEMMA StackHeight ==
  ASSUME KInv, On
  PROVE  /\ Depth \in Nat /\ Len(CallStack) = Depth
         /\ CallStack \in Seq({CallStack[i] : i \in 1 .. Depth})
<1>1. Depth \in Nat
  BY DEF KInv, KBase, KProcs, DepthInv, Depth
<1>2. CallStack \in [1 .. Depth -> {CallStack[i] : i \in 1 .. Depth}]
  BY StackIs DEF StackShape
<1>3. QED
  BY <1>1, <1>2

(* A step that touches no program's name and no program's memory.          *)
LEMMA SameStack ==
  ASSUME KInv, KInv', On, On', Depth' = Depth,
         pc # "sysexit", pc' # "sysexit",
         \A i \in 1 .. Depth : procs'[i].name = procs[i].name,
         \A i \in 1 .. Depth : umem'[i + 1].sysparam = umem[i + 1].sysparam
  PROVE  CallStack' = CallStack
BY StackIs, StackIsNext DEF StackShape

(* A step that puts word w into the memory of the top program. *)
LEMMA TopChanges ==
  ASSUME KInv, KInv', On, On', Depth' = Depth, Depth >= 1, pc # "sysexit", NEW w,
         \A i \in 1 .. Depth : procs'[i].name = procs[i].name,
         \A i \in 1 .. Depth : i # Depth => umem'[i + 1].sysparam = umem[i + 1].sysparam,
         w = IF pc' = "sysexit" THEN params' ELSE umem'[Depth + 1].sysparam
  PROVE  CallStack' = [CallStack EXCEPT ![Len(CallStack)].mem = w]
<1>1. Depth \in Nat /\ Len(CallStack) = Depth
  BY StackHeight
<1>2. \A i \in 1 .. Depth : CallStack[i] = [name |-> procs[i].name,
                                           mem |-> umem[i + 1].sysparam]
  BY StackIs DEF StackShape
<1>3. \A i \in 1 .. Depth : i # Depth => CallStack'[i] = CallStack[i]
  BY <1>2, StackIsNext DEF StackShape
<1>4. CallStack'[Depth] = [name |-> procs[Depth].name, mem |-> w]
  BY <1>1, StackIsNext DEF StackShape
<1>5. CallStack'[Depth] = [CallStack[Depth] EXCEPT !.mem = w]
  BY <1>1, <1>2, <1>4
<1>6. DOMAIN CallStack = 1 .. Depth /\ DOMAIN CallStack' = 1 .. Depth
  BY StackIs, StackIsNext DEF StackShape
<1>7. /\ CallStack = [i \in 1 .. Depth |-> CallStack[i]]
      /\ CallStack' = [i \in 1 .. Depth |-> CallStack'[i]]
  BY StackIs, StackIsNext DEF StackShape
<1>8. QED
  BY <1>1, <1>3, <1>5, <1>6, <1>7

-----------------------------------------------------------------------------
(* LoadedInv is inductive given KInv. *)
LEMMA LoadedInit == Init => LoadedInv
BY DEF Init, LoadedInv

(* Only load reaches "exec", and it fills in the slot and segment itself. *)
LEMMA LoadedStep == ASSUME Fits, KInv, LoadedInv, [Next]_vars PROVE LoadedInv'
<1>1. CASE LoadFound /\ ~stray
  <2>1. /\ suserp \in Nat /\ suserp < MaxNest /\ Depth = suserp /\ used = 0 .. suserp + 1
        /\ \A i \in 1 .. suserp : procs[i].pid = i
        /\ \A i \in Slots : i > suserp => procs[i].pid = 0
        /\ regs.sp = 2 * suserp
    BY <1>1 DEF LoadFound, KInv, KBase, KProcs, DepthInv, SegInv, ProcInv, RegsInv, On, Up, Depth
  <2>2. PICK seg \in Segs, pid \in Slots :
           GetFreeSeg(seg) /\ LoadSegment(seg) /\ RegisterProc(pid, running, seg, ProgramName)
    BY <1>1 DEF LoadFound
  <2>3. seg = suserp + 2
    BY <2>1, <2>2, FirstFreeSeg DEF Fits
  <2>4. procs' = [procs EXCEPT ![suserp + 1] =
                    [pid |-> suserp + 1, ppid |-> running, cs |-> seg,
                     state |-> READY, name |-> ProgramName]]
    BY <2>1, <2>2, FirstFreeSlot DEF Fits
  <2>5. suserp + 1 \in Slots /\ suserp + 2 \in Segs
    BY <2>1 DEF Slots, Segs, Fits
  <2>6. procs'[suserp + 1].name = ProgramName
    BY <2>4, <2>5 DEF KInv, KBase, KProcs, TypeOK, ProcTypeOK
  <2>7. umem'[suserp + 2].sysparam = Data
    BY <2>2, <2>3, <2>5 DEF LoadSegment, BlankMemory, KInv, KBase, KProcs, TypeOK, SwitchTypeOK
  <2>8. suserp' = suserp /\ params' = params /\ pc' = "exec" /\ stray' = stray
    BY <1>1, <2>2 DEF LoadFound, LoadSegment
  <2>9. CallWord' = ProgramName
    <3>1. On' /\ pc' = "exec"
      BY <1>1, <2>8 DEF On, Up
    <3>2. CallPhase' = "calling"
      BY <3>1 DEF CallPhase
    <3>3. QED
      BY <2>1, <2>8, <3>2 DEF CallWord, ProgramName
  <2>10. QED
    BY <1>1, <2>6, <2>7, <2>8, <2>9 DEF LoadedInv, LoadFound
<1>2. CASE UNCHANGED vars
  BY <1>2 DEF vars, switchVars, LoadedInv, CallWord, CallPhase, On, Up
<1>3. CASE LoadFound /\ stray
  BY <1>3 DEF LoadFound, LoadedInv
<1>4. CASE Next /\ ~LoadFound
  <2>1. pc' = "exec" => UNCHANGED vars
    BY <1>4 DEF Next, KernelStep, Environment, Stopped, Boot, StartkLoop, LoadMissing,
         LoadNothing, Exec, Release, Reply, DispatchOpen, DispatchClose, DispatchLseek,
         DispatchReadDisk,
         DispatchOther, DispatchHalt, DispatchReboot, LeaveKernel, Syscall, Return,
         KeyArrives, DiskPause, DiskHalt, Handler
  <2>2. QED
    BY <1>2, <2>1 DEF LoadedInv
<1>5. QED
  BY <1>1, <1>2, <1>3, <1>4

-----------------------------------------------------------------------------
(* One lemma per action, or group of actions: the abstract step it is. *)

(* startk up to its loop is the abstract power on. *)
LEMMA BootRefines == ASSUME KInv, KInv', ~stray, Boot PROVE Calls!PowerOn
<1>1. CallPhase = "off" /\ CallStack = << >>
  BY DEF Boot, CallPhase, CallStack, On, Up
<1>2. On' /\ suserp' = 0 /\ Depth' = 0 /\ pc' = "startk"
  BY DEF Boot, KInv, KBase, KProcs, DepthInv, On, Up, Depth
<1>3. CallPhase' = "calling" /\ CallWord' = InitProgram
  BY <1>2 DEF CallPhase, CallWord
<1>4. CallStack' = << >>
  BY <1>2, StackIsNext DEF StackShape
<1>5. QED
  BY <1>1, <1>3, <1>4 DEF Calls!PowerOn

(* What the abstract state is while a call is being set up. *)
LEMMA Calling ==
  ASSUME KInv, ~stray,
         pc \in {"startk", "load", "exec"} \/ (pc = "release" /\ suserp = 0)
  PROVE  /\ On /\ CallPhase = "calling" /\ Depth = suserp /\ suserp \in Nat
         /\ CallWord = IF suserp = 0 THEN InitProgram ELSE params
         /\ CallWord = ProgramName
<1>1. On /\ CallPhase = "calling" /\ Depth = suserp /\ suserp \in Nat
  BY DEF On, Up, CallPhase, Depth, KInv, KBase, KProcs, DepthInv
<1>2. CallWord = IF suserp = 0 THEN InitProgram ELSE params
  BY <1>1 DEF CallWord
<1>3. regs.sp = 2 * suserp
  BY <1>1 DEF KInv, KBase, RegsInv, On
<1>4. QED
  BY <1>1, <1>2, <1>3 DEF ProgramName

(* The same after a step. *)
LEMMA CallingNext ==
  (KInv /\ On /\ (pc \in {"startk", "load", "exec"} \/ (pc = "release" /\ suserp = 0)) =>
     /\ CallPhase = "calling" /\ Depth = suserp /\ suserp \in Nat
     /\ CallWord = IF suserp = 0 THEN InitProgram ELSE params)'
<1>1. KInv /\ On /\ (pc \in {"startk", "load", "exec"} \/ (pc = "release" /\ suserp = 0)) =>
        /\ CallPhase = "calling" /\ Depth = suserp /\ suserp \in Nat
        /\ CallWord = IF suserp = 0 THEN InitProgram ELSE params
  BY Calling DEF On
<1>2. QED
  BY <1>1, PTL

(* init_processes forgets pids, which the abstract stack does not have. *)
LEMMA StartkLoopRefines ==
  ASSUME KInv, KInv', ~stray, ~stray', StartkLoop PROVE UNCHANGED <<CallStack, CallPhase, CallWord>>
<1>1. suserp = 0 /\ suserp' = 0 /\ pc = "startk" /\ pc' = "load"
  BY DEF StartkLoop, KInv, KBase, KProcs, DepthInv, switchVars
<1>2. /\ On /\ CallPhase = "calling" /\ CallWord = InitProgram /\ Depth = 0
  BY <1>1, Calling
<1>3. /\ On' /\ CallPhase' = "calling" /\ CallWord' = InitProgram /\ Depth' = 0
  BY <1>1, CallingNext DEF On, Up
<1>4. CallStack' = CallStack
  BY <1>1, <1>2, <1>3, SameStack
<1>5. QED
  BY <1>2, <1>3, <1>4

(* Loading a program changes a free slot and a free segment only. *)
LEMMA LoadFoundRefines ==
  ASSUME Fits, KInv, KInv', ~stray, ~stray', LoadFound PROVE UNCHANGED <<CallStack, CallPhase, CallWord>>
<1>1. /\ suserp \in Nat /\ suserp < MaxNest /\ Depth = suserp /\ used = 0 .. suserp + 1
      /\ \A i \in 1 .. suserp : procs[i].pid = i
      /\ \A i \in Slots : i > suserp => procs[i].pid = 0
  BY DEF LoadFound, KInv, KBase, KProcs, DepthInv, SegInv, ProcInv, RegsInv, On, Up, Depth
<1>2. PICK seg \in Segs, pid \in Slots :
         GetFreeSeg(seg) /\ LoadSegment(seg) /\ RegisterProc(pid, running, seg, ProgramName)
  BY DEF LoadFound
<1>3. seg = suserp + 2
  BY <1>1, <1>2, FirstFreeSeg DEF Fits
<1>4. procs' = [procs EXCEPT ![suserp + 1] =
                  [pid |-> suserp + 1, ppid |-> running, cs |-> seg,
                   state |-> READY, name |-> ProgramName]]
  BY <1>1, <1>2, FirstFreeSlot DEF Fits
<1>5. suserp' = suserp /\ params' = params /\ pc' = "exec" /\ pc = "load"
  BY <1>2 DEF LoadFound, LoadSegment
<1>6. \A i \in 1 .. suserp : procs'[i] = procs[i] /\ umem'[i + 1] = umem[i + 1]
  <2>1. \A i \in 1 .. suserp : i \in Slots /\ i # suserp + 1 /\ i + 1 \in Segs /\ i + 1 # seg
    BY <1>1, <1>3 DEF Slots, Segs, Fits
  <2>2. umem' = [umem EXCEPT ![seg] = BlankMemory]
    BY <1>2 DEF LoadSegment
  <2>3. QED
    BY <1>4, <2>1, <2>2 DEF KInv, KBase, KProcs, TypeOK, ProcTypeOK, SwitchTypeOK
<1>7. On /\ CallPhase = "calling" /\ CallWord = IF suserp = 0 THEN InitProgram ELSE params
  BY <1>5, Calling
<1>8. /\ On' /\ CallPhase' = "calling" /\ Depth' = suserp
      /\ CallWord' = IF suserp = 0 THEN InitProgram ELSE params
  BY <1>5, CallingNext DEF On, Up
<1>9. CallStack' = CallStack
  BY <1>1, <1>5, <1>6, <1>7, <1>8, SameStack
<1>10. QED
  BY <1>7, <1>8, <1>9

(* A name that is not on the disk is answered with 1. *)
LEMMA LoadMissingRefines == ASSUME KInv, KInv', ~stray, ~stray', LoadMissing PROVE Calls!Fail
<1>1. pc = "load" /\ pc' = "release" /\ ProgramName \notin Files
      /\ UNCHANGED <<procs, running, switchVars>> /\ run'.ret = 1
  BY DEF LoadMissing, LoadNothing, KInv, KBase, KProcs, TypeOK
<1>2. On /\ CallPhase = "calling" /\ Depth = suserp /\ suserp \in Nat /\ CallWord = ProgramName
      /\ CallWord = IF suserp = 0 THEN InitProgram ELSE params
  BY <1>1, Calling
<1>3. suserp > 0 /\ suserp' = suserp
  BY <1>1, <1>2 DEF switchVars
<1>4. On' /\ Depth' = suserp /\ CallPhase' = "answering" /\ CallWord' = 1
  BY <1>1, <1>3 DEF On, Up, Depth, CallPhase, CallWord
<1>5. CallStack' = CallStack
  BY <1>1, <1>2, <1>4, SameStack DEF switchVars
<1>6. QED
  BY <1>1, <1>2, <1>4, <1>5 DEF Calls!Fail

(* When the disk pauses, init is being loaded: it is only tried again. *)
LEMMA DiskPauseRefines ==
  ASSUME KInv, KInv', ~stray, ~stray', DiskPause PROVE UNCHANGED <<CallStack, CallPhase, CallWord>>
<1>1. pc = "load" /\ pc' = "release" /\ UNCHANGED <<procs, running, switchVars>>
  BY DEF DiskPause, LoadNothing
<1>2. On /\ CallPhase = "calling" /\ Depth = suserp /\ suserp \in Nat
      /\ CallWord = IF suserp = 0 THEN InitProgram ELSE params
  BY <1>1, Calling
<1>3. suserp = 0 /\ suserp' = 0
  BY <1>1, <1>2 DEF DiskPause, KInv, KBase, RegsInv, FlagOf, switchVars, On
<1>4. /\ On' /\ CallPhase' = "calling" /\ CallWord' = InitProgram /\ Depth' = 0
  BY <1>1, <1>3, CallingNext DEF On, Up
<1>5. CallStack' = CallStack
  BY <1>1, <1>2, <1>3, <1>4, SameStack
<1>6. QED
  BY <1>2, <1>3, <1>4, <1>5

(* farcall puts the program that was loaded on top of its caller. *)
LEMMA ExecRefines == ASSUME Fits, KInv, KInv', ~stray, ~stray', LoadedInv, Exec PROVE Calls!Start
<1>1. /\ pc = "exec" /\ pc' = "user" /\ suserp' = suserp /\ umem' = umem
      /\ SetRunningProc(run.pid) /\ params' = params
  BY DEF Exec, FarCall
<1>2. /\ On /\ CallPhase = "calling" /\ Depth = suserp /\ suserp \in Nat
      /\ suserp < MaxNest /\ Len(CallStack) = suserp
      /\ CallStack \in Seq({CallStack[i] : i \in 1 .. suserp})
  BY <1>1, Calling, StackHeight DEF KInv, KBase, KProcs, DepthInv
<1>3. /\ On' /\ CallPhase' = "running" /\ CallWord' = Data /\ Depth' = suserp + 1
  BY <1>1 DEF On, Up, CallPhase, CallWord, Depth
<1>4. \A i \in 1 .. suserp + 1 : procs'[i].name = procs[i].name
  <2>1. \A i \in Slots : procs'[i].name = procs[i].name
    BY <1>1 DEF SetRunningProc, KInv, KBase, KProcs, TypeOK, ProcTypeOK, Descriptors
  <2>2. QED
    BY <1>2, <2>1 DEF Slots, Fits
<1>5. /\ DOMAIN CallStack = 1 .. suserp
      /\ \A i \in 1 .. suserp : CallStack[i] = [name |-> procs[i].name,
                                                mem |-> umem[i + 1].sysparam]
  BY <1>1, <1>2, StackIs DEF StackShape
<1>6. CallStack' = [i \in 1 .. suserp + 1 |-> [name |-> procs'[i].name,
                                               mem |-> umem[i + 1].sysparam]]
  BY <1>1, <1>3, StackIsNext DEF StackShape
<1>7. procs[suserp + 1].name = CallWord /\ umem[suserp + 2].sysparam = Data /\ CallWord \in Files
  BY <1>1 DEF LoadedInv
<1>8. CallStack'[suserp + 1] = [name |-> CallWord, mem |-> Data]
  BY <1>2, <1>4, <1>6, <1>7
<1>9. \A i \in 1 .. suserp : CallStack'[i] = CallStack[i]
  <2>1. TAKE i \in 1 .. suserp
  <2>2. i \in 1 .. suserp + 1
    BY <1>2
  <2>3. CallStack'[i] = [name |-> procs'[i].name, mem |-> umem[i + 1].sysparam]
    BY <1>6, <2>2
  <2>4. QED
    BY <1>4, <1>5, <2>2, <2>3
<1>10. CallStack' = [i \in 1 .. suserp + 1 |->
                       IF i \in 1 .. suserp THEN CallStack[i]
                       ELSE [name |-> CallWord, mem |-> Data]]
  <2>1. CallStack' = [i \in 1 .. suserp + 1 |-> CallStack'[i]]
    BY <1>6
  <2>2. \A i \in 1 .. suserp + 1 : i \in 1 .. suserp \/ i = suserp + 1
    BY <1>2
  <2>3. suserp + 1 \notin 1 .. suserp
    BY <1>2
  <2>4. QED
    BY <1>8, <1>9, <2>1, <2>2, <2>3
<1>11. Append(CallStack, [name |-> CallWord, mem |-> Data]) =
         [i \in 1 .. suserp + 1 |->
            IF i \in 1 .. suserp THEN CallStack[i] ELSE [name |-> CallWord, mem |-> Data]]
  BY <1>2
<1>12. QED
  BY <1>2, <1>3, <1>7, <1>10, <1>11 DEF Calls!Start

(* farcall's return takes the top program off. *)
LEMMA ReturnRefines == ASSUME Fits, KInv, KInv', ~stray, ~stray', Return PROVE Calls!Finish
<1>1. pc = "user" /\ pc' = "release" /\ suserp' = suserp /\ suserp \in Nat /\ suserp < MaxNest
      /\ bak.sp = 2 * suserp + 1
  BY DEF Return, FarReturn, KInv, KBase, KProcs, DepthInv, RegsInv
<1>2. /\ On /\ CallPhase = "running" /\ Depth = suserp + 1 /\ Len(CallStack) = suserp + 1
      /\ CallStack \in Seq({CallStack[i] : i \in 1 .. suserp + 1})
  <2>1. On /\ CallPhase = "running" /\ Depth = suserp + 1
    BY <1>1 DEF On, Up, CallPhase, Depth
  <2>2. QED
    BY <2>1, StackHeight
<1>3. On' /\ Depth' = suserp
  BY <1>1 DEF On, Up, Depth
<1>4. ReturnFrame.seg = suserp + 2 /\ ReturnFrame.pid = suserp + 1
  <2>1. 2 * (suserp + 1) - 1 = 2 * suserp + 1 /\ suserp + 1 \in 1 .. Depth
    BY <1>1, <1>2
  <2>2. kmem[2 * suserp + 1].seg = suserp + 2 /\ kmem[2 * suserp + 1].pid = suserp + 1
    BY <1>1, <1>2, <2>1 DEF KInv, KBase, KProcs, StartedInv, FrameInv, On
  <2>3. QED
    BY <1>1, <2>2 DEF ReturnFrame
<1>5. \A i \in 1 .. suserp : /\ procs'[i].name = procs[i].name
                             /\ umem'[i + 1] = umem[i + 1]
  <2>1. \A i \in 1 .. suserp : i \in Slots /\ i # suserp + 1 /\ i + 1 \in Segs /\ i + 1 # suserp + 2
    BY <1>1 DEF Slots, Segs, Fits
  <2>2. /\ umem' = [umem EXCEPT ![suserp + 2] = BlankMemory]
        /\ procs' = [procs EXCEPT ![suserp + 1].pid = 0]
    BY <1>4 DEF Return, FarReturn, UnregisterProc
  <2>3. QED
    BY <2>1, <2>2 DEF KInv, KBase, KProcs, TypeOK, ProcTypeOK, SwitchTypeOK
<1>6. CallStack' = [i \in 1 .. suserp |-> CallStack[i]]
  <2>1. CallStack' = [i \in 1 .. suserp |-> [name |-> procs'[i].name,
                                             mem |-> umem'[i + 1].sysparam]]
    BY <1>1, <1>3, StackIsNext DEF StackShape
  <2>2. CallStack = [i \in 1 .. suserp + 1 |-> [name |-> procs[i].name,
                                               mem |-> umem[i + 1].sysparam]]
    BY <1>1, <1>2, StackIs DEF StackShape
  <2>3. \A i \in 1 .. suserp : i \in 1 .. suserp + 1
    BY <1>1
  <2>4. \A i \in 1 .. suserp : CallStack[i] = [name |-> procs'[i].name,
                                               mem |-> umem'[i + 1].sysparam]
    BY <1>5, <2>2, <2>3
  <2>5. QED
    BY <2>1, <2>4
<1>7. SubSeq(CallStack, 1, Len(CallStack) - 1) = [i \in 1 .. suserp |-> CallStack[i]]
  BY <1>1, <1>2
<1>8. run'.ret = 0
  BY DEF Return
<1>9. IF Len(CallStack) > 1 THEN CallPhase' = "answering" /\ CallWord' = 0
                            ELSE CallPhase' = "calling" /\ CallWord' = InitProgram
  <2>1. CallPhase' = IF suserp = 0 THEN "calling" ELSE "answering"
    BY <1>1, <1>3 DEF CallPhase
  <2>2. CASE suserp = 0
    <3>1. CallWord' = InitProgram
      BY <1>1, <2>1, <2>2 DEF CallWord
    <3>2. ~(Len(CallStack) > 1)
      BY <1>1, <1>2, <2>2
    <3>3. QED
      BY <2>1, <2>2, <3>1, <3>2
  <2>3. CASE suserp # 0
    <3>1. CallWord' = 0
      BY <1>8, <2>1, <2>3 DEF CallWord
    <3>2. Len(CallStack) > 1
      BY <1>1, <1>2, <2>3
    <3>3. QED
      BY <2>1, <2>3, <3>1, <3>2
  <2>4. QED
    BY <2>2, <2>3
<1>10. QED
  BY <1>2, <1>6, <1>7, <1>9 DEF Calls!Finish, Calls!Top

(* release_seg concerns no program on the stack. *)
LEMMA ReleaseRefines ==
  ASSUME KInv, KInv', ~stray, ~stray', Release PROVE UNCHANGED <<CallStack, CallPhase, CallWord>>
<1>1. /\ pc = "release" /\ UNCHANGED <<procs, running, switchVars, run>>
      /\ suserp \in Nat /\ regs.sp = 2 * suserp /\ On /\ Depth = suserp
  BY DEF Release, KInv, KBase, KProcs, DepthInv, RegsInv, On, Up, Depth
<1>2. pc' = (IF suserp = 0 THEN "startk" ELSE "reply") /\ suserp' = suserp
      /\ umem' = umem /\ params' = params
  BY <1>1 DEF Release, switchVars
<1>3. On' /\ Depth' = suserp
  BY <1>2 DEF On, Up, Depth
<1>4. CallPhase' = CallPhase /\ CallWord' = CallWord
  BY <1>1, <1>2 DEF CallPhase, CallWord, On, Up
<1>5. CallStack' = CallStack
  BY <1>1, <1>2, <1>3, SameStack
<1>6. QED
  BY <1>4, <1>5

(* The result of the call reaches the caller. *)
LEMMA ReplyRefines == ASSUME Fits, KInv, KInv', ~stray, ~stray', Reply PROVE Calls!Deliver
<1>1. /\ pc = "reply" /\ pc' = "sysexit" /\ suserp' = suserp /\ umem' = umem
      /\ params' = run.ret /\ pc \in Serving
  BY DEF Reply, StoreParam, Serving
<1>2. On /\ Depth = suserp /\ suserp \in 1 .. MaxNest /\ EntryFrame.pid = suserp
      /\ suserp \in Slots
  BY <1>1, Served DEF On
<1>3. CallPhase = "answering" /\ CallWord = run.ret
  BY <1>1, <1>2 DEF CallPhase, CallWord
<1>4. On' /\ Depth' = suserp /\ CallPhase' = "running" /\ CallWord' = Data
  BY <1>1 DEF On, Up, Depth, CallPhase, CallWord
<1>5. \A i \in 1 .. suserp : procs'[i].name = procs[i].name
  <2>1. \A i \in Slots : procs'[i].name = procs[i].name
    BY DEF Reply, SetRunningProc, KInv, KBase, KProcs, TypeOK, ProcTypeOK, Descriptors
  <2>2. QED
    BY <1>2, <2>1 DEF Slots
<1>6. CallStack' = [CallStack EXCEPT ![Len(CallStack)].mem = CallWord]
  BY <1>1, <1>2, <1>3, <1>4, <1>5, TopChanges
<1>7. QED
  BY <1>3, <1>4, <1>6 DEF Calls!Deliver, Calls!Top

(* A service that answers at once changes the caller's memory only: what   *)
(* open("/") and close write past files_table is no program's name.        *)
LEMMA ServiceRefines ==
  ASSUME Fits, KInv, KInv', ~stray, ~stray',
         \/ DispatchOpen \/ DispatchClose \/ DispatchLseek \/ DispatchReadDisk
         \/ DispatchOther \/ KeyArrives
  PROVE  Calls!Compute
<1>1. /\ pc \in Serving \ {"reply", "sysexit"} /\ pc' = "sysexit"
      /\ suserp' = suserp /\ umem' = umem
  BY DEF DispatchOpen, DispatchClose, DispatchLseek, DispatchReadDisk, DispatchOther,
         KeyArrives, Serving, StoreParam, switchVars
<1>2. On /\ Depth = suserp /\ suserp \in 1 .. MaxNest /\ EntryFrame.pid = suserp
      /\ suserp \in Slots
  BY <1>1, Served DEF On
<1>3. CallPhase = "running" /\ CallWord = Data
  BY <1>1, <1>2 DEF CallPhase, CallWord, Serving
<1>4. On' /\ Depth' = suserp /\ CallPhase' = "running" /\ CallWord' = Data
  BY <1>1 DEF On, Up, Depth, CallPhase, CallWord
<1>5. \A i \in Slots : procs'[i].name = procs[i].name
  <2>1. CASE DispatchOpen
    BY <2>1 DEF DispatchOpen, OpenRoot, KInv, KBase, KProcs, TypeOK, ProcTypeOK, Descriptors
  <2>2. CASE DispatchClose
    <3>1. params \in Answers /\ CloseFd(suserp, params) /\ ProcTypeOK(Segs)
      BY <1>2, <2>2 DEF DispatchClose, KInv, KBase, KProcs, AnsweredInv, TypeOK
    <3>2. suserp < NUM_PROCESSES
      BY <1>2 DEF Fits
    <3>3. QED
      BY <1>2, <3>1, <3>2, CloseAnswered
  <2>3. CASE DispatchLseek
    BY <2>3 DEF DispatchLseek, LseekFd, KInv, KBase, KProcs, TypeOK, ProcTypeOK, Descriptors
  <2>4. QED
    BY <2>1, <2>2, <2>3 DEF DispatchReadDisk, DispatchOther, KeyArrives
<1>6. \A i \in 1 .. suserp : procs'[i].name = procs[i].name
  BY <1>2, <1>5 DEF Slots
<1>7. CallStack' = [CallStack EXCEPT ![Len(CallStack)].mem = params']
  BY <1>1, <1>2, <1>4, <1>6, TopChanges
<1>8. params' \in Words
  BY DEF KInv, KBase, KProcs, TypeOK, SwitchTypeOK
<1>9. QED
  BY <1>3, <1>4, <1>7, <1>8 DEF Calls!Compute, Calls!Top

(* int 80h: the program has put its parameters into its own memory. *)
LEMMA SyscallRefines ==
  ASSUME Fits, KInv, KInv', ~stray, ~stray', Syscall PROVE Calls!Call \/ Calls!Compute
<1>0. PICK s \in Services, sp \in StackOffsets :
         \E w \in Arguments(s) : Intr(sp, w, running) /\ pc' = Handler(s, w)
  BY DEF Syscall
<1>1. PICK w \in Arguments(s) : Intr(sp, w, running) /\ pc' = Handler(s, w)
  BY <1>0
<1>2. /\ pc = "user" /\ On /\ Depth = suserp + 1 /\ suserp \in Nat /\ suserp < MaxNest
      /\ procs' = procs /\ regs.ss = suserp + 2 /\ regs.ds = suserp + 2
  BY DEF Syscall, KInv, KBase, KProcs, DepthInv, RegsInv, On, Up, Depth
<1>3. /\ pc' \in (Serving \ {"reply", "sysexit"}) \cup {"load"} /\ (pc' = "load" <=> s = RUN)
  BY <1>1 DEF Handler, Serving, RUN, HALT, REBOOT, OPEN, CLOSE, LSEEK, GETCHAR, READ,
         LS
<1>4. /\ suserp' = suserp + 1 /\ params' = w /\ On' /\ Depth' = suserp + 1
      /\ pc' # "sysexit"
  BY <1>1, <1>3 DEF Intr, Depth, On, Up, Serving
<1>5. umem'[suserp + 2].sysparam = w
      /\ \A i \in 1 .. suserp + 1 : i # suserp + 1 => umem'[i + 1] = umem[i + 1]
  <2>1. suserp + 2 \in Segs
    BY <1>2 DEF Segs, Fits
  <2>2. umem' = [umem EXCEPT ![suserp + 2].sysparam = w,
                             ![suserp + 2].sp = sp, ![suserp + 2].fl = iflag]
    BY <1>1, <1>2 DEF Intr
  <2>3. \A i \in 1 .. suserp + 1 : i # suserp + 1 => i + 1 \in Segs /\ i + 1 # suserp + 2
    BY <1>2 DEF Segs, Fits
  <2>4. QED
    BY <2>1, <2>2, <2>3 DEF KInv, KBase, KProcs, TypeOK, SwitchTypeOK, UserMemory
<1>6. CallStack' = [CallStack EXCEPT ![Len(CallStack)].mem = w]
  <2>1. /\ Depth' = Depth /\ Depth >= 1 /\ Depth + 1 = suserp + 2 /\ pc # "sysexit"
        /\ \A i \in 1 .. Depth : procs'[i].name = procs[i].name
    BY <1>2, <1>4
  <2>2. \A i \in 1 .. Depth : i # Depth => umem'[i + 1].sysparam = umem[i + 1].sysparam
    BY <1>2, <1>5
  <2>3. w = IF pc' = "sysexit" THEN params' ELSE umem'[Depth + 1].sysparam
    BY <1>4, <1>5, <2>1
  <2>4. QED
    BY <1>2, <1>4, <2>1, <2>2, <2>3, TopChanges
<1>7. CallPhase = "running" /\ CallWord = Data
  BY <1>2 DEF CallPhase, CallWord
<1>8. CASE s = RUN
  <2>1. CallPhase' = "calling" /\ CallWord' = w
    BY <1>2, <1>3, <1>4, <1>8 DEF CallPhase, CallWord
  <2>2. w \in ProcNames
    BY <1>8 DEF Arguments, RUN, OPEN, READ, CLOSE, LSEEK, FdServices
  <2>3. QED
    BY <1>6, <1>7, <2>1, <2>2 DEF Calls!Call, Calls!Top
<1>9. CASE s # RUN
  <2>1. CallPhase' = "running" /\ CallWord' = Data
    BY <1>3, <1>4, <1>9 DEF CallPhase, CallWord, Serving
  <2>2. w \in Words
    BY DEF Arguments
  <2>3. QED
    BY <1>6, <1>7, <2>1, <2>2 DEF Calls!Compute, Calls!Top
<1>10. QED
  BY <1>8, <1>9

(* sysexit copies the buffer to where the abstract stack already has it. *)
LEMMA LeaveKernelRefines ==
  ASSUME Fits, KInv, KInv', ~stray, ~stray', LeaveKernel PROVE UNCHANGED <<CallStack, CallPhase, CallWord>>
<1>1. /\ pc = "sysexit" /\ pc' = "user" /\ SysExit /\ pc \in Serving
      /\ procs' = procs /\ suserp' = suserp - 1
  BY DEF LeaveKernel, SysExit, Serving
<1>2. /\ On /\ Depth = suserp /\ suserp \in 1 .. MaxNest /\ suserp + 1 \in Segs
      /\ EntryFrame.seg = suserp + 1
  BY <1>1, Served DEF On
<1>3. On' /\ Depth' = suserp
  BY <1>1, <1>2 DEF On, Up, Depth
<1>4. CallPhase = "running" /\ CallPhase' = "running" /\ CallWord = Data /\ CallWord' = Data
  BY <1>1, <1>2, <1>3 DEF CallPhase, CallWord
<1>5. umem'[suserp + 1].sysparam = params
      /\ \A i \in 1 .. suserp : i # suserp => umem'[i + 1] = umem[i + 1]
  <2>1. \A i \in 1 .. suserp : i # suserp => i + 1 \in Segs /\ i + 1 # suserp + 1
    BY <1>2 DEF Segs, Fits
  <2>2. umem' = [umem EXCEPT ![suserp + 1].sysparam = params]
    BY <1>1, <1>2 DEF SysExit
  <2>3. QED
    BY <1>2, <2>1, <2>2 DEF KInv, KBase, KProcs, TypeOK, SwitchTypeOK, UserMemory
<1>6. CallStack = [i \in 1 .. suserp |->
                     [name |-> procs[i].name,
                      mem |-> IF i = suserp THEN params ELSE umem[i + 1].sysparam]]
  BY <1>1, <1>2, StackIs DEF StackShape
<1>7. CallStack' = [i \in 1 .. suserp |->
                      [name |-> procs[i].name, mem |-> umem'[i + 1].sysparam]]
  BY <1>1, <1>3, StackIsNext DEF StackShape
<1>8. \A i \in 1 .. suserp :
         umem'[i + 1].sysparam = IF i = suserp THEN params ELSE umem[i + 1].sysparam
  BY <1>5
<1>9. CallStack' = CallStack
  BY <1>6, <1>7, <1>8
<1>10. QED
  BY <1>4, <1>9

(* halt, a failed read with interrupts off, and reboot end every program. *)
LEMMA OffRefines ==
  ASSUME Fits, KInv, DispatchHalt \/ DiskHalt \/ DispatchReboot PROVE Calls!PowerOff
<1>1. pc' \in {"halted", "boot"}
  <2>1. CASE DispatchHalt
    <3>1. pc \in Serving
      BY <2>1 DEF DispatchHalt, Serving
    <3>2. QED
      BY <2>1, <3>1, Served DEF DispatchHalt
  <2>2. QED
    BY <2>1 DEF DiskHalt, DispatchReboot
<1>2. QED
  BY <1>1 DEF Calls!PowerOff, CallStack, CallPhase, CallWord, On, Up

-----------------------------------------------------------------------------
(* A step that changes nothing changes nothing abstract. *)
LEMMA StutterRefines ==
  ASSUME UNCHANGED vars PROVE UNCHANGED <<CallStack, CallPhase, CallWord>>
BY DEF vars, switchVars, CallStack, CallPhase, CallWord, MemoryOf, SegOf, On, Up, Depth

(* A close or lseek of a stray descriptor leaves what is promised. *)
LEMMA StrayRefines == ASSUME stray' PROVE Calls!PowerOff
<1>1. ~On'
  BY DEF On
<1>2. QED
  BY <1>1 DEF Calls!PowerOff, CallStack, CallPhase, CallWord

(* Until init_processes nothing is promised again. *)
LEMMA StrayStep ==
  ASSUME KInv, KInv', stray, [Next]_vars
  PROVE  Calls!PowerOn \/ UNCHANGED <<CallStack, CallPhase, CallWord>>
<1>1. CallStack = << >> /\ CallPhase = "off" /\ CallWord = Data
  <2>1. ~On
    BY DEF On
  <2>2. QED
    BY <2>1 DEF CallStack, CallPhase, CallWord
<1>2. CASE StartkLoop
  <2>1. ~stray' /\ pc' = "load" /\ suserp' = 0
    BY <1>2 DEF StartkLoop, switchVars, KInv, KBase, DepthInv
  <2>2. On' /\ CallPhase' = "calling" /\ CallWord' = InitProgram /\ Depth' = 0
    BY <2>1, CallingNext DEF On, Up
  <2>3. CallStack' = << >>
    BY <2>2, StackIsNext DEF StackShape
  <2>4. QED
    BY <1>1, <2>2, <2>3 DEF Calls!PowerOn
<1>3. CASE [Next]_vars /\ ~StartkLoop
  <2>1. stray'
    BY <1>3 DEF Next, KernelStep, Environment, Stopped, Boot, LoadFound, LoadMissing,
       LoadNothing, Exec, Release, Reply, DispatchOpen, DispatchClose, DispatchLseek,
       DispatchReadDisk, DispatchOther, DispatchHalt, DispatchReboot, LeaveKernel, Syscall,
       Return, KeyArrives, DiskPause, DiskHalt, vars
  <2>2. ~On'
    BY <2>1 DEF On
  <2>3. QED
    BY <1>1, <2>2 DEF CallStack, CallPhase, CallWord
<1>4. QED
  BY <1>2, <1>3

(* Every step of the kernel is a step of the abstract machine. *)
LEMMA StepRefines ==
  ASSUME Fits, KInv, KInv', LoadedInv, [Next]_vars PROVE [Calls!Next]_(Calls!vars)
<1> DEFINE Same == UNCHANGED <<CallStack, CallPhase, CallWord>>
<1>0. CASE stray
  BY <1>0, StrayStep DEF Calls!Next, Calls!vars
<1>1. CASE stray'
  BY <1>1, StrayRefines DEF Calls!Next
<1>2. CASE KernelStep /\ ~stray /\ ~stray'
  <2>1. CASE Boot \/ LoadMissing \/ Exec \/ Reply
    BY <1>2, <2>1, BootRefines, LoadMissingRefines, ExecRefines, ReplyRefines DEF Calls!Next
  <2>2. CASE StartkLoop \/ LoadFound \/ Release \/ LeaveKernel
    <3>1. Same
      BY <1>2, <2>2, StartkLoopRefines, LoadFoundRefines, ReleaseRefines, LeaveKernelRefines
    <3>2. QED
      BY <3>1 DEF Calls!vars
  <2>3. CASE \/ DispatchOpen \/ DispatchClose \/ DispatchLseek \/ DispatchReadDisk
             \/ DispatchOther
    BY <1>2, <2>3, ServiceRefines DEF Calls!Next
  <2>4. CASE DispatchHalt \/ DispatchReboot
    BY <2>4, OffRefines DEF Calls!Next
  <2>5. QED
    BY <1>2, <2>1, <2>2, <2>3, <2>4 DEF KernelStep
<1>3. CASE Environment /\ ~stray /\ ~stray'
  <2>1. CASE Syscall \/ Return \/ KeyArrives \/ DiskHalt
    BY <1>3, <2>1, SyscallRefines, ReturnRefines, ServiceRefines, OffRefines DEF Calls!Next
  <2>2. CASE DiskPause
    BY <1>3, <2>2, DiskPauseRefines DEF Calls!vars
  <2>3. QED
    BY <1>3, <2>1, <2>2 DEF Environment
<1>4. CASE UNCHANGED vars
  BY <1>4, StutterRefines DEF Calls!vars
<1>5. QED
  BY <1>0, <1>1, <1>2, <1>3, <1>4 DEF Next, Stopped

(* Running a program is a procedure call: the kernel, with its one         *)
(* parameter buffer, one dsuser, one ssbak:spbak and first-fit segments    *)
(* and slots, implements a stack of programs each of which finds its       *)
(* memory as it left it but for the result of its own call, until one of   *)
(* them closes or moves a descriptor open never answers.                   *)
THEOREM KernelImplementsCalls == ASSUME Fits PROVE Spec => CallsImplemented
<1>1. Init => Calls!Init
  BY DEF Init, Calls!Init, CallStack, CallPhase, CallWord, On, Up
<1>2. KInv /\ KInv' /\ LoadedInv /\ [Next]_vars => [Calls!Next]_(Calls!vars)
  BY StepRefines
<1>3. Init => LoadedInv
  BY LoadedInit
<1>4. KInv /\ LoadedInv /\ [Next]_vars => LoadedInv'
  BY LoadedStep
<1>5. Spec => []KInv
  BY KernelInvariant
<1>6. QED
  BY <1>1, <1>2, <1>3, <1>4, <1>5, PTL DEF Spec, CallsImplemented, Calls!Spec
=============================================================================
