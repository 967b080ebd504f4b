------------------------------- MODULE Kernel -------------------------------
(***************************************************************************)
(* The kernel, kernel/kernel.c, composed of the segment allocator          *)
(* (Memory), the process table (ProcTable) and the context switch          *)
(* (ContextSwitch).  startk loads "init" for ever; a program runs on the   *)
(* processor until it makes a system call or returns; run_program (service *)
(* 7) is served by a nested activation of the kernel that starts another   *)
(* program and is resumed when it returns.                                 *)
(*                                                                         *)
(* pc is where the processor is.  "load" to "release" are the steps of one *)
(* run_program activation, whose locals are in run while it executes and   *)
(* in its farcall frame while its program runs.                            *)
(***************************************************************************)
EXTENDS ContextSwitch, ProcTable

CONSTANTS MaxNest,         \* bound: programs nested by run_program
          Files,           \* the programs in the root directory
          InitProgram,     \* "init"
          ROOT,            \* the path "/"
          Fds,             \* descriptors programs pass to system calls
          Offsets          \* bound: offsets lseek is followed with

(* What open answers. *)
Answers == {-1, 0, 1, 3, 4, 5}

(* run_program answers 0 or 1. *)
ASSUME KernelAssumption ==
  /\ MaxNest \in Nat /\ MaxNest >= 1
  /\ KSTACK = 2 * MaxNest /\ MaxNest < USER_STACKS
  /\ InitProgram \in Files /\ Files \subseteq ProcNames
  /\ {-1, 5} \subseteq Fds /\ Fds \subseteq Int /\ Offsets \subseteq Pids
  /\ ProcNames \cup {ROOT} \cup Answers \cup Fds \subseteq Words

(* Every program up to the bound has a segment and a slot of its own, and  *)
(* the last slot is nobody's: close("/") of its owner would clear          *)
(* running_proc.  In the code 8 programs have 10 segments and 9 slots.     *)
Fits == MaxNest + 2 <= NUM_SEG /\ MaxNest < NUM_PROCESSES

VARIABLES pc,              \* where the processor is
          run,             \* run_program's segment, pid and retcode
          stray            \* history: since init_processes a program has closed
                           \* or moved a descriptor that open never answers

vars == <<used, procs, running, switchVars, pc, run, stray>>

PCs == {"boot", "startk", "load", "exec", "user", "open", "close", "lseek",
        "waitkey", "readdisk", "other", "halt", "reboot", "release", "reply", "sysexit",
        "halted"}

(* The services of dispatch that the model tells apart. *)
HALT == 1
REBOOT == 2
GETCHAR == 6
RUN == 7
LS == 9
OPEN == 10
CLOSE == 11
LSEEK == 12
READ == 13
FdServices == {CLOSE, LSEEK, READ, 14}
Services == 0 .. 15

TypeOK ==
  /\ MemTypeOK
  /\ ProcTypeOK(Segs)
  /\ SwitchTypeOK
  /\ pc \in PCs
  /\ run \in [seg : Segs, pid : Pids, ret : {0, 1}]
  /\ stray \in BOOLEAN

(* Power on: nothing of the kernel is set up but what the image holds. *)
Init ==
  /\ used = {}
  /\ procs = [i \in Slots |-> [pid |-> 0, ppid |-> 0, cs |-> 0,
                               state |-> READY, name |-> InitProgram]]
  /\ running = 0
  /\ kmem = ImageKmem /\ bak = ImageBak /\ suserp = 0 /\ ustk = ImageUstk
  /\ dsuser = LOW_SEG /\ params = Data
  /\ umem = [s \in Segs |-> BlankMemory]
  /\ regs = KernelRegs /\ iflag = 0
  /\ pc = "boot"
  /\ run = [seg |-> 0, pid |-> 0, ret |-> 0]
  /\ stray = FALSE

-----------------------------------------------------------------------------
(* startk up to its loop: init_seg, set_ivt, mount and sti. *)
Boot ==
  /\ pc = "boot"
  /\ used' = InitSegValue
  /\ iflag' = 1
  /\ pc' = "startk"
  /\ UNCHANGED <<procs, running, kmem, bak, suserp, ustk, dsuser, params, umem,
                 regs, run, stray>>

(* One turn of startk's loop: init_processes and the call of run_program.  *)
StartkLoop ==
  /\ pc = "startk"
  /\ InitProcesses
  /\ stray' = FALSE
  /\ pc' = "load"
  /\ UNCHANGED <<used, switchVars, run>>

(* Mutant: the parameter buffer is the name, for startk too. *)
ProgramNameParams == params

(* The name run_program was called with: startk's literal, or the pointer  *)
(* dispatch passes, which is the parameter buffer itself.                  *)
ProgramName == IF regs.sp = 0 THEN InitProgram ELSE params

(* load finds the file: segment, contents, process slot; ppid is the       *)
(* process that is running.                                                *)
LoadFound ==
  /\ pc = "load" /\ ProgramName \in Files
  /\ \E seg \in Segs, pid \in Slots :
       /\ GetFreeSeg(seg)
       /\ LoadSegment(seg)
       /\ RegisterProc(pid, running, seg, ProgramName)
       /\ run' = [seg |-> seg, pid |-> pid, ret |-> 0]
  /\ pc' = "exec"
  /\ UNCHANGED <<running, stray>>

(* Mutant: run_program returns before release_seg. *)
LoadNothingKept ==
  /\ \E seg \in Segs :
       /\ GetFreeSeg(seg)
       /\ run' = [run EXCEPT !.seg = seg, !.ret = 1]
  /\ pc' = IF regs.sp = 0 THEN "startk" ELSE "reply"
  /\ UNCHANGED <<procs, running, switchVars, stray>>

(* load does not find it.  The segment was taken before the directory was  *)
(* searched.                                                               *)
LoadNothing ==
  /\ \E seg \in Segs :
       /\ GetFreeSeg(seg)
       /\ run' = [run EXCEPT !.seg = seg, !.ret = 1]
  /\ pc' = "release"
  /\ UNCHANGED <<procs, running, switchVars, stray>>

(* Mutant: run_program tries again until the file is there. *)
LoadMissingRetries ==
  /\ pc = "load" /\ ProgramName \notin Files
  /\ UNCHANGED vars

LoadMissing ==
  /\ pc = "load" /\ ProgramName \notin Files
  /\ LoadNothing

(* A failing read executes hlt.  With interrupts on (init is being loaded) *)
(* the next interrupt resumes it, with whatever is in the buffer.  Where   *)
(* that is not the file's entry, the file is not found; where it is, this  *)
(* is LoadFound.                                                           *)
DiskPause ==
  /\ pc = "load" /\ iflag = 1 /\ ProgramName \in Files
  /\ LoadNothing

(* With interrupts off hlt is for ever: while mounting, and in every load  *)
(* or disk service of a system call.                                       *)
DiskHalt ==
  /\ pc \in {"boot", "load", "readdisk"}
  /\ iflag = 0
  /\ pc' = "halted"
  /\ UNCHANGED <<used, procs, running, switchVars, run, stray>>

(* run_program: set_running_proc, the two opens (entries 0 and 1 of the    *)
(* process's files_table) and farcall.                                     *)
Exec ==
  /\ pc = "exec"
  /\ SetRunningProc(run.pid)
  /\ FarCall(run.seg, run.pid)
  /\ pc' = "user"
  /\ UNCHANGED <<used, run, stray>>

(* A program returns: the rest of farcall, and unregister_proc. *)
Return ==
  /\ pc = "user"
  /\ FarReturn
  /\ run' = [seg |-> ReturnFrame.seg, pid |-> ReturnFrame.pid, ret |-> 0]
  /\ UnregisterProc(ReturnFrame.pid)
  /\ pc' = "release"
  /\ UNCHANGED <<used, running, stray>>

(* The end of run_program: release_seg, and back to startk or dispatch. *)
Release ==
  /\ pc = "release"
  /\ ReleaseSeg(run.seg)
  /\ pc' = IF regs.sp = 0 THEN "startk" ELSE "reply"
  /\ UNCHANGED <<procs, running, switchVars, run, stray>>

(* Mutant: the caller is not made the running process again. *)
ReplyKeepsRunning ==
  /\ pc = "reply"
  /\ StoreParam(run.ret)
  /\ pc' = "sysexit"
  /\ UNCHANGED <<used, procs, running, run, stray>>

(* dispatch, case 7 after run_program: the result goes over the name, and  *)
(* the process that asked runs again.                                      *)
Reply ==
  /\ pc = "reply"
  /\ StoreParam(run.ret)
  /\ SetRunningProc(EntryFrame.pid)
  /\ pc' = "sysexit"
  /\ UNCHANGED <<used, run, stray>>

-----------------------------------------------------------------------------
(* What a program puts into its parameter buffer for a service.  A read of *)
(* another descriptor than 0 .. 5 would follow whatever lies around the    *)
(* kernel's fd_list, and is left out.  So is a read or a print of more     *)
(* bytes than the buffer holds: dispatch checks no size, and what lies     *)
(* behind params is service, ssbak:spbak and the saved user stacks.        *)
Arguments(s) ==
  CASE s = RUN -> ProcNames
    [] s = OPEN -> {ROOT, Data}
    [] s = READ -> Fds \cap (0 .. 5)
    [] s \in FdServices -> Fds
    [] OTHER -> {Data}

(* dispatch's switch, by what a service with first word w comes to: 7      *)
(* calls run_program; 6, and 13 on descriptor 0, read the keyboard; 9, and *)
(* 13 on drive B or on the root directory, read the disk.  13 on drive A   *)
(* reads the keyboard too: read consults the kernel's own fd_list, where   *)
(* that drive was never opened and pfd is 0.  The others print or do       *)
(* nothing, like an unknown service.                                       *)
Handler(s, w) ==
  CASE s = RUN -> "load"
    [] s = HALT -> "halt"
    [] s = REBOOT -> "reboot"
    [] s = OPEN -> "open"
    [] s = CLOSE -> "close"
    [] s = LSEEK -> "lseek"
    [] s = GETCHAR \/ (s = READ /\ w \in {0, 3}) -> "waitkey"
    [] s = LS \/ (s = READ /\ w \in {4, 5}) -> "readdisk"
    [] OTHER -> "other"

(* The running program makes a system call.  A run_program that would go   *)
(* beyond MaxNest is not made, nor a close or lseek once a stray one has   *)
(* cleared running_proc: it would act on the kernel's own fd_list.         *)
Syscall ==
  /\ pc = "user"
  /\ \E s \in Services, sp \in StackOffsets :
       /\ s = RUN => suserp + 1 < MaxNest
       /\ s \in {CLOSE, LSEEK} => running # 0
       /\ \E w \in Arguments(s) :
            /\ Intr(sp, w, running)
            /\ pc' = Handler(s, w)
            /\ stray' = (stray \/ (s \in {CLOSE, LSEEK} /\ w \notin Answers))
  /\ UNCHANGED <<used, procs, running, run>>

(* Case 10: open with the caller's files_table; the descriptor is the      *)
(* answer.  Only "/" gets one outside the table.                           *)
DispatchOpen ==
  /\ pc = "open"
  /\ IF params = ROOT
     THEN OpenRoot(EntryFrame.pid) /\ StoreParam(5)
     ELSE procs' = procs /\ \E fd \in (Fds \cap Answers) \ {5} : StoreParam(fd)
  /\ pc' = "sysexit"
  /\ UNCHANGED <<used, running, run, stray>>

(* Case 11: close with the caller's files_table. *)
DispatchClose ==
  /\ pc = "close"
  /\ CloseFd(EntryFrame.pid, params)
  /\ pc' = "sysexit"
  /\ UNCHANGED <<used, switchVars, run, stray>>

(* Case 12: lseek with the caller's files_table. *)
DispatchLseek ==
  /\ pc = "lseek"
  /\ \E offset \in Offsets : LseekFd(EntryFrame.pid, params, offset)
  /\ pc' = "sysexit"
  /\ UNCHANGED <<used, switchVars, run, stray>>

(* A key is pressed: the BIOS call returns and the character is stored.    *)
(* As in DispatchReadDisk, what was asked for fits into the buffer.        *)
KeyArrives ==
  /\ pc = "waitkey"
  /\ StoreParam(Data)
  /\ pc' = "sysexit"
  /\ UNCHANGED <<used, procs, running, run, stray>>

(* The sectors are read: what was asked for is in the buffer, and no more  *)
(* was asked for than it holds (see Arguments).                            *)
DispatchReadDisk ==
  /\ pc = "readdisk"
  /\ StoreParam(Data)
  /\ pc' = "sysexit"
  /\ UNCHANGED <<used, procs, running, run, stray>>

(* The services that change nothing a later call can see. *)
DispatchOther ==
  /\ pc = "other"
  /\ pc' = "sysexit"
  /\ UNCHANGED <<used, procs, running, switchVars, run, stray>>

(* Case 1: hlt.  With interrupts on it would only pause. *)
DispatchHalt ==
  /\ pc = "halt"
  /\ pc' = IF iflag = 1 THEN "sysexit" ELSE "halted"
  /\ UNCHANGED <<used, procs, running, switchVars, run, stray>>

(* Case 2: int 19h, the boot loader loads the kernel again. *)
DispatchReboot ==
  /\ pc = "reboot"
  /\ LoadImage
  /\ pc' = "boot"
  /\ UNCHANGED <<used, procs, running, run, stray>>

(* The way back to the program that made the system call. *)
LeaveKernel ==
  /\ pc = "sysexit"
  /\ SysExit
  /\ pc' = "user"
  /\ UNCHANGED <<used, procs, running, run, stray>>

(* A processor halted with interrupts off stays so. *)
Stopped == pc = "halted" /\ UNCHANGED vars

-----------------------------------------------------------------------------
(* What the kernel does by itself, whatever programs and devices do. *)
KernelStep ==
  \/ Boot \/ StartkLoop \/ LoadFound \/ LoadMissing \/ Exec \/ Release \/ Reply
  \/ DispatchOpen \/ DispatchClose \/ DispatchLseek \/ DispatchReadDisk
  \/ DispatchOther
  \/ DispatchHalt \/ DispatchReboot \/ LeaveKernel

Environment == Syscall \/ Return \/ KeyArrives \/ DiskPause \/ DiskHalt

Next == KernelStep \/ Environment \/ Stopped

(* The processor does not stop in the middle of the kernel. *)
Fairness == WF_vars(KernelStep)

Spec == Init /\ [][Next]_vars
FairSpec == Spec /\ Fairness

-----------------------------------------------------------------------------
(* The programs that have been started and have not returned, counted by   *)
(* the stack switches: the last one is in ustk only while it is served.    *)
Depth == IF pc = "user" THEN suserp + 1 ELSE suserp

(* The segment program i was started in, from its farcall frame. *)
SegOf(i) == kmem[2 * i - 1].seg

Up == pc \notin {"boot", "halted"}

(* While a segment is being loaded or released run_program's local holds   *)
(* one more.                                                               *)
Loading == IF pc \in {"exec", "release"} THEN {run.seg} ELSE {}

(* No two programs share a segment and none is in the kernel's or the      *)
(* interrupt vectors', the one being loaded included: a get_free_seg that  *)
(* hands out a live segment, or a release_seg of one, breaks it.           *)
SegmentsExclusive ==
  Up => \A i \in 1 .. Depth :
          /\ SegOf(i) \in used \ (InitSegValue \cup Loading)
          /\ \A j \in 1 .. Depth : SegOf(i) = SegOf(j) => i = j

(* mm.c's table holds exactly the segments of the programs on the call     *)
(* stack: whatever was mistyped, halted or nested before, nothing leaks.   *)
NoSegmentLeak ==
  Up => used = InitSegValue \cup {SegOf(i) : i \in 1 .. Depth} \cup Loading

(* The process table mirrors the call stack: pids 1 .. Depth are live, in  *)
(* the order of nesting, each with the segment it runs in, and no other    *)
(* slot is taken.  This is for programs that close and move descriptors    *)
(* open answered, -1 included.  Two of those lie outside files_table:      *)
(* open("/"), close and lseek of 5 write into the next descriptor, and -1  *)
(* into the process's own; neither hits a live process's pid or cs,        *)
(* although close frees the slot it hits.  Another int can: close(-2)      *)
(* clears the pid of the process that calls it.                            *)
ProcTree ==
  Up /\ ~stray =>
    /\ \A i \in 1 .. Depth : /\ procs[i].pid = i
                             /\ procs[i].cs = SegOf(i)
                             /\ procs[i].ppid \in {0, i - 1}
    /\ pc \notin {"startk", "exec"} => \A i \in Slots : i > Depth => procs[i].pid = 0

(* The process set_running_proc named last is the one on the processor, or *)
(* the one being served, also after programs it started have come and      *)
(* gone; no suspended process is marked RUNNING, and every dispatch that   *)
(* has not returned holds the pid of its own caller.  For descriptors open *)
(* answered, as ProcTree.                                                  *)
OneRunning ==
  /\ ~stray /\ pc \notin {"boot", "startk", "load", "exec", "release", "reply",
                          "halted"} =>
       /\ running = Depth
       /\ \A i \in 1 .. Depth : procs[i].state = RUNNING => i = running
  /\ ~stray /\ Up => \A i \in 1 .. suserp : kmem[2 * i].pid = i

(* The kernel's stack and the stack of saved user stacks move together:    *)
(* one farcall frame per program under one intr frame per served call,     *)
(* spbak at the last farcall frame while a program runs, and suserp within *)
(* ssuser and spuser.  Losing one word of spbak or suserp on any path      *)
(* through nested calls breaks it.  This and what follows holds whatever   *)
(* descriptors programs close and move: the stack is not kept in the       *)
(* process table.                                                          *)
StacksBalanced ==
  Up => /\ suserp < USER_STACKS
        /\ IF pc = "user"
           THEN bak = [ss |-> KERNEL_SEG, sp |-> 2 * suserp + 1]
           ELSE regs = [ss |-> KERNEL_SEG, sp |-> 2 * suserp, ds |-> KERNEL_SEG]
        /\ \A i \in 1 .. Depth : kmem[2 * i - 1].kind = FARCALL
        /\ \A i \in 1 .. suserp : kmem[2 * i].kind = INTR

(* Whenever a program is on the processor, SS and DS are its own segment   *)
(* and SP is where the processor left its frame: iret finds it however     *)
(* many programs have reused dsuser, ssbak:spbak and the parameter buffer  *)
(* in between.                                                             *)
ContextRestored ==
  pc = "user" => /\ regs.ss = SegOf(Depth) /\ regs.ds = SegOf(Depth)
                 /\ regs.sp = umem[regs.ss].sp

(* A system call is served with interrupts off from its first step to its  *)
(* last, also after a program it started has returned: params, dsuser and  *)
(* ssbak:spbak are shared by all activations and have no other protection, *)
(* and hlt after a failed read is final.                                   *)
ServedWithInterruptsOff ==
  pc \in PCs \ {"user", "boot", "halted"} => (iflag = 1 <=> suserp = 0)

(* A system call comes back: the kernel reaches the program, or waits for  *)
(* a key, stops or boots again, from anywhere inside a call.               *)
KernelReturns ==
  (pc \notin {"user", "waitkey", "halted", "boot"} /\ suserp > 0)
     ~> pc \in {"user", "waitkey", "halted", "boot"}

(* startk's loop gets init onto the processor again and again, unless the  *)
(* disk fails again and again.                                             *)
InitComesBack ==
  []<><<DiskPause>>_vars \/ (pc = "startk" ~> pc \in {"user", "halted"})

(* The comment of sysexit's last instruction but one, "sti ; enable        *)
(* hardware interrupts": a program runs with interrupts on after a system  *)
(* call.                                                                   *)
InterruptsOnAfterCall == [][LeaveKernel => iflag' = 1]_vars
=============================================================================
