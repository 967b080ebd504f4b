---------------------------- MODULE ContextSwitch ----------------------------
(***************************************************************************)
(* The way into and out of the kernel, arch/8088/kernel/dispatch.asm: the  *)
(* int 80h entry (intr), the way back (sysexit) and farcall, which starts  *)
(* a program.  One processor has one SS:SP and one DS; dispatch.asm moves  *)
(* them between the kernel's stack and the stack of the program by way of  *)
(* variables in the kernel's data segment, all of them shared by every     *)
(* activation of the kernel:                                               *)
(*   bak       ssbak:spbak, the kernel's stack while a program runs;       *)
(*   ustk      ssuser/spuser, one entry per suspended program;             *)
(*   suserp    the top of ustk (the code counts bytes, the model entries); *)
(*   dsuser    the data segment of the program that entered last;          *)
(*   params    the buffer system call parameters are copied through.       *)
(* The kernel's stack itself is kmem.  It holds a frame for every farcall  *)
(* that has not returned and for every int 80h being served; an offset on  *)
(* it is the number of frames below it.  Nothing but SS:SP says where its  *)
(* top is, so a wrong spbak really overwrites or reads the wrong frame.    *)
(***************************************************************************)
EXTENDS Memory

CONSTANTS USER_STACKS,     \* entries of ssuser and spuser (10)
          KSTACK,          \* bound: frames the kernel's stack has room for
          StackOffsets,    \* offsets a program's SP can have at an int 80h
          STACK_TOP,       \* 0FFFEh, SP of a program that starts
          Words,           \* what the first word of a parameter buffer can be
          Data             \* a word that is none of the others

ASSUME SwitchAssumption ==
  /\ USER_STACKS \in Nat /\ USER_STACKS >= 2
  /\ KSTACK \in Nat /\ KSTACK >= 2
  /\ StackOffsets \subseteq Nat /\ STACK_TOP \in StackOffsets
  /\ Data \in Words

VARIABLES kmem,            \* the kernel's stack
          bak,             \* ssbak and spbak
          suserp,          \* suserp
          ustk,            \* ssuser and spuser
          dsuser,          \* dsuser
          params,          \* params
          umem,            \* user memory, by segment
          regs,            \* SS, SP and DS
          iflag            \* the interrupt flag

switchVars == <<kmem, bak, suserp, ustk, dsuser, params, umem, regs, iflag>>

FARCALL == "farcall"       \* frame of farcall and the run_program around it
INTR == "intr"             \* frame of intr and the dispatch it calls

(* A farcall frame keeps run_program's segment and pid and the flags; an   *)
(* intr frame keeps the program's data segment and dispatch's curr_pid.    *)
Frames == [kind : {FARCALL, INTR}, seg : Segs, pid : Nat, fl : {0, 1}]

(* Of a program's memory the model keeps its parameter buffer sysparam and *)
(* what the processor pushed on its stack last: where, and with which IF.  *)
UserMemory == [sysparam : Words, sp : StackOffsets, fl : {0, 1}]

SwitchTypeOK ==
  /\ kmem \in [1 .. KSTACK -> Frames]
  /\ bak \in [ss : Segs, sp : Nat]
  /\ suserp \in Nat
  /\ ustk \in [1 .. USER_STACKS - 1 -> [ss : Segs, sp : StackOffsets]]
  /\ dsuser \in Segs
  /\ params \in Words
  /\ umem \in [Segs -> UserMemory]
  /\ regs \in [ss : Segs, sp : Nat, ds : Segs]
  /\ iflag \in {0, 1}

(* The kernel's registers at its entry point, and its data as the boot     *)
(* loader leaves it.                                                       *)
KernelRegs == [ss |-> KERNEL_SEG, sp |-> 0, ds |-> KERNEL_SEG]
ImageBak == [ss |-> LOW_SEG, sp |-> 0]
ImageUstk == [i \in 1 .. USER_STACKS - 1 |-> [ss |-> LOW_SEG, sp |-> STACK_TOP]]
ImageKmem == [i \in 1 .. KSTACK |->
                [kind |-> INTR, seg |-> LOW_SEG, pid |-> 0, fl |-> 0]]
BlankMemory == [sysparam |-> Data, sp |-> STACK_TOP, fl |-> 0]

(* The boot loader reloads the image: kernel data is as assembled, user    *)
(* memory keeps its contents, interrupts are off (boot.asm's cli).         *)
LoadImage ==
  /\ kmem' = ImageKmem
  /\ bak' = ImageBak
  /\ suserp' = 0
  /\ ustk' = ImageUstk
  /\ dsuser' = LOW_SEG
  /\ params' = Data
  /\ umem' = umem
  /\ regs' = KernelRegs
  /\ iflag' = 0

-----------------------------------------------------------------------------
(* farcall: the flags and registers go to the kernel's stack, its top to   *)
(* ssbak:spbak, and the program starts on the top of its own segment.  Its *)
(* start-up code (utils/head.asm) loads DS from CS.                        *)
FarCall(seg, pid) ==
  /\ kmem' = [kmem EXCEPT ![regs.sp + 1] =
                [kind |-> FARCALL, seg |-> seg, pid |-> pid, fl |-> iflag]]
  /\ bak' = [ss |-> regs.ss, sp |-> regs.sp + 1]
  /\ regs' = [ss |-> seg, sp |-> STACK_TOP, ds |-> seg]
  /\ UNCHANGED <<suserp, ustk, dsuser, params, umem, iflag>>

(* The frame a program's far return finds on the kernel's stack. *)
ReturnFrame == kmem[bak.sp]

(* Mutant: interrupts are enabled instead of the flags restored. *)
FarReturnSti ==
  /\ regs' = [ss |-> bak.ss, sp |-> bak.sp - 1, ds |-> KERNEL_SEG]
  /\ iflag' = 1
  /\ umem' = [umem EXCEPT ![ReturnFrame.seg] = BlankMemory]
  /\ UNCHANGED <<kmem, bak, suserp, ustk, dsuser, params>>

(* farcall after the far return: the kernel's stack, registers and flags.  *)
(* The memory of a program that ended is not followed any further.         *)
FarReturn ==
  /\ regs' = [ss |-> bak.ss, sp |-> bak.sp - 1, ds |-> KERNEL_SEG]
  /\ iflag' = ReturnFrame.fl
  /\ umem' = [umem EXCEPT ![ReturnFrame.seg] = BlankMemory]
  /\ UNCHANGED <<kmem, bak, suserp, ustk, dsuser, params>>

(* int 80h from the running program with stack pointer sp and word w in    *)
(* its sysparam; pid is dispatch's curr_pid.  The processor pushes the     *)
(* flags on the program's stack and clears IF; intr copies the buffer,     *)
(* saves DS and SS:SP, moves to the kernel's stack and pushes dsuser.      *)
Intr(sp, w, pid) ==
  /\ umem' = [umem EXCEPT ![regs.ds].sysparam = w,
                          ![regs.ss].sp = sp, ![regs.ss].fl = iflag]
  /\ params' = w
  /\ dsuser' = regs.ds
  /\ suserp' = suserp + 1
  /\ ustk' = [ustk EXCEPT ![suserp + 1] = [ss |-> regs.ss, sp |-> sp]]
  /\ kmem' = [kmem EXCEPT ![bak.sp + 1] =
                [kind |-> INTR, seg |-> regs.ds, pid |-> pid, fl |-> 0]]
  /\ regs' = [ss |-> bak.ss, sp |-> bak.sp + 1, ds |-> KERNEL_SEG]
  /\ iflag' = 0
  /\ UNCHANGED bak

(* The frame dispatch returns to. *)
EntryFrame == kmem[regs.sp]

(* Mutant: suserp goes down two entries. *)
SysExitTwice ==
  /\ umem' = [umem EXCEPT ![EntryFrame.seg].sysparam = params]
  /\ bak' = [ss |-> regs.ss, sp |-> regs.sp - 1]
  /\ regs' = [ss |-> ustk[suserp].ss, sp |-> ustk[suserp].sp,
              ds |-> EntryFrame.seg]
  /\ suserp' = suserp - 2
  /\ iflag' = umem[ustk[suserp].ss].fl
  /\ UNCHANGED <<kmem, ustk, dsuser, params>>

(* Mutant: the kernel's stack top is not saved. *)
SysExitKeepsBak ==
  /\ umem' = [umem EXCEPT ![EntryFrame.seg].sysparam = params]
  /\ regs' = [ss |-> ustk[suserp].ss, sp |-> ustk[suserp].sp,
              ds |-> EntryFrame.seg]
  /\ suserp' = suserp - 1
  /\ iflag' = umem[ustk[suserp].ss].fl
  /\ UNCHANGED <<kmem, bak, ustk, dsuser, params>>

(* Mutant: the data segment comes from dsuser, not from the frame. *)
SysExitDsUser ==
  /\ umem' = [umem EXCEPT ![dsuser].sysparam = params]
  /\ bak' = [ss |-> regs.ss, sp |-> regs.sp - 1]
  /\ regs' = [ss |-> ustk[suserp].ss, sp |-> ustk[suserp].sp, ds |-> dsuser]
  /\ suserp' = suserp - 1
  /\ iflag' = umem[ustk[suserp].ss].fl
  /\ UNCHANGED <<kmem, ustk, dsuser, params>>

(* After dispatch: params goes back to the program the frame names (pop    *)
(* es), the kernel's stack top to ssbak:spbak, SS:SP comes from ustk.  The *)
(* iret that follows sti takes IF from the program's stack.                *)
SysExit ==
  /\ umem' = [umem EXCEPT ![EntryFrame.seg].sysparam = params]
  /\ bak' = [ss |-> regs.ss, sp |-> regs.sp - 1]
  /\ regs' = [ss |-> ustk[suserp].ss, sp |-> ustk[suserp].sp,
              ds |-> EntryFrame.seg]
  /\ suserp' = suserp - 1
  /\ iflag' = umem[ustk[suserp].ss].fl
  /\ UNCHANGED <<kmem, ustk, dsuser, params>>

(* dispatch stores a word into the parameter buffer. *)
StoreParam(w) ==
  /\ params' = w
  /\ UNCHANGED <<kmem, bak, suserp, ustk, dsuser, umem, regs, iflag>>

(* load_file_content overwrites a segment with a program's image.  Its     *)
(* sysparam is in .bss, past the image: nothing a program can rely on.     *)
LoadSegment(seg) ==
  /\ umem' = [umem EXCEPT ![seg] = BlankMemory]
  /\ UNCHANGED <<kmem, bak, suserp, ustk, dsuser, params, regs, iflag>>

=============================================================================
