------------------------------ MODULE KernelInv ------------------------------
(***************************************************************************)
(* The inductive invariant of Kernel.  Allocation is first fit and         *)
(* programs end in the reverse of the order in which they started, so      *)
(* everything is where its nesting depth says: program i runs in segment   *)
(* i + 1 and owns frames 2i - 1 and 2i of the kernel's stack and entry i   *)
(* of the saved user stacks.  None of that depends on the process table,   *)
(* which a stray close or lseek may change; without one, program i also    *)
(* has pid i.                                                              *)
(***************************************************************************)
EXTENDS Kernel

Serving == {"open", "close", "lseek", "waitkey", "readdisk", "other", "halt",
            "reboot", "reply", "sysexit"}

(* Only init, started by startk after its sti, runs with interrupts on. *)
FlagOf(i) == IF i = 1 THEN 1 ELSE 0

DepthInv ==
  /\ suserp \in 0 .. MaxNest
  /\ pc \in {"load", "exec", "release", "user"} => suserp < MaxNest
  /\ pc \in Serving => suserp >= 1
  /\ pc \in {"boot", "startk"} => suserp = 0

RegsInv ==
  /\ pc = "boot" => regs = KernelRegs
  /\ pc = "exec" => umem[suserp + 2].sp = STACK_TOP
  /\ pc = "user" => /\ bak = [ss |-> KERNEL_SEG, sp |-> 2 * suserp + 1]
                    /\ regs.ss = suserp + 2 /\ regs.ds = suserp + 2
                    /\ regs.sp = umem[suserp + 2].sp
  /\ (Up /\ pc # "user") =>
       regs = [ss |-> KERNEL_SEG, sp |-> 2 * suserp, ds |-> KERNEL_SEG]
  /\ Up => iflag = FlagOf(suserp + 1)

StartedInv ==
  Up => \A i \in 1 .. Depth :
          /\ kmem[2 * i - 1].kind = FARCALL /\ kmem[2 * i - 1].seg = i + 1
          /\ kmem[2 * i - 1].pid \in Slots /\ kmem[2 * i - 1].fl = FlagOf(i)

SuspendedInv ==
  Up => \A i \in 1 .. suserp :
          /\ kmem[2 * i].kind = INTR /\ kmem[2 * i].seg = i + 1
          /\ kmem[2 * i].pid \in Pids
          /\ ustk[i] = [ss |-> i + 1, sp |-> umem[i + 1].sp]
          /\ umem[i + 1].fl = FlagOf(i)

SegInv ==
  Up => IF pc \in {"exec", "release"}
        THEN run.seg = suserp + 2 /\ used = 0 .. suserp + 2
        ELSE used = 0 .. Depth + 1

RunInv == pc = "exec" => run.pid \in Slots

-----------------------------------------------------------------------------
(* Without a stray descriptor. *)
FrameInv ==
  Up => /\ \A i \in 1 .. Depth : kmem[2 * i - 1].pid = i
        /\ \A i \in 1 .. suserp : kmem[2 * i].pid = i

ProcInv ==
  Up => /\ \A i \in 1 .. Depth :
             /\ procs[i].pid = i /\ procs[i].cs = i + 1
             /\ procs[i].ppid \in {0, i - 1}
        /\ pc = "exec" => /\ run.pid = suserp + 1
                          /\ procs[run.pid].pid = run.pid
                          /\ procs[run.pid].cs = run.seg
                          /\ procs[run.pid].ppid \in {0, suserp}
        /\ pc # "startk" => \A i \in Slots :
             i > (IF pc = "exec" THEN suserp + 1 ELSE Depth) => procs[i].pid = 0
        /\ pc \notin {"startk", "release", "reply"} => running = Depth

StateInv ==
  Up => \A i \in 1 .. Depth : procs[i].state = RUNNING => i = running

AnsweredInv == pc \in {"close", "lseek"} => params \in Answers

KBase == /\ TypeOK /\ DepthInv /\ RegsInv /\ StartedInv /\ SuspendedInv
         /\ SegInv /\ RunInv

KProcs == FrameInv /\ ProcInv /\ StateInv /\ AnsweredInv

(* Segments, frames and saved stacks of the nested programs sit where the  *)
(* nesting depth says, and so do their pids unless a descriptor was stray; *)
(* the properties of Kernel follow.                                        *)
KInv == KBase /\ (~stray => KProcs)
=============================================================================
