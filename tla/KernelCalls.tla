---------------------------- MODULE KernelCalls ----------------------------
(***************************************************************************)
(* Kernel implements ProgramCalls.  The abstract stack is read off the     *)
(* machine: the names from the process table, the memories from the        *)
(* segments the farcall frames name.  A program that closes or moves a     *)
(* descriptor open never answers may hit the process table, and leaves     *)
(* what is promised: until startk has init_processes clean up, the         *)
(* abstract machine is off.                                                *)
(***************************************************************************)
EXTENDS Kernel

On == Up /\ ~stray

CallPhase ==
  IF ~On THEN "off"
  ELSE CASE pc \in {"startk", "load", "exec"} -> "calling"
         [] pc \in {"release", "reply"} -> IF suserp = 0 THEN "calling" ELSE "answering"
         [] OTHER -> "running"

CallWord ==
  CASE CallPhase = "calling" -> (IF suserp = 0 THEN InitProgram ELSE params)
    [] CallPhase = "answering" -> run.ret
    [] OTHER -> Data

(* Once dispatch has returned, the parameter buffer is as good as in the   *)
(* caller's memory: sysexit copies it back before the caller runs.         *)
MemoryOf(i) ==
  IF pc = "sysexit" /\ i = Depth THEN params ELSE umem[SegOf(i)].sysparam

CallStack ==
  IF On THEN [i \in 1 .. Depth |-> [name |-> procs[i].name, mem |-> MemoryOf(i)]]
        ELSE << >>

Calls == INSTANCE ProgramCalls
           WITH Names <- ProcNames, None <- Data,
                stack <- CallStack, phase <- CallPhase, word <- CallWord

(* The kernel behaves as a stack of procedure calls: with one parameter    *)
(* buffer, one dsuser and one ssbak:spbak for all, a program that calls    *)
(* another finds its memory as it left it, but for the result of that very *)
(* call.  This holds from init_processes on until a program closes or      *)
(* moves a descriptor open never answered.                                 *)
CallsImplemented == Calls!Spec
=============================================================================
