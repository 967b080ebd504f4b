---------------------------- MODULE ProgramCalls ----------------------------
(***************************************************************************)
(* What RML promises its programs (README.md, "Version 0.1", "Detailed":   *)
(* "it supports multiple application calls", "all of this by calling       *)
(* system call run_program"): running a program is a procedure call.       *)
(* Programs form a stack; only the top one computes; calling a name on the *)
(* disk puts that program on top, and the caller finds the call's result - *)
(* 0 after the program returned, 1 if there is no such program - in its    *)
(* own memory, which nobody else has touched.  When the bottom program,    *)
(* init, returns, it is started again.  No segment, process table, stack   *)
(* switch or shared buffer appears here.                                   *)
(***************************************************************************)
EXTENDS Naturals, Sequences

CONSTANTS Names,           \* names programs can ask for
          Files,           \* names of programs on the disk
          InitProgram,     \* the program that is started at the bottom
          Words,           \* what a program's memory can hold
          None

VARIABLES stack,           \* the programs, each with its name and its memory
          phase,           \* "off", "running", "calling" or "answering"
          word             \* the name called, or the answer on its way back

vars == <<stack, phase, word>>

Top == Len(stack)

Init == stack = << >> /\ phase = "off" /\ word = None

PowerOn ==
  /\ phase = "off"
  /\ phase' = "calling" /\ word' = InitProgram
  /\ UNCHANGED stack

(* The top program changes its own memory, by itself or by a service. *)
Compute ==
  /\ phase = "running"
  /\ \E w \in Words : stack' = [stack EXCEPT ![Top].mem = w]
  /\ UNCHANGED <<phase, word>>

(* The top program calls program n. *)
Call ==
  /\ phase = "running"
  /\ \E n \in Names : /\ stack' = [stack EXCEPT ![Top].mem = n]
                      /\ word' = n
  /\ phase' = "calling"

(* A program that exists is started on top of its caller. *)
Start ==
  /\ phase = "calling" /\ word \in Files
  /\ stack' = Append(stack, [name |-> word, mem |-> None])
  /\ phase' = "running" /\ word' = None

(* One that does not is answered with 1. *)
Fail ==
  /\ phase = "calling" /\ word \notin Files
  /\ phase' = "answering" /\ word' = 1
  /\ UNCHANGED stack

(* The top program returns to its caller, or to be started again. *)
Finish ==
  /\ phase = "running"
  /\ stack' = SubSeq(stack, 1, Top - 1)
  /\ IF Top > 1 THEN phase' = "answering" /\ word' = 0
                ELSE phase' = "calling" /\ word' = InitProgram

(* The answer reaches the caller's memory. *)
Deliver ==
  /\ phase = "answering"
  /\ stack' = [stack EXCEPT ![Top].mem = word]
  /\ phase' = "running" /\ word' = None

(* The machine stops or is reset, or a program has written over the        *)
(* process table: nothing is promised until PowerOn.                       *)
PowerOff == stack' = << >> /\ phase' = "off" /\ word' = None

Next == PowerOn \/ Compute \/ Call \/ Start \/ Fail \/ Finish \/ Deliver \/ PowerOff

Spec == Init /\ [][Next]_vars
=============================================================================
