------------------------------ MODULE MCKernel ------------------------------
(***************************************************************************)
(* Kernel on small instances.  Words is the set of everything that can be  *)
(* the first word of a parameter buffer.                                   *)
(***************************************************************************)
EXTENDS KernelCalls, KernelInv

CONSTANTS init, shell, typo, root, data

OneFile == {init}
TwoFiles == {init, shell}
OneName == OneFile \cup {typo}
TwoNames == TwoFiles \cup {typo}
FewFds == {-1, 5}
StrayFds == {-14, -2, -1, 5}
ZeroOrOne == {0, 1}
AllFds == Answers \cup StrayFds
MCWords == TwoNames \cup {root, data} \cup AllFds
=============================================================================
