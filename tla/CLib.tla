--------------------------------- MODULE CLib ---------------------------------
(***************************************************************************)
(* The library, used: a behaviour is a call of extract_file_name, of       *)
(* vfprintf or of a number conversion, for every input up to the bounds,   *)
(* or a program that makes system calls for ever.                          *)
(***************************************************************************)
EXTENDS CString, Stdio, UserCalls

vars == <<stringVars, stdioVars, callVars>>

TypeOK == StringTypeOK /\ StdioTypeOK /\ CallsTypeOK

Init ==
  \/ StringInit /\ PrintfRest /\ ItoaRest /\ CallsInit
  \/ StringRest /\ PrintfInit /\ ItoaRest /\ CallsInit
  \/ StringRest /\ PrintfRest /\ ItoaInit /\ CallsInit
  \/ StringRest /\ PrintfRest /\ ItoaRest /\ CallsInit

(* A step of the function that was called. *)
FunctionStep ==
  \/ StringStep /\ UNCHANGED <<stdioVars, callVars>>
  \/ PrintfStep /\ UNCHANGED <<stringVars, itoaVars, callVars>>
  \/ ItoaTurn /\ UNCHANGED <<stringVars, printfVars, callVars>>

Returned == "done" \in {xst, pst, nst}

(* The function has returned, or is in strncpy's endless loop. *)
Idle ==
  \/ PadForever /\ UNCHANGED <<stdioVars, callVars>>
  \/ Returned /\ UNCHANGED vars

ProgramStep ==
  /\ xst = "rest" /\ pst = "rest" /\ nst = "rest"
  /\ CallsStep
  /\ UNCHANGED <<stringVars, stdioVars>>

Next == FunctionStep \/ Idle \/ ProgramStep

Spec == Init /\ [][Next]_vars

(* The processor goes on with the function. *)
FairSpec == Spec /\ WF_vars(FunctionStep)

-----------------------------------------------------------------------------
(* Every function returns: vfprintf whatever its template, the conversions *)
(* whatever the number, and extract_file_name for every entry padded with  *)
(* blanks, although strncpy does not return if it has to pad with zeros.   *)
LibraryReturns ==
  "run" \in {pst, nst} \/ (xst = "name" /\ Padded) ~> Returned
=============================================================================
