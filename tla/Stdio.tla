-------------------------------- MODULE Stdio --------------------------------
(***************************************************************************)
(* Formatted output: vfprintf of lib/stdio.c with its %s and %d, and the   *)
(* number conversions itoa and ultoa of lib/stdlib.c and uitoa of          *)
(* kernel/kernio.c, which fill a static buffer from its end.               *)
(*                                                                         *)
(* A template is a sequence, its NUL one place behind.  What is printed is *)
(* a sequence of pairs: <<c, 0>> is the character c, <<"s", n>> the text   *)
(* of the n-th argument, <<"d", n>> its digits.                            *)
(***************************************************************************)
EXTENDS Integers, Sequences, SequencesExt, FiniteSets

CONSTANTS TEMPLATE,        \* bound: length of a template
          DIGITS,          \* digits a buffer is made for (5; 10 in ultoa)
          MaxNumber        \* bound: numbers converted, and their opposites

ASSUME StdioAssumption ==
  TEMPLATE \in Nat /\ DIGITS \in Nat \ {0} /\ MaxNumber \in Nat

Templates == BoundedSeq({"a", "%", "s", "d"}, TEMPLATE)

VARIABLES template,        \* what vfprintf is given
          pi,              \* its index i, from 1
          out,             \* what has been printed
          args,            \* arguments taken with va_arg
          pst,             \* "rest", "run", "done"
          val,             \* what a number conversion is given
          ival,            \* what is left of it
          text,            \* the characters in the buffer, p at the first
          nst

printfVars == <<template, pi, out, args, pst>>
itoaVars == <<val, ival, text, nst>>
stdioVars == <<printfVars, itoaVars>>

Output == {"a", "%", "s", "d"} \X (0 .. TEMPLATE)

MINUS == 10                \* the sign, among the digits

StdioTypeOK ==
  /\ template \in Templates /\ pi \in 1 .. TEMPLATE + 2
  /\ out \in Seq(Output) /\ args \in 0 .. TEMPLATE
  /\ val \in Int /\ ival \in Int
  /\ text \in Seq(0 .. MINUS)
  /\ pst \in {"rest", "run", "done"} /\ nst \in {"rest", "run", "done"}

PrintfRest == template = <<>> /\ pi = 1 /\ out = <<>> /\ args = 0 /\ pst = "rest"
ItoaRest == val = 0 /\ ival = 0 /\ text = <<>> /\ nst = "rest"

PrintfInit == template \in Templates /\ pi = 1 /\ out = <<>> /\ args = 0 /\ pst = "run"
ItoaInit == val \in -MaxNumber .. MaxNumber /\ ival = val /\ text = <<>> /\ nst = "run"

-----------------------------------------------------------------------------
At(k) == IF k = Len(template) + 1 THEN "nul" ELSE template[k]

(* template[i] is an ordinary character. *)
PrintChar ==
  /\ pst = "run" /\ At(pi) \notin {"nul", "%"}
  /\ out' = Append(out, <<At(pi), 0>>) /\ pi' = pi + 1
  /\ UNCHANGED <<template, args, pst>>

(* Mutant: after a conversion the index stays at its letter. *)
ConvertStays ==
  /\ pst = "run" /\ At(pi) = "%"
  /\ IF At(pi + 1) \in {"s", "d"}
     THEN out' = Append(out, <<At(pi + 1), args + 1>>) /\ args' = args + 1
     ELSE UNCHANGED <<out, args>>
  /\ pi' = pi + 1
  /\ UNCHANGED <<template, pst>>

(* Mutant: the index moves on from the NUL behind a last '%', too. *)
ConvertPastEnd ==
  /\ pst = "run" /\ At(pi) = "%"
  /\ IF At(pi + 1) \in {"s", "d"}
     THEN out' = Append(out, <<At(pi + 1), args + 1>>) /\ args' = args + 1
     ELSE UNCHANGED <<out, args>>
  /\ pi' = pi + 2
  /\ UNCHANGED <<template, pst>>

(* Mutant: the '%' of an unknown conversion is not passed over. *)
ConvertWaits ==
  /\ pst = "run" /\ At(pi) = "%"
  /\ IF At(pi + 1) \in {"s", "d"}
     THEN /\ out' = Append(out, <<At(pi + 1), args + 1>>)
          /\ args' = args + 1 /\ pi' = pi + 2
     ELSE UNCHANGED <<pi, out, args>>
  /\ UNCHANGED <<template, pst>>

(* A '%' and the switch on what follows.  An unknown letter takes no       *)
(* argument and is met again as an ordinary character, and a second '%'    *)
(* begins another conversion.                                              *)
Convert ==
  /\ pst = "run" /\ At(pi) = "%"
  /\ IF At(pi + 1) \in {"s", "d"}
     THEN /\ out' = Append(out, <<At(pi + 1), args + 1>>)
          /\ args' = args + 1 /\ pi' = pi + 2
     ELSE pi' = pi + 1 /\ UNCHANGED <<out, args>>
  /\ UNCHANGED <<template, pst>>

PrintEnd ==
  /\ pst = "run" /\ At(pi) = "nul"
  /\ pst' = "done"
  /\ UNCHANGED <<template, pi, out, args>>

PrintfStep == PrintChar \/ Convert \/ PrintEnd

(* C's remainder and quotient, which round towards 0. *)
Abs(n) == IF n < 0 THEN -n ELSE n
Rem(n) == IF n < 0 THEN -(Abs(n) % 10) ELSE n % 10
Quot(n) == IF n < 0 THEN -(Abs(n) \div 10) ELSE n \div 10

(* Mutant: '0' + i % 10 for negative numbers, too. *)
DigitPlus(n) == Rem(n)

(* '0' + i % 10, or '0' - i % 10 for a negative number. *)
Digit(n) == IF n >= 0 THEN Rem(n) ELSE -Rem(n)

(* Mutant: i > 0 for i != 0. *)
DigitsLeftPositive(n) == n > 0

(* The condition of the do loop. *)
DigitsLeft(n) == n # 0

(* A turn of the do loop, and the sign after the last.  The unsigned ones  *)
(* are given no negative numbers.                                          *)
ItoaTurn ==
  /\ nst = "run"
  /\ ival' = Quot(ival)
  /\ LET more == <<Digit(ival)>> \o text
     IN  IF DigitsLeft(ival') THEN text' = more /\ UNCHANGED nst
         ELSE text' = (IF val < 0 THEN <<MINUS>> \o more ELSE more) /\ nst' = "done"
  /\ UNCHANGED val

-----------------------------------------------------------------------------
(* Every '%' is followed by s or d. *)
Proper(t) ==
  \A k \in 1 .. Len(t) : t[k] = "%" => k < Len(t) /\ t[k + 1] \in {"s", "d"}

(* The places of a proper template, up to k, that are no conversion's      *)
(* letter, and the conversions.                                            *)
Places(t, k) == {j \in 1 .. k : ~(j > 1 /\ t[j - 1] = "%")}

Conversions(t, k) == {j \in 1 .. k : t[j] = "%"}

(* What is printed for place k: the character, or an argument.             *)
Printed(t, k) ==
  IF t[k] # "%" THEN <<t[k], 0>> ELSE <<t[k + 1], Cardinality(Conversions(t, k))>>

(* vfprintf prints a proper template with every conversion replaced by the *)
(* next argument, in their order.                                          *)
PrintfRight ==
  pst = "done" /\ Proper(template) =>
    /\ Len(out) = Cardinality(Places(template, Len(template)))
    /\ \A k \in Places(template, Len(template)) :
         out[Cardinality(Places(template, k))] = Printed(template, k)

(* vfprintf never reads behind the template's NUL, whatever the template:  *)
(* a last '%', which case '\0' is for, and "%%" included.                  *)
PrintfWithin == pi <= Len(template) + 1

(* The number of a sequence of digits, and the first one that has more     *)
(* than DIGITS.                                                            *)
ValueOf(digits) ==
  LET v[k \in 0 .. Len(digits)] == IF k = 0 THEN 0 ELSE 10 * v[k - 1] + digits[k]
  IN  v[Len(digits)]

TooLong ==
  LET p[k \in 0 .. DIGITS] == IF k = 0 THEN 1 ELSE 10 * p[k - 1]
  IN  p[DIGITS]

(* The digits of a finished conversion are the number's, with its sign and *)
(* without zeros in front; those of a number of DIGITS digits have stayed  *)
(* in the buffer of DIGITS + 2 bytes, whose last is the NUL.               *)
ItoaRight ==
  LET digits == IF val < 0 THEN SubSeq(text, 2, Len(text)) ELSE text
  IN  /\ nst = "done" =>
           /\ val < 0 => text[1] = MINUS
           /\ ValueOf(digits) = Abs(val)
           /\ digits[1] = 0 => val = 0
      /\ Abs(val) < TooLong => Len(text) <= DIGITS + 1
=============================================================================
