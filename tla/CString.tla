------------------------------- MODULE CString -------------------------------
(***************************************************************************)
(* Character arrays and the string functions of lib/string.c, and the one  *)
(* place that depends on strncpy: extract_file_name of fs/msdos/fs.c,      *)
(* which makes C strings of the blank-padded name and extension of a       *)
(* directory entry.  strncpy copies one byte more than n, and the loop     *)
(* that is to pad a short string with zeros does not advance, so whether   *)
(* extract_file_name is right, stays in its arrays and returns at all      *)
(* depends on what lies in the entry.                                      *)
(*                                                                         *)
(* An array is a sequence; index k of the code is k + 1 here.  The entry   *)
(* is its first bytes: name, extension and the attributes behind them.     *)
(***************************************************************************)
EXTENDS Integers, Sequences, FiniteSetsExt

CONSTANTS NAME, EXT        \* bytes of the name and of the extension (8 and 3)

ASSUME CStringAssumption == NAME \in Nat \ {0} /\ EXT \in Nat \ {0}

NUL == "nul"
BLANK == " "
Bytes == {"a", BLANK, NUL}

(* strlen, and the text of a C string, in an array s that has a NUL. *)
Strlen(s) == Min({k \in 1 .. Len(s) : s[k] = NUL}) - 1

Text(s) == SubSeq(s, 1, Strlen(s))

VARIABLES entry,           \* the bytes of a directory entry
          filename, ext,   \* the caller's arrays, as far as written
          xst              \* which loop of extract_file_name runs

stringVars == <<entry, filename, ext, xst>>

StringTypeOK ==
  /\ entry \in [1 .. NAME + EXT + 1 -> Bytes]
  /\ filename \in Seq(Bytes) /\ ext \in Seq(Bytes)
  /\ xst \in {"rest", "name", "ext", "padding", "blanks", "done"}

StringRest ==
  /\ entry = [k \in 1 .. NAME + EXT + 1 |-> BLANK]
  /\ filename = <<>> /\ ext = <<>> /\ xst = "rest"

(* extract_file_name is called. *)
StringInit ==
  /\ entry \in [1 .. NAME + EXT + 1 -> Bytes]
  /\ filename = <<>> /\ ext = <<>> /\ xst = "name"

-----------------------------------------------------------------------------
(* Mutant: i <= n for i < n. *)
StrncpyGoesOnLong(c, i, n) == c # NUL /\ i <= n

(* The condition of strncpy's first loop, after byte i, which was c. *)
StrncpyGoesOn(c, i, n) == c # NUL /\ i < n

(* Mutant: dst[n] = '\0' is left out. *)
TerminateNot(s, n) == s

(* dst[n] = '\0' *)
Terminate(s, n) ==
  IF Len(s) > n THEN [s EXCEPT ![n + 1] = NUL] ELSE Append(s, NUL)

(* After i++: the loop that pads up to n never ends, as it leaves i alone. *)
MustPad(s, n) == Len(s) < n

(* A turn of strncpy's first loop for the name, and what follows the last. *)
NameTurn ==
  /\ xst = "name"
  /\ LET c == entry[Len(filename) + 1]
         copied == Append(filename, c)
     IN  IF StrncpyGoesOn(c, Len(filename), NAME)
         THEN filename' = copied /\ UNCHANGED xst
         ELSE IF MustPad(copied, NAME)
         THEN filename' = copied /\ xst' = "padding"
         ELSE filename' = Terminate(copied, NAME) /\ xst' = "ext"
  /\ UNCHANGED <<entry, ext>>

(* The same for the extension. *)
ExtTurn ==
  /\ xst = "ext"
  /\ LET c == entry[NAME + Len(ext) + 1]
         copied == Append(ext, c)
     IN  IF StrncpyGoesOn(c, Len(ext), EXT)
         THEN ext' = copied /\ UNCHANGED xst
         ELSE IF MustPad(copied, EXT)
         THEN ext' = copied /\ xst' = "padding"
         ELSE ext' = Terminate(copied, EXT) /\ xst' = "blanks"
  /\ UNCHANGED <<entry, filename>>

Unblank(s, n) ==
  [k \in DOMAIN s |-> IF k <= n /\ s[k] = BLANK THEN NUL ELSE s[k]]

(* The two loops that end the strings at the padding. *)
Blanks ==
  /\ xst = "blanks"
  /\ filename' = Unblank(filename, NAME) /\ ext' = Unblank(ext, EXT)
  /\ xst' = "done"
  /\ UNCHANGED entry

(* strncpy pads for ever. *)
PadForever == xst = "padding" /\ UNCHANGED stringVars

StringStep == NameTurn \/ ExtTurn \/ Blanks

-----------------------------------------------------------------------------
(* The bytes of a padded field before its padding. *)
Unpadded(s) ==
  LET ends == {k \in 1 .. Len(s) : s[k] \in {BLANK, NUL}}
  IN  IF ends = {} THEN s ELSE SubSeq(s, 1, Min(ends) - 1)

(* extract_file_name leaves name and extension without their padding, both *)
(* terminated, also when they fill their fields and strncpy has taken the  *)
(* byte behind along, be it the extension or the attributes.               *)
ExtractRight ==
  xst = "done" => /\ NUL \in {filename[k] : k \in DOMAIN filename}
                  /\ NUL \in {ext[k] : k \in DOMAIN ext}
                  /\ Text(filename) = Unpadded(SubSeq(entry, 1, NAME))
                  /\ Text(ext) = Unpadded(SubSeq(entry, NAME + 1, NAME + EXT))

(* No byte is written beyond filename[9] and ext[4] of the callers, of     *)
(* which strncpy's extra byte takes the last.                              *)
ExtractWithin == Len(filename) <= NAME + 1 /\ Len(ext) <= EXT + 1

(* A field as the format has it, padded with blanks, without zeros. *)
Padded == \A k \in 1 .. NAME + EXT : entry[k] # NUL
=============================================================================
