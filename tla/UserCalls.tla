------------------------------ MODULE UserCalls ------------------------------
(***************************************************************************)
(* The system call library of a program, arch/8088/kernel/io.c.  Every     *)
(* call goes through the one buffer sysparam, of which the kernel gets a   *)
(* copy and which it copies back (ContextSwitch): 512 bytes of data, then  *)
(* size, fd and offset.  list_root_files' number of files lies where size  *)
(* does.  A call writes what it passes and leaves the rest of the buffer   *)
(* to what earlier calls left there; myopen leaves the path unterminated.  *)
(*                                                                         *)
(* sysparam is zero when the program starts: it lies behind the image, in  *)
(* the rest of the last cluster that is loaded with it.  Of the metadata   *)
(* the model keeps fd, which carries myopen's answer; size and offset are  *)
(* set by the calls that pass them.                                        *)
(***************************************************************************)
EXTENDS Integers, Sequences, FiniteSetsExt

CONSTANTS DATA             \* bytes of data (512)

ASSUME UserCallsAssumption == DATA \in Nat /\ DATA >= 3

ZERO == "0"
Letters == {"a", "/"}

Cells == 1 .. DATA

(* What calls pass and bring, shorter than the buffer. *)
Texts == UNION {[1 .. n -> Letters \cup {ZERO}] : n \in 0 .. DATA - 1}

(* The paths open knows, "/" and "/dev/fdb" (shortened), and another. *)
RootPath == <<"/">>
DrivePath == <<"/", "a">>
Paths == {RootPath, DrivePath, <<"a">>}

VARIABLES data,            \* sysparam.data
          fd,              \* sysparam.metadata.fd
          path, opened,    \* the last path given to myopen and its answer
          filled,          \* bytes of data any call has filled so far
          before           \* filled, when the last myopen was made

callVars == <<data, fd, path, opened, filled, before>>

Fds == {-1, 0, 1, 4, 5}

CallsTypeOK ==
  /\ data \in [Cells -> Letters \cup {ZERO}]
  /\ fd \in Fds
  /\ path \in Paths \cup {<<>>} /\ opened \in Fds
  /\ filled \in 0 .. DATA /\ before \in 0 .. DATA

(* A program begins.  That sysparam is zero is an assumption about the     *)
(* build: it is uninitialised data, which nothing in the code clears.      *)
CallsInit ==
  /\ data = [k \in Cells |-> ZERO]
  /\ fd = 0
  /\ path = <<>> /\ opened = -1 /\ filled = 0 /\ before = 0

-----------------------------------------------------------------------------
(* memcpy of a text to the start of the data. *)
Filled(d, t) == [k \in Cells |-> IF k <= Len(t) THEN t[k] ELSE d[k]]

(* The C string at the start of the data. *)
String(d) ==
  LET ends == {k \in Cells : d[k] = ZERO}
  IN  [k \in 1 .. (IF ends = {} THEN DATA ELSE Min(ends) - 1) |-> d[k]]

(* open of kernel/kernio.c. *)
OpenAnswer(s) ==
  CASE s = RootPath -> 5 [] s = DrivePath -> 4 [] OTHER -> -1

(* Mutant: the last byte of the path is not copied. *)
OpenDataShort(p) == Filled(data, SubSeq(p, 1, Len(p) - 1))

(* memcpy of strlen(pathname) bytes: without the terminator. *)
OpenData(p) == Filled(data, p)

Myopen(p) ==
  /\ data' = OpenData(p)
  /\ fd' = OpenAnswer(String(data'))
  /\ opened' = fd'
  /\ path' = p /\ before' = filled
  /\ filled' = IF Len(p) > filled THEN Len(p) ELSE filled

(* myclose, and mylseek. *)
PassFd(f) ==
  /\ fd' = f
  /\ UNCHANGED <<data, path, opened, filled, before>>

(* A call that passes or brings text t.  The last open is forgotten. *)
Carry(t, f) ==
  /\ data' = Filled(data, t) /\ fd' = f
  /\ filled' = IF Len(t) > filled THEN Len(t) ELSE filled
  /\ path' = <<>> /\ opened' = -1 /\ before' = 0

(* myread: the kernel puts the keys or bytes into the data. *)
Myread(f, t) == Carry(t, f)

Mywrite(t) == Carry(t, 1)

(* run_program copies all of SYSCALL_BUF_SIZE bytes, whatever follows the  *)
(* name, over data and metadata; the kernel leaves the name in upper case  *)
(* with the result over its beginning.                                     *)
RunProgram(t, f) == Carry(t, f)

(* list_root_files: myopen, printf of its answer with mywrite, by one byte *)
(* or two, and service 9, whose entries come over that.                    *)
ListRootFiles(t) == Carry(t, 1)

CallsStep ==
  \/ \E p \in Paths : Myopen(p)
  \/ \E f \in Fds : PassFd(f)
  \/ \E f \in {0, 4, 5}, t \in Texts : Myread(f, t)
  \/ \E t \in Texts : Mywrite(t)
  \/ \E t \in [Cells -> Letters \cup {ZERO}], f \in Fds : RunProgram(t, f)
  \/ \E t \in Texts : Len(t) >= 1 /\ ListRootFiles(t)

-----------------------------------------------------------------------------
(* myopen opens the path it is given, although it does not terminate it in *)
(* the buffer, as long as no call of the program before has filled more of *)
(* the buffer than the path needs (as in ls, where it is the first call).  *)
OpenRight == path # <<>> /\ before <= Len(path) => opened = OpenAnswer(path)
=============================================================================
