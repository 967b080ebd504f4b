-------------------------------- MODULE Shell --------------------------------
(***************************************************************************)
(* The shell, utils/shell.c, which init starts: it edits a line in buf,    *)
(* echoing to the screen, and executes it.  The screen is the BIOS's       *)
(* teletype: it knows nothing of buf, so that the line on the screen and   *)
(* the line in buf agree only by what the shell writes.                    *)
(*                                                                         *)
(* Words of the shell are short here.  A key without a character (a cursor *)
(* key) is 0 in AL: it ends the C string and shows as a blank.  Of the     *)
(* control characters the teletype obeys four: Enter and backspace, which  *)
(* the shell knows too, and bell (Ctrl-G) and line feed (Ctrl-J), which it *)
(* echoes and stores like letters.  '%' is not typed: "command not found"  *)
(* passes the line to printf as its template.                              *)
(***************************************************************************)
EXTENDS Clock, Sequences, FiniteSetsExt

CONSTANTS LINE,            \* bytes of buf (50); bound: no more are typed
          CCC              \* keys the command "ccc" reads (10)

ASSUME ShellAssumption == LINE \in Nat /\ LINE >= 3 /\ CCC \in 1 .. LINE - 1

NUL == "nul"
BACKSPACE == "bs"
ENTER == "enter"
BEL == "bel"
LF == "lf"
Letters == {"a", "b", "c"}
Controls == {BEL, LF}
Keys == Letters \cup Controls \cup {NUL, BACKSPACE, ENTER}

PROMPT == <<"#", " ">>

(* The commands of the shell itself. *)
Builtin == [syscall |-> <<"a", "b">>, aaa |-> <<"a", "a">>, bbb |-> <<"b", "b">>,
            ccc |-> <<"c", "c">>, halt |-> <<"b", "a">>, reboot |-> <<"b", "c">>,
            exit |-> <<"c", "a">>, date |-> <<"c", "b">>]

(* The programs on the disk: one with the name of a command, too. *)
Programs == {<<"a">>, <<"a", "c">>, <<"b", "b">>}

VARIABLES st,              \* where the shell is
          buf, i,          \* the line
          row, col,        \* the row of the screen with the cursor
          line,            \* the row as it was when Enter was pressed
          plain,           \* history: no bell or line feed in this line
          started,         \* programs run_program has started for it
          message          \* the name printed as not found, if any

shellVars == <<st, buf, i, row, col, line, plain, started, message>>
vars == <<clockVars, shellVars>>

States == {"prompt", "key", "execute", "ccc", "load", "run", "result", "date",
           "answered", "boot", "startk", "again", "init", "halted"}

TypeOK ==
  /\ ClockTypeOK
  /\ st \in States
  /\ buf \in [0 .. LINE - 1 -> Keys] /\ i \in 0 .. LINE
  /\ row \in Seq(Keys \cup {"#", " "}) /\ col \in 0 .. Len(row)
  /\ line \in Seq(Keys \cup {"#", " "}) /\ plain \in BOOLEAN
  /\ started \in SUBSET Programs
  /\ message \in Seq(Keys)

NoMessage == <<NUL>>

(* init has started the shell; its stack is as it was. *)
Init ==
  /\ ClockInit
  /\ st = "prompt"
  /\ buf = [k \in 0 .. LINE - 1 |-> "a"] /\ i = 0
  /\ row = <<>> /\ col = 0 /\ line = <<>> /\ plain = TRUE
  /\ started = {} /\ message = NoMessage

-----------------------------------------------------------------------------
(* The teletype: a character at the cursor, or the cursor one to the left, *)
(* back to the first column or straight down to the next row, which is     *)
(* still empty; a bell moves nothing.                                      *)
Tty(s, c) ==
  LET shownAs == IF c = NUL THEN " " ELSE c
  IN  IF c = ENTER THEN [s EXCEPT !.col = 0]
      ELSE IF c = BACKSPACE THEN [s EXCEPT !.col = IF @ = 0 THEN 0 ELSE @ - 1]
      ELSE IF c = BEL THEN s
      ELSE IF c = LF THEN [s EXCEPT !.row = [k \in 1 .. s.col |-> " "]]
      ELSE [col |-> s.col + 1,
            row |-> IF s.col = Len(s.row) THEN Append(s.row, shownAs)
                    ELSE [s.row EXCEPT ![s.col + 1] = shownAs]]

Screen == [row |-> row, col |-> col]

Show(s) == row' = s.row /\ col' = s.col

NewRow == row' = <<>> /\ col' = 0

(* The C string in buf. *)
Command ==
  LET len == Min({k \in 0 .. LINE - 1 : buf[k] = NUL})
  IN  [k \in 1 .. len |-> buf[k - 1]]

(* "\r\n# " and i = 0. *)
Prompt ==
  /\ st = "prompt"
  /\ row' = PROMPT /\ col' = Len(PROMPT)
  /\ i' = 0 /\ st' = "key"
  /\ line' = <<>> /\ plain' = TRUE /\ started' = {} /\ message' = NoMessage
  /\ UNCHANGED <<clockVars, buf>>

(* Mutant: the character is left on the screen. *)
EraseCursorOnly == Show(Tty(Screen, BACKSPACE))

(* The echo of a backspace: back, blank, back. *)
Erase == Show(Tty(Tty(Tty(Screen, BACKSPACE), " "), BACKSPACE))

(* Mutant: a backspace at the prompt is not ignored. *)
BackspaceAlways == TRUE

(* i == 0: "we are in the start of the prompt". *)
BackspaceTaken == i > 0

Backspace ==
  /\ st = "key"
  /\ IF BackspaceTaken THEN i' = i - 1 /\ Erase ELSE UNCHANGED <<i, row, col>>
  /\ UNCHANGED <<clockVars, st, buf, line, plain, started, message>>

(* Every key but Enter and backspace is echoed and stored as it is.        *)
(* Bound: buf has room for the NUL.                                        *)
Character(c) ==
  /\ st = "key" /\ i < LINE - 1
  /\ Show(Tty(Screen, c))
  /\ buf' = [buf EXCEPT ![i] = c] /\ i' = i + 1
  /\ plain' = (plain /\ c \notin Controls)
  /\ UNCHANGED <<clockVars, st, line, started, message>>

(* Mutant: buf[i] = '\0' is left out, but at the end of buf. *)
EndLineNot == buf' = [buf EXCEPT ![LINE - 1] = NUL]

(* buf[i] = '\0' *)
EndLine == buf' = [buf EXCEPT ![i] = NUL]

Enter ==
  /\ st = "key"
  /\ EndLine
  /\ line' = SubSeq(row, 1, col)
  /\ NewRow
  /\ st' = "execute"
  /\ UNCHANGED <<clockVars, i, plain, started, message>>

-----------------------------------------------------------------------------
(* The chain of strcmp; what is no command of the shell is a program.      *)
(* "syscall", "aaa" and "bbb" print something.                             *)
Execute ==
  /\ st = "execute"
  /\ LET c == Command
     IN  CASE c \in {Builtin.syscall, Builtin.aaa, Builtin.bbb} ->
                st' = "answered" /\ UNCHANGED <<i, clockVars>>
           [] c = Builtin.ccc -> st' = "ccc" /\ i' = 0 /\ UNCHANGED clockVars
           [] c = Builtin.halt -> st' = "halted" /\ UNCHANGED <<i, clockVars>>
           [] c = Builtin.reboot -> st' = "boot" /\ UNCHANGED <<i, clockVars>>
           [] c = Builtin.exit -> st' = "startk" /\ UNCHANGED <<i, clockVars>>
           [] c = Builtin.date -> st' = "date" /\ LookAtClock /\ UNCHANGED i
           [] OTHER -> st' = "load" /\ UNCHANGED <<i, clockVars>>
  /\ UNCHANGED <<buf, row, col, line, plain, started, message>>

(* "ccc": the keys go to buf and to the screen, control characters too,    *)
(* and are printed again.                                                  *)
CccKey(c) ==
  /\ st = "ccc" /\ i < CCC
  /\ Show(Tty(Screen, c))
  /\ buf' = [buf EXCEPT ![i] = c] /\ i' = i + 1
  /\ UNCHANGED <<clockVars, st, line, plain, started, message>>

CccEnd ==
  /\ st = "ccc" /\ i = CCC
  /\ buf' = [buf EXCEPT ![CCC] = NUL]
  /\ NewRow
  /\ st' = "answered"
  /\ UNCHANGED <<clockVars, i, line, plain, started, message>>

(* system(buf): run_program of the library and of the kernel. *)
LoadProgram ==
  /\ st = "load"
  /\ IF Command \in Programs
     THEN st' = "run" /\ started' = started \cup {Command}
     ELSE st' = "result" /\ UNCHANGED started
  /\ UNCHANGED <<clockVars, buf, i, row, col, line, plain, message>>

(* The program returns, if it does: run_program answers 0. *)
ProgramReturns ==
  /\ st = "run"
  /\ st' = "answered"
  /\ UNCHANGED <<clockVars, buf, i, row, col, line, plain, started, message>>

(* Mutant: the shell tries again. *)
NotFoundRetries ==
  /\ st = "result"
  /\ st' = "load"
  /\ UNCHANGED <<clockVars, buf, i, row, col, line, plain, started, message>>

(* run_program answers 1: the line and ": command not found". *)
NotFound ==
  /\ st = "result"
  /\ message' = Command
  /\ st' = "answered"
  /\ UNCHANGED <<clockVars, buf, i, row, col, line, plain, started>>

(* time(), service 15: the clock ticks between its two reads. *)
DateTicks == st = "date" /\ Tick /\ UNCHANGED shellVars

DateEnd ==
  /\ st = "date"
  /\ ShowTime
  /\ st' = "answered"
  /\ UNCHANGED <<buf, i, row, col, line, plain, started, message>>

(* The loop of the shell begins again. *)
NextPrompt ==
  /\ st = "answered"
  /\ NewRow
  /\ st' = "prompt"
  /\ now' = FIRST /\ date' = 0 /\ shown' = NOT_SHOWN
  /\ UNCHANGED <<buf, i, line, plain, started, message>>

-----------------------------------------------------------------------------
(* A step of the kernel or of init, on the way back to the shell. *)
GoTo(from, to) ==
  /\ st = from /\ st' = to
  /\ NewRow
  /\ UNCHANGED <<clockVars, buf, i, line, plain, started, message>>

(* "reboot": the machine boots, startk mounts drive B and enters its loop, *)
(* which "exit" returns to by way of init.                                 *)
BootAgain == GoTo("boot", "startk")

(* run_program("init") *)
LoadInit == GoTo("startk", "init")

(* Interrupts are on in startk's loop: when the drive fails there, the     *)
(* processor goes on with what lies in the buffers, init is not found, and *)
(* startk's loop comes to it again.                                        *)
InitUnread == GoTo("startk", "again")
StartkLoop == GoTo("again", "startk")

(* init's run_program("shell"). *)
InitRunsShell == GoTo("init", "prompt")

(* The drive fails while a system call or the boot reads it, with          *)
(* interrupts off: hlt is the end.                                         *)
DriveFails ==
  /\ st \in {"load", "boot", "init"} /\ st' = "halted"
  /\ UNCHANGED <<clockVars, buf, i, row, col, line, plain, started, message>>

(* halt(), or the drive's failure, has stopped the processor. *)
Halted == st = "halted" /\ UNCHANGED vars

-----------------------------------------------------------------------------
Key == Backspace \/ Enter \/ \E c \in Letters \cup Controls \cup {NUL} : Character(c)

ShellStep ==
  \/ Prompt \/ Execute \/ CccEnd \/ LoadProgram \/ NotFound \/ DateEnd
  \/ NextPrompt \/ BootAgain \/ LoadInit \/ StartkLoop \/ InitRunsShell

Next ==
  \/ ShellStep \/ Key \/ (\E c \in Keys : CccKey(c))
  \/ ProgramReturns \/ DateTicks \/ InitUnread \/ DriveFails \/ Halted

Spec == Init /\ [][Next]_vars

(* The shell, init and the kernel go on; keys and programs need not come,  *)
(* and the drive need not fail.                                            *)
FairSpec == Spec /\ WF_vars(ShellStep)

-----------------------------------------------------------------------------
(* While a line without bells and line feeds is edited the row on the      *)
(* screen is the prompt and what is in buf, with the cursor behind it and  *)
(* nothing to its right, whatever was typed and erased before.  A bell     *)
(* takes a byte of buf and no column, and a line feed leaves the row: from *)
(* then on the two differ, and a backspace may erase the prompt.           *)
EchoMatches ==
  st = "key" /\ plain =>
    /\ SubSeq(row, 1, col) =
         PROMPT \o [k \in 1 .. i |-> IF buf[k - 1] = NUL THEN " " ELSE buf[k - 1]]
    /\ \A k \in col + 1 .. Len(row) : row[k] = " "

(* The text on the screen behind the prompt, up to a blank. *)
Typed ==
  LET text == SubSeq(line, Len(PROMPT) + 1, Len(line))
      blanks == {k \in 1 .. Len(text) : text[k] = " "}
  IN  IF blanks = {} THEN text ELSE SubSeq(text, 1, Min(blanks) - 1)

(* What is executed is what stood on the screen when Enter was pressed,    *)
(* whatever longer lines buf held before: a program of just that name is   *)
(* started if there is one and the shell has no command of that name, and  *)
(* that name is reported as not found if there is neither.  Again for      *)
(* lines into which no bell or line feed was typed: those are in buf, and  *)
(* not on the screen.                                                      *)
CommandIsLine ==
  st = "answered" /\ plain =>
    LET own == Typed \in {Builtin[c] : c \in DOMAIN Builtin}
    IN  /\ started = IF own THEN {} ELSE Programs \cap {Typed}
        /\ message = IF own \/ Typed \in Programs THEN NoMessage ELSE Typed

(* Once Enter is pressed the shell comes back to its prompt, by way of     *)
(* startk and init if it was left, unless it waits for a program or for    *)
(* the keys of "ccc", or the processor has stopped: told to halt, or       *)
(* because the drive failed inside a system call or the boot.  startk's    *)
(* loop alone outlives a failing drive, and goes on as long as it fails.   *)
PromptComesBack ==
  \/ []<><<InitUnread>>_vars
  \/ st = "execute" ~> st \in {"key", "run", "ccc", "halted"}
=============================================================================
