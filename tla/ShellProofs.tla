----------------------------- MODULE ShellProofs -----------------------------
(***************************************************************************)
(* Proofs about the shell and the clock, for every length of the line and  *)
(* of a day: as long as neither bell nor line feed is typed into a line,   *)
(* the screen shows what is in buf, and what is executed is what was       *)
(* shown; whatever is typed, buf is long enough and the time printed is    *)
(* never ahead.                                                            *)
(*                                                                         *)
(* None of these is inductive.  What the screen shows rests on where the   *)
(* cursor is and on the blanks behind it; what is executed, on the command *)
(* being the line from Enter up to the answer, although "ccc" writes over  *)
(* buf; the time, on the date having been read before it.  A prompt begins *)
(* a plain line again, so that these parts of the invariant come back.     *)
(***************************************************************************)
EXTENDS Shell, Induction, SequenceTheorems, TLAPS

LEMMA ClockNumbers ==
  /\ DAY \in Nat /\ 1 <= DAY /\ DAY <= 100 /\ FIRST \in Nat /\ LAST \in Nat
  /\ FIRST <= LAST
BY ClockAssumption

LEMMA LineNumbers == LINE \in Nat /\ LINE >= 3 /\ CCC \in Nat /\ CCC >= 1 /\ CCC <= LINE - 1
BY ShellAssumption

-----------------------------------------------------------------------------
(* The BIOS's two digits to a byte are decoded to the number they stand    *)
(* for, for every number of two digits.                                    *)
LEMMA BcdDigits ==
  ASSUME NEW n \in 0 .. 99
  PROVE  /\ Bcd(n) \div 16 = n \div 10 /\ Bcd(n) % 16 = n % 10
         /\ 10 * (n \div 10) + (n % 10) = n
         /\ n \div 10 \in Nat /\ n % 10 \in Nat
BY DEF Bcd

(* And so are the century and the year. *)
LEMMA CenturyAndYear ==
  ASSUME NEW c \in 0 .. 99, NEW y \in 0 .. 99
  PROVE  FromCentury(Bcd(c), Bcd(y)) = 100 * c + y
<1> DEFINE b == Bcd(c)
           e == Bcd(y)
<1>1. /\ b \div 16 = c \div 10 /\ b % 16 = c % 10
      /\ e \div 16 = y \div 10 /\ e % 16 = y % 10
      /\ b \in Nat /\ e \in Nat
  BY BcdDigits DEF Bcd
<1> HIDE DEF b, e
<1>2. 10 * (c \div 10) + (c % 10) = c /\ 10 * (y \div 10) + (y % 10) = y
  OBVIOUS
<1>3. FromCentury(b, e) = 100 * c + y
  BY <1>1, <1>2 DEF FromCentury
<1>4. QED
  BY <1>3 DEF b, e

(* A moment is its date and its time of day. *)
LEMMA Moments ==
  ASSUME NEW t \in Nat
  PROVE  /\ t \div DAY \in Nat /\ t % DAY \in 0 .. DAY - 1
         /\ t = (t \div DAY) * DAY + (t % DAY)
BY ClockNumbers, Z3

LEMMA Days ==
  ASSUME NEW a \in Int, NEW b \in Int
  PROVE  /\ a * DAY \in Int /\ (a - b) * DAY = a * DAY - b * DAY
         /\ a <= b => a * DAY <= b * DAY
         /\ b <= a => b * DAY <= a * DAY
         /\ (a * DAY) % DAY = 0
<1>1. a * DAY \in Int /\ (a - b) * DAY = a * DAY - b * DAY
  BY ClockNumbers
<1>2. a <= b => a * DAY <= b * DAY
  BY ClockNumbers
<1>3. b <= a => b * DAY <= a * DAY
  BY ClockNumbers
<1>4. (a * DAY) % DAY = 0
  BY ClockNumbers, Z3
<1>5. QED
  BY <1>1, <1>2, <1>3, <1>4

(* The date and the time of day of a moment. *)
DayOf(t) == t \div DAY
TimeOf(t) == t % DAY
Dates == 0 .. 9999

(* A date is what its century and its year in it say. *)
LEMMA DateDigits ==
  ASSUME NEW d \in Dates
  PROVE  FromCentury(Bcd(d \div 100), Bcd(d % 100)) = d
<1> DEFINE c == d \div 100
           y == d % 100
<1>1. c \in 0 .. 99 /\ y \in 0 .. 99 /\ 100 * c + y = d
  BY DEF Dates
<1> HIDE DEF c, y
<1>2. FromCentury(Bcd(c), Bcd(y)) = 100 * c + y
  BY <1>1, CenturyAndYear, Zenon
<1>3. FromCentury(Bcd(c), Bcd(y)) = d
  BY <1>1, <1>2, Zenon
<1>4. QED
  BY <1>3 DEF c, y

(* The moments' dates are dates. *)
LEMMA DateInRange ==
  ASSUME NEW t \in FIRST .. LAST, NEW d \in Nat, NEW r \in 0 .. DAY - 1, t = d * DAY + r
  PROVE  d \in Dates
<1>1. /\ d * DAY \in Int /\ 10000 * DAY \in Int
      /\ 10000 <= d => 10000 * DAY <= d * DAY
  <2>1. d \in Int /\ 10000 \in Int
    OBVIOUS
  <2>2. \A a, b \in Int : a * DAY \in Int /\ (a <= b => a * DAY <= b * DAY)
    BY Days, Zenon
  <2>3. QED
    BY <2>1, <2>2
<1>2. d * DAY < 10000 * DAY
  BY <1>1, ClockAssumption
<1>3. d < 10000
  BY <1>1, <1>2
<1>4. QED
  BY <1>3 DEF Dates

(* The clock is read right: the date and the time of day of the moment. *)
LEMMA ClockIsRead ==
  ASSUME NEW t \in FIRST .. LAST
  PROVE  ReadDate(t) = DayOf(t) /\ ReadTime(t) = TimeOf(t) /\ DayOf(t) \in Dates
<1>1. t \in Nat
  BY ClockAssumption
<1>2. /\ t \div DAY \in Nat /\ t % DAY \in 0 .. DAY - 1
      /\ t = (t \div DAY) * DAY + (t % DAY)
  BY <1>1, Moments, Zenon
<1>3. t \div DAY \in Dates
  BY <1>2, DateInRange, Zenon
<1>4. ReadDate(t) = t \div DAY
  BY <1>3, DateDigits, Zenon DEF ReadDate
<1>5. ReadTime(t) = t % DAY
  <2>1. t % DAY \in 0 .. 99
    BY <1>2, ClockNumbers
  <2>2. QED
    BY <2>1, BcdDigits DEF ReadTime, FromBcd
<1>6. DayOf(t) \in Dates
  BY <1>3, Zenon DEF DayOf
<1>7. ReadDate(t) = DayOf(t)
  BY <1>4, Zenon DEF DayOf
<1>8. ReadTime(t) = TimeOf(t)
  BY <1>5, Zenon DEF TimeOf
<1>9. QED
  BY <1>6, <1>7, <1>8, Zenon

(* Looking at the clock, the date read is that of the moment. *)
LEMMA LookReads ==
  ASSUME LookAtClock
  PROVE  /\ now' \in FIRST .. LAST /\ date' \in Dates /\ shown' = NOT_SHOWN
         /\ date' <= DayOf(now')
<1>1. PICK t \in FIRST .. LAST : now' = t /\ date' = ReadDate(t) /\ shown' = NOT_SHOWN
  BY DEF LookAtClock
<1>2. ReadDate(t) = DayOf(t) /\ DayOf(t) \in Dates
  BY <1>1, ClockIsRead
<1>3. \A d \in Dates : d <= d
  BY DEF Dates
<1>4. date' = DayOf(t) /\ DayOf(now') = DayOf(t) /\ DayOf(t) <= DayOf(t)
  BY <1>1, <1>2, <1>3, Zenon
<1>5. QED
  BY <1>1, <1>2, <1>4, Zenon

(* A date that was right stays behind or right when the clock goes on. *)
LEMMA DateStaysBehind ==
  ASSUME NEW m \in Nat, NEW d \in Nat, d <= DayOf(m) PROVE d <= DayOf(m + 1)
<1> DEFINE q == m \div DAY
           p == (m + 1) \div DAY
           r == m % DAY
           s == (m + 1) % DAY
<1>1. q \in Nat /\ p \in Nat /\ r \in 0 .. DAY - 1 /\ s \in 0 .. DAY - 1
      /\ m = q * DAY + r /\ m + 1 = p * DAY + s
  BY Moments
<1> HIDE DEF q, p, r, s
<1>2. q * DAY \in Int /\ p * DAY \in Int
  BY <1>1, Days
<1>3. p + 1 <= q => (p + 1) * DAY <= q * DAY
  BY <1>1, Days
<1>4. (p + 1) * DAY = p * DAY + DAY
  BY <1>1, ClockNumbers
<1>5. q <= p
  BY <1>1, <1>2, <1>3, <1>4, ClockNumbers
<1>6. d <= p
  BY <1>1, <1>5 DEF q, DayOf
<1>7. QED
  BY <1>6 DEF p, DayOf

(* The time of now with a date that is not later is not in the future, and *)
(* right in all but the date.                                              *)
LEMMA ShownIsBehind ==
  ASSUME NEW m \in Nat, NEW d \in Nat, d <= DayOf(m), NEW s, s = d * DAY + TimeOf(m)
  PROVE  s \in Nat /\ s <= m /\ (m - s) % DAY = 0 /\ (d = DayOf(m) => s = m)
<1> DEFINE q == m \div DAY
           r == m % DAY
<1>1. q \in Nat /\ r \in Nat /\ m = q * DAY + r /\ d <= q /\ s = d * DAY + r
  <2>1. m % DAY \in 0 .. DAY - 1
    BY Moments
  <2>2. m % DAY \in Nat
    BY <2>1
  <2>3. m \div DAY \in Nat /\ m = (m \div DAY) * DAY + (m % DAY)
    BY Moments
  <2>4. QED
    BY <2>2, <2>3 DEF DayOf, TimeOf
<1> HIDE DEF q, r
<1>2. /\ q * DAY \in Int /\ d * DAY \in Int /\ d * DAY <= q * DAY
      /\ (q - d) * DAY = q * DAY - d * DAY
  BY <1>1, Days
<1>3. d * DAY \in Nat
  BY <1>2, ClockNumbers
<1>4. s \in Nat /\ s <= m /\ m - s = (q - d) * DAY
  BY <1>1, <1>2, <1>3
<1>5. ((q - d) * DAY) % DAY = 0
  BY <1>1, Days
<1>6. (m - s) % DAY = 0
  BY <1>4, <1>5, Zenon
<1>7. d = q => s = m
  BY <1>1
<1>8. QED
  BY <1>4, <1>6, <1>7 DEF q, DayOf

LEMMA ClockTypeStays == ASSUME ClockTypeOK, UNCHANGED clockVars PROVE ClockTypeOK'
BY ClockNumbers DEF ClockTypeOK, clockVars

-----------------------------------------------------------------------------
(* The time printed belongs to an answer; a date read is not later than    *)
(* the clock.                                                              *)
ClockInv ==
  /\ st # "answered" => shown = NOT_SHOWN
  /\ st = "date" => date <= DayOf(now)
  /\ NeverAhead

(* There is room in buf, and a NUL behind what is executed, whatever was   *)
(* typed.                                                                  *)
KeyInv ==
  /\ st = "key" => i <= LINE - 1
  /\ st \in {"execute", "load", "result"} => \E k \in 0 .. LINE - 1 : buf[k] = NUL

Base == TypeOK /\ ClockInv /\ KeyInv

(* While a plain line is edited the cursor is behind it, and behind that   *)
(* there are blanks.                                                       *)
EchoInv ==
  st = "key" =>
    /\ i <= LINE - 1 /\ col = i + 2 /\ col <= Len(row)
    /\ row[1] = "#" /\ row[2] = " "
    /\ \A k \in 0 .. i - 1 : /\ buf[k] \in Letters \cup {NUL}
                             /\ row[k + 3] = IF buf[k] = NUL THEN " " ELSE buf[k]
    /\ \A k \in col + 1 .. Len(row) : row[k] = " "

(* The line on the screen names a command of the shell. *)
Own == Typed \in {Builtin[c] : c \in DOMAIN Builtin}

(* From Enter on the command in buf is the line on the screen, if plain. *)
LineInv ==
  /\ st \in {"execute", "load", "result"} => Command = Typed
  /\ st \in {"ccc", "date"} => Own
  /\ st \in {"load", "run", "result"} => ~Own
  /\ st = "run" => Typed \in Programs /\ started = {Typed}
  /\ st = "result" => Typed \notin Programs
  /\ st \in {"key", "execute", "ccc", "date", "load", "result"} => started = {}
  /\ st \in {"key", "execute", "ccc", "date", "load", "result", "run"} =>
       message = NoMessage

Lines == EchoInv /\ LineInv /\ CommandIsLine

ShellInv == Base /\ (plain => Lines)

LEMMA InitShell == Init => ShellInv
<1> SUFFICES ASSUME Init PROVE ShellInv
  OBVIOUS
<1>1. TypeOK
  <2>1. <<>> \in Seq(Keys \cup {"#", " "}) /\ NoMessage \in Seq(Keys)
    BY DEF NoMessage, Keys
  <2>2. buf \in [0 .. LINE - 1 -> Keys]
    BY DEF Init, Keys, Letters
  <2>3. plain \in BOOLEAN
    BY DEF Init
  <2>4. QED
    BY <2>1, <2>2, <2>3, ClockNumbers, LineNumbers
    DEF Init, ClockInit, TypeOK, ClockTypeOK, States, NOT_SHOWN
<1>2. ClockInv /\ KeyInv /\ Lines
  BY DEF Init, ClockInit, ClockInv, KeyInv, Lines, EchoInv, LineInv, CommandIsLine, NeverAhead
<1>3. QED
  BY <1>1, <1>2 DEF ShellInv, Base

-----------------------------------------------------------------------------
Glyphs == Keys \cup {"#", " "}

(* What may be put into it. *)
Puttable == Letters \cup {NUL, " "}

(* What may be sent to the teletype. *)
Sent == Keys \cup {" "}

(* How it shows. *)
ShownAs(k) == IF k = NUL THEN " " ELSE k

(* Row q is row r with k at the cursor, which was at column c. *)
Put(q, r, c, k) ==
  /\ q \in Seq(Glyphs)
  /\ Len(q) = IF c = Len(r) THEN c + 1 ELSE Len(r)
  /\ q[c + 1] = ShownAs(k)
  /\ \A j \in 1 .. Len(r) : j # c + 1 => q[j] = r[j]

(* What the teletype does with a row. *)
LEMMA TtyPuts ==
  ASSUME NEW r \in Seq(Glyphs), NEW c \in 0 .. Len(r), NEW k \in Puttable
  PROVE  \E q : Put(q, r, c, k) /\ Tty([row |-> r, col |-> c], k) = [row |-> q, col |-> c + 1]
<1> DEFINE g == ShownAs(k)
           q == IF c = Len(r) THEN Append(r, g) ELSE [r EXCEPT ![c + 1] = g]
<1>1. g \in Glyphs /\ k # ENTER /\ k # BACKSPACE /\ k # BEL /\ k # LF
  BY DEF Puttable, ShownAs, Glyphs, Keys, Letters, NUL, ENTER, BACKSPACE, BEL, LF
<1>2. Put(q, r, c, k)
  <2> HIDE DEF g
  <2>0. Len(r) \in Nat
    OBVIOUS
  <2>1. Len(r) \in Nat /\ c \in Nat /\ c <= Len(r)
    BY <2>0
  <2>2. CASE c = Len(r)
    <3>1. q = Append(r, g)
      BY <2>2
    <3>2. q \in Seq(Glyphs) /\ Len(q) = Len(r) + 1 /\ q[Len(r) + 1] = g
          /\ \A j \in 1 .. Len(r) : q[j] = r[j]
      BY <1>1, <2>1, <3>1
    <3>3. QED
      BY <2>2, <3>2 DEF Put, g
  <2>3. CASE c # Len(r)
    <3>1. c + 1 \in 1 .. Len(r)
      BY <2>1, <2>3
    <3>2. q = [r EXCEPT ![c + 1] = g]
      BY <2>3
    <3>3. q \in Seq(Glyphs) /\ Len(q) = Len(r)
      BY <1>1, <3>1, <3>2
    <3>4. q[c + 1] = g /\ \A j \in 1 .. Len(r) : j # c + 1 => q[j] = r[j]
      BY <3>1, <3>2
    <3>5. QED
      BY <2>3, <3>3, <3>4 DEF Put, g
  <2>4. QED
    BY <2>2, <2>3
<1>3. Tty([row |-> r, col |-> c], k) = [row |-> q, col |-> c + 1]
  BY <1>1 DEF Tty, ShownAs
<1>4. QED
  BY <1>2, <1>3

LEMMA TtyGoesBack ==
  ASSUME NEW r, NEW c
  PROVE  /\ Tty([row |-> r, col |-> c], BACKSPACE)
              = [row |-> r, col |-> IF c = 0 THEN 0 ELSE c - 1]
         /\ Tty([row |-> r, col |-> c], ENTER) = [row |-> r, col |-> 0]
BY DEF Tty, BACKSPACE, ENTER

LEMMA Blanks ==
  ASSUME NEW n \in Nat, NEW G, NEW g \in G
  PROVE  [j \in 1 .. n |-> g] \in Seq(G) /\ Len([j \in 1 .. n |-> g]) = n
<1> DEFINE q == [j \in 1 .. n |-> g]
<1>1. q \in [1 .. n -> G]
  OBVIOUS
<1> HIDE DEF q
<1>2. q \in Seq(G) /\ Len(q) = n
  BY <1>1
<1>3. QED
  BY <1>2 DEF q

(* Whatever is sent to it, the cursor stays at or right behind the row. *)
LEMMA TtyTypes ==
  ASSUME NEW r \in Seq(Glyphs), NEW c \in 0 .. Len(r), NEW k \in Sent
  PROVE  \E q \in Seq(Glyphs) : \E d \in 0 .. Len(q) :
           Tty([row |-> r, col |-> c], k) = [row |-> q, col |-> d]
<1>0. Len(r) \in Nat /\ c \in Nat /\ c <= Len(r)
  <2>1. Len(r) \in Nat
    OBVIOUS
  <2>2. QED
    BY <2>1
<1>1. CASE k \in Puttable
  <2>1. PICK q : Put(q, r, c, k) /\ Tty([row |-> r, col |-> c], k) = [row |-> q, col |-> c + 1]
    BY <1>1, TtyPuts
  <2>2. q \in Seq(Glyphs) /\ Len(q) = IF c = Len(r) THEN c + 1 ELSE Len(r)
    BY <2>1 DEF Put
  <2>3. c + 1 \in 0 .. Len(q)
    BY <1>0, <2>2
  <2>4. QED
    BY <2>1, <2>2, <2>3
<1>2. CASE k = BACKSPACE
  <2> DEFINE d == IF c = 0 THEN 0 ELSE c - 1
  <2>1. Tty([row |-> r, col |-> c], k) = [row |-> r, col |-> d]
    BY <1>2, TtyGoesBack
  <2>2. d \in 0 .. Len(r)
    BY <1>0
  <2>3. QED
    BY <2>1, <2>2
<1>3. CASE k = ENTER
  <2>1. Tty([row |-> r, col |-> c], k) = [row |-> r, col |-> 0]
    BY <1>3, TtyGoesBack
  <2>2. 0 \in 0 .. Len(r)
    BY <1>0
  <2>3. QED
    BY <2>1, <2>2
<1>4. CASE k = BEL
  <2>1. Tty([row |-> r, col |-> c], k) = [row |-> r, col |-> c]
    BY <1>4 DEF Tty, BEL, ENTER, BACKSPACE
  <2>2. QED
    BY <2>1
<1>5. CASE k = LF
  <2> DEFINE q == [j \in 1 .. c |-> " "]
  <2>1. Tty([row |-> r, col |-> c], k) = [row |-> q, col |-> c]
    BY <1>5 DEF Tty, BEL, ENTER, BACKSPACE, LF
  <2>2. q \in Seq(Glyphs) /\ Len(q) = c
    <3>1. " " \in Glyphs
      BY DEF Glyphs
    <3>2. QED
      BY <1>0, <3>1, Blanks
  <2> HIDE DEF q
  <2>3. c \in 0 .. Len(q)
    BY <1>0, <2>2
  <2>4. QED
    BY <2>1, <2>2, <2>3
<1>6. QED
  BY <1>1, <1>2, <1>3, <1>4, <1>5 DEF Sent, Keys, Controls, Puttable

(* Where the cursor is while a line is edited. *)
LEMMA Cursor ==
  ASSUME TypeOK, EchoInv, st = "key"
  PROVE  /\ i \in Nat /\ Len(row) \in Nat /\ col = i + 2 /\ i <= LINE - 1 /\ i + 2 <= Len(row)
         /\ row \in Seq(Glyphs)
<1>1. row \in Seq(Glyphs)
  BY DEF TypeOK, Glyphs
<1>2. Len(row) \in Nat
  BY <1>1
<1>3. i \in Nat
  <2>1. i \in 0 .. LINE
    BY DEF TypeOK
  <2>2. QED
    BY <2>1, LineNumbers
<1>4. col = i + 2 /\ i <= LINE - 1 /\ col <= Len(row)
  BY DEF EchoInv
<1>5. QED
  BY <1>1, <1>2, <1>3, <1>4

(* What the row holds while a line is edited. *)
Shows(r, b, n) ==
  /\ r[1] = "#" /\ r[2] = " "
  /\ \A k \in 0 .. n - 1 : /\ b[k] \in Letters \cup {NUL}
                           /\ r[k + 3] = IF b[k] = NUL THEN " " ELSE b[k]
  /\ \A k \in n + 3 .. Len(r) : r[k] = " "

LEMMA RowShows ==
  ASSUME TypeOK, EchoInv, st = "key" PROVE Shows(row, buf, i)
<1>1. i \in Nat /\ col = i + 2 /\ col + 1 = i + 3
  BY Cursor
<1>2. QED
  BY <1>1 DEF EchoInv, Shows

(* The other way round, after a step. *)
LEMMA ShowsEcho ==
  ASSUME NEW n \in Nat, n <= LINE - 1, NEW q \in Seq(Glyphs), n + 2 <= Len(q),
         i' = n, row' = q, col' = n + 2, Shows(q, buf', n)
  PROVE  EchoInv'
<1>1. i' <= LINE - 1 /\ col' = i' + 2 /\ col' <= Len(row') /\ col' + 1 = n + 3
  OBVIOUS
<1>2. QED
  BY <1>1 DEF EchoInv, Shows

(* A typed character: in buf and on the screen. *)
LEMMA CharacterEchoes ==
  ASSUME TypeOK, EchoInv, NEW c \in Letters \cup {NUL}, Character(c)
  PROVE  EchoInv'
<1>1. st = "key" /\ i < LINE - 1 /\ buf \in [0 .. LINE - 1 -> Keys]
      /\ buf' = [buf EXCEPT ![i] = c] /\ i' = i + 1
  BY DEF Character, TypeOK
<1>2. i \in Nat /\ Len(row) \in Nat /\ col = i + 2 /\ i + 2 <= Len(row) /\ row \in Seq(Glyphs)
  BY <1>1, Cursor
<1>3. PICK q : Put(q, row, i + 2, c) /\ Tty(Screen, c) = [row |-> q, col |-> (i + 2) + 1]
  <2>1. c \in Puttable
    BY DEF Puttable
  <2>2. i + 2 \in 0 .. Len(row)
    BY <1>2
  <2>3. QED
    BY <1>2, <2>1, <2>2, TtyPuts DEF Screen
<1>4. row' = q /\ col' = (i + 2) + 1
  BY <1>3 DEF Character, Show
<1>5. /\ q \in Seq(Glyphs) /\ Len(q) = (IF i + 2 = Len(row) THEN i + 3 ELSE Len(row))
      /\ q[i + 3] = ShownAs(c)
      /\ \A j \in 1 .. Len(row) : j # i + 3 => q[j] = row[j]
  <2>1. (i + 2) + 1 = i + 3
    BY <1>2
  <2>2. QED
    BY <1>3, <2>1 DEF Put
<1>6. Shows(row, buf, i)
  BY <1>1, RowShows
<1>7. buf' \in [0 .. LINE - 1 -> Keys] /\ buf'[i] = c
      /\ \A k \in 0 .. i - 1 : buf'[k] = buf[k]
  <2>1. c \in Keys /\ i \in 0 .. LINE - 1
    BY <1>1, <1>2, LineNumbers DEF Keys
  <2>2. \A k \in 0 .. i - 1 : k \in 0 .. LINE - 1 /\ k # i
    BY <1>1, <1>2, LineNumbers
  <2>3. QED
    BY <1>1, <2>1, <2>2
<1>8. \A j \in 1 .. i + 2 : q[j] = row[j]
  <2>1. \A j \in 1 .. i + 2 : j \in 1 .. Len(row) /\ j # i + 3
    BY <1>2
  <2>2. QED
    BY <1>5, <2>1
<1>9. \A k \in 0 .. i : /\ buf'[k] \in Letters \cup {NUL}
                        /\ q[k + 3] = IF buf'[k] = NUL THEN " " ELSE buf'[k]
  <2>1. TAKE k \in 0 .. i
  <2>2. CASE k = i
    BY <1>5, <1>7, <2>2 DEF ShownAs
  <2>3. CASE k # i
    <3>1. k \in 0 .. i - 1 /\ k + 3 \in 1 .. i + 2
      BY <1>2, <2>3
    <3>2. q[k + 3] = row[k + 3] /\ buf'[k] = buf[k]
      BY <1>7, <1>8, <3>1
    <3>3. QED
      BY <1>6, <3>1, <3>2 DEF Shows
  <2>4. QED
    BY <2>2, <2>3
<1>10. \A k \in i + 4 .. Len(q) : q[k] = " "
  <2>1. TAKE k \in i + 4 .. Len(q)
  <2>2. k \in i + 3 .. Len(row) /\ k \in 1 .. Len(row) /\ k # i + 3
    <3>1. k \in Int /\ i + 4 <= k /\ (k <= i + 3 \/ k <= Len(row))
      <4>1. Len(q) = i + 3 \/ Len(q) = Len(row)
        BY <1>5
      <4>2. CASE Len(q) = i + 3
        BY <1>2, <4>2
      <4>3. CASE Len(q) = Len(row)
        BY <1>2, <4>3
      <4>4. QED
        BY <4>1, <4>2, <4>3
    <3>2. QED
      BY <1>2, <3>1
  <2>3. QED
    BY <1>5, <1>6, <2>2 DEF Shows
<1>11. Shows(q, buf', i + 1)
  <2>1. q[1] = row[1] /\ q[2] = row[2] /\ (i + 1) - 1 = i /\ (i + 1) + 3 = i + 4
    BY <1>2, <1>8
  <2>2. QED
    BY <1>6, <1>9, <1>10, <2>1 DEF Shows
<1>12. i + 1 \in Nat /\ i + 1 <= LINE - 1 /\ (i + 1) + 2 <= Len(q) /\ (i + 2) + 1 = (i + 1) + 2
  <2>1. i < LINE - 1 /\ Len(q) = IF i + 2 = Len(row) THEN i + 3 ELSE Len(row)
    BY <1>1, <1>5
  <2>2. i + 3 <= Len(q)
    BY <1>2, <2>1
  <2>3. QED
    BY <1>2, <2>1, <2>2, LineNumbers
<1>13. QED
  BY <1>1, <1>4, <1>5, <1>7, <1>11, <1>12, ShowsEcho

(* A backspace takes the last character from both, and none of the prompt. *)
LEMMA BackspaceEchoes ==
  ASSUME TypeOK, EchoInv, Backspace
  PROVE  EchoInv'
<1>1. st = "key" /\ UNCHANGED <<st, buf>>
  BY DEF Backspace
<1>2. i \in Nat /\ Len(row) \in Nat /\ col = i + 2 /\ i <= LINE - 1 /\ i + 2 <= Len(row)
      /\ row \in Seq(Glyphs)
  BY <1>1, Cursor
<1>3. CASE ~(i > 0)
  <2>1. UNCHANGED <<i, row, col>>
    BY <1>3 DEF Backspace, BackspaceTaken
  <2>2. QED
    BY <1>1, <2>1 DEF EchoInv
<1>4. CASE i > 0
  <2>1. i' = i - 1 /\ Show(Tty(Tty(Tty(Screen, BACKSPACE), " "), BACKSPACE))
    BY <1>4 DEF Backspace, BackspaceTaken, Erase
  <2>2. i + 2 # 0 /\ (i + 2) - 1 = i + 1 /\ (i + 1) + 1 = i + 2 /\ i + 1 \in 0 .. Len(row)
        /\ i + 1 # Len(row) /\ " " # NUL /\ i - 1 \in Nat
    BY <1>2, <1>4 DEF NUL
  <2>3. Tty(Screen, BACKSPACE) = [row |-> row, col |-> i + 1]
    BY <1>2, <2>2, TtyGoesBack DEF Screen
  <2>4. PICK q : /\ Put(q, row, i + 1, " ")
                 /\ Tty([row |-> row, col |-> i + 1], " ") = [row |-> q, col |-> (i + 1) + 1]
    <3>1. " " \in Puttable
      BY DEF Puttable
    <3>2. QED
      BY <1>2, <2>2, <3>1, TtyPuts
  <2>5. Tty([row |-> q, col |-> i + 2], BACKSPACE) = [row |-> q, col |-> i + 1]
    BY <2>2, TtyGoesBack
  <2>6. Tty(Tty(Tty(Screen, BACKSPACE), " "), BACKSPACE) = [row |-> q, col |-> i + 1]
    BY <2>2, <2>3, <2>4, <2>5
  <2>7. row' = q /\ col' = i + 1
    <3>1. Show([row |-> q, col |-> i + 1])
      BY <2>1, <2>6, Zenon
    <3>2. QED
      BY <3>1 DEF Show
  <2>8. q \in Seq(Glyphs) /\ Len(q) = Len(row) /\ q[i + 2] = ShownAs(" ")
        /\ \A j \in 1 .. Len(row) : j # i + 2 => q[j] = row[j]
    BY <2>2, <2>4 DEF Put
  <2>9. Shows(row, buf, i)
    BY <1>1, RowShows
  <2>10. \A j \in 1 .. i + 1 : q[j] = row[j]
    <3>1. \A j \in 1 .. i + 1 : j \in 1 .. Len(row) /\ j # i + 2
      BY <1>2
    <3>2. QED
      BY <2>8, <3>1
  <2>11. \A k \in i + 2 .. Len(q) : q[k] = " "
    <3>1. TAKE k \in i + 2 .. Len(q)
    <3>2. CASE k = i + 2
      BY <2>2, <2>8, <3>2 DEF ShownAs
    <3>3. CASE k # i + 2
      <4>1. k \in i + 3 .. Len(row) /\ k \in 1 .. Len(row)
        <5>1. k \in i + 2 .. Len(row)
          BY <2>8
        <5>2. QED
          BY <1>2, <3>3, <5>1
      <4>2. QED
        BY <2>8, <2>9, <3>3, <4>1 DEF Shows
    <3>4. QED
      BY <3>2, <3>3
  <2>12. \A k \in 0 .. (i - 1) - 1 : /\ buf[k] \in Letters \cup {NUL}
                                     /\ q[k + 3] = IF buf[k] = NUL THEN " " ELSE buf[k]
    <3>1. TAKE k \in 0 .. (i - 1) - 1
    <3>2. k \in 0 .. i - 1 /\ k + 3 \in 1 .. i + 1
      BY <1>2
    <3>3. q[k + 3] = row[k + 3]
      BY <2>10, <3>2
    <3>4. QED
      BY <2>9, <3>2, <3>3 DEF Shows
  <2>13. Shows(q, buf, i - 1)
    <3>1. q[1] = row[1] /\ q[2] = row[2] /\ (i - 1) + 3 = i + 2
      <4>1. 1 \in 1 .. i + 1 /\ 2 \in 1 .. i + 1
        BY <1>2, <1>4
      <4>2. (i - 1) + 3 = i + 2
        BY <1>2
      <4>3. QED
        BY <2>10, <4>1, <4>2
    <3>2. QED
      BY <2>9, <2>11, <2>12, <3>1 DEF Shows
  <2>14. i - 1 <= LINE - 1 /\ (i - 1) + 2 = i + 1 /\ (i - 1) + 2 <= Len(q)
    <3>1. Len(q) = Len(row)
      BY <2>8
    <3>2. QED
      BY <1>2, <3>1, LineNumbers
  <2>15. Shows(q, buf', i - 1)
    BY <1>1, <2>13
  <2>16. QED
    BY <1>1, <2>1, <2>2, <2>7, <2>8, <2>14, <2>15, ShowsEcho
<1>5. QED
  BY <1>3, <1>4

-----------------------------------------------------------------------------
(* The command in b, and the text of a row l behind the prompt. *)
CommandOf(b) ==
  LET len == Min({k \in 0 .. LINE - 1 : b[k] = NUL})
  IN  [k \in 1 .. len |-> b[k - 1]]

TypedOf(l) ==
  LET text == SubSeq(l, Len(PROMPT) + 1, Len(l))
      blanks == {k \in 1 .. Len(text) : text[k] = " "}
  IN  IF blanks = {} THEN text ELSE SubSeq(text, 1, Min(blanks) - 1)

(* When b ends with NUL at n and row r shows it, both are the same.        *)
LEMMA LineIsCommand ==
  ASSUME NEW n \in Nat, n <= LINE - 1, NEW b \in [0 .. LINE - 1 -> Keys], b[n] = NUL,
         NEW r \in Seq(Glyphs), n + 2 <= Len(r), Shows(r, b, n)
  PROVE  TypedOf(SubSeq(r, 1, n + 2)) = CommandOf(b)
<1> DEFINE T == {k \in 0 .. LINE - 1 : b[k] = NUL}
           l == SubSeq(r, 1, n + 2)
           text == SubSeq(l, 3, Len(l))
           blanks == {k \in 1 .. Len(text) : text[k] = " "}
<1>1. T \in SUBSET Nat /\ n \in T
  BY LineNumbers
<1>2. PICK m \in T : \A y \in T : m <= y
  <2>1. T # {}
    BY <1>1
  <2> HIDE DEF T
  <2>2. QED
    BY <1>1, <2>1, LeastNumber
<1>3. Min(T) = m
  <2> HIDE DEF T
  <2>1. QED
    BY <1>1, <1>2, LeastIsMin
<1>4. m \in Nat /\ m <= n /\ b[m] = NUL /\ \A k \in 0 .. m - 1 : b[k] # NUL
  <2>1. m \in Nat /\ m <= n /\ b[m] = NUL
    BY <1>1, <1>2
  <2>2. \A k \in 0 .. m - 1 : k \in 0 .. LINE - 1 /\ ~(m <= k)
    BY <2>1, LineNumbers
  <2>3. QED
    BY <1>2, <2>1, <2>2
<1> DEFINE C == [k \in 1 .. m |-> b[k - 1]]
<1>5. CommandOf(b) = C
  BY <1>3 DEF CommandOf
<1> HIDE DEF T
<1>6. \A k \in 1 .. n : /\ b[k - 1] \in Letters \cup {NUL}
                        /\ r[k + 2] = ShownAs(b[k - 1])
  <2>1. TAKE k \in 1 .. n
  <2>2. k - 1 \in 0 .. n - 1 /\ (k - 1) + 3 = k + 2
    OBVIOUS
  <2>3. QED
    BY <2>2 DEF Shows, ShownAs
<1>7. \A k \in 1 .. m : b[k - 1] \in Letters
  <2>1. \A k \in 1 .. m : k \in 1 .. n /\ k - 1 \in 0 .. m - 1
    BY <1>4
  <2>2. QED
    BY <1>4, <1>6, <2>1
<1>8. C \in Seq(Letters) /\ Len(C) = m
  BY <1>4, <1>7
<1>9. l \in Seq(Glyphs) /\ Len(l) = n + 2 /\ \A k \in 1 .. n + 2 : l[k] = r[k]
  <2>1. Len(r) \in Nat
    OBVIOUS
  <2>2. QED
    BY <2>1
<1> HIDE DEF l
<1>10. text \in Seq(Glyphs) /\ Len(text) = n /\ \A k \in 1 .. n : text[k] = ShownAs(b[k - 1])
  <2>1. text \in Seq(Glyphs) /\ Len(text) = n
    BY <1>9
  <2>2. \A k \in 1 .. n : text[k] = l[k + 2]
    BY <1>9
  <2>3. \A k \in 1 .. n : k + 2 \in 1 .. n + 2
    OBVIOUS
  <2>4. QED
    BY <1>6, <1>9, <2>1, <2>2, <2>3
<1>11. TypedOf(l) = IF blanks = {} THEN text ELSE SubSeq(text, 1, Min(blanks) - 1)
  <2>1. Len(PROMPT) + 1 = 3
    BY DEF PROMPT
  <2>2. QED
    BY <2>1 DEF TypedOf
<1> HIDE DEF text
<1>12. \A k \in 1 .. n : text[k] = " " <=> b[k - 1] = NUL
  <2>1. \A c \in Letters \cup {NUL} : ShownAs(c) = " " <=> c = NUL
    BY DEF Letters, NUL, ShownAs
  <2>2. QED
    BY <1>6, <1>10, <2>1
<1>13. CASE m = n
  <2>1. blanks = {}
    <3>1. \A k \in 1 .. n : k - 1 \in 0 .. m - 1
      BY <1>13
    <3>2. QED
      BY <1>4, <1>10, <1>12, <3>1
  <2>2. \A k \in 1 .. n : text[k] = C[k]
    <3>1. \A c \in Letters : ShownAs(c) = c
      BY DEF Letters, NUL, ShownAs
    <3>2. QED
      BY <1>7, <1>10, <1>13, <3>1
  <2>3. text = C
    BY <1>8, <1>10, <1>13, <2>2
  <2>4. QED
    BY <1>5, <1>8, <1>11, <2>1, <2>3 DEF l
<1>14. CASE m # n
  <2>1. m + 1 \in 1 .. n /\ (m + 1) - 1 = m
    BY <1>4, <1>14
  <2>2. m + 1 \in blanks
    BY <1>4, <1>10, <1>12, <2>1
  <2>3. \A y \in blanks : m + 1 <= y
    <3>1. \A y \in 1 .. n : ~(m + 1 <= y) => y - 1 \in 0 .. m - 1
      BY <1>4
    <3>2. QED
      BY <1>4, <1>10, <1>12, <3>1
  <2>4. blanks \in SUBSET Nat
    <3>1. \A k \in 1 .. Len(text) : k \in Nat
      BY <1>10
    <3>2. QED
      BY <3>1
  <2> HIDE DEF blanks
  <2>5. Min(blanks) - 1 = m /\ blanks # {}
    BY <2>1, <2>2, <2>3, <2>4, LeastIsMin
  <2>6. TypedOf(l) = SubSeq(text, 1, m)
    BY <1>11, <2>5 DEF blanks
  <2>7. SubSeq(text, 1, m) \in Seq(Glyphs) /\ Len(SubSeq(text, 1, m)) = m
        /\ \A k \in 1 .. m : SubSeq(text, 1, m)[k] = text[k]
    BY <1>4, <1>10
  <2>8. \A k \in 1 .. m : text[k] = C[k]
    <3>1. \A c \in Letters : ShownAs(c) = c
      BY DEF Letters, NUL, ShownAs
    <3>2. \A k \in 1 .. m : k \in 1 .. n
      BY <1>4
    <3>3. QED
      BY <1>7, <1>10, <3>1, <3>2
  <2>9. SubSeq(text, 1, m) = C
    BY <1>8, <2>7, <2>8
  <2>10. QED
    BY <1>5, <1>8, <2>6, <2>9 DEF l
<1>15. QED
  BY <1>13, <1>14

(* Enter: the command is the line. *)
LEMMA EnterReads ==
  ASSUME TypeOK, EchoInv, LineInv, Enter
  PROVE  LineInv'
<1>1. /\ st = "key" /\ buf' = [buf EXCEPT ![i] = NUL] /\ line' = SubSeq(row, 1, col)
      /\ st' = "execute" /\ UNCHANGED <<i, started, message>>
      /\ buf \in [0 .. LINE - 1 -> Keys]
  BY DEF Enter, EndLine, TypeOK
<1>2. i \in Nat /\ Len(row) \in Nat /\ col = i + 2 /\ i <= LINE - 1 /\ i + 2 <= Len(row)
      /\ row \in Seq(Glyphs)
  BY <1>1, Cursor
<1>3. buf' \in [0 .. LINE - 1 -> Keys] /\ buf'[i] = NUL /\ \A k \in 0 .. i - 1 : buf'[k] = buf[k]
  <2>1. NUL \in Keys /\ i \in 0 .. LINE - 1
    BY <1>2, LineNumbers DEF Keys
  <2>2. \A k \in 0 .. i - 1 : k \in 0 .. LINE - 1 /\ k # i
    BY <1>2, LineNumbers
  <2>3. QED
    BY <1>1, <2>1, <2>2
<1>4. Shows(row, buf, i)
  BY <1>1, RowShows
<1>5. Shows(row, buf', i)
  BY <1>3, <1>4 DEF Shows
<1>6. TypedOf(line') = CommandOf(buf')
  BY <1>1, <1>2, <1>3, <1>5, LineIsCommand
<1>7. Command' = Typed'
  BY <1>6 DEF Command, CommandOf, Typed, TypedOf
<1>8. QED
  BY <1>1, <1>7 DEF LineInv

(* What is on the screen, as the property says it. *)
LEMMA EchoIsRight == TypeOK /\ (plain => EchoInv) => EchoMatches
<1> SUFFICES ASSUME TypeOK, EchoInv, st = "key"
             PROVE  /\ SubSeq(row, 1, col) =
                         PROMPT \o [k \in 1 .. i |-> IF buf[k - 1] = NUL THEN " " ELSE buf[k - 1]]
                    /\ \A k \in col + 1 .. Len(row) : row[k] = " "
  BY DEF EchoMatches
<1>1. i \in Nat /\ Len(row) \in Nat /\ col = i + 2 /\ i <= LINE - 1 /\ i + 2 <= Len(row)
      /\ row \in Seq(Glyphs)
  BY Cursor
<1>2. Shows(row, buf, i)
  BY RowShows
<1> DEFINE t == [k \in 1 .. i |-> IF buf[k - 1] = NUL THEN " " ELSE buf[k - 1]]
<1>3. t \in Seq(Glyphs) /\ Len(t) = i /\ \A k \in 1 .. i : t[k] = row[k + 2]
  <2>1. \A k \in 1 .. i : k - 1 \in 0 .. i - 1 /\ (k - 1) + 3 = k + 2
    BY <1>1
  <2>2. \A k \in 1 .. i : t[k] = row[k + 2]
    BY <1>2, <2>1 DEF Shows
  <2>3. \A k \in 1 .. i : k + 2 \in 1 .. Len(row)
    BY <1>1
  <2>4. t = [k \in 1 .. i |-> t[k]]
    OBVIOUS
  <2> HIDE DEF t
  <2>5. \A k \in 1 .. i : t[k] \in Glyphs
    BY <1>1, <2>2, <2>3
  <2>6. QED
    BY <1>1, <2>2, <2>4, <2>5
<1> HIDE DEF t
<1>4. PROMPT \in Seq(Glyphs) /\ Len(PROMPT) = 2 /\ PROMPT[1] = "#" /\ PROMPT[2] = " "
  BY DEF PROMPT, Glyphs
<1>5. PROMPT \o t \in Seq(Glyphs) /\ Len(PROMPT \o t) = i + 2
      /\ \A k \in 1 .. i + 2 : (PROMPT \o t)[k] = IF k <= 2 THEN PROMPT[k] ELSE t[k - 2]
  <2>0. PROMPT \in Seq(Glyphs) /\ t \in Seq(Glyphs) /\ Len(PROMPT) = 2 /\ Len(t) = i
    BY <1>3, <1>4
  <2>1. /\ PROMPT \o t \in Seq(Glyphs) /\ Len(PROMPT \o t) = Len(PROMPT) + Len(t)
        /\ \A k \in 1 .. Len(PROMPT) + Len(t) :
              (PROMPT \o t)[k] = IF k <= Len(PROMPT) THEN PROMPT[k] ELSE t[k - Len(PROMPT)]
    BY <2>0, ConcatProperties
  <2>2. Len(PROMPT) + Len(t) = i + 2 /\ Len(PROMPT) = 2
    BY <1>1, <2>0
  <2>3. QED
    BY <2>1, <2>2, Zenon
<1>6. \A k \in 1 .. i + 2 : (PROMPT \o t)[k] = row[k]
  <2>1. TAKE k \in 1 .. i + 2
  <2>2. CASE k = 1 \/ k = 2
    <3>1. (PROMPT \o t)[k] = PROMPT[k]
      BY <1>5, <2>2
    <3>2. PROMPT[k] = row[k]
      BY <1>2, <1>4, <2>2 DEF Shows
    <3>3. QED
      BY <3>1, <3>2
  <2>3. CASE ~(k = 1 \/ k = 2)
    <3>1. ~(k <= 2) /\ k - 2 \in 1 .. i /\ (k - 2) + 2 = k
      BY <1>1, <2>3
    <3>2. QED
      BY <1>3, <1>5, <3>1
  <2>4. QED
    BY <2>2, <2>3
<1>7. SubSeq(row, 1, i + 2) \in Seq(Glyphs) /\ Len(SubSeq(row, 1, i + 2)) = i + 2
      /\ \A k \in 1 .. i + 2 : SubSeq(row, 1, i + 2)[k] = row[k]
  BY <1>1
<1>8. SubSeq(row, 1, i + 2) = PROMPT \o t
  BY <1>5, <1>6, <1>7, SeqEqual
<1>9. QED
  BY <1>1, <1>8 DEF EchoInv, t

-----------------------------------------------------------------------------
(* What holds whatever is typed, step by step. *)

(* The steps that write no more of the row than a new one. *)
LEMMA OtherTypes ==
  ASSUME TypeOK, ClockTypeOK', buf' \in [0 .. LINE - 1 -> Keys], i' \in 0 .. LINE,
         (row' = <<>> /\ col' = 0) \/ UNCHANGED <<row, col>>,
         st' \in States, UNCHANGED <<line, plain>>, started' \in SUBSET Programs,
         message' \in Seq(Keys)
  PROVE  TypeOK'
<1>1. row' \in Seq(Keys \cup {"#", " "}) /\ col' \in 0 .. Len(row')
  <2>1. CASE row' = <<>> /\ col' = 0
    BY <2>1
  <2>2. CASE UNCHANGED <<row, col>>
    BY <2>2 DEF TypeOK
  <2>3. QED
    BY <2>1, <2>2
<1>2. line' \in Seq(Keys \cup {"#", " "})
  BY DEF TypeOK
<1>3. plain' \in BOOLEAN
  BY Zenon DEF TypeOK
<1>4. QED
  BY <1>1, <1>2, <1>3 DEF TypeOK

(* A key is sent to the screen. *)
LEMMA ShowTypes ==
  ASSUME TypeOK, NEW c \in Keys, Show(Tty(Screen, c))
  PROVE  row' \in Seq(Keys \cup {"#", " "}) /\ col' \in 0 .. Len(row')
<1>1. row \in Seq(Glyphs) /\ col \in 0 .. Len(row)
  BY DEF TypeOK, Glyphs
<1>2. PICK q \in Seq(Glyphs) : \E d \in 0 .. Len(q) : Tty(Screen, c) = [row |-> q, col |-> d]
  <2>1. c \in Sent
    BY DEF Sent
  <2>2. QED
    BY <1>1, <2>1, TtyTypes DEF Screen
<1>3. PICK d \in 0 .. Len(q) : Tty(Screen, c) = [row |-> q, col |-> d]
  BY <1>2
<1>4. row' = q /\ col' = d
  BY <1>3 DEF Show
<1>5. QED
  BY <1>4 DEF Glyphs

(* A backspace is echoed. *)
LEMMA EraseTypes ==
  ASSUME TypeOK, Erase
  PROVE  row' \in Seq(Keys \cup {"#", " "}) /\ col' \in 0 .. Len(row')
<1> DEFINE Is(s, q, d) == q \in Seq(Glyphs) /\ d \in 0 .. Len(q) /\ s = [row |-> q, col |-> d]
<1>1. Is(Screen, row, col)
  BY DEF TypeOK, Glyphs, Screen
<1>2. \A s, k, q, d : k \in Sent /\ Is(s, q, d) => \E p, e : Is(Tty(s, k), p, e)
  <2> SUFFICES ASSUME NEW s, NEW k \in Sent, NEW q \in Seq(Glyphs), NEW d \in 0 .. Len(q),
                      s = [row |-> q, col |-> d]
               PROVE  \E p, e : Is(Tty(s, k), p, e)
    OBVIOUS
  <2>1. \E p \in Seq(Glyphs) : \E e \in 0 .. Len(p) :
           Tty([row |-> q, col |-> d], k) = [row |-> p, col |-> e]
    BY TtyTypes
  <2>2. PICK p \in Seq(Glyphs) : \E e \in 0 .. Len(p) : Tty(s, k) = [row |-> p, col |-> e]
    BY <2>1
  <2>3. PICK e \in 0 .. Len(p) : Tty(s, k) = [row |-> p, col |-> e]
    BY <2>2
  <2>4. Is(Tty(s, k), p, e)
    BY <2>3
  <2>5. QED
    BY <2>4
<1>3. BACKSPACE \in Sent /\ " " \in Sent
  BY DEF Sent, Keys
<1> HIDE DEF Is
<1>4. PICK q1, d1 : Is(Tty(Screen, BACKSPACE), q1, d1)
  BY <1>1, <1>2, <1>3, Zenon
<1>5. PICK q2, d2 : Is(Tty(Tty(Screen, BACKSPACE), " "), q2, d2)
  BY <1>2, <1>3, <1>4, Zenon
<1>6. PICK q, d : Is(Tty(Tty(Tty(Screen, BACKSPACE), " "), BACKSPACE), q, d)
  BY <1>2, <1>3, <1>5, Zenon
<1>7. row' = q /\ col' = d
  <2>1. Show(Tty(Tty(Tty(Screen, BACKSPACE), " "), BACKSPACE))
    BY DEF Erase
  <2>2. Tty(Tty(Tty(Screen, BACKSPACE), " "), BACKSPACE) = [row |-> q, col |-> d]
    BY <1>6 DEF Is
  <2>3. Show([row |-> q, col |-> d])
    BY <2>1, <2>2, Zenon
  <2>4. QED
    BY <2>3 DEF Show
<1>8. QED
  BY <1>6, <1>7 DEF Is, Glyphs

(* The C string in buf ends, and has the keys that were typed. *)
LEMMA CommandTyped ==
  ASSUME buf \in [0 .. LINE - 1 -> Keys], \E k \in 0 .. LINE - 1 : buf[k] = NUL
  PROVE  Command \in Seq(Keys)
<1> DEFINE T == {k \in 0 .. LINE - 1 : buf[k] = NUL}
<1>1. T \in SUBSET Nat /\ T # {}
  BY LineNumbers
<1>2. PICK m \in T : \A y \in T : m <= y
  <2> HIDE DEF T
  <2>1. QED
    BY <1>1, LeastNumber
<1>3. Min(T) = m
  <2> HIDE DEF T
  <2>1. QED
    BY <1>1, <1>2, LeastIsMin
<1>4. m \in Nat /\ \A k \in 1 .. m : k - 1 \in 0 .. LINE - 1
  BY LineNumbers
<1>5. Command = [k \in 1 .. m |-> buf[k - 1]]
  BY <1>3 DEF Command
<1>6. QED
  BY <1>4, <1>5

(* The clock's part of a step that does not look at it. *)
LEMMA ClockKeeps ==
  ASSUME ClockInv, UNCHANGED clockVars,
         st' # "date" \/ st = "date", st # "answered" \/ st' = "answered"
  PROVE  ClockInv'
<1>1. UNCHANGED <<now, date, shown>> /\ DayOf(now)' = DayOf(now)
  BY DEF clockVars, DayOf
<1>2. NeverAhead'
  BY <1>1 DEF ClockInv, NeverAhead
<1>3. QED
  BY <1>1, <1>2 DEF ClockInv

(* The prompt. *)
LEMMA PromptBase == ASSUME Base, Prompt PROVE Base'
<1>1. /\ st = "prompt" /\ st' = "key" /\ row' = PROMPT /\ col' = Len(PROMPT) /\ i' = 0
      /\ line' = <<>> /\ started' = {} /\ message' = NoMessage /\ UNCHANGED <<clockVars, buf>>
      /\ TypeOK /\ ClockInv
  BY DEF Prompt, Base
<1>2. PROMPT \in Seq(Keys \cup {"#", " "}) /\ Len(PROMPT) = 2
  BY DEF PROMPT
<1>3. TypeOK'
  <2>1. ClockTypeOK'
    BY <1>1, ClockTypeStays DEF TypeOK
  <2>2. row' \in Seq(Keys \cup {"#", " "}) /\ col' \in 0 .. Len(row')
    <3>1. row' \in Seq(Keys \cup {"#", " "})
      BY <1>1, <1>2, Zenon
    <3>2. col' = 2 /\ Len(row') = 2
      BY <1>1, <1>2, Zenon
    <3>3. 2 \in 0 .. 2
      OBVIOUS
    <3>4. QED
      BY <3>1, <3>2, <3>3, Zenon
  <2>3. i' \in 0 .. LINE
    BY <1>1, LineNumbers
  <2>4. line' \in Seq(Keys \cup {"#", " "}) /\ message' \in Seq(Keys)
    BY <1>1 DEF NoMessage, Keys
  <2>5. plain' \in BOOLEAN
    BY DEF Prompt
  <2>6. QED
    BY <1>1, <2>1, <2>2, <2>3, <2>4, <2>5 DEF TypeOK, States
<1>4. ClockInv'
  BY <1>1, ClockKeeps
<1>5. KeyInv'
  BY <1>1, LineNumbers DEF KeyInv
<1>6. QED
  BY <1>3, <1>4, <1>5 DEF Base

(* The keys of a line, whatever they are. *)
LEMMA KeyBase == ASSUME Base, Key PROVE Base'
<1>1. /\ TypeOK /\ ClockInv /\ st = "key" /\ i <= LINE - 1 /\ i \in Nat
      /\ buf \in [0 .. LINE - 1 -> Keys] /\ i \in 0 .. LINE - 1
  <2>1. st = "key"
    BY DEF Key, Backspace, Enter, Character
  <2>2. TypeOK /\ ClockInv /\ i <= LINE - 1 /\ i \in 0 .. LINE /\ buf \in [0 .. LINE - 1 -> Keys]
    BY <2>1 DEF Base, KeyInv, TypeOK
  <2>3. QED
    BY <2>1, <2>2, LineNumbers
<1>2. UNCHANGED <<clockVars, started, message>>
  BY DEF Key, Backspace, Enter, Character
<1>3. ClockTypeOK' /\ started' \in SUBSET Programs /\ message' \in Seq(Keys)
  <2>1. ClockTypeOK'
    BY <1>1, <1>2, ClockTypeStays DEF TypeOK
  <2>2. QED
    BY <1>1, <1>2, <2>1 DEF TypeOK
<1>4. CASE Backspace
  <2>1. UNCHANGED <<st, buf, line, plain>> /\ ((i' = i - 1 /\ i > 0) \/ i' = i)
    BY <1>4 DEF Backspace, BackspaceTaken
  <2>2. row' \in Seq(Keys \cup {"#", " "}) /\ col' \in 0 .. Len(row')
    <3>1. CASE Erase
      BY <1>1, <3>1, EraseTypes
    <3>2. CASE UNCHANGED <<row, col>>
      BY <1>1, <3>2 DEF TypeOK
    <3>3. QED
      BY <1>4, <3>1, <3>2 DEF Backspace
  <2>3. i' \in 0 .. LINE /\ i' <= LINE - 1
    BY <1>1, <2>1, LineNumbers
  <2>4. plain' \in BOOLEAN
    BY <1>1, <2>1, Zenon DEF TypeOK
  <2>5. TypeOK'
    BY <1>1, <1>3, <2>1, <2>2, <2>3, <2>4 DEF TypeOK
  <2>6. ClockInv'
    BY <1>1, <1>2, <2>1, ClockKeeps
  <2>7. KeyInv'
    BY <1>1, <2>1, <2>3 DEF KeyInv
  <2>8. QED
    BY <2>5, <2>6, <2>7 DEF Base
<1>5. CASE \E c \in Letters \cup Controls \cup {NUL} : Character(c)
  <2>1. PICK c \in Letters \cup Controls \cup {NUL} : Character(c)
    BY <1>5
  <2>2. c \in Keys
    BY DEF Keys
  <2>3. /\ i < LINE - 1 /\ Show(Tty(Screen, c)) /\ buf' = [buf EXCEPT ![i] = c] /\ i' = i + 1
        /\ UNCHANGED <<st, line>>
    BY <2>1 DEF Character
  <2>4. row' \in Seq(Keys \cup {"#", " "}) /\ col' \in 0 .. Len(row')
    BY <1>1, <2>2, <2>3, ShowTypes
  <2>5. i' \in 0 .. LINE /\ i' <= LINE - 1
    BY <1>1, <2>3, LineNumbers
  <2>6. buf' \in [0 .. LINE - 1 -> Keys]
    BY <1>1, <2>2, <2>3
  <2>7. plain' \in BOOLEAN
    BY <2>1, Zenon DEF Character
  <2>8. TypeOK'
    BY <1>1, <1>3, <2>3, <2>4, <2>5, <2>6, <2>7 DEF TypeOK
  <2>9. ClockInv'
    BY <1>1, <1>2, <2>3, ClockKeeps
  <2>10. KeyInv'
    BY <1>1, <2>3, <2>5 DEF KeyInv
  <2>11. QED
    BY <2>8, <2>9, <2>10 DEF Base
<1>6. CASE Enter
  <2>1. /\ buf' = [buf EXCEPT ![i] = NUL] /\ line' = SubSeq(row, 1, col)
        /\ row' = <<>> /\ col' = 0 /\ st' = "execute" /\ UNCHANGED <<i, plain>>
    BY <1>6 DEF Enter, EndLine, NewRow
  <2>2. NUL \in Keys
    BY DEF Keys
  <2>3. buf' \in [0 .. LINE - 1 -> Keys] /\ buf'[i] = NUL
    BY <1>1, <2>1, <2>2
  <2>4. line' \in Seq(Keys \cup {"#", " "})
    <3>1. row \in Seq(Glyphs) /\ col \in 0 .. Len(row)
      BY <1>1 DEF TypeOK, Glyphs
    <3>2. Len(row) \in Nat
      BY <3>1
    <3>3. line' \in Seq(Glyphs)
      BY <2>1, <3>1, <3>2
    <3>4. QED
      BY <3>3 DEF Glyphs
  <2>5. row' \in Seq(Keys \cup {"#", " "}) /\ col' \in 0 .. Len(row')
    BY <2>1
  <2>6. plain' \in BOOLEAN
    BY <1>1, <2>1, Zenon DEF TypeOK
  <2>7. TypeOK'
    BY <1>1, <1>3, <2>1, <2>3, <2>4, <2>5, <2>6 DEF TypeOK, States
  <2>8. ClockInv'
    BY <1>1, <1>2, <2>1, ClockKeeps
  <2>9. KeyInv'
    BY <1>1, <2>1, <2>3 DEF KeyInv
  <2>10. QED
    BY <2>7, <2>8, <2>9 DEF Base
<1>7. QED
  BY <1>4, <1>5, <1>6 DEF Key

(* The commands of the shell itself, one by one. *)
OwnNames == {Builtin.syscall, Builtin.aaa, Builtin.bbb, Builtin.ccc,
             Builtin.halt, Builtin.reboot, Builtin.exit, Builtin.date}

LEMMA OwnCommands == Own <=> Typed \in OwnNames
BY DEF Own, Builtin, OwnNames

(* The shell's own commands are carried out, and the rest loaded. *)
LEMMA ExecuteGoes ==
  ASSUME Execute
  PROVE  \/ /\ Command \in OwnNames /\ st' \in {"answered", "ccc", "halted", "boot", "startk"}
            /\ UNCHANGED clockVars
         \/ Command \in OwnNames /\ st' = "date" /\ LookAtClock
         \/ Command \notin OwnNames /\ st' = "load" /\ UNCHANGED clockVars
<1> DEFINE c == Command
<1>1. CASE c \in {Builtin.syscall, Builtin.aaa, Builtin.bbb}
  BY <1>1 DEF Execute, OwnNames
<1>2. CASE c = Builtin.ccc
  BY <1>2 DEF Execute, Builtin, OwnNames
<1>3. CASE c = Builtin.halt
  BY <1>3 DEF Execute, Builtin, OwnNames
<1>4. CASE c = Builtin.reboot
  BY <1>4 DEF Execute, Builtin, OwnNames
<1>5. CASE c = Builtin.exit
  BY <1>5 DEF Execute, Builtin, OwnNames
<1>6. CASE c = Builtin.date
  BY <1>6 DEF Execute, Builtin, OwnNames
<1>7. CASE c \notin OwnNames
  <2>1. st' = "load" /\ UNCHANGED clockVars
    BY <1>7 DEF Execute, OwnNames
  <2>2. QED
    BY <1>7, <2>1
<1>8. QED
  BY <1>1, <1>2, <1>3, <1>4, <1>5, <1>6, <1>7 DEF OwnNames

LEMMA ExecuteBase == ASSUME Base, Execute PROVE Base'
<1>1. /\ TypeOK /\ ClockInv /\ KeyInv /\ st = "execute"
      /\ UNCHANGED <<buf, row, col, line, plain, started, message>>
      /\ buf \in [0 .. LINE - 1 -> Keys] /\ i \in 0 .. LINE
  BY DEF Base, Execute, TypeOK
<1>2. \/ /\ st' \in {"answered", "ccc", "halted", "boot", "startk", "load"}
         /\ UNCHANGED clockVars
      \/ st' = "date" /\ LookAtClock
  BY ExecuteGoes
<1>3. i' = 0 \/ i' = i
  BY DEF Execute
<1>4. ClockTypeOK' /\ ClockInv'
  <2>1. CASE UNCHANGED clockVars /\ st' # "date"
    <3>1. ClockTypeOK'
      BY <1>1, <2>1, ClockTypeStays DEF TypeOK
    <3>2. QED
      BY <1>1, <2>1, <3>1, ClockKeeps
  <2>2. CASE LookAtClock
    <3>1. now' \in FIRST .. LAST /\ date' \in Dates /\ shown' = NOT_SHOWN /\ date' <= DayOf(now')
      BY <2>2, LookReads
    <3>2. ClockTypeOK'
      BY <3>1 DEF ClockTypeOK, Dates
    <3>3. DayOf(now)' = DayOf(now')
      BY DEF DayOf
    <3>4. ClockInv'
      BY <3>1, <3>3 DEF ClockInv, NeverAhead
    <3>5. QED
      BY <3>2, <3>4
  <2>3. QED
    BY <1>2, <2>1, <2>2
<1>5. TypeOK'
  <2>1. st' \in States
    BY <1>2 DEF States
  <2>2. i' \in 0 .. LINE
    BY <1>1, <1>3, LineNumbers
  <2>3. started' \in SUBSET Programs /\ message' \in Seq(Keys)
    BY <1>1 DEF TypeOK
  <2>4. QED
    BY <1>1, <1>4, <2>1, <2>2, <2>3, OtherTypes
<1>6. KeyInv'
  BY <1>1, <1>2 DEF KeyInv
<1>7. QED
  BY <1>4, <1>5, <1>6 DEF Base

(* "ccc": a key in buf and on the screen, Enter and backspace too. *)
LEMMA CccBase == ASSUME Base, (\E c \in Keys : CccKey(c)) \/ CccEnd PROVE Base'
<1>1. /\ TypeOK /\ ClockInv /\ st = "ccc" /\ st' \in {"ccc", "answered"}
      /\ buf \in [0 .. LINE - 1 -> Keys] /\ i \in 0 .. LINE
      /\ UNCHANGED <<clockVars, line, plain, started, message>>
  BY DEF Base, TypeOK, CccKey, CccEnd
<1>2. ClockTypeOK' /\ st' \in States /\ started' \in SUBSET Programs /\ message' \in Seq(Keys)
  <2>1. ClockTypeOK'
    BY <1>1, ClockTypeStays DEF TypeOK
  <2>2. QED
    BY <1>1, <2>1 DEF TypeOK, States
<1>3. TypeOK'
  <2>1. CASE \E c \in Keys : CccKey(c)
    <3>1. PICK c \in Keys : CccKey(c)
      BY <2>1
    <3>2. i < CCC /\ buf' = [buf EXCEPT ![i] = c] /\ i' = i + 1 /\ Show(Tty(Screen, c))
      BY <3>1 DEF CccKey
    <3>3. buf' \in [0 .. LINE - 1 -> Keys]
      BY <1>1, <3>2
    <3>4. i' \in 0 .. LINE
      BY <1>1, <3>2, LineNumbers
    <3>5. row' \in Seq(Keys \cup {"#", " "}) /\ col' \in 0 .. Len(row')
      BY <1>1, <3>2, ShowTypes
    <3>6. line' \in Seq(Keys \cup {"#", " "})
      BY <1>1 DEF TypeOK
    <3>7. plain' \in BOOLEAN
      BY <1>1, Zenon DEF TypeOK
    <3>8. QED
      BY <1>2, <3>3, <3>4, <3>5, <3>6, <3>7 DEF TypeOK
  <2>2. CASE CccEnd
    <3>1. buf' = [buf EXCEPT ![CCC] = NUL] /\ i' = i /\ row' = <<>> /\ col' = 0 /\ NUL \in Keys
      BY <2>2 DEF CccEnd, NewRow, Keys
    <3>2. buf' \in [0 .. LINE - 1 -> Keys] /\ i' \in 0 .. LINE
      BY <1>1, <3>1
    <3>3. QED
      BY <1>1, <1>2, <3>1, <3>2, OtherTypes
  <2>3. QED
    BY <2>1, <2>2
<1>4. ClockInv'
  BY <1>1, ClockKeeps
<1>5. KeyInv'
  BY <1>1 DEF KeyInv
<1>6. QED
  BY <1>3, <1>4, <1>5 DEF Base

(* A program is loaded, runs and returns, or is not found. *)
LEMMA LoadBase == ASSUME Base, LoadProgram \/ ProgramReturns \/ NotFound PROVE Base'
<1>1. /\ TypeOK /\ ClockInv /\ KeyInv /\ st \in {"load", "run", "result"}
      /\ st' \in {"run", "result", "answered"} /\ (st' = "result" => st = "load")
      /\ UNCHANGED <<clockVars, buf, i, row, col, line, plain>>
      /\ buf \in [0 .. LINE - 1 -> Keys] /\ i \in 0 .. LINE
  BY DEF Base, TypeOK, LoadProgram, ProgramReturns, NotFound
<1>2. ClockTypeOK' /\ st' \in States
  <2>1. ClockTypeOK'
    BY <1>1, ClockTypeStays DEF TypeOK
  <2>2. QED
    BY <1>1, <2>1 DEF States
<1>3. started' \in SUBSET Programs
  BY <1>1 DEF TypeOK, LoadProgram, ProgramReturns, NotFound
<1>4. message' \in Seq(Keys)
  <2>1. CASE NotFound
    <3>1. message' = Command /\ \E k \in 0 .. LINE - 1 : buf[k] = NUL
      BY <1>1, <2>1 DEF NotFound, KeyInv
    <3>2. QED
      BY <1>1, <3>1, CommandTyped
  <2>2. CASE LoadProgram \/ ProgramReturns
    BY <1>1, <2>2 DEF LoadProgram, ProgramReturns, TypeOK
  <2>3. QED
    BY <2>1, <2>2
<1>5. TypeOK'
  BY <1>1, <1>2, <1>3, <1>4, OtherTypes
<1>6. ClockInv'
  BY <1>1, ClockKeeps
<1>7. KeyInv'
  BY <1>1 DEF KeyInv
<1>8. QED
  BY <1>5, <1>6, <1>7 DEF Base

(* The time. *)
LEMMA DateBase == ASSUME Base, DateTicks \/ DateEnd PROVE Base'
<1>1. /\ TypeOK /\ ClockInv /\ st = "date" /\ shown = NOT_SHOWN /\ date <= DayOf(now)
      /\ UNCHANGED <<buf, i, row, col, line, plain, started, message, date>>
  BY DEF Base, ClockInv, DateTicks, DateEnd, Tick, ShowTime, shellVars
<1>2. /\ buf' \in [0 .. LINE - 1 -> Keys] /\ i' \in 0 .. LINE
      /\ started' \in SUBSET Programs /\ message' \in Seq(Keys)
  BY <1>1 DEF TypeOK
<1>3. now \in FIRST .. LAST /\ now \in Nat /\ date \in Dates /\ date \in Nat
  <2>1. ClockTypeOK
    BY <1>1 DEF TypeOK
  <2>2. now \in FIRST .. LAST
    BY <2>1 DEF ClockTypeOK
  <2>3. date \in Dates
    BY <2>1 DEF ClockTypeOK, Dates
  <2>4. QED
    BY <2>2, <2>3, ClockNumbers DEF Dates
<1>4. CASE DateTicks
  <2>1. now < LAST /\ now' = now + 1 /\ UNCHANGED <<date, shown, st>>
    BY <1>4 DEF DateTicks, Tick, shellVars
  <2>2. ClockTypeOK'
    <3>1. now' \in FIRST .. LAST
      BY <1>3, <2>1, ClockNumbers
    <3>2. QED
      BY <1>1, <1>3, <2>1, <3>1 DEF ClockTypeOK, Dates
  <2>3. TypeOK'
    <3>1. st' \in States
      BY <1>1, <2>1 DEF TypeOK
    <3>2. QED
      BY <1>1, <1>2, <2>2, <3>1, OtherTypes
  <2>4. ClockInv'
    <3>1. date <= DayOf(now + 1)
      BY <1>1, <1>3, DateStaysBehind
    <3>2. DayOf(now)' = DayOf(now + 1)
      BY <2>1 DEF DayOf
    <3>3. date' <= DayOf(now)' /\ shown' = NOT_SHOWN
      BY <1>1, <2>1, <3>1, <3>2, Zenon
    <3>4. QED
      BY <1>1, <2>1, <3>3 DEF ClockInv, NeverAhead
  <2>5. KeyInv'
    BY <1>1, <2>1 DEF KeyInv
  <2>6. QED
    BY <2>3, <2>4, <2>5 DEF Base
<1>5. CASE DateEnd
  <2>1. shown' = date * DAY + ReadTime(now) /\ UNCHANGED <<now, date>> /\ st' = "answered"
    BY <1>5 DEF DateEnd, ShowTime
  <2>2. shown' = date * DAY + TimeOf(now)
    <3>1. ReadTime(now) = TimeOf(now)
      BY <1>3, ClockIsRead
    <3>2. QED
      BY <2>1, <3>1, Zenon
  <2>3. shown' \in Nat /\ shown' <= now /\ (now - shown') % DAY = 0
        /\ (date = DayOf(now) => shown' = now)
    BY <1>1, <1>3, <2>2, ShownIsBehind
  <2>4. ClockTypeOK'
    BY <1>3, <2>1, <2>3 DEF ClockTypeOK, Dates
  <2>5. TypeOK'
    <3>1. st' \in States
      BY <2>1 DEF States
    <3>2. QED
      BY <1>1, <1>2, <2>4, <3>1, OtherTypes
  <2>6. ClockInv'
    BY <2>1, <2>3 DEF ClockInv, NeverAhead, DayOf
  <2>7. KeyInv'
    BY <2>1 DEF KeyInv
  <2>8. QED
    BY <2>5, <2>6, <2>7 DEF Base
<1>6. QED
  BY <1>4, <1>5

(* The way back to the shell from startk and init, and a failing drive. *)
Elsewhere ==
  BootAgain \/ LoadInit \/ InitUnread \/ StartkLoop \/ InitRunsShell \/ DriveFails

LEMMA ElsewhereGoes ==
  ASSUME Elsewhere
  PROVE  /\ st \in {"load", "boot", "startk", "again", "init"}
         /\ st' \in {"startk", "again", "init", "prompt", "halted"}
         /\ (row' = <<>> /\ col' = 0) \/ UNCHANGED <<row, col>>
         /\ UNCHANGED <<clockVars, buf, i, line, plain, started, message>>
BY DEF Elsewhere, BootAgain, LoadInit, InitUnread, StartkLoop, InitRunsShell, DriveFails,
       GoTo, NewRow

LEMMA ElsewhereBase == ASSUME Base, Elsewhere PROVE Base'
<1>1. TypeOK /\ ClockInv
  BY DEF Base
<1>2. ClockTypeOK'
  BY <1>1, ElsewhereGoes, ClockTypeStays DEF TypeOK
<1>3. /\ buf' \in [0 .. LINE - 1 -> Keys] /\ i' \in 0 .. LINE /\ st' \in States
      /\ started' \in SUBSET Programs /\ message' \in Seq(Keys)
  BY <1>1, ElsewhereGoes DEF TypeOK, States
<1>4. TypeOK'
  BY <1>1, <1>2, <1>3, ElsewhereGoes, OtherTypes
<1>5. ClockInv'
  BY <1>1, ElsewhereGoes, ClockKeeps
<1>6. KeyInv'
  BY ElsewhereGoes DEF KeyInv
<1>7. QED
  BY <1>4, <1>5, <1>6 DEF Base

(* The next prompt. *)
LEMMA AgainBase == ASSUME Base, NextPrompt PROVE Base'
<1>1. /\ TypeOK /\ st' = "prompt" /\ row' = <<>> /\ col' = 0
      /\ UNCHANGED <<buf, i, line, plain, started, message>>
      /\ now' = FIRST /\ date' = 0 /\ shown' = NOT_SHOWN
  BY DEF Base, NextPrompt, NewRow
<1>2. ClockTypeOK'
  BY <1>1, ClockNumbers DEF ClockTypeOK
<1>3. ClockInv'
  BY <1>1 DEF ClockInv, NeverAhead
<1>4. /\ buf' \in [0 .. LINE - 1 -> Keys] /\ i' \in 0 .. LINE /\ st' \in States
      /\ started' \in SUBSET Programs /\ message' \in Seq(Keys)
  BY <1>1 DEF TypeOK, States
<1>5. TypeOK'
  BY <1>1, <1>2, <1>4, OtherTypes
<1>6. KeyInv'
  BY <1>1 DEF KeyInv
<1>7. QED
  BY <1>3, <1>5, <1>6 DEF Base

LEMMA StutterBase == ASSUME Base, UNCHANGED vars PROVE Base'
<1>1. TypeOK /\ ClockInv /\ KeyInv
      /\ UNCHANGED <<clockVars, st, buf, i, row, col, line, plain, started, message>>
  BY DEF Base, vars, shellVars
<1>2. ClockTypeOK'
  BY <1>1, ClockTypeStays DEF TypeOK
<1>3. /\ buf' \in [0 .. LINE - 1 -> Keys] /\ i' \in 0 .. LINE /\ st' \in States
      /\ started' \in SUBSET Programs /\ message' \in Seq(Keys)
  BY <1>1 DEF TypeOK
<1>4. TypeOK'
  BY <1>1, <1>2, <1>3, OtherTypes
<1>5. ClockInv'
  BY <1>1, ClockKeeps
<1>6. KeyInv'
  BY <1>1 DEF KeyInv
<1>7. QED
  BY <1>4, <1>5, <1>6 DEF Base

LEMMA NextBase == ASSUME Base, [Next]_vars PROVE Base'
<1>1. CASE ShellStep
  BY <1>1, PromptBase, ExecuteBase, CccBase, LoadBase, DateBase, AgainBase, ElsewhereBase
  DEF ShellStep, Elsewhere
<1>2. CASE Key
  BY <1>2, KeyBase
<1>3. CASE \E c \in Keys : CccKey(c)
  BY <1>3, CccBase
<1>4. CASE ProgramReturns
  BY <1>4, LoadBase
<1>5. CASE DateTicks
  BY <1>5, DateBase
<1>6. CASE InitUnread \/ DriveFails
  BY <1>6, ElsewhereBase DEF Elsewhere
<1>7. CASE UNCHANGED vars
  BY <1>7, StutterBase
<1>8. QED
  BY <1>1, <1>2, <1>3, <1>4, <1>5, <1>6, <1>7 DEF Next, Halted

-----------------------------------------------------------------------------
(* What holds of a plain line, step by step. *)

(* An answer to the line on the screen. *)
LEMMA Answers ==
  ASSUME UNCHANGED line,
         started' = (IF Own THEN {} ELSE Programs \cap {Typed}),
         message' = (IF Own \/ Typed \in Programs THEN NoMessage ELSE Typed)
  PROVE  CommandIsLine'
<1>1. Typed' = Typed
  BY DEF Typed
<1>2. QED
  BY <1>1 DEF CommandIsLine, Own

(* The line and the command are as they were. *)
LEMMA SameLine ==
  ASSUME UNCHANGED <<line, buf>>
  PROVE  Typed' = Typed /\ (Own' <=> Own) /\ Command' = Command
<1>1. Typed' = Typed /\ Command' = Command
  BY DEF Typed, Command
<1>2. QED
  BY <1>1 DEF Own

(* A prompt, with which a plain line begins. *)
LEMMA PromptLines == ASSUME Prompt PROVE Lines'
<1>1. /\ st' = "key" /\ row' = PROMPT /\ col' = Len(PROMPT) /\ i' = 0
      /\ started' = {} /\ message' = NoMessage
  BY DEF Prompt
<1>2. Len(PROMPT) = 2 /\ PROMPT[1] = "#" /\ PROMPT[2] = " "
  BY DEF PROMPT
<1>3. EchoInv'
  <2>1. i' <= LINE - 1 /\ i' = 0
    BY <1>1, LineNumbers
  <2>2. col' = 2 /\ Len(row') = 2 /\ row'[1] = "#" /\ row'[2] = " "
    BY <1>1, <1>2, Zenon
  <2> DEFINE Empty(n, c, m) == /\ c = n + 2 /\ c <= m
                               /\ \A k \in 0 .. n - 1 : FALSE
                               /\ \A k \in c + 1 .. m : FALSE
  <2>3. Empty(0, 2, 2)
    OBVIOUS
  <2> HIDE DEF Empty
  <2>4. Empty(i', col', Len(row'))
    BY <2>1, <2>2, <2>3, Zenon
  <2>5. QED
    BY <2>1, <2>2, <2>4 DEF EchoInv, Empty
<1>4. LineInv' /\ CommandIsLine'
  BY <1>1 DEF LineInv, CommandIsLine
<1>5. QED
  BY <1>3, <1>4 DEF Lines

(* The keys of a plain line. *)
LEMMA KeyLines ==
  ASSUME TypeOK, Lines,
         Backspace \/ Enter \/ \E c \in Letters \cup {NUL} : Character(c)
  PROVE  Lines'
<1>1. EchoInv /\ LineInv
  BY DEF Lines
<1>2. CASE Backspace \/ \E c \in Letters \cup {NUL} : Character(c)
  <2>1. st = "key" /\ UNCHANGED <<st, line, started, message>>
    BY <1>2 DEF Backspace, Character
  <2>2. EchoInv'
    BY <1>1, <1>2, BackspaceEchoes, CharacterEchoes
  <2>3. LineInv' /\ CommandIsLine'
    BY <1>1, <2>1 DEF LineInv, CommandIsLine
  <2>4. QED
    BY <2>2, <2>3 DEF Lines
<1>3. CASE Enter
  <2>1. LineInv'
    BY <1>1, <1>3, EnterReads
  <2>2. st' = "execute"
    BY <1>3 DEF Enter
  <2>3. EchoInv' /\ CommandIsLine'
    BY <2>2 DEF EchoInv, CommandIsLine
  <2>4. QED
    BY <2>1, <2>3 DEF Lines
<1>4. QED
  BY <1>2, <1>3

LEMMA ExecuteLines == ASSUME Lines, Execute PROVE Lines'
<1>1. /\ st = "execute" /\ UNCHANGED <<buf, line, started, message>>
      /\ Command = Typed /\ started = {} /\ message = NoMessage
  BY DEF Lines, LineInv, Execute
<1>2. Typed' = Typed /\ (Own' <=> Own) /\ Command' = Command
  BY <1>1, SameLine
<1>3. \/ Own /\ st' \in {"answered", "ccc", "halted", "boot", "startk", "date"}
      \/ ~Own /\ st' = "load"
  BY <1>1, ExecuteGoes, OwnCommands
<1>4. EchoInv'
  BY <1>3 DEF EchoInv
<1>5. LineInv'
  BY <1>1, <1>2, <1>3 DEF LineInv
<1>6. CommandIsLine'
  <2>1. CASE st' = "answered"
    BY <1>1, <1>3, <2>1, Answers
  <2>2. CASE st' # "answered"
    BY <2>2 DEF CommandIsLine
  <2>3. QED
    BY <2>1, <2>2
<1>7. QED
  BY <1>4, <1>5, <1>6 DEF Lines

(* "ccc" writes over buf, not over the line; "date" over neither. *)
LEMMA OwnLines ==
  ASSUME Lines, (\E c \in Keys : CccKey(c)) \/ CccEnd \/ DateTicks \/ DateEnd
  PROVE  Lines'
<1>1. /\ st \in {"ccc", "date"} /\ (st' = st \/ st' = "answered")
      /\ Own /\ started = {} /\ message = NoMessage
      /\ UNCHANGED <<line, started, message>>
  BY DEF Lines, LineInv, CccKey, CccEnd, DateTicks, DateEnd, shellVars
<1>2. Own' <=> Own
  BY <1>1 DEF Own, Typed
<1>3. EchoInv'
  BY <1>1 DEF EchoInv
<1>4. LineInv'
  BY <1>1, <1>2 DEF LineInv
<1>5. CommandIsLine'
  BY <1>1, Answers
<1>6. QED
  BY <1>3, <1>4, <1>5 DEF Lines

(* A program is started if there is one of that name. *)
LEMMA LoadLines == ASSUME Lines, LoadProgram \/ ProgramReturns \/ NotFound PROVE Lines'
<1>1. LineInv /\ st \in {"load", "run", "result"} /\ UNCHANGED <<buf, line>>
  BY DEF Lines, LoadProgram, ProgramReturns, NotFound
<1>2. Typed' = Typed /\ (Own' <=> Own) /\ Command' = Command /\ ~Own
  BY <1>1, SameLine DEF LineInv
<1>3. \/ /\ st = "load" /\ Typed \in Programs /\ st' = "run"
         /\ started' = {Typed} /\ message' = NoMessage
      \/ /\ st = "load" /\ Typed \notin Programs /\ st' = "result" /\ Command = Typed
         /\ started' = {} /\ message' = NoMessage
      \/ /\ st = "run" /\ Typed \in Programs /\ st' = "answered"
         /\ started' = {Typed} /\ message' = NoMessage
      \/ /\ st = "result" /\ Typed \notin Programs /\ st' = "answered"
         /\ started' = {} /\ message' = Typed
  <2>1. CASE LoadProgram
    BY <1>1, <2>1 DEF LoadProgram, LineInv
  <2>2. CASE ProgramReturns
    BY <1>1, <2>2 DEF ProgramReturns, LineInv
  <2>3. CASE NotFound
    BY <1>1, <2>3 DEF NotFound, LineInv
  <2>4. QED
    BY <2>1, <2>2, <2>3
<1>4. EchoInv'
  BY <1>3 DEF EchoInv
<1>5. LineInv'
  BY <1>2, <1>3 DEF LineInv
<1>6. CommandIsLine'
  <2>1. ASSUME st' = "answered"
        PROVE  /\ started' = Programs \cap {Typed}
               /\ message' = IF Typed \in Programs THEN NoMessage ELSE Typed
    BY <1>3, <2>1
  <2>2. QED
    BY <1>1, <1>2, <2>1, Answers DEF CommandIsLine
<1>7. QED
  BY <1>4, <1>5, <1>6 DEF Lines

LEMMA AgainLines == ASSUME NextPrompt \/ Elsewhere PROVE Lines'
<1>1. st' \in {"startk", "again", "init", "prompt", "halted"}
  BY ElsewhereGoes DEF NextPrompt
<1>2. QED
  BY <1>1 DEF Lines, EchoInv, LineInv, CommandIsLine

LEMMA StutterLines == ASSUME Lines, plain, UNCHANGED vars PROVE Lines'
<1>1. EchoInv /\ LineInv /\ CommandIsLine
      /\ UNCHANGED <<st, buf, i, row, col, line, plain, started, message>>
  BY DEF Lines, vars, shellVars
<1>2. Typed' = Typed /\ (Own' <=> Own) /\ Command' = Command
  BY <1>1, SameLine
<1>3. EchoInv' /\ LineInv'
  BY <1>1, <1>2 DEF EchoInv, LineInv
<1>4. CommandIsLine'
  BY <1>1, <1>2 DEF CommandIsLine, Own
<1>5. QED
  BY <1>3, <1>4 DEF Lines

(* A line that is plain after a step was plain before, or has just begun;  *)
(* and the step was not a bell or a line feed.                             *)
LEMMA StaysPlain ==
  ASSUME [Next]_vars, plain', ~Prompt
  PROVE  /\ plain
         /\ Key => Backspace \/ Enter \/ \E c \in Letters \cup {NUL} : Character(c)
<1>1. CASE \E c \in Letters \cup Controls \cup {NUL} : Character(c)
  <2>1. PICK c \in Letters \cup Controls \cup {NUL} : Character(c)
    BY <1>1
  <2>2. plain' = (plain /\ c \notin Controls)
    BY <2>1 DEF Character
  <2>3. plain /\ c \notin Controls
    BY <2>2
  <2>4. c \in Letters \cup {NUL}
    BY <2>3
  <2>5. QED
    BY <2>1, <2>3, <2>4
<1>2. CASE ~ \E c \in Letters \cup Controls \cup {NUL} : Character(c)
  <2>1. plain' = plain
    BY <1>2 DEF Next, ShellStep, Key, Backspace, Enter, Execute, CccKey, CccEnd, LoadProgram,
       ProgramReturns, NotFound, DateTicks, DateEnd, NextPrompt, BootAgain, LoadInit,
       InitUnread, StartkLoop, InitRunsShell, GoTo, DriveFails, Halted, vars, shellVars
  <2>2. plain
    BY <2>1
  <2>3. QED
    BY <1>2, <2>2 DEF Key
<1>3. QED
  BY <1>1, <1>2

LEMMA NextLines ==
  ASSUME TypeOK, Lines, plain, [Next]_vars, plain', ~Prompt
  PROVE  Lines'
<1>1. CASE ShellStep
  BY <1>1, ExecuteLines, OwnLines, LoadLines, AgainLines DEF ShellStep, Elsewhere
<1>2. CASE Key
  BY <1>2, StaysPlain, KeyLines
<1>3. CASE (\E c \in Keys : CccKey(c)) \/ DateTicks
  BY <1>3, OwnLines
<1>4. CASE ProgramReturns
  BY <1>4, LoadLines
<1>5. CASE InitUnread \/ DriveFails
  BY <1>5, AgainLines DEF Elsewhere
<1>6. CASE UNCHANGED vars
  BY <1>6, StutterLines
<1>7. QED
  BY <1>1, <1>2, <1>3, <1>4, <1>5, <1>6 DEF Next, Halted

LEMMA NextShell == ShellInv /\ [Next]_vars => ShellInv'
<1> SUFFICES ASSUME ShellInv, [Next]_vars PROVE ShellInv'
  OBVIOUS
<1>1. Base'
  BY NextBase DEF ShellInv
<1>2. ASSUME plain' PROVE Lines'
  <2>1. CASE Prompt
    BY <2>1, PromptLines
  <2>2. CASE ~Prompt
    <3>1. plain
      BY <1>2, <2>2, StaysPlain
    <3>2. Lines /\ TypeOK
      BY <3>1 DEF ShellInv, Base
    <3>3. QED
      BY <1>2, <2>2, <3>1, <3>2, NextLines
  <2>3. QED
    BY <2>1, <2>2
<1>3. QED
  BY <1>1, <1>2 DEF ShellInv

(* What is always so, and what is so of plain lines, together.             *)
THEOREM ShellInvariant == Spec => []ShellInv
BY InitShell, NextShell, PTL DEF Spec

(* Whatever is typed, the line stays inside buf and the cursor at its row, *)
(* and everything else in its bounds.                                      *)
THEOREM ShellTypeCorrect == Spec => []TypeOK
<1>1. ShellInv => TypeOK
  BY DEF ShellInv, Base
<1>2. QED
  BY <1>1, ShellInvariant, PTL

(* The screen shows what is in buf while a line without bells and line     *)
(* feeds is edited, whatever lines with them came before: the theorem of   *)
(* EchoMatches.                                                            *)
THEOREM ScreenShowsLine == Spec => []EchoMatches
<1>1. ShellInv => EchoMatches
  BY EchoIsRight DEF ShellInv, Base, Lines
<1>2. QED
  BY <1>1, ShellInvariant, PTL

(* What is executed is what stood on the screen, again for such lines: the *)
(* theorem of CommandIsLine.                                               *)
THEOREM CommandsAreLines == Spec => []CommandIsLine
<1>1. ShellInv => CommandIsLine
  BY DEF ShellInv, Lines, CommandIsLine
<1>2. QED
  BY <1>1, ShellInvariant, PTL

(* The time printed is never ahead of the clock: the theorem of NeverAhead. *)
THEOREM TimeIsNeverAhead == Spec => []NeverAhead
<1>1. ShellInv => NeverAhead
  BY DEF ShellInv, Base, ClockInv
<1>2. QED
  BY <1>1, ShellInvariant, PTL
=============================================================================
