-------------------------------- MODULE Clock --------------------------------
(***************************************************************************)
(* time() of kernel/kernel.c prints the date and then the time of day,     *)
(* read from the real time clock by two BIOS calls (kernel/bios.c), while  *)
(* the clock goes on.  The clock's registers hold two decimal digits each. *)
(*                                                                         *)
(* A moment is a number: the date times the moments of a day, plus the     *)
(* time of day.  A date is a number of four digits, in two registers like  *)
(* the year; month, day, minutes and seconds are decoded like the hours.   *)
(***************************************************************************)
EXTENDS Integers

CONSTANTS DAY,             \* moments of a day (hours: 24)
          FIRST, LAST      \* bounds: the moments the model looks at

ASSUME ClockAssumption ==
  /\ DAY \in 1 .. 100 /\ FIRST \in Nat /\ LAST \in Nat
  /\ FIRST <= LAST /\ LAST < 10000 * DAY

VARIABLES now,             \* the real time clock
          date,            \* what read_RTC_date has read
          shown            \* the moment printed, or NOT_SHOWN

clockVars == <<now, date, shown>>

NOT_SHOWN == -1

ClockTypeOK ==
  /\ now \in FIRST .. LAST
  /\ date \in 0 .. 9999
  /\ shown \in {NOT_SHOWN} \cup Nat

ClockInit == now = FIRST /\ date = 0 /\ shown = NOT_SHOWN

(* A register of the clock that holds n < 100. *)
Bcd(n) == 16 * (n \div 10) + (n % 10)

(* Mutant: the high nibble is not shifted down. *)
FromBcdUnshifted(b) == (b - (b % 16)) * 10 + (b % 16)

(* ((b & 0xF0) >> 4) * 10 + (b & 0x0F) *)
FromBcd(b) == (b \div 16) * 10 + (b % 16)

(* out_year, of the century's and the year's register. *)
FromCentury(c, y) == (c \div 16) * 1000 + (c % 16) * 100 + (y \div 16) * 10 + (y % 16)

(* read_RTC_date and read_RTC_time, by what the clock shows at moment t. *)
ReadDate(t) == FromCentury(Bcd((t \div DAY) \div 100), Bcd((t \div DAY) % 100))
ReadTime(t) == FromBcd(Bcd(t % DAY))

(* Some time has passed since the last look at the clock. *)
LookAtClock == \E t \in FIRST .. LAST : now' = t /\ date' = ReadDate(t) /\ shown' = NOT_SHOWN

(* The clock goes on between the two calls. *)
Tick == now < LAST /\ now' = now + 1 /\ UNCHANGED <<date, shown>>

(* Mutant: the time of day is read first and the date after it. *)
ShowTimeBackwards == shown' = ReadDate(now) * DAY + ReadTime(now - 1) /\ UNCHANGED <<now, date>>

ShowTime == shown' = date * DAY + ReadTime(now) /\ UNCHANGED <<now, date>>

(* What is printed is not in the future, has the right time of day, and is *)
(* right altogether unless a midnight has passed between the two calls.    *)
(* Then the new time comes with the old date, a day behind, which the code *)
(* does not notice and this accepts; what it excludes is the old time with *)
(* the new date, a day ahead.                                              *)
NeverAhead ==
  shown # NOT_SHOWN => /\ shown <= now
                       /\ (now - shown) % DAY = 0
                       /\ date = now \div DAY => shown = now
=============================================================================
