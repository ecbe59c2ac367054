-------------------------------- MODULE Clock ---------------------------------
(***************************************************************************)
(* ax_time_now() of src/kernel/axshell.c reads the clock register by       *)
(* register while the clock goes on.  The clock, external, counts in       *)
(* registers of two decimal digits, the lowest first; the code neither     *)
(* waits for an update to pass nor reads twice.                            *)
(***************************************************************************)
EXTENDS Integers, SequencesExt

CONSTANTS
    Radix,        \* how many values each register has, seconds first
    StartTime,    \* bound of the model: the first reading begins not before this
    MaxSeconds    \* bound of the model: for how long the clock is watched

ASSUME ClockAssumption ==
    /\ Radix \in Seq(1 .. 99) /\ Len(Radix) >= 2
    /\ StartTime \in Nat /\ MaxSeconds \in Nat

VARIABLES
    now,          \* the seconds the clock has counted
    reading,      \* the registers read so far
    began         \* when the reading began

clockVars == <<now, reading, began>>

Registers == DOMAIN Radix

\* What one step of each register is worth, from register 1 on.
Worths[r \in 0 .. Len(Radix)] == IF r = 0 THEN 1 ELSE Worths[r - 1] * Radix[r]

Worth(r) == Worths[r - 1]

\* The clock is watched in the hundred years that its registers tell apart.
ASSUME CenturyAssumption == StartTime + Worth(3) + MaxSeconds < Worth(Len(Radix) + 1)

\* The registers up to each, added up.
Sums(fields) ==
    LET sum[r \in 0 .. Len(Radix)] ==
          IF r = 0 THEN 0 ELSE sum[r - 1] + fields[r] * Worth(r)
    IN  sum

Value(fields) == Sums(fields)[Len(Radix)]

Digits(n) == ((n \div 10) * 16) + (n % 10)

\* The register of the clock at a time.
rtc(time, r) == Digits((time \div Worth(r)) % Radix[r])

bcd2bin(v) == (v % 16) + ((v \div 16) * 10)

\* Faulty variant: the slow registers are read before the fast ones.
NextRegister_Down(read) == Len(Radix) - Len(read)

\* Second, minute, hour, day, month, year.
NextRegister(read) == Len(read) + 1

ClockInit ==
    /\ now \in StartTime .. StartTime + Worth(3)
    /\ reading = << >> /\ began = now

second ==
    /\ now < StartTime + MaxSeconds
    /\ now' = now + 1
    /\ UNCHANGED <<reading, began>>

rtc_read ==
    /\ Len(reading) < Len(Radix)
    /\ LET r == NextRegister(reading)
       IN  reading' = Append(reading, [reg |-> r, val |-> bcd2bin(rtc(now, r))])
    /\ began' = IF reading = << >> THEN now ELSE began
    /\ UNCHANGED now

ax_time_now == Len(reading) = Len(Radix) /\ reading' = << >> /\ UNCHANGED <<now, began>>

ClockNext == second \/ rtc_read \/ ax_time_now

ClockSpec == ClockInit /\ [][ClockNext]_clockVars

\* The time that was read.
Fields == [r \in Registers |-> (CHOOSE f \in ToSet(reading) : f.reg = r).val]

-----------------------------------------------------------------------------
(* Properties. *)

\* A carry in the middle of a reading can put the time that is read ahead of the
\* clock, by as much as the carry is worth, but never behind the moment the
\* reading began; and without a carry between two registers it is exact.
NeverBehind ==
    Len(reading) = Len(Radix) =>
        /\ Value(Fields) >= began
        /\ began \div Worth(2) = now \div Worth(2) => Value(Fields) <= now

=============================================================================
