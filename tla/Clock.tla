------------------------------- MODULE Clock -------------------------------
(***************************************************************************)
(* The real-time clock driver, kernel/rtc.c.  The logger and the ui task   *)
(* both read the clock, register by register, through one index port; the  *)
(* ui task preempts the logger wherever it is, and the clock goes on.      *)
(* What the registers say is decoded and moved by the time-zone offset.    *)
(***************************************************************************)
EXTENDS Integers, Sequences

CONSTANTS
    Starts,       \* the instants the clock may start at
    Attempts,     \* how often rtc_read tries
    MaxUpdates,   \* bounds the seconds that pass
    Minutes       \* the arguments of rtc_set_offset

Months == 1 .. 12
LastYear == 2199  \* bounds the years that pass: rtc_read takes no later century

IsLeap(y) == (y % 4 = 0 /\ y % 100 # 0) \/ y % 400 = 0

DaysInMonth(y, m) ==
    IF m = 2 THEN (IF IsLeap(y) THEN 29 ELSE 28) ELSE IF m \in {4, 6, 9, 11} THEN 30 ELSE 31

Instant ==
    {t \in [sec : 0 .. 59, min : 0 .. 59, hour : 0 .. 23, day : 1 .. 31, mon : Months,
            year : 1900 .. LastYear] : t.day <= DaysInMonth(t.year, t.mon)}

ClockAssumption ==
    /\ Starts \subseteq Instant
    /\ {Attempts, MaxUpdates} \subseteq Nat /\ Attempts > 0
    /\ Minutes \subseteq Int

VARIABLES
    now,          \* the instant the clock holds
    format,       \* how it holds it: in BCD or binary, in 12 or 24 hours
    updating,     \* an update is in progress (bit 7 of register A)
    passed,       \* updates so far
    index,        \* the register the index port selects
    access,       \* the register access the logger is at; 0 outside rtc_read
    pointed,      \* it has written the index port for it
    attempt,      \* how many attempts it has given up
    got,          \* what it has read
    offset,       \* g_offset_min
    reading,      \* what its last rtc_read returned
    disturbed     \* history: the clock moved on, or the index port was
                  \* changed under a read, since the attempt began

clock == <<now, format, updating, passed>>
reader == <<access, pointed, attempt, got, reading, disturbed>>
clockVars == <<clock, index, reader, offset>>

(* The registers rtc_read reads, in this order, A first and last *)
RegA == 10
RegB == 11
Century == 50
Order == << RegA, 0, 2, 4, 6, 7, 8, 9, RegB, Century, RegA >>
Registers == {Order[i] : i \in DOMAIN Order}

-----------------------------------------------------------------------------
(* The calendar, and what the clock does *)

NextDay(t) ==
    IF t.day < DaysInMonth(t.year, t.mon) THEN [t EXCEPT !.day = @ + 1]
    ELSE IF t.mon < 12 THEN [t EXCEPT !.day = 1, !.mon = @ + 1]
    ELSE [t EXCEPT !.day = 1, !.mon = 1, !.year = @ + 1]

NextSecond(t) ==
    IF t.sec < 59 THEN [t EXCEPT !.sec = @ + 1]
    ELSE IF t.min < 59 THEN [t EXCEPT !.sec = 0, !.min = @ + 1]
    ELSE IF t.hour < 23 THEN [t EXCEPT !.sec = 0, !.min = 0, !.hour = @ + 1]
    ELSE NextDay([t EXCEPT !.sec = 0, !.min = 0, !.hour = 0])

(* Days since the last day of the year 0, one month after the other *)
YearDays(y) == 365 * (y - 1) + (y - 1) \div 4 - (y - 1) \div 100 + (y - 1) \div 400
DaysBefore(y, m) ==
    LET before[k \in 0 .. 11] == IF k = 0 THEN 0 ELSE before[k - 1] + DaysInMonth(y, k)
    IN  before[m - 1]
DayNumber(t) == YearDays(t.year) + DaysBefore(t.year, t.mon) + t.day

(* 1 January of the year 1 was a Monday. *)
DayOfWeek(t) == DayNumber(t) % 7

Bcd(n) == 16 * (n \div 10) + (n % 10)
Encoded(n) == IF format.bcd THEN Bcd(n) ELSE n

EncodedHour(h) ==
    IF format.h12
    THEN Encoded(IF h % 12 = 0 THEN 12 ELSE h % 12) + (IF h >= 12 THEN 128 ELSE 0)
    ELSE Encoded(h)

Register(r) ==
    CASE r = 0 -> Encoded(now.sec)
      [] r = 2 -> Encoded(now.min)
      [] r = 4 -> EncodedHour(now.hour)
      [] r = 6 -> DayOfWeek(now) + 1
      [] r = 7 -> Encoded(now.day)
      [] r = 8 -> Encoded(now.mon)
      [] r = 9 -> Encoded(now.year % 100)
      [] r = RegA -> IF updating THEN 128 ELSE 0
      [] r = RegB -> (IF format.bcd THEN 0 ELSE 4) + (IF format.h12 THEN 0 ELSE 2)
      [] OTHER -> Encoded(now.year \div 100)

UpdateBegins ==
    /\ ~updating /\ passed < MaxUpdates /\ NextSecond(now).year <= LastYear
    /\ updating' = TRUE
    /\ UNCHANGED <<now, format, passed, index, reader, offset>>

UpdateEnds ==
    /\ updating
    /\ updating' = FALSE /\ now' = NextSecond(now) /\ passed' = passed + 1
    /\ disturbed' = TRUE
    /\ UNCHANGED <<format, index, access, pointed, attempt, got, reading, offset>>

-----------------------------------------------------------------------------
(* The conversions of rtc_read *)

FromBcd(v) == (v % 16) + 10 * (v \div 16)
Decoded(v) == IF got[RegB] % 8 < 4 THEN FromBcd(v) ELSE v
Hours12 == (got[RegB] \div 2) % 2 = 0

Hour ==
    LET pm == got[4] >= 128
        h == Decoded(got[4] % 128)
    IN  IF ~Hours12 THEN Decoded(got[4])
        ELSE IF pm /\ h # 12 THEN h + 12
        ELSE IF ~pm /\ h = 12 THEN 0
        ELSE h

CenturyRead == IF Decoded(got[Century]) \in 19 .. 21 THEN Decoded(got[Century]) ELSE 20

Raw == [sec |-> Decoded(got[0]), min |-> Decoded(got[2]), hour |-> Hour,
        day |-> Decoded(got[7]), mon |-> Decoded(got[8]),
        year |-> CenturyRead * 100 + Decoded(got[9]), weekday |-> Decoded(got[6]) % 8]

-----------------------------------------------------------------------------
(* apply_offset *)

(* days_from_civil; years are never negative here. *)
DaysFromCivil(t) ==
    LET y == IF t.mon <= 2 THEN t.year - 1 ELSE t.year
        era == y \div 400
        yoe == y - era * 400
        doy == (153 * (t.mon + (IF t.mon > 2 THEN -3 ELSE 9)) + 2) \div 5 + t.day - 1
        doe == yoe * 365 + yoe \div 4 - yoe \div 100 + doy
    IN  era * 146097 + doe - 719468

(* days_in_month, which a garbled month does not lead astray *)
Days(t) == IF t.mon \in Months THEN DaysInMonth(t.year, t.mon) ELSE 30

(* Bug: the day is taken from the month that ends, not the one before. *)
BackADayLate(t) ==
    IF t.day >= 1 THEN t
    ELSE LET m == IF t.mon - 1 < 1 THEN 12 ELSE t.mon - 1
         IN  [t EXCEPT !.mon = m, !.year = IF t.mon - 1 < 1 THEN @ - 1 ELSE @, !.day = @ + Days(t)]

(* The two loops on the day: the offset is at most 14 hours, so a day that *)
(* can be goes over at most one end of a month.                            *)
BackADay(t) ==
    LET m == IF t.mon - 1 < 1 THEN [t EXCEPT !.mon = 12, !.year = @ - 1]
             ELSE [t EXCEPT !.mon = @ - 1]
    IN  IF t.day >= 1 THEN t ELSE [m EXCEPT !.day = @ + Days(m)]

OnADay(t) ==
    IF t.day <= Days(t) THEN t
    ELSE LET n == [t EXCEPT !.day = @ - Days(t)]
         IN  IF n.mon + 1 > 12 THEN [n EXCEPT !.mon = 1, !.year = @ + 1]
             ELSE [n EXCEPT !.mon = @ + 1]

ApplyOffset(t) ==
    LET total == t.hour * 60 + t.min + offset
        delta == total \div 1440
        timed == [t EXCEPT !.hour = (total % 1440) \div 60, !.min = (total % 1440) % 60]
        dated == OnADay(BackADay([timed EXCEPT !.day = @ + delta]))
    IN  IF offset = 0 THEN t
        ELSE IF delta = 0 THEN timed
        ELSE [dated EXCEPT !.weekday = (DaysFromCivil(dated) + 4) % 7]

-----------------------------------------------------------------------------
(* rtc_read *)

NoReading == [sec |-> 0, min |-> 0, hour |-> 0, day |-> 0, mon |-> 0, year |-> 0, weekday |-> 0]

(* The locals of rtc_read before it has read anything *)
Blank == [r \in Registers |-> 0]

ClockInit ==
    /\ now \in Starts /\ format \in [bcd : BOOLEAN, h12 : BOOLEAN]
    /\ updating = FALSE /\ passed = 0
    /\ index = 0
    /\ access = 0 /\ pointed = FALSE /\ attempt = 0
    /\ got = Blank
    /\ reading = NoReading /\ disturbed = FALSE
    /\ offset = 0

RtcRead ==
    /\ access = 0
    /\ access' = 1 /\ attempt' = 0
    /\ reading' = NoReading
    /\ UNCHANGED <<clock, index, pointed, got, disturbed, offset>>

(* The first half of cmos_read and of rtc_updating *)
Select ==
    /\ access > 0 /\ ~pointed
    /\ index' = Order[access] /\ pointed' = TRUE
    /\ UNCHANGED <<clock, access, attempt, got, reading, disturbed, offset>>

(* while (rtc_updating()) *)
Wait ==
    /\ access = 1 /\ pointed
    /\ access' = IF Register(index) >= 128 THEN 1 ELSE 2
    /\ pointed' = FALSE /\ disturbed' = FALSE
    /\ UNCHANGED <<clock, index, attempt, got, reading, offset>>

ReadRegister ==
    /\ access > 1 /\ access < Len(Order) /\ pointed
    /\ got' = [got EXCEPT ![Order[access]] = Register(index)]
    /\ access' = access + 1 /\ pointed' = FALSE
    /\ UNCHANGED <<clock, index, attempt, reading, disturbed, offset>>

(* if (!rtc_updating()) break; and what follows the loop *)
Check ==
    /\ access = Len(Order) /\ pointed
    /\ pointed' = FALSE
    /\ \/ /\ Register(index) >= 128 /\ attempt + 1 < Attempts
          /\ attempt' = attempt + 1 /\ access' = 1
          /\ UNCHANGED <<reading, got>>
       \/ /\ Register(index) < 128 \/ attempt + 1 = Attempts
          /\ access' = 0
          /\ reading' = ApplyOffset(Raw) /\ got' = Blank
          /\ UNCHANGED attempt
    /\ UNCHANGED <<clock, index, disturbed, offset>>

(* The ui task preempts the logger and reads the clock itself.  More than  *)
(* one such read that hurts in an attempt shows nothing new. *)
UiReads ==
    /\ access > 0 /\ ~disturbed
    /\ index' = RegA
    /\ disturbed' = (disturbed \/ (pointed /\ Order[access] # RegA))
    /\ UNCHANGED <<clock, access, pointed, attempt, got, reading, offset>>

Clamped(m) == IF m < -720 THEN -720 ELSE IF m > 840 THEN 840 ELSE m

(* rtc_set_offset, by the settings or the terminal *)
RtcSetOffset(m) ==
    /\ access = 0
    /\ offset' = Clamped(m)
    /\ UNCHANGED <<clock, index, reader>>

ClockNext ==
    \/ UpdateBegins \/ UpdateEnds
    \/ RtcRead \/ Select \/ Wait \/ ReadRegister \/ Check
    \/ UiReads \/ \E m \in Minutes : RtcSetOffset(m)

ClockSpec == ClockInit /\ [][ClockNext]_clockVars

-----------------------------------------------------------------------------
(* Properties *)

ClockTypeOK ==
    /\ now \in Instant /\ updating \in BOOLEAN /\ passed \in 0 .. MaxUpdates
    /\ index \in Registers
    /\ access \in 0 .. Len(Order) /\ pointed \in BOOLEAN /\ attempt \in 0 .. Attempts - 1
    /\ got \in [Registers -> 0 .. 255]
    /\ offset \in -720 .. 840 /\ disturbed \in BOOLEAN

Returned == access = Len(Order) /\ access' = 0

(* A reading during which the clock did not move on and no other task      *)
(* changed the index port between the two halves of an access is, in every *)
(* format of the registers, the instant of the clock moved by the offset:  *)
(* over midnight, the end of a month or of a year, and 29 February.        *)
InstantExact ==
    [][Returned /\ ~disturbed =>
         /\ reading'.sec = now.sec
         /\ 1440 * DayNumber(reading') + 60 * reading'.hour + reading'.min
              = 1440 * DayNumber(now) + 60 * now.hour + now.min + offset
         /\ reading'.hour \in 0 .. 23 /\ reading'.min \in 0 .. 59
         /\ reading'.mon \in Months
         /\ reading'.day \in 1 .. DaysInMonth(reading'.year, reading'.mon)]_clockVars

(* The two numberings of rtc.c do not agree: the day of the week of an     *)
(* undisturbed reading is that of its date with Sunday 0 when the offset   *)
(* has changed the date (apply_offset), and with Sunday 1, as the register *)
(* holds it, whenever it has not, so terminal.c:163 names the day after.   *)
WeekdayNumbered ==
    [][Returned /\ ~disturbed =>
         reading'.weekday = IF DayNumber(reading') # DayNumber(now)
                            THEN DayOfWeek(reading')
                            ELSE DayOfWeek(now) + 1]_clockVars

(* An undisturbed reading is the instant of the clock in the zone chosen,  *)
(* its day of the week numbered as the code does, one too high for most.   *)
ReadingExact == InstantExact /\ WeekdayNumbered
=============================================================================
