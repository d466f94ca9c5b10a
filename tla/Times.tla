------------------------------- MODULE Times -------------------------------
(***************************************************************************)
(* Times: the conversions of libdali/timeutils.c and gmtime64.c between    *)
(* calendar dates and times since the epoch, and their way through time    *)
(* strings.  The lengths of a second, a minute, an hour and a day, which   *)
(* the code has as literals, are constants.  A time string is the record   *)
(* of the numbers it shows.                                                *)
(***************************************************************************)
EXTENDS Integers, Sequences

CONSTANTS
  Modulus,    \* DLTMODULUS, the ticks of a second
  MinSecs, HourMins, DayHours

ASSUME TimesAssumption ==
  {Modulus, MinSecs, HourMins, DayHours} \subseteq Nat \ {0}

DLTERROR == [error |-> TRUE]

\* division and remainder of C
Quot(a, b) == IF a >= 0 THEN a \div b ELSE -((-a) \div b)
Rem(a, b)  == a - b * Quot(a, b)

Leap(year)  == (year % 4 = 0 /\ year % 100 # 0) \/ year % 400 = 0
DaysIn(year, month) ==
  IF month = 2 THEN IF Leap(year) THEN 29 ELSE 28 ELSE IF month \in {4, 6, 9, 11} THEN 30 ELSE 31
LengthOfYear(year) == IF Leap(year) THEN 366 ELSE 365

\* days of a year before a month
DaysBefore(year, month) ==
  LET before[m \in 1..13] == IF m = 1 THEN 0 ELSE before[m - 1] + DaysIn(year, m - 1)
  IN  before[month]

-----------------------------------------------------------------------------
(* dl_doy2md() and dl_md2doy()                                             *)
Doy2MD(year, jday) ==
  IF year \notin 1900..2100 \/ jday \notin 1..LengthOfYear(year) THEN DLTERROR
  ELSE LET month == CHOOSE m \in 1..12 : jday - DaysBefore(year, m) \in 1..DaysIn(year, m)
       IN  [error |-> FALSE, month |-> month, mday |-> jday - DaysBefore(year, month)]

MD2Doy(year, month, mday) ==
  IF year \notin 1900..2100 \/ month \notin 1..12 \/ mday < 1 THEN DLTERROR
  ELSE IF mday > DaysIn(year, month) THEN DLTERROR
  ELSE [error |-> FALSE, jday |-> DaysBefore(year, month) + mday]

(* time2dltime_int()                                                       *)
DLTime(year, yday, hour, min, sec, usec) ==
  LET shortyear == year - 1900
      a4   == (shortyear \div 4) + 475 - (IF shortyear % 4 = 0 THEN 1 ELSE 0)
      a100 == Quot(a4, 25) - (IF Rem(a4, 25) < 0 THEN 1 ELSE 0)
      a400 == a100 \div 4
      days == 365 * (shortyear - 70) + (a4 - 492) - (a100 - 19) + (a400 - 4) + (yday - 1)
  IN  (MinSecs * (HourMins * (DayHours * days + hour) + min) + sec) * Modulus + usec

OfDay(hour, min, sec, usec) ==
  hour \in 0..(DayHours - 1) /\ min \in 0..(HourMins - 1) /\ sec \in 0..MinSecs /\ usec \in 0..(Modulus - 1)

(* dl_time2dltime()                                                        *)
Time2DLTime(year, day, hour, min, sec, usec) ==
  IF year \in 1900..2100 /\ day \in 1..366 /\ OfDay(hour, min, sec, usec)
  THEN [error |-> FALSE, time |-> DLTime(year, day, hour, min, sec, usec)] ELSE DLTERROR

-----------------------------------------------------------------------------
(* dl_gmtime64_r(): from 2008 on it counts from there, before 1970 it      *)
(* counts back.                                                            *)
Cycle == 365 * 400 + 97
CheatDays == 13879

\* the days of the years first..last
DaysOf(first, last) ==
  LET Leaps(y) == y \div 4 - y \div 100 + y \div 400
  IN  365 * (last - first + 1) + Leaps(last) - Leaps(first - 1)

\* <<year, days from its start>> a number of days after the start of a year
Forward(start, days) ==
  LET cycles == days \div Cycle
      m   == days - cycles * Cycle
      yr  == CHOOSE y \in start..(start + 400) : m \in DaysOf(start, y - 1)..(DaysOf(start, y) - 1)
  IN  <<yr + 400 * cycles, m - DaysOf(start, yr - 1)>>

\* <<year, days from its end>> before the end of a year, days < 0; that the code
\* goes a cycle further and comes back is left out
Backward(end, days) ==
  LET cycles == Quot(days + 1, Cycle)
      m    == days - cycles * Cycle
      last == end + 400 * cycles
      yr   == CHOOSE y \in (last - 400)..last : -m \in (DaysOf(y + 1, last) + 1)..DaysOf(y, last)
  IN  <<yr, m + DaysOf(yr + 1, last)>>

YearOf(tday) ==
  IF tday >= CheatDays THEN Forward(2008, tday - CheatDays)
  ELSE IF tday >= 0 THEN Forward(1970, tday) ELSE Backward(1969, tday)

\* a day, from the year and the days of it that YearOf() gives, with a time
Date(at, tday, hour, min, sec) ==
  LET yday == IF tday >= 0 THEN at[2] ELSE at[2] + LengthOfYear(at[1])
      mon  == CHOOSE k \in 1..12 : yday - DaysBefore(at[1], k) \in 0..(DaysIn(at[1], k) - 1)
  IN  [year |-> at[1], yday |-> yday + 1, mon |-> mon, mday |-> yday - DaysBefore(at[1], mon) + 1,
       hour |-> hour, min |-> min, sec |-> sec, wday |-> (tday + 4) % 7]

GMTime(time) ==
  LET Wrap(v, len) == IF v < 0 THEN v + len ELSE v
      Borrow(v) == IF v < 0 THEN 1 ELSE 0
      s    == Rem(time, MinSecs)
      m    == Rem(Quot(time, MinSecs), HourMins) - Borrow(s)
      h    == Rem(Quot(time, MinSecs * HourMins), DayHours) - Borrow(m)
      tday == Quot(time, MinSecs * HourMins * DayHours) - Borrow(h)
  IN  Date(YearOf(tday), tday, Wrap(h, DayHours), Wrap(m, HourMins), Wrap(s, MinSecs))

-----------------------------------------------------------------------------
(* Mutant of TimeStr: no adjustment before the epoch.                      *)
TimeStr_Truncates(dltime) ==
  LET isec == Quot(dltime, Modulus) IN [tm |-> GMTime(isec), fract |-> dltime - isec * Modulus]

(* The dl_dltime2...timestr() family: the time is split so that what is    *)
(* shown after the point is never negative.                                *)
TimeStr(dltime) ==
  LET isec   == Quot(dltime, Modulus)
      ifract == dltime - isec * Modulus
      before == dltime < 0 /\ ifract # 0
      tms    == GMTime(IF before THEN isec - 1 ELSE isec)
  IN  [tm |-> tms, fract |-> IF before THEN Modulus + ifract ELSE ifract]

(* dl_seedtimestr2dltime(): the fields there are, in order; the others     *)
(* have their defaults.                                                    *)
Field(fields, i, default) == IF i <= Len(fields) THEN fields[i] ELSE default

SeedTimeStr2DLTime(f) ==
  LET F(i, default) == Field(f, i, default)
  IN  IF /\ f # <<>> /\ F(1, 0) \in 1900..3000 /\ F(2, 1) \in 1..366
         /\ OfDay(F(3, 0), F(4, 0), F(5, 0), F(6, 0))
      THEN [error |-> FALSE, time |-> DLTime(F(1, 0), F(2, 1), F(3, 0), F(4, 0), F(5, 0), F(6, 0))]
      ELSE DLTERROR

(* dl_timestr2dltime()                                                     *)
TimeStr2DLTime(f) ==
  LET F(i, default) == Field(f, i, default)
      day == MD2Doy(F(1, 0), F(2, 1), F(3, 1))
  IN  IF f # <<>> /\ ~day.error /\ OfDay(F(4, 0), F(5, 0), F(6, 0), F(7, 0))
      THEN [error |-> FALSE, time |-> DLTime(F(1, 0), day.jday, F(4, 0), F(5, 0), F(6, 0), F(7, 0))]
      ELSE DLTERROR

-----------------------------------------------------------------------------
(* A time is one tick after the one before it, is shown as the date it was *)
(* made from, and the strings it is written as read as that time: before   *)
(* the epoch, over leap days and ends of years and centuries.              *)
TimesAgree(year, yday, hour, min, sec, usec) ==
  LET t == DLTime(year, yday, hour, min, sec, usec)
      Is(r) == r = [error |-> FALSE, time |-> t]
      Shows(tm, fract) ==
        /\ <<tm.year, tm.yday, tm.hour, tm.min, tm.sec, fract>> = <<year, yday, hour, min, sec, usec>>
        /\ Is(SeedTimeStr2DLTime(<<tm.year, tm.yday, tm.hour, tm.min, tm.sec, fract>>))
        /\ year <= 2100 =>
             /\ Doy2MD(year, yday) = [error |-> FALSE, month |-> tm.mon, mday |-> tm.mday]
             /\ Is(TimeStr2DLTime(<<tm.year, tm.mon, tm.mday, tm.hour, tm.min, tm.sec, fract>>))
  IN  yday <= LengthOfYear(year) =>
      /\ Shows(TimeStr(t).tm, TimeStr(t).fract)
      /\ DLTime(year + 1, 1, 0, 0, 0, 0) =
           DLTime(year, LengthOfYear(year), DayHours - 1, HourMins - 1, MinSecs - 1, Modulus - 1) + 1
=============================================================================
