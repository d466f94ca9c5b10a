------------------------------ MODULE MSTimes ------------------------------
(***************************************************************************)
(* The times of libmseed (genutils.c): nanoseconds since the epoch, their  *)
(* strings in ten formats with seven choices of subseconds, and the        *)
(* strings that are read.  A string is a record: the numbers it shows, the *)
(* digits of its fraction, and what the reader can tell its format by.     *)
(* fsec and samprate, floating point in the code, are exact here.          *)
(***************************************************************************)
EXTENDS Times

CONSTANTS
  Submicro,      \* nanoseconds of a microsecond
  LeapSeconds    \* the times of leapsecondlist

ASSUME NSTimesAssumption == Submicro \in Nat \ {0}

NSTModulus == Modulus * Submicro
NSTERROR   == [error |-> TRUE]
NSTime(time) == [error |-> FALSE, time |-> time]

(* VALIDYEAR and the macros after it: a day of the month may be zero.      *)
ValidYear(year)       == year \in 1678..2262
ValidYearDay(year, d) == d \in 1..LengthOfYear(year)
ValidMonthDay(year, month, d) == month \in 1..12 /\ d >= 0 /\ d <= DaysIn(year, month)
ValidTime(hour, min, sec, nsec) ==
  hour \in 0..(DayHours - 1) /\ min \in 0..(HourMins - 1) /\ sec \in 0..MinSecs /\ nsec \in 0..(NSTModulus - 1)

NSDoy2MD(year, yday) ==
  LET month == CHOOSE m \in 1..12 : yday - DaysBefore(year, m) \in 1..DaysIn(year, m)
  IN  IF ValidYear(year) /\ ValidYearDay(year, yday)
      THEN [error |-> FALSE, month |-> month, mday |-> yday - DaysBefore(year, month)] ELSE NSTERROR

NSMD2Doy(year, month, mday) ==
  IF ValidYear(year) /\ ValidMonthDay(year, month, mday)
  THEN [error |-> FALSE, yday |-> DaysBefore(year, month) + mday] ELSE NSTERROR

\* ms_time2nstime_int() is time2dltime_int() with another modulus
Time2NSTimeInt(year, yday, hour, min, sec, nsec) ==
  DLTime(year, yday, hour, min, sec, 0) * Submicro + nsec

Time2NSTime(year, yday, hour, min, sec, nsec) ==
  IF ValidYear(year) /\ ValidYearDay(year, yday) /\ ValidTime(hour, min, sec, nsec)
  THEN NSTime(Time2NSTimeInt(year, yday, hour, min, sec, nsec)) ELSE NSTERROR

\* seconds and nanoseconds, which are not negative
NSSplit(nstime) ==
  LET isec == Quot(nstime, NSTModulus)
      ifract == nstime - isec * NSTModulus
  IN  IF nstime < 0 /\ ifract # 0 THEN [sec |-> isec - 1, nsec |-> NSTModulus + ifract]
      ELSE [sec |-> isec, nsec |-> ifract]

\* ms_gmtime64_r(), a copy of libdali's
NSGMTime(time) == GMTime(time)

NSTime2Time(nstime) == [tm |-> NSGMTime(NSSplit(nstime).sec), nsec |-> NSSplit(nstime).nsec]

-----------------------------------------------------------------------------
(* ms_nstime2timestr()                                                     *)
Formats == {"ISOMONTHDAY", "ISOMONTHDAY_Z", "ISOMONTHDAY_DOY", "ISOMONTHDAY_DOY_Z",
            "ISOMONTHDAY_SPACE", "ISOMONTHDAY_SPACE_Z", "SEEDORDINAL", "UNIXEPOCH", "NANOSECONDEPOCH"}
Subseconds == {"NONE", "MICRO", "NANO", "MICRO_NONE", "NANO_NONE", "NANO_MICRO", "NANO_MICRO_NONE"}

(* Mutant of Digits: whole microseconds are shown when there are           *)
(* nanoseconds too.                                                        *)
Digits_Micro(subseconds, nsec) ==
  IF subseconds = "NONE" THEN "none" ELSE IF subseconds = "NANO" THEN "nano" ELSE "micro"

\* the digits of the fraction
Digits(subseconds, nsec) ==
  LET micro == nsec \div Submicro
      sub   == nsec % Submicro
  IN  IF \/ subseconds = "NONE" \/ (subseconds = "MICRO_NONE" /\ micro = 0)
         \/ (subseconds \in {"NANO_NONE", "NANO_MICRO_NONE"} /\ nsec = 0) THEN "none"
      ELSE IF \/ subseconds \in {"MICRO", "MICRO_NONE"}
              \/ (subseconds \in {"NANO_MICRO", "NANO_MICRO_NONE"} /\ sub = 0) THEN "micro"
      ELSE "nano"

Fraction(digits, nsec) ==
  CASE digits = "none" -> 0 [] digits = "micro" -> (nsec \div Submicro) * Submicro [] digits = "nano" -> nsec

NSShown(tm, nstime, nsec, format, digits) ==
  LET raw    == nstime - Quot(nstime, NSTModulus) * NSTModulus
      Abs(n) == IF n < 0 THEN -n ELSE n
      Str(form, fields, f) == [form |-> form, sign |-> FALSE, fields |-> fields, digits |-> digits, fract |-> f]
      Time   == <<tm.hour, tm.min, tm.sec>>
  IN  CASE format \in {"ISOMONTHDAY", "ISOMONTHDAY_Z", "ISOMONTHDAY_SPACE", "ISOMONTHDAY_SPACE_Z"} ->
             Str("monthday", <<tm.year, tm.mon, tm.mday>> \o Time, Fraction(digits, nsec))
        [] format \in {"ISOMONTHDAY_DOY", "ISOMONTHDAY_DOY_Z"} ->
             Str("parenthesis", <<tm.year, tm.mon, tm.mday>> \o Time \o <<tm.yday>>, Fraction(digits, nsec))
        [] format = "SEEDORDINAL" -> Str("ordinal", <<tm.year, tm.yday>> \o Time, Fraction(digits, nsec))
        [] format = "UNIXEPOCH" ->
             [Str("epoch", <<Abs(Quot(nstime, NSTModulus))>>, Fraction(digits, Abs(raw)))
                EXCEPT !.sign = Quot(nstime, NSTModulus) < 0]
        [] format = "NANOSECONDEPOCH" ->
             [Str("epoch", <<Abs(nstime)>>, 0) EXCEPT !.sign = nstime < 0, !.digits = "none"]

NSTimeStr(nstime, format, subseconds) ==
  LET at == NSSplit(nstime)
  IN  NSShown(NSGMTime(at.sec), nstime, at.nsec, format, Digits(subseconds, at.nsec))

-----------------------------------------------------------------------------
(* Reading: fields that are missing have their defaults.                   *)
MDTimeStr2NSTime(f, nsec) ==
  LET F(i, default) == Field(f, i, default)
      day == NSMD2Doy(F(1, 0), F(2, 1), F(3, 1))
  IN  IF f # <<>> /\ ~day.error /\ ValidTime(F(4, 0), F(5, 0), F(6, 0), nsec)
      THEN NSTime(Time2NSTimeInt(F(1, 0), day.yday, F(4, 0), F(5, 0), F(6, 0), nsec)) ELSE NSTERROR

SeedTimeStr2NSTime(f, nsec) ==
  LET F(i, default) == Field(f, i, default)
  IN  IF f # <<>> THEN Time2NSTime(F(1, 0), F(2, 1), F(3, 0), F(4, 0), F(5, 0), nsec) ELSE NSTERROR

\* four characters without a sign are a year, other numbers an epoch time
IsYear(str) == ~str.sign /\ str.digits = "none" /\ str.fields[1] \in 1000..9999

TimeStr2NSTime(str) ==
  LET sec == (IF str.sign THEN -str.fields[1] ELSE str.fields[1]) * NSTModulus
  IN  CASE str.form = "epoch" /\ ~IsYear(str) ->
             NSTime(IF sec >= 0 THEN sec + str.fract ELSE sec - str.fract)
        [] str.form = "epoch" /\ IsYear(str) -> SeedTimeStr2NSTime(str.fields, 0)
        [] str.form = "monthday" -> MDTimeStr2NSTime(str.fields, str.fract)
        [] str.form = "ordinal"  -> SeedTimeStr2NSTime(str.fields, str.fract)
        [] OTHER -> NSTERROR

-----------------------------------------------------------------------------
(* ms_sampletime(): a span over a leap second is shorter by one second; it *)
(* is shortened once.                                                      *)
SampleTime(time, offset, period) ==
  LET span == IF offset > 0 THEN offset * period ELSE 0
      over == \E leap \in LeapSeconds : leap > time /\ leap <= time + span - NSTModulus
  IN  IF over THEN time + span - NSTModulus ELSE time + span

(* ms_readleapsecondfile(): the lines with two numbers, in order; seconds  *)
(* are counted from the NTP epoch.                                         *)
ReadLeapSeconds(lines, ntp) ==
  LET Parsed(l) == l.numbers = 2 /\ ~l.comment
      Time(l)   == (l.second - ntp) * NSTModulus
  IN  {Time(lines[i]) : i \in {j \in DOMAIN lines : Parsed(lines[j])}}

-----------------------------------------------------------------------------
(* What a format and a choice of subseconds show of a time is read as that *)
(* time, to the last digit shown: the NANO choices lose nothing.  Left out *)
(* are what the reader has no format for (a day of the year in             *)
(* parentheses, epochs in nanoseconds), four-digit epochs, which read as   *)
(* years, and the second before the epoch, whose sign is not written.      *)
NSTimesAgree(year, yday, hour, min, sec, nsec, format, subseconds) ==
  LET t     == Time2NSTimeInt(year, yday, hour, min, sec, nsec)
      Exact == subseconds \in {"NANO", "NANO_NONE", "NANO_MICRO", "NANO_MICRO_NONE"}
      Readable(str) == format = "UNIXEPOCH" => ~IsYear(str) /\ ~(t < 0 /\ t > -NSTModulus)
      Is(read) == ~read.error /\ read.time \in IF Exact THEN {t} ELSE (t - NSTModulus + 1)..(t + NSTModulus - 1)
      Agrees(str) == Readable(str) => Is(TimeStr2NSTime(str))
      MadeOf(tm, fract) == Time2NSTime(tm.year, tm.yday, tm.hour, tm.min, tm.sec, fract)
      md == NSDoy2MD(year, yday)
  IN  ValidYearDay(year, yday) =>
        /\ format \notin {"ISOMONTHDAY_DOY", "ISOMONTHDAY_DOY_Z", "NANOSECONDEPOCH"} =>
             Agrees(NSTimeStr(t, format, subseconds))
        /\ MadeOf(NSTime2Time(t).tm, NSTime2Time(t).nsec) = NSTime(t)
        /\ NSMD2Doy(year, md.month, md.mday).yday = yday
=============================================================================
