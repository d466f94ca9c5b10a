------------------------------ MODULE TimeCalls ------------------------------
(***************************************************************************)
(* Calls of the functions of both libraries that make times of dates, and  *)
(* dates and strings of times.                                             *)
(***************************************************************************)
EXTENDS MSTimes, LibraryCall

CONSTANTS
  TimeArgs,   \* year, day of the year, hour, minute, second, microsecond
  NSTimeArgs  \* year, day, hour, minute, second, nanosecond, format, subseconds

\* years, for libmseed those of VALIDYEAR, and the days of the longest of them
DLYears == 1900..3000
NSYears == 1678..2262
Days    == 1..366

ASSUME TimeArgsAssumption ==
  TimeArgs \subseteq DLYears \X Days \X (0..(DayHours - 1)) \X (0..(HourMins - 1))
                       \X (0..(MinSecs - 1)) \X (0..(Modulus - 1))

ASSUME NSTimeArgsAssumption ==
  NSTimeArgs \subseteq NSYears \X Days \X (0..(DayHours - 1)) \X (0..(HourMins - 1))
                         \X (0..(MinSecs - 1)) \X (0..(NSTModulus - 1)) \X Formats \X Subseconds

CallTimes == Calling("time", TimeArgs) \/ Calling("nstime", NSTimeArgs)

TimesSpec == Idle /\ [][CallTimes \/ Return]_call

-----------------------------------------------------------------------------
(* The time made of a date is shown as that date and read back from the    *)
(* strings it is written as, in libdali and in libmseed.                   *)
TimesRead ==
  /\ Called("time") =>
       LET t == call[2] IN TimesAgree(t[1], t[2], t[3], t[4], t[5], t[6])
  /\ Called("nstime") =>
       LET t == call[2] IN NSTimesAgree(t[1], t[2], t[3], t[4], t[5], t[6], t[7], t[8])
=============================================================================
