------------------------------ MODULE Calendar ------------------------------
(***************************************************************************)
(* time.rs: civil dates, and the directory of the hour a timestamp is in.  *)
(* A directory name hour=YYYY-MM-DDTHH is its four numbers; a timestamp    *)
(* counts ticks, of which an hour has TicksPerHour (US_PER_HOUR).          *)
(***************************************************************************)
EXTENDS Integers, Sequences

CONSTANT TicksPerHour

\* Days of the 400-year era, and from 0000-03-01 to 1970-01-01.
Era == 146097
Shift == 719468

\* Mutant: the leap day that centuries skip is not taken back.
DaysToYmdJulian(days) ==
  LET doe == (days + Shift) % Era
      yoe == (doe - doe \div 1460) \div 365
      doy == doe - (365 * yoe + yoe \div 4)
      mp  == (5 * doy + 2) \div 153
      m   == IF mp < 10 THEN mp + 3 ELSE mp - 9
  IN  <<yoe + 400 * ((days + Shift) \div Era) + (IF m <= 2 THEN 1 ELSE 0),
        m, doy - (153 * mp + 2) \div 5 + 1>>

\* days_to_ymd: day of the era, year of the era, day of the year and month,
\* in years that begin with March.
DaysToYmd(days) ==
  LET doe == (days + Shift) % Era
      yoe == (doe - doe \div 1460 + doe \div 36524 - doe \div 146096) \div 365
      doy == doe - (365 * yoe + yoe \div 4 - yoe \div 100)
      mp  == (5 * doy + 2) \div 153
      m   == IF mp < 10 THEN mp + 3 ELSE mp - 9
  IN  <<yoe + 400 * ((days + Shift) \div Era) + (IF m <= 2 THEN 1 ELSE 0),
        m, doy - (153 * mp + 2) \div 5 + 1>>

\* ymd_to_days
YmdToDays(y0, m, d) ==
  LET y   == IF m <= 2 THEN y0 - 1 ELSE y0
      yoe == y % 400
      mp  == IF m > 2 THEN m - 3 ELSE m + 9
      doy == (153 * mp + 2) \div 5 + d - 1
  IN  (y \div 400) * Era + yoe * 365 + yoe \div 4 - yoe \div 100 + doy - Shift

IsLeap(y) == y % 4 = 0 /\ (y % 100 # 0 \/ y % 400 = 0)

DaysInMonth(y, m) ==
  IF m = 2 THEN IF IsLeap(y) THEN 29 ELSE 28
  ELSE IF m \in {4, 6, 9, 11} THEN 30 ELSE 31

\* hour_partition
HourPartition(ts) ==
  LET hours == ts \div TicksPerHour
  IN  DaysToYmd(hours \div 24) \o <<hours % 24>>
=============================================================================
