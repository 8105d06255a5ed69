------------------------------ MODULE GpsTime ------------------------------
(***************************************************************************)
(* The time arithmetic of src/mtk/gps/hal/gps_mtk_aosp.c: GpsToUtcTime     *)
(* turns the time of an EPO record into a date and hands the date, which   *)
(* is UTC, to mktime, which takes it for local time.  The age of the data  *)
(* is computed against a clock that is treated likewise, and so is the     *)
(* time of a location.                                                     *)
(*                                                                         *)
(* Time is counted in hours, the unit of the records: all the quantities   *)
(* are multiples of 3600 seconds.  A scan is a zone, a whole number of     *)
(* hours from UTC, and the records looked at in it.  The C library is      *)
(* external; time_t has 32 bits on this target and ends in January 2038.   *)
(***************************************************************************)
EXTENDS Integers

CONSTANT Scans

\* u4GpsSecs has 32 bits and overflows at hour 1193047, in February 2116.
LastHour == 1193000

\* The last hour since 1980 that begins before 2^31 seconds after 1970, the
\* hour -1 lies in, and the hours of 2^32 seconds, rounded up.
TimeEnd  == 508875
Failed   == -87649
TimeWrap == 1193047

\* std: hours local time is ahead of UTC; summer: the hours, since 1980, at
\* which summer time begins and ends; from, to, step: the records.
Scan == [std : -12..14, summer : SUBSET (Nat \X Nat), from : Nat,
         to : 0..LastHour, step : Nat \ {0}]

ASSUME ScansAssumption == Scans \subseteq Scan

VARIABLES
    scan,     \* fixed
    hour      \* the 24 bits of hours at the begin of the record

vars == <<scan, hour>>

-----------------------------------------------------------------------------
(* GpsToUtcTime. *)

\* Mutation: there is no rule for centuries.
fgLeapYearJulian(y) == y % 4 = 0

\* Rules for year % 100 and year % 400, by the years since 1980.
fgLeapYear(y) == IF y % 100 = 20 THEN y % 400 = 20 ELSE y % 4 = 0

\* A pass of the loop that decides the year: y years elapsed, days are left.
length(y) == IF fgLeapYear(y) THEN 366 ELSE 365
Elapsed   == [y : Nat, days : Nat]
pass == [e \in Elapsed |->
            IF e.days >= length(e.y)
            THEN [y |-> e.y + 1, days |-> e.days - length(e.y)] ELSE e]

\* The loop.  Every pass but the last takes 365 days or more.
years(iDaysElapsed) ==
    LET after[n \in 0..(iDaysElapsed \div 365)] ==
          IF n = 0 THEN [y |-> 0, days |-> iDaysElapsed] ELSE pass[after[n - 1]]
    IN  after[iDaysElapsed \div 365]

doy == <<0, 31, 59, 90, 120, 151, 181, 212, 243, 273, 304, 334>>

\* The date and hour of GPS week wn and hour tow in it.
GpsToUtcDate(wn, tow) ==
    LET e == years(wn * 7 + tow \div 24 + 5)
        begin(i) == doy[i] + (IF fgLeapYear(e.y) /\ i > 2 THEN 1 ELSE 0)
        months == {i \in 1..12 : begin(i) <= e.days}
        month == CHOOSE i \in months : i + 1 \notin months
    IN  [year |-> 1980 + e.y, mon |-> month,
         mday |-> e.days - begin(month) + 1, hour |-> tow % 24]

\* pi2WeekNo and pu4Tow of an hour.
UtcDate(h) == GpsToUtcDate(h \div 168, h % 168)

-----------------------------------------------------------------------------
(* The C library (external). *)

Leap(year) == year % 4 = 0 /\ (year % 100 = 0 => year % 400 = 0)

MonthDays(year, mon) ==
    CASE mon \in {4, 6, 9, 11} -> 30
      [] mon = 2 -> IF Leap(year) THEN 29 ELSE 28
      [] OTHER -> 31

\* The days of a date since 1980-01-01: the leap days since the year 1, and
\* the days of the months before.
LeapDays(year) == (year - 1) \div 4 - (year - 1) \div 100 + (year - 1) \div 400
DaysBefore(mon, leap) ==
    (367 * mon - 362) \div 12 - (CASE mon <= 2 -> 0 [] mon > 2 /\ leap -> 1
                                   [] OTHER -> 2)
DayNumber(year, mon, mday) ==
    365 * (year - 1980) + LeapDays(year) - LeapDays(1980)
       + DaysBefore(mon, Leap(year)) + mday - 1
HourNumber(c) == 24 * DayNumber(c.year, c.mon, c.mday) + c.hour

\* tm_gmtoff at hour t since 1980.
gmtoff(t) == scan.std + (IF \E s \in scan.summer : t >= s[1] /\ t < s[2]
                         THEN 1 ELSE 0)

\* What becomes of a time that time_t cannot hold: mktime fails and answers
\* -1, and a sum overflows.
Answer(t)   == IF t <= TimeEnd THEN t ELSE Failed
Overflow(t) == IF t <= TimeEnd THEN t ELSE t - TimeWrap

\* mktime of hour h in local time, with tm_isdst = -1.  When clocks go back
\* an hour there are two answers, when they go forward the hour is skipped
\* and either offset may be used.
mktime(h) ==
    LET t == {h - scan.std, h - scan.std - 1}
        exact == {u \in t : u + gmtoff(u) = h}
    IN  {Answer(u) : u \in IF exact = {} THEN t ELSE exact}

\* mktime with tm_isdst = 0, as gmtime_r sets it: standard time.
mktime_standard(h) == Answer(h - scan.std)

-----------------------------------------------------------------------------
(* Its uses. *)

\* A failure of mktime is only logged; *uSecond is -1 then.
GpsToUtcTime(h) == mktime(HourNumber(UtcDate(h)))

\* mtk_gps_sys_epo_period_start, mtk_gps_epo_piece_data_start
data_start(h) == GpsToUtcTime(h)

\* Mutation: the end of a record is its begin.
data_end_short(h) == GpsToUtcTime(h)

\* mtk_gps_sys_epo_period_end, mtk_gps_epo_piece_data_end: a record is valid
\* for 21600 seconds.
data_end(h) == GpsToUtcTime(h + 6)

\* Mutation: the clock is not treated like the date of the record.
time_utc_plain(now) == now

\* mktime(gmtime_r(now)), of mtk_epo_is_expired and thread_epo_file_update;
\* now is in hours since 1980.
time_utc(now) == mktime_standard(now)

\* mtk_gps_epo_server_data_is_changed
is_changed(start, end) == start - end >= 24

\* Mutation: the offset is taken off once more.
fix_time_minus(h) == {t - gmtoff(t) : t \in mktime(h)}

\* nmea_reader_update_time at the UTC date and time of hour h.  A failure of
\* the first mktime is only logged, the second repeats it and -1 is used.
fix_time(h) == {Overflow(t + gmtoff(t)) : t \in mktime(h)}

-----------------------------------------------------------------------------

Init == scan \in Scans /\ hour = scan.from

\* The next record; after the last one the data is read again.
NextRecord ==
    /\ hour' = IF hour + scan.step <= scan.to THEN hour + scan.step
                                              ELSE scan.from
    /\ UNCHANGED scan

Next == NextRecord

Spec == Init /\ [][Next]_vars

-----------------------------------------------------------------------------
(* Properties. *)

\* The true time of the record, in hours since 1980: GPS time began five days
\* into the year.
TrueHour == hour + 5 * 24

\* Seasons of an hour of local time: summer time, the hour that is skipped,
\* and the clocks going forward between two hours.
InSummer(h)   == \E s \in scan.summer : h - scan.std \in s[1]..s[2]
Skipped(h)    == \E s \in scan.summer : h - scan.std = s[1]
Forward(h, k) == \E s \in scan.summer : s[1] + scan.std \in h..k

\* Both the hour, as local time, and the true hour fit in time_t.
InTime(h) == h <= TimeEnd /\ h - scan.std <= TimeEnd

\* GpsToUtcTime computes the date of the Gregorian calendar, over leap
\* years and the centuries 2000 and 2100.
CalendarRight ==
    LET c == UtcDate(hour)
    IN  /\ c.mon \in 1..12 /\ c.mday \in 1..MonthDays(c.year, c.mon)
        /\ c.hour \in 0..23 /\ HourNumber(c) = TrueHour

\* That UTC is taken for local time cancels out where mtk_epo_is_expired and
\* the retry compute the age of the data, except that data of the summer may
\* seem an hour older, as long as time_t can hold the time.
AgeWithinHour ==
    \A age \in {0, 1, 24, 72, 168} : \A u \in data_start(hour) :
        InTime(TrueHour + age) =>
          \/ time_utc(TrueHour + age) - u = age
          \/ InSummer(TrueHour) /\ time_utc(TrueHour + age) - u = age + 1

\* mtk_gps_epo_server_data_is_changed does not take a piece that begins less
\* than a day after the record's end for new data.  It notices one that begins
\* a day after or later, but a day's change is missed when the clocks go
\* forward in it.  So it is as long as time_t can hold the times.
ChangeNoticed ==
    \A late \in {0, 6, 12, 18, 24, 30, 48} :
        \A s \in data_start(hour + 6 + late), e \in data_end(hour) :
          InTime(TrueHour + 6 + late) =>
            /\ late < 24 => ~is_changed(s, e)
            /\ late > 24 => is_changed(s, e)
            /\ late = 24 /\ ~Forward(TrueHour + 6, TrueHour + 30) =>
                  is_changed(s, e)

\* A location gets the time MNL gave, whatever the zone and the season; only
\* in the hour that is skipped it may be an hour off.  So it is as long as
\* time_t can hold the time with an hour to spare.
FixTimeRight ==
    InTime(TrueHour + 1) => \A t \in fix_time(TrueHour) :
        t = TrueHour \/ (Skipped(TrueHour) /\ t - TrueHour \in {-1, 1})
=============================================================================
