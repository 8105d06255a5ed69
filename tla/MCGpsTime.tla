----------------------------- MODULE MCGpsTime -----------------------------
(* Model checking GpsTime. *)
EXTENDS GpsTime

\* The records of a year, 1980 being the first one.
Year(y) == [std |-> 8, summer |-> {}, step |-> 6,
            from |-> IF y = 1980 THEN 0 ELSE 24 * (DayNumber(y, 1, 1) - 6),
            to |-> 24 * (DayNumber(y + 1, 1, 1) - 4)]
Hourly  == [Year(2015) EXCEPT !.step = 1]

\* The years around the rules for leap years, and some of every year until
\* u4GpsSecs overflows; the year time_t ends in, east of Greenwich and, hour
\* by hour around its end, west of it; every hour of 2015 in a zone of the
\* northern and in one of the southern hemisphere, where summer time is in the
\* middle and at both ends of the year.
MCScans ==
    {Year(y) : y \in {1980, 1981, 1999, 2000, 2038, 2099, 2100, 2104}}
    \cup
    {[Year(1980) EXCEPT !.to = LastHour, !.step = 186],
     [Year(2038) EXCEPT !.std = -3, !.step = 1,
                        !.to = 24 * DayNumber(2038, 2, 1)],
     [Hourly EXCEPT !.std = 1,
          !.summer = {<<24 * DayNumber(2015, 3, 29) + 1,
                        24 * DayNumber(2015, 10, 25) + 1>>}],
     [Hourly EXCEPT !.std = -3,
          !.summer = {<<24 * DayNumber(2014, 10, 19) + 3,
                        24 * DayNumber(2015, 2, 22) + 2>>,
                      <<24 * DayNumber(2015, 10, 18) + 3,
                        24 * DayNumber(2016, 2, 21) + 2>>}]}
=============================================================================
