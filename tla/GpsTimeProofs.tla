--------------------------- MODULE GpsTimeProofs ---------------------------
(***************************************************************************)
(* Proofs about GpsTime: the loop of GpsToUtcTime computes the calendar,   *)
(* by induction over its passes, and what the comparisons of times make of *)
(* its dates in any zone and with any summer time.                         *)
(***************************************************************************)
EXTENDS GpsTime, Induction, TLAPS

\* A year is a leap year to GpsToUtcTime exactly if the calendar says so.
LEMMA LeapYear ==
    ASSUME NEW y \in Nat
    PROVE  /\ fgLeapYear(y) <=> Leap(1980 + y)
           /\ LeapDays(1980 + y + 1) - LeapDays(1980 + y) = IF fgLeapYear(y) THEN 1 ELSE 0
           /\ LeapDays(1980 + y) \in Int /\ LeapDays(1980 + y + 1) \in Int
<1>1. fgLeapYear(y) <=> Leap(1980 + y)
  BY DEF fgLeapYear, Leap
<1>2. LeapDays(1980 + y) = (1979 + y) \div 4 - (1979 + y) \div 100 + (1979 + y) \div 400
  BY DEF LeapDays
<1>3. LeapDays(1980 + y + 1) = (1980 + y) \div 4 - (1980 + y) \div 100 + (1980 + y) \div 400
  BY DEF LeapDays
<1>4. (1980 + y) \div 4 = (1979 + y) \div 4 + (IF (1980 + y) % 4 = 0 THEN 1 ELSE 0)
  OBVIOUS
<1>5. (1980 + y) \div 100 = (1979 + y) \div 100 + (IF (1980 + y) % 100 = 0 THEN 1 ELSE 0)
  OBVIOUS
<1>6. (1980 + y) \div 400 = (1979 + y) \div 400 + (IF (1980 + y) % 400 = 0 THEN 1 ELSE 0)
  OBVIOUS
<1>7. /\ (1980 + y) % 400 = 0 => (1980 + y) % 100 = 0
      /\ (1980 + y) % 100 = 0 => (1980 + y) % 4 = 0
  OBVIOUS
<1>8. (1979 + y) \div 4 \in Int /\ (1979 + y) \div 100 \in Int /\ (1979 + y) \div 400 \in Int
  OBVIOUS
<1> QED
  BY <1>1, <1>2, <1>3, <1>4, <1>5, <1>6, <1>7, <1>8 DEF Leap

\* The days of the years before.
Before(y) == 365 * y + LeapDays(1980 + y) - LeapDays(1980)

\* A year adds its length.
LEMMA BeforeNext ==
    ASSUME NEW y \in Nat
    PROVE  Before(y) \in Int /\ Before(y + 1) = Before(y) + length(y)
<1>1. LeapDays(1980) \in Int
  BY DEF LeapDays
<1>2. 1980 + (y + 1) = 1980 + y + 1
  OBVIOUS
<1>3. length(y) = 365 + (LeapDays(1980 + y + 1) - LeapDays(1980 + y))
  BY LeapYear DEF length
<1>4. LeapDays(1980 + y) \in Int /\ LeapDays(1980 + y + 1) \in Int
  BY DEF LeapDays
<1> QED
  BY <1>1, <1>2, <1>3, <1>4 DEF Before

\* The days never become fewer than none.
LEMMA PassTyped == pass \in [Elapsed -> Elapsed]
<1> SUFFICES ASSUME NEW e \in Elapsed PROVE pass[e] \in Elapsed
  BY DEF pass
<1>1. e.y \in Nat /\ e.days \in Nat /\ length(e.y) \in {365, 366}
  BY DEF Elapsed, length
<1>2. e.days >= length(e.y) =>
         [y |-> e.y + 1, days |-> e.days - length(e.y)] \in Elapsed
  BY <1>1 DEF Elapsed
<1> QED
  BY <1>2 DEF pass

\* The loop ends with the year the day lies in, and the days into that year.
LEMMA YearsRight ==
    ASSUME NEW d \in Nat
    PROVE  /\ years(d) \in Elapsed
           /\ years(d).days < length(years(d).y)
           /\ d = Before(years(d).y) + years(d).days
<1> DEFINE m == d \div 365
           c == [y |-> 0, days |-> d]
           after[n \in 0..(d \div 365)] ==
              IF n = 0 THEN [y |-> 0, days |-> d] ELSE pass[after[n - 1]]
           steps == [i \in 1..m |-> pass]
<1>0. m \in Nat /\ c \in Elapsed
  BY DEF Elapsed
<1>1. steps \in Steps(m, Elapsed)
  BY PassTyped DEF Steps
<1>2. \A i \in 1..m : steps[i] = pass
  OBVIOUS
<1> HIDE DEF steps
<1>3. PICK g \in [0..m -> Elapsed] : Iterates(g, c, m, steps)
  <2> HIDE DEF m, c
  <2> QED
    BY <1>0, <1>1, Iteration
<1>4. \A i \in 0..m : g[i] = IF i = 0 THEN c ELSE pass[g[i - 1]]
  <2> HIDE DEF m, c
  <2> QED
    BY <1>0, <1>2, <1>3 DEF Iterates
<1>5. g = [n \in 0..m |-> IF n = 0 THEN c ELSE pass[g[n - 1]]]
  <2> HIDE DEF m, c
  <2> QED
    BY <1>4
<1>6. after = [n \in 0..m |-> IF n = 0 THEN c ELSE pass[after[n - 1]]]
  BY <1>5, Zenon
<1>7. years(d) = after[m]
  BY DEF years
<1> HIDE DEF after
<1>8. \A i \in 0..m : after[i] = IF i = 0 THEN c ELSE pass[after[i - 1]]
  <2> HIDE DEF m, c
  <2> QED
    BY <1>6
<1> DEFINE In(e, n) == /\ e \in Elapsed /\ d = Before(e.y) + e.days
                       /\ e.days < length(e.y) \/ e.y = n
           T == {n \in 0..m : In(after[n], n)}
<1>9. 0 \in T
  <2>1. after[0] = c /\ 0 \in 0..m
    BY <1>0, <1>8
  <2>2. Before(0) = 0
    BY DEF Before, LeapDays
  <2>3. c.y = 0 /\ c.days = d
    OBVIOUS
  <2> QED
    BY <1>0, <2>1, <2>2, <2>3
<1>10. ASSUME NEW n \in 0..(m - 1), n \in T PROVE n + 1 \in T
  <2> DEFINE e == after[n]
             f == after[n + 1]
  <2>1. In(e, n)
    BY <1>10
  <2>2. n + 1 \in 0..m /\ f = pass[e]
    <3>1. n + 1 \in 0..m /\ n + 1 # 0 /\ (n + 1) - 1 = n
      BY <1>0
    <3> QED
      BY <1>8, <3>1
  <2> HIDE DEF e, f
  <2>3. e.y \in Nat /\ e.days \in Nat /\ length(e.y) \in {365, 366}
    BY <2>1 DEF Elapsed, length
  <2>4. f \in Elapsed
    BY <2>1, <2>2, PassTyped
  <2>5. CASE e.days >= length(e.y)
    <3>1. f = [y |-> e.y + 1, days |-> e.days - length(e.y)]
      BY <2>1, <2>2, <2>5 DEF pass
    <3>2. f.y = e.y + 1 /\ f.days = e.days - length(e.y)
      BY <3>1
    <3>3. Before(e.y) \in Int /\ Before(e.y + 1) = Before(e.y) + length(e.y)
      BY <2>3, BeforeNext
    <3>4. d = Before(f.y) + f.days
      BY <2>1, <2>3, <3>2, <3>3
    <3>5. f.y = n + 1
      BY <2>1, <2>3, <2>5, <3>2
    <3>6. In(f, n + 1)
      BY <2>4, <3>4, <3>5
    <3> QED
      BY <2>2, <3>6 DEF f
  <2>6. CASE ~(e.days >= length(e.y))
    <3>1. f = e /\ e.days < length(e.y)
      BY <2>1, <2>2, <2>3, <2>6 DEF pass
    <3>2. In(f, n + 1)
      BY <2>1, <3>1
    <3> QED
      BY <2>2, <3>2 DEF f
  <2> QED
    BY <2>5, <2>6
<1>11. m \in T
  <2> HIDE DEF T, m
  <2>1. 0..m \subseteq T
    BY <1>0, <1>9, <1>10, UpTo
  <2> QED
    BY <1>0, <2>1
<1> DEFINE e == after[m]
<1>12. In(e, m)
  BY <1>11
<1> HIDE DEF e
<1>13. e.days < length(e.y)
  <2> SUFFICES ASSUME ~(e.days < length(e.y)) PROVE FALSE
    OBVIOUS
  <2>1. e.y = m /\ e.days \in Nat /\ length(e.y) \in {365, 366}
    BY <1>12 DEF Elapsed, length
  <2>2. Before(m) >= 365 * m
    <3>1. LeapDays(1980 + m) >= LeapDays(1980)
          /\ LeapDays(1980 + m) \in Int /\ LeapDays(1980) \in Int
      <4> HIDE DEF m
      <4>1. (1979 + m) \div 4 - (1979 + m) \div 100 >= 1979 \div 4 - 1979 \div 100
        BY <1>0
      <4>2. (1979 + m) \div 400 >= 1979 \div 400
        BY <1>0
      <4> QED
        BY <1>0, <4>1, <4>2 DEF LeapDays
    <3> HIDE DEF m
    <3> QED
      BY <1>0, <3>1 DEF Before
  <2>3. Before(m) \in Int
    BY <1>0, BeforeNext
  <2>4. d = Before(m) + e.days
    BY <1>12, <2>1
  <2>5. 365 * m + 365 > d
    OBVIOUS
  <2> HIDE DEF m
  <2> QED
    BY <1>0, <2>1, <2>2, <2>3, <2>4, <2>5
<1> QED
  BY <1>7, <1>12, <1>13 DEF e

\* The days before each month as in doy, with the leap day.
Begin(i, leap) == doy[i] + (IF leap /\ i > 2 THEN 1 ELSE 0)
MonthOf(i, leap) == IF i = 2 THEN (IF leap THEN 29 ELSE 28)
                    ELSE IF i \in {4, 6, 9, 11} THEN 30 ELSE 31

\* The table doy is that of the calendar, month by month.
LEMMA BeginRight ==
    ASSUME NEW leap \in BOOLEAN, NEW i \in 1..12
    PROVE  /\ Begin(i, leap) = DaysBefore(i, leap)
           /\ Begin(i, leap) \in Nat
           /\ i < 12 => Begin(i + 1, leap) = Begin(i, leap) + MonthOf(i, leap)
           /\ i = 12 => Begin(i, leap) + MonthOf(i, leap) = IF leap THEN 366 ELSE 365
<1>1. \/ i = 1 \/ i = 2 \/ i = 3 \/ i = 4 \/ i = 5 \/ i = 6 \/ i = 7 \/ i = 8
      \/ i = 9 \/ i = 10 \/ i = 11 \/ i = 12
  OBVIOUS
<1>2. CASE leap = TRUE
  BY <1>1, <1>2 DEF Begin, MonthOf, DaysBefore, doy
<1>3. CASE leap = FALSE
  BY <1>1, <1>3 DEF Begin, MonthOf, DaysBefore, doy
<1> QED
  BY <1>2, <1>3

\* The loop over doy finds the month the day lies in.
LEMMA MonthRight ==
    ASSUME NEW leap \in BOOLEAN, NEW x \in Nat, x < IF leap THEN 366 ELSE 365
    PROVE  LET months == {i \in 1..12 : Begin(i, leap) <= x}
               month == CHOOSE i \in months : i + 1 \notin months
           IN  /\ month \in 1..12
               /\ Begin(month, leap) <= x
               /\ x < Begin(month, leap) + MonthOf(month, leap)
<1> DEFINE months == {i \in 1..12 : Begin(i, leap) <= x}
           month == CHOOSE i \in months : i + 1 \notin months
           T == {n \in 0..12 : n + 1 \in months}
<1>1. \E i \in months : i + 1 \notin months
  <2> SUFFICES ASSUME \A i \in months : i + 1 \in months PROVE FALSE
    OBVIOUS
  <2>1. 1 \in months
    BY DEF Begin, doy
  <2>2. 0 \in T
    BY <2>1
  <2>3. ASSUME NEW n \in 0..(12 - 1), n \in T PROVE n + 1 \in T
    BY <2>3
  <2>4. 0..12 \subseteq T
    <3> HIDE DEF T
    <3>1. 12 \in Nat
      OBVIOUS
    <3> QED
      BY <2>2, <2>3, <3>1, UpTo
  <2>5. 12 + 1 \in months
    BY <2>4
  <2> QED
    BY <2>5
<1>2. month \in months /\ month + 1 \notin months
  BY <1>1
<1> HIDE DEF month
<1>3. month \in 1..12 /\ Begin(month, leap) <= x
  BY <1>2
<1>4. /\ Begin(month, leap) \in Nat
      /\ month < 12 => Begin(month + 1, leap) = Begin(month, leap) + MonthOf(month, leap)
      /\ month = 12 => Begin(month, leap) + MonthOf(month, leap)
                          = IF leap THEN 366 ELSE 365
  BY <1>3, BeginRight
<1>5. CASE month = 12
  BY <1>3, <1>4, <1>5 DEF month
<1>6. CASE month < 12
  <2>1. month + 1 \in 1..12
    BY <1>3, <1>6
  <2>2. Begin(month + 1, leap) \in Nat /\ ~(Begin(month + 1, leap) <= x)
    BY <1>2, <2>1, BeginRight
  <2> QED
    BY <1>3, <1>4, <1>6, <2>2 DEF month
<1> QED
  BY <1>3, <1>5, <1>6

\* GpsToUtcTime finds the date of every hour since 1980.
LEMMA DateRight ==
    ASSUME NEW h \in Nat
    PROVE  LET c == UtcDate(h)
           IN  /\ c.mon \in 1..12 /\ c.mday \in 1..MonthDays(c.year, c.mon)
               /\ c.hour \in 0..23 /\ HourNumber(c) = h + 5 * 24
<1> DEFINE d == (h \div 168) * 7 + (h % 168) \div 24 + 5
           e == years(d)
           leap == fgLeapYear(e.y)
           begin(i) == doy[i] + (IF fgLeapYear(e.y) /\ i > 2 THEN 1 ELSE 0)
           months == {i \in 1..12 : begin(i) <= e.days}
           month == CHOOSE i \in months : i + 1 \notin months
           c == UtcDate(h)
<1>1. d \in Nat /\ h = 24 * (d - 5) + ((h % 168) % 24) /\ (h % 168) % 24 \in 0..23
  <2> DEFINE q == h \div 168
             r == h % 168
  <2>1. q \in Nat /\ r \in Nat /\ h = 168 * q + r
    OBVIOUS
  <2> HIDE DEF q, r
  <2>2. r \div 24 \in Nat /\ r % 24 \in 0..23 /\ r = 24 * (r \div 24) + (r % 24)
    BY <2>1
  <2>3. d = q * 7 + r \div 24 + 5
    BY DEF q, r
  <2>4. d \in Nat /\ h = 24 * (d - 5) + (r % 24)
    <3> HIDE DEF d
    <3> QED
      BY <2>1, <2>2, <2>3
  <2> QED
    BY <2>2, <2>4 DEF r
<1>2. c = [year |-> 1980 + e.y, mon |-> month,
           mday |-> e.days - begin(month) + 1, hour |-> (h % 168) % 24]
  BY DEF UtcDate, GpsToUtcDate
<1> HIDE DEF d, c
<1>3. /\ e \in Elapsed /\ e.days < length(e.y)
      /\ d = Before(e.y) + e.days
  BY <1>1, YearsRight
<1> HIDE DEF e
<1>4. e.y \in Nat /\ e.days \in Nat /\ leap \in BOOLEAN
  BY <1>3 DEF Elapsed, fgLeapYear
<1>5. e.days < IF leap THEN 366 ELSE 365
  BY <1>3 DEF length
<1>6. \A i : begin(i) = Begin(i, leap)
  BY DEF Begin
<1>7. months = {i \in 1..12 : Begin(i, leap) <= e.days}
  BY <1>6
<1> HIDE DEF begin
<1>8. month = CHOOSE i \in {j \in 1..12 : Begin(j, leap) <= e.days} :
                  i + 1 \notin {j \in 1..12 : Begin(j, leap) <= e.days}
  BY <1>7
<1> HIDE DEF leap, months, month
<1>9. /\ month \in 1..12 /\ Begin(month, leap) <= e.days
      /\ e.days < Begin(month, leap) + MonthOf(month, leap)
  BY <1>4, <1>5, <1>8, MonthRight, Zenon
<1>10. Begin(month, leap) = DaysBefore(month, leap) /\ Begin(month, leap) \in Nat
  BY <1>4, <1>9, BeginRight
<1>11. leap <=> Leap(1980 + e.y)
  BY <1>4, LeapYear DEF leap
<1>12. MonthOf(month, leap) = MonthDays(1980 + e.y, month)
  BY <1>9, <1>11 DEF MonthOf, MonthDays
<1>13. /\ c.year = 1980 + e.y /\ c.mon = month /\ c.hour = (h % 168) % 24
       /\ c.mday = e.days - Begin(month, leap) + 1
  BY <1>2, <1>6
<1>14. MonthDays(c.year, c.mon) = MonthOf(month, leap) /\ MonthOf(month, leap) \in Nat
  BY <1>9, <1>12, <1>13 DEF MonthOf
<1>15. c.mday \in 1..MonthDays(c.year, c.mon)
  BY <1>4, <1>9, <1>10, <1>13, <1>14
<1>16. HourNumber(c) = h + 5 * 24
  <2>1. DaysBefore(c.mon, Leap(c.year)) = Begin(month, leap)
    <3>1. leap = Leap(1980 + e.y)
      BY <1>4, <1>11 DEF Leap
    <3> QED
      BY <1>10, <1>13, <3>1
  <2>2. Before(e.y) \in Int /\ LeapDays(1980 + e.y) \in Int /\ LeapDays(1980) \in Int
    BY <1>4, BeforeNext DEF LeapDays
  <2> DEFINE D == DaysBefore(c.mon, Leap(c.year))
             N == DayNumber(c.year, c.mon, c.mday)
  <2>3. N = 365 * (c.year - 1980) + LeapDays(c.year) - LeapDays(1980) + D + c.mday - 1
    BY Zenon DEF DayNumber
  <2>4. HourNumber(c) = 24 * N + c.hour
    BY Zenon DEF HourNumber
  <2>5. D = Begin(month, leap)
    BY <2>1
  <2> HIDE DEF D, N
  <2>6. 365 * (c.year - 1980) = 365 * e.y /\ LeapDays(c.year) = LeapDays(1980 + e.y)
    BY <1>4, <1>13
  <2>7. N = d
    BY <1>3, <1>4, <1>10, <1>13, <2>2, <2>3, <2>5, <2>6 DEF Before
  <2> QED
    BY <1>1, <1>13, <2>4, <2>7
<1> QED
  BY <1>1, <1>9, <1>13, <1>15, <1>16 DEF c

-----------------------------------------------------------------------------

\* The hour of a record is a number of hours.
HourOK == scan \in Scans /\ hour \in Nat

\* The fields of a scan.
LEMMA ScanFields ==
    ASSUME NEW z \in Scans
    PROVE  /\ z.std \in Int /\ z.from \in Nat /\ z.step \in Nat
           /\ \A s \in z.summer : s[1] \in Nat /\ s[2] \in Nat
<1>1. z \in Scan
  BY ScansAssumption
<1>2. z.std \in -12..14 /\ z.summer \in SUBSET (Nat \X Nat)
  BY <1>1 DEF Scan
<1>3. z.from \in Nat /\ z.step \in Nat \ {0}
  BY <1>1 DEF Scan
<1> QED
  BY <1>2, <1>3

\* In every state.
LEMMA HourAlways == Spec => []HourOK
<1>1. Init => HourOK
  BY ScanFields DEF Init, HourOK
<1>2. HourOK /\ [Next]_vars => HourOK'
  BY ScanFields DEF HourOK, Next, NextRecord, vars
<1> QED
  BY <1>1, <1>2, PTL DEF Spec

\* GpsToUtcTime computes the date of the Gregorian calendar for every hour
\* since 1980.
THEOREM CalendarAlwaysRight == Spec => []CalendarRight
<1>1. HourOK => CalendarRight
  BY DateRight DEF HourOK, CalendarRight, TrueHour
<1> QED
  BY <1>1, HourAlways, PTL

\* The zone, and what begins and ends of summer time may be.
LEMMA Zone ==
    ASSUME HourOK
    PROVE  /\ scan.std \in Int /\ TrueHour \in Nat
           /\ \A s \in scan.summer : s[1] \in Nat /\ s[2] \in Nat
BY ScanFields DEF HourOK, TrueHour

\* The end of time_t is a number.
LEMMA TimeEndInt == TimeEnd \in Int
BY DEF TimeEnd

\* Summer time at hour t.
Summer(t) == \E s \in scan.summer : t >= s[1] /\ t < s[2]

\* What mktime may answer before the end of time_t: the time by standard time,
\* unless it is in summer time or, an hour earlier, the hour by summer time.
LEMMA MktimeAnswers ==
    ASSUME HourOK, NEW h \in Int, h - scan.std <= TimeEnd, NEW u \in mktime(h)
    PROVE  /\ u \in Int
           /\ \/ u = h - scan.std /\ ~Summer(u) /\ u + gmtoff(u) = h
              \/ u = h - scan.std - 1 /\ Summer(u) /\ u + gmtoff(u) = h
              \/ /\ Summer(h - scan.std) /\ ~Summer(h - scan.std - 1)
                 /\ \/ u = h - scan.std /\ u + gmtoff(u) = h + 1
                    \/ u = h - scan.std - 1 /\ u + gmtoff(u) = h - 1
<1> DEFINE t0 == h - scan.std
           t1 == h - scan.std - 1
<1>0. scan.std \in Int /\ t0 \in Int /\ t1 \in Int /\ t1 = t0 - 1 /\ t0 # t1
  BY Zone
<1>1. \A t : gmtoff(t) = scan.std + (IF Summer(t) THEN 1 ELSE 0)
  BY DEF gmtoff, Summer
<1>2. u \in {t0, t1}
        /\ (u + gmtoff(u) = h \/ (t0 + gmtoff(t0) # h /\ t1 + gmtoff(t1) # h))
  <2>1. PICK v \in {t0, t1} :
            /\ u = Answer(v)
            /\ v + gmtoff(v) = h \/ (t0 + gmtoff(t0) # h /\ t1 + gmtoff(t1) # h)
    BY DEF mktime
  <2>2. v <= TimeEnd
    BY <1>0, <2>1, TimeEndInt
  <2> QED
    BY <2>1, <2>2 DEF Answer
<1>3. t0 + gmtoff(t0) = IF Summer(t0) THEN h + 1 ELSE h
  BY <1>0, <1>1
<1>4. t1 + gmtoff(t1) = IF Summer(t1) THEN h ELSE h - 1
  BY <1>0, <1>1
<1>5. h # h + 1 /\ h # h - 1
  OBVIOUS
<1> HIDE DEF t0, t1
<1>6. CASE u = t0
  BY <1>0, <1>2, <1>3, <1>4, <1>5, <1>6 DEF t0, t1
<1>7. CASE u = t1
  BY <1>0, <1>2, <1>3, <1>4, <1>5, <1>7 DEF t0, t1
<1> QED
  BY <1>2, <1>6, <1>7

\* A location gets the time MNL gave except in the hour that is skipped, in
\* every zone of whole hours and with any summer time, until time_t ends.
THEOREM FixTimeAlwaysRight == Spec => []FixTimeRight
<1>1. HourOK => FixTimeRight
  <2> SUFFICES ASSUME HourOK, InTime(TrueHour + 1), NEW u \in mktime(TrueHour)
               PROVE  LET t == Overflow(u + gmtoff(u))
                      IN  t = TrueHour \/ (Skipped(TrueHour) /\ t - TrueHour \in {-1, 1})
    BY DEF FixTimeRight, fix_time
  <2>0. /\ scan.std \in Int /\ TrueHour \in Int
        /\ \A s \in scan.summer : s[1] \in Nat /\ s[2] \in Nat
    BY Zone
  <2>a. /\ TrueHour - scan.std <= TimeEnd
        /\ \A t \in {TrueHour - 1, TrueHour, TrueHour + 1} : Overflow(t) = t
    BY <2>0, TimeEndInt DEF InTime, Overflow
  <2>1. CASE u + gmtoff(u) = TrueHour
    BY <2>1, <2>a
  <2>2. CASE u + gmtoff(u) # TrueHour
    <3>1. Summer(TrueHour - scan.std) /\ ~Summer(TrueHour - scan.std - 1)
          /\ u + gmtoff(u) \in {TrueHour + 1, TrueHour - 1}
      BY <2>0, <2>2, <2>a, MktimeAnswers
    <3>2. PICK s \in scan.summer : TrueHour - scan.std >= s[1] /\ TrueHour - scan.std < s[2]
      BY <3>1 DEF Summer
    <3>3. ~(TrueHour - scan.std - 1 >= s[1] /\ TrueHour - scan.std - 1 < s[2])
      BY <3>1 DEF Summer
    <3>4. TrueHour - scan.std = s[1]
      BY <2>0, <3>2, <3>3
    <3>5. Skipped(TrueHour)
      BY <3>4 DEF Skipped
    <3> QED
      BY <2>0, <2>a, <3>1, <3>5
  <2> QED
    BY <2>1, <2>2
<1> QED
  BY <1>1, HourAlways, PTL

\* GpsToUtcTime in terms of true hours.
LEMMA GpsToUtc ==
    ASSUME NEW h \in Nat
    PROVE  GpsToUtcTime(h) = mktime(h + 5 * 24)
BY DateRight DEF GpsToUtcTime

\* The age of the data is right but for an hour in summer, in every zone of
\* whole hours and until time_t ends.
THEOREM AgeAlwaysWithinHour == Spec => []AgeWithinHour
<1>1. HourOK => AgeWithinHour
  <2> SUFFICES ASSUME HourOK, NEW age \in {0, 1, 24, 72, 168},
                      NEW u \in data_start(hour), InTime(TrueHour + age)
               PROVE  \/ time_utc(TrueHour + age) - u = age
                      \/ /\ InSummer(TrueHour)
                         /\ time_utc(TrueHour + age) - u = age + 1
    BY DEF AgeWithinHour
  <2>a. u \in mktime(TrueHour)
    BY GpsToUtc DEF data_start, TrueHour, HourOK
  <2>b. time_utc(TrueHour + age) = (TrueHour + age) - scan.std
    BY DEF time_utc, mktime_standard, Answer, InTime
  <2>0. /\ scan.std \in Int /\ TrueHour \in Int /\ age \in Nat
        /\ \A s \in scan.summer : s[1] \in Nat /\ s[2] \in Nat
    BY Zone
  <2>c. TrueHour - scan.std <= TimeEnd
    BY <2>0, TimeEndInt DEF InTime
  <2>1. CASE u = TrueHour - scan.std
    BY <2>0, <2>1, <2>b
  <2>2. CASE u # TrueHour - scan.std
    <3>1. /\ u = TrueHour - scan.std - 1
          /\ Summer(TrueHour - scan.std) \/ Summer(TrueHour - scan.std - 1)
      BY <2>0, <2>2, <2>a, <2>c, MktimeAnswers
    <3>2. PICK s \in scan.summer :
             \/ TrueHour - scan.std >= s[1] /\ TrueHour - scan.std < s[2]
             \/ TrueHour - scan.std - 1 >= s[1] /\ TrueHour - scan.std - 1 < s[2]
      BY <3>1 DEF Summer
    <3>3. TrueHour - scan.std \in s[1]..s[2]
      BY <2>0, <3>2
    <3>4. InSummer(TrueHour)
      BY <3>3 DEF InSummer
    <3> QED
      BY <2>0, <2>b, <3>1, <3>4
  <2> QED
    BY <2>1, <2>2
<1> QED
  BY <1>1, HourAlways, PTL

\* A changed server is noticed and an unchanged one is not taken for a changed
\* one, in every zone of whole hours and until time_t ends; only the clocks
\* going forward hide a day.
THEOREM ChangeAlwaysNoticed == Spec => []ChangeNoticed
<1>1. HourOK => ChangeNoticed
  <2> SUFFICES ASSUME HourOK, NEW late \in {0, 6, 12, 18, 24, 30, 48},
                      NEW s \in data_start(hour + 6 + late), NEW e \in data_end(hour),
                      InTime(TrueHour + 6 + late)
               PROVE  /\ late < 24 => ~is_changed(s, e)
                      /\ late > 24 => is_changed(s, e)
                      /\ late = 24 /\ ~Forward(TrueHour + 6, TrueHour + 30) =>
                            is_changed(s, e)
    BY DEF ChangeNoticed
  <2> DEFINE b == TrueHour + 6
             B == b - scan.std
  <2>0. /\ scan.std \in Int /\ b \in Int /\ B \in Int /\ late \in Nat /\ hour \in Nat
        /\ \A z \in scan.summer : z[1] \in Nat /\ z[2] \in Nat
    BY Zone DEF HourOK
  <2>1. s \in mktime(b + late) /\ e \in mktime(b)
    <3>1. hour + 6 + late \in Nat /\ hour + 6 + late + 5 * 24 = b + late
      BY <2>0 DEF TrueHour
    <3>2. hour + 6 \in Nat /\ hour + 6 + 5 * 24 = b
      BY <2>0 DEF TrueHour
    <3> QED
      BY <3>1, <3>2, GpsToUtc DEF data_start, data_end
  <2>2. /\ s \in {B + late, B + late - 1}
        /\ s = B + late - 1 => Summer(B + late) \/ Summer(B + late - 1)
    <3>1. /\ b + late - scan.std = B + late /\ b + late \in Int
          /\ b + late - scan.std <= TimeEnd
      BY <2>0 DEF InTime
    <3> HIDE DEF b, B
    <3> QED
      BY <2>0, <2>1, <3>1, MktimeAnswers
  <2>3. /\ e \in {B, B - 1}
        /\ e = B => ~Summer(B) \/ (Summer(B) /\ ~Summer(B - 1))
    <3>1. b - scan.std <= TimeEnd
      BY <2>0, TimeEndInt DEF InTime
    <3> HIDE DEF b
    <3> QED
      BY <2>0, <2>1, <3>1, MktimeAnswers
  <2>4. ASSUME late = 24, s = B + 23, e = B
        PROVE  Forward(TrueHour + 6, TrueHour + 30)
    <3>1. PICK z \in scan.summer : \/ B + 24 >= z[1] /\ B + 24 < z[2]
                                   \/ B + 23 >= z[1] /\ B + 23 < z[2]
      BY <2>0, <2>2, <2>4 DEF Summer
    <3>2. CASE ~Summer(B)
      <4>1. ~(B >= z[1] /\ B < z[2])
        BY <3>2 DEF Summer
      <4>2. z[1] \in B..(B + 24)
        BY <2>0, <3>1, <4>1
      <4>3. z[1] + scan.std \in (TrueHour + 6)..(TrueHour + 30)
        BY <2>0, <4>2, Zone
      <4> QED
        BY <4>3 DEF Forward
    <3>3. CASE Summer(B)
      <4>1. PICK y \in scan.summer : B >= y[1] /\ B < y[2]
        BY <3>3 DEF Summer
      <4>2. ~(B - 1 >= y[1] /\ B - 1 < y[2])
        BY <2>3, <2>4, <3>3 DEF Summer
      <4>3. y[1] = B
        BY <2>0, <4>1, <4>2
      <4>4. y[1] + scan.std \in (TrueHour + 6)..(TrueHour + 30)
        BY <2>0, <4>3, Zone
      <4> QED
        BY <4>4 DEF Forward
    <3> QED
      BY <3>2, <3>3
  <2> HIDE DEF B
  <2>5. late < 24 => ~is_changed(s, e)
    BY <2>0, <2>2, <2>3 DEF is_changed
  <2>6. late > 24 => is_changed(s, e)
    BY <2>0, <2>2, <2>3 DEF is_changed
  <2>7. late = 24 /\ ~Forward(TrueHour + 6, TrueHour + 30) => is_changed(s, e)
    <3> SUFFICES ASSUME late = 24, ~(s - e >= 24)
                 PROVE  Forward(TrueHour + 6, TrueHour + 30)
      BY DEF is_changed
    <3>1. s = B + 23 /\ e = B
      BY <2>0, <2>2, <2>3
    <3> QED
      BY <2>4, <3>1
  <2> QED
    BY <2>5, <2>6, <2>7
<1> QED
  BY <1>1, HourAlways, PTL
=============================================================================
