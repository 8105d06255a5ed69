---------------------------- MODULE MCNmeaReader ----------------------------
(* Model checking NmeaReader: what MNL writes in an epoch. *)
EXTENDS NmeaReader

Plain == [id |-> "VTG", talker |-> "GP", e |-> 0, len |-> 3, has |-> {},
          mode |-> 1, num |-> 1, seq |-> 1, cnt |-> 0, sats |-> <<>>]

Gga(has) == [Plain EXCEPT !.id = "GGA", !.has = has \cup {"time"}]
Rmc(has) == [Plain EXCEPT !.id = "RMC", !.has = has \cup {"time"}, !.mode = 3]
Void     == [Plain EXCEPT !.id = "RMC", !.has = {"time"}]
Gsa(t, mode, sats) ==
    [Plain EXCEPT !.id = "GSA", !.talker = t, !.mode = mode, !.sats = sats]
Gsv(t, num, seq, cnt, sats) ==
    [Plain EXCEPT !.id = "GSV", !.talker = t, !.num = num, !.seq = seq,
                  !.cnt = cnt, !.sats = sats]
Accuracy == [Plain EXCEPT !.id = "ACCURACY", !.has = {"accuracy"}]

\* No time and no satellites yet; satellites but no fix; a fix with all
\* fields; one without altitude and bearing, after other satellites; one with
\* more satellites than a table has.
WholeEpochs ==
    {<<[Plain EXCEPT !.id = "GGA"], Gsa("GP", 1, <<>>),
       Gsv("GP", 1, 1, 0, <<>>), [Void EXCEPT !.has = {}]>>,
     <<Gga({}), Gsa("GP", 1, <<>>), Gsv("GP", 1, 1, 2, <<2, 193>>), Void>>,
     <<Gga({"latlong", "altitude"}), Gsa("GP", 3, <<1, 193, 3>>),
       Gsa("GL", 3, <<66>>), Gsv("GP", 2, 1, 3, <<1, 2>>),
       Gsv("GP", 2, 2, 3, <<3>>), Gsv("GL", 1, 1, 1, <<66>>),
       Rmc({"latlong", "bearing", "speed"}), Plain, Accuracy>>,
     <<Gga({"latlong"}), Gsa("GP", 2, <<2>>), Rmc({"latlong", "speed"}),
       Gsa("BD", 2, <<5>>), Gsv("GP", 1, 1, 1, <<2>>),
       Gsv("BD", 1, 1, 2, <<5, 6>>)>>,
     <<Gga({"latlong", "altitude"}), Gsa("GP", 3, <<1, 2, 3>>),
       Gsv("GP", 2, 1, 3, <<1, 2>>), Gsv("GP", 2, 2, 3, <<3>>),
       Gsv("GL", 2, 1, 3, <<65, 66>>), Gsv("GL", 2, 2, 3, <<67>>),
       Rmc({"latlong"})>>}

\* Overlong sentences: by one, so that its end is lost, and by two.
LongEpochs ==
    {<<Gga({"latlong"}), Gsa("GP", 3, <<1, 99, 3>>),
       Gsv("GP", 2, 1, 3, <<1, 2>>), Gsv("GP", 2, 2, 3, <<3>>)>>,
     <<[Gsv("GP", 2, 1, 3, <<1, 2>>) EXCEPT !.len = 4],
       Gsv("GP", 2, 2, 3, <<3>>), Rmc({"latlong"})>>,
     <<[Gsv("GL", 2, 1, 3, <<65, 66>>) EXCEPT !.len = 5],
       Gsv("GL", 2, 2, 3, <<67>>), Accuracy>>}

\* As in normal operation; and small chunks, each second one thrown away, of
\* sentences written one by one.
MCLinks ==
    {[buff_size |-> 40, interval |-> 1, burst |-> TRUE, prompt |-> TRUE,
      epochs |-> WholeEpochs, bound |-> 3],
     [buff_size |-> 4, interval |-> 2, burst |-> FALSE, prompt |-> FALSE,
      epochs |-> LongEpochs, bound |-> 2]}

\* Midnight is before the second epoch.
Days == [e \in 0..MaxEpoch |-> IF e < 2 THEN 1 ELSE 2]
=============================================================================
