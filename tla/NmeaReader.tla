----------------------------- MODULE NmeaReader -----------------------------
(***************************************************************************)
(* The NMEA reader of src/mtk/gps/hal/gps_mtk_aosp.c: gps_state_thread     *)
(* reads chunks from /dev/gps, nmea_reader_addc cuts them into lines and   *)
(* nmea_reader_parse collects a location and a table of satellites, which  *)
(* it reports when the line ends a chunk.  MNL, which writes one group of  *)
(* sentences (an epoch) per second, is external.                           *)
(*                                                                         *)
(* A sentence is a record of the fields the code looks at, e is its epoch; *)
(* the data in it is represented by that epoch.  A character is a sentence *)
(* and a position in it; the first one is '$', the last one is '\n'.       *)
(***************************************************************************)
EXTENDS Integers, Sequences, FiniteSets

CONSTANTS
    NMEA_MAX_SIZE,    \* characters of a line (128 in the code)
    GPS_MAX_SVS,      \* satellites of a GpsSvStatus (32)
    GNSS_MAX_SVS,     \* satellites of a GnssSvStatus (64)
    NMEA_MAX_SV_INFO, \* satellites of a GSV sentence (4)
    Links,            \* how MNL and the reader may work together
    DayOf,            \* the day of each epoch
    MaxEpoch          \* bound: epochs

Field  == {"latlong", "altitude", "bearing", "speed", "accuracy"}
Talker == {"GP", "GL", "BD"}
NoEpoch == 0

Sentence == [id : {"GGA", "GSA", "RMC", "GSV", "ACCURACY", "VTG"}, talker : Talker,
             e : 0..MaxEpoch, len : Nat \ {0}, has : SUBSET (Field \cup {"time"}), mode : 1..3,
             num : Nat, seq : Nat, cnt : Nat, sats : Seq(Nat)]

\* buff_size: characters of a chunk (2048 in the code); interval:
\* report_time_interval in seconds, rounded up; burst: does MNL write an epoch
\* at once, or by sentences?  prompt: is an epoch read before MNL writes the
\* next?  epochs: what it may write in an epoch; bound: epochs written.
ASSUME NmeaAssumption ==
    /\ {NMEA_MAX_SIZE, NMEA_MAX_SV_INFO, GPS_MAX_SVS, GNSS_MAX_SVS,
        MaxEpoch} \subseteq Nat \ {0}
    /\ Links \subseteq [buff_size : Nat \ {0}, interval : Nat \ {0},
                        burst : BOOLEAN, prompt : BOOLEAN,
                        epochs : SUBSET Seq(Sentence), bound : 0..MaxEpoch]
    /\ DayOf \in [0..MaxEpoch -> Nat]

VARIABLES
    link,             \* fixed: the element of Links
    mtk,              \* is callback_backup_mtk a GpsCallbacks_mtk?
    epoch, now, rest, \* MNL: epochs written, the last one, what it has still
                      \* to write of it
    dev,              \* the characters in /dev/gps
    rpc,              \* where gps_state_thread is
    started, count,   \* its started and count
    buff, end_tag,    \* the rest of its chunk, gps_nmea_end_tag
    in, overflow,     \* the line (pos is its length)
    idx,              \* satellites of the GSV line to look at
    utc_day,          \* -1 as long as no date is known
    fix,              \* flags, data and time of the location
    fix_mode,
    sv_count, num_svs, sv_list, \* sv_status_gnss or sv_status_gps
    used,             \* sv_used_in_fix or used_in_fix_mask
    loc, svs          \* the last reports of either kind (history)

env    == <<link, mtk>>
mnl    == <<epoch, now, rest>>
reader == <<started, count>>
chunk  == <<buff, end_tag>>
line   == <<in, overflow>>
locs   == <<utc_day, fix, fix_mode>>
table  == <<sv_count, num_svs, sv_list>>
cbs    == <<loc, svs>>
vars   == <<env, mnl, dev, rpc, reader, chunk, line, idx, locs, table, used,
            cbs>>

-----------------------------------------------------------------------------

BUFF_SIZE == link.buff_size
Interval  == link.interval
Burst     == link.burst
Prompt    == link.prompt

MAX_SVS == IF mtk THEN GNSS_MAX_SVS ELSE GPS_MAX_SVS

NoFix == [flags |-> {}, data |-> [f \in Field |-> NoEpoch], time |-> <<0, 0>>]
NoSv  == [prn |-> 0, used |-> FALSE, e |-> NoEpoch]

Char == [s : Sentence, i : Nat]
Svs  == [0..MAX_SVS - 1 -> [prn : Nat, used : BOOLEAN, e : 0..MaxEpoch]]
Fix  == [flags : SUBSET Field, data : [Field -> 0..MaxEpoch],
         time : Nat \X (0..MaxEpoch)]

\* In particular a line fits into in[] and sv_count does not outgrow the table.
TypeOK ==
    /\ link \in Links /\ mtk \in BOOLEAN
    /\ started \in BOOLEAN /\ count \in 0..Interval
    /\ epoch \in 0..MaxEpoch /\ now \in Seq(Sentence) /\ rest \in Seq(Sentence)
    /\ dev \in Seq(Char) /\ buff \in Seq(Char) /\ end_tag \in BOOLEAN
    /\ in \in Seq(Char) /\ Len(in) <= NMEA_MAX_SIZE /\ overflow \in BOOLEAN
    /\ rpc \in {"poll", "read", "feed", "parse", "sv", "report"}
    /\ idx \in Nat /\ utc_day \in Nat \cup {-1}
    /\ fix \in Fix /\ loc \in Fix /\ fix_mode \in 0..3
    /\ sv_count \in 0..MAX_SVS /\ num_svs \in Nat /\ sv_list \in Svs
    /\ used \subseteq Nat
    /\ svs \in [n : Nat, list : Svs, used : SUBSET Nat]

Init ==
    /\ link \in Links /\ mtk \in BOOLEAN
    /\ epoch = 0 /\ now = <<>> /\ rest = <<>> /\ dev = <<>>
    /\ rpc = "poll" /\ started = FALSE /\ count = 0
    /\ buff = <<>> /\ end_tag = FALSE /\ in = <<>> /\ overflow = FALSE
    /\ idx = 0 /\ utc_day = -1 /\ fix = NoFix /\ fix_mode = 0
    /\ sv_count = 0 /\ num_svs = 0 /\ used = {}
    /\ sv_list = [i \in 0..MAX_SVS - 1 |-> NoSv]
    /\ loc = NoFix /\ svs = [n |-> 0, list |-> sv_list, used |-> {}]

-----------------------------------------------------------------------------
(* MNL (external). *)

Chars(s) == [i \in 1..s.len |-> [s |-> s, i |-> i]]
last(c)  == c.i = c.s.len

Idle == rpc = "poll" /\ dev = <<>> /\ rest = <<>>

NewEpoch ==
    /\ epoch < link.bound /\ rest = <<>> /\ (Prompt => Idle)
    /\ epoch' = epoch + 1
    /\ \E k \in link.epochs :
          now' = [i \in DOMAIN k |-> [k[i] EXCEPT !.e = epoch + 1]]
    /\ rest' = now'
    /\ UNCHANGED <<env, dev, rpc, reader, chunk, line, idx, locs, table, used,
                   cbs>>

WriteSentence ==
    /\ rest # <<>>
    /\ dev' = dev \o Chars(Head(rest)) /\ rest' = Tail(rest)
    /\ UNCHANGED <<env, epoch, now, rpc, reader, chunk, line, idx, locs, table,
                   used, cbs>>

-----------------------------------------------------------------------------
(* gps_state_thread. *)

\* Nobody sees half of what is written at once.
Written == Burst => rest = <<>>

Taken == IF Len(dev) < BUFF_SIZE THEN Len(dev) ELSE BUFF_SIZE

\* Too early for a report: the chunk is read and thrown away.
SkipChunk ==
    /\ rpc = "poll" /\ dev # <<>> /\ Written
    /\ Interval > count + 1
    /\ count' = count + 1
    /\ dev' = SubSeq(dev, Taken + 1, Len(dev))
    /\ UNCHANGED <<env, mnl, rpc, started, chunk, line, idx, locs, table, used,
                   cbs>>

GpsEvent ==
    /\ rpc = "poll" /\ dev # <<>> /\ Written
    /\ Interval <= count + 1
    /\ count' = 0 /\ rpc' = "read"
    /\ UNCHANGED <<env, mnl, dev, started, chunk, line, idx, locs, table, used,
                   cbs>>

ReadChunk ==
    /\ rpc = "read" /\ dev # <<>> /\ Written
    /\ buff' = SubSeq(dev, 1, Taken)
    /\ dev' = SubSeq(dev, Taken + 1, Len(dev))
    /\ end_tag' = FALSE /\ rpc' = "feed"
    /\ UNCHANGED <<env, mnl, reader, line, idx, locs, table, used, cbs>>

WouldBlock ==
    /\ rpc = "read" /\ dev = <<>> /\ Written
    /\ rpc' = "poll"
    /\ UNCHANGED <<env, mnl, dev, reader, chunk, line, idx, locs, table, used,
                   cbs>>

\* CMD_START with nmea_reader_set_callback; CMD_STOP; CMD_RESTART.
Start ==
    /\ rpc = "poll" /\ ~started
    /\ started' = TRUE
    /\ fix' = [fix EXCEPT !.flags = {}] /\ sv_count' = 0 /\ num_svs' = 0
    /\ UNCHANGED <<env, mnl, dev, rpc, count, chunk, line, idx, utc_day,
                   fix_mode, sv_list, used, cbs>>

Stop ==
    /\ rpc = "poll" /\ started /\ started' = FALSE
    /\ UNCHANGED <<env, mnl, dev, rpc, count, chunk, line, idx, locs, table,
                   used, cbs>>

Restart ==
    /\ rpc = "poll" /\ fix_mode' = 0
    /\ UNCHANGED <<env, mnl, dev, rpc, reader, chunk, line, idx, utc_day, fix,
                   table, used, cbs>>

-----------------------------------------------------------------------------
(* nmea_reader_addc. *)

\* Where the loop over the chunk goes on.
NextChar(rem) == IF rem = <<>> THEN "read" ELSE "feed"

Feed == buff' = Tail(buff) /\ end_tag' = (Tail(buff) = <<>>)

\* Mutation: the line may take one character more.
FullLate == Len(in) > NMEA_MAX_SIZE

Full == Len(in) >= NMEA_MAX_SIZE

Swallow ==
    /\ rpc = "feed" /\ overflow /\ Feed
    /\ overflow' = ~last(Head(buff))
    /\ rpc' = NextChar(Tail(buff))
    /\ UNCHANGED <<env, mnl, dev, reader, in, idx, locs, table, used, cbs>>

LineFull ==
    /\ rpc = "feed" /\ ~overflow /\ Full /\ Feed
    /\ overflow' = TRUE /\ in' = <<>>
    /\ rpc' = NextChar(Tail(buff))
    /\ UNCHANGED <<env, mnl, dev, reader, idx, locs, table, used, cbs>>

AddChar ==
    /\ rpc = "feed" /\ ~overflow /\ ~Full /\ Feed
    /\ in' = Append(in, Head(buff))
    /\ rpc' = IF last(Head(buff)) THEN "parse" ELSE NextChar(Tail(buff))
    /\ UNCHANGED <<env, mnl, dev, reader, overflow, idx, locs, table, used, cbs>>

-----------------------------------------------------------------------------
(* nmea_reader_parse. *)

\* Mutation: pos is not reset after a line.
EndLineKeeps == rpc' = NextChar(buff) /\ UNCHANGED in

\* Back in nmea_reader_addc.
EndLine == rpc' = NextChar(buff) /\ in' = <<>>

\* The sentence of the line.  The leading '$' is optional, a line that lacks
\* more is not recognised.
S == in[1].s
Whole == in[1].i <= 2 /\ in = SubSeq(Chars(S), in[1].i, S.len)

Parsing(id) == rpc = "parse" /\ Whole /\ S.id = id

\* Mutation: a fix has three dimensions.
LOC_FIXED_3D == fix_mode = 3

LOC_FIXED == fix_mode \in {2, 3}

\* nmea_reader_update_latlong, _altitude, _bearing, _speed, _accuracy.
updated(fields) ==
    LET new == S.has \cap fields
    IN  [flags |-> fix.flags \cup new, time |-> fix.time,
         data |-> [f \in Field |-> IF f \in new THEN S.e ELSE fix.data[f]]]

\* nmea_reader_update_time with a known date.
timed(f, day) == IF "time" \in S.has THEN [f EXCEPT !.time = <<day, S.e>>]
                                     ELSE f

\* When no date is known the phone's is taken, which may be any.
GGA ==
    /\ Parsing("GGA")
    /\ \E today \in {DayOf[e] : e \in 0..MaxEpoch} :
          utc_day' = IF utc_day < 0 /\ "time" \in S.has THEN today ELSE utc_day
    /\ fix' = timed(updated({"latlong", "altitude"}), utc_day')
    /\ rpc' = "report"
    /\ UNCHANGED <<env, mnl, dev, reader, chunk, line, idx, fix_mode, table,
                   used, cbs>>

\* The number the code gives satellite n of a sentence.
svId(s, n) == IF s.talker = "BD" THEN n + 200 ELSE n

\* The satellites of a GSA, twelve at most: QZSS ones are passed over, an
\* invalid one ends the list.
GsaSats(s) ==
    LET good == IF mtk THEN (1..32) \cup (65..96) \cup (201..232) ELSE 1..32
        qzss == 193..197
        max  == 12
        id(j) == svId(s, s.sats[j])
    IN  {id(i) : i \in {i \in DOMAIN s.sats :
            i <= max /\ id(i) \in good /\ \A j \in 1..i : id(j) \in good \cup qzss}}

GSA ==
    /\ Parsing("GSA") /\ (mtk \/ S.talker = "GP")
    /\ fix_mode' = S.mode
    /\ used' = (IF mtk THEN used ELSE {})
                  \cup (IF S.mode \in {2, 3} THEN GsaSats(S) ELSE {})
    /\ rpc' = "report"
    /\ UNCHANGED <<env, mnl, dev, reader, chunk, line, idx, utc_day, fix, table,
                   cbs>>

\* mode 1 stands for the status V.
RMC ==
    /\ Parsing("RMC")
    /\ IF S.mode = 1
       THEN UNCHANGED <<utc_day, fix>>
       ELSE /\ utc_day' = DayOf[S.e]
            /\ fix' = timed(updated({"latlong", "bearing", "speed"}), utc_day')
    /\ rpc' = "report"
    /\ UNCHANGED <<env, mnl, dev, reader, chunk, line, idx, fix_mode, table,
                   used, cbs>>

ACCURACY ==
    /\ Parsing("ACCURACY")
    /\ fix' = IF LOC_FIXED THEN updated({"accuracy"}) ELSE fix
    /\ rpc' = "report"
    /\ UNCHANGED <<env, mnl, dev, reader, chunk, line, idx, utc_day, fix_mode,
                   table, used, cbs>>

HasGsv == mtk \/ S.talker \in {"GP", "GL"}

\* Mutation: a new set goes on counting.
GSVNoReset ==
    /\ Parsing("GSV") /\ HasGsv
    /\ rpc' = "sv" /\ idx' = 0
    /\ UNCHANGED <<env, mnl, dev, reader, chunk, line, locs, table, used, cbs>>

GSV ==
    /\ Parsing("GSV") /\ HasGsv
    /\ rpc' = "sv" /\ idx' = 0
    /\ sv_count' = IF S.seq = 1 THEN 0 ELSE sv_count
    /\ UNCHANGED <<env, mnl, dev, reader, chunk, line, locs, num_svs, sv_list,
                   used, cbs>>

\* An unknown sentence.  A mutilated one may also be too short to go on.
Unknown ==
    /\ rpc = "parse"
    /\ \/ ~Whole
       \/ S.id = "GSA" /\ ~(mtk \/ S.talker = "GP")
       \/ S.id = "GSV" /\ ~HasGsv
       \/ S.id = "VTG"
    /\ \/ rpc' = "report" /\ UNCHANGED in
       \/ ~Whole /\ EndLine
    /\ UNCHANGED <<env, mnl, dev, reader, chunk, overflow, idx, locs, table,
                   used, cbs>>

\* The satellites of a GSV sentence.
sv_num(s) ==
    LET left == s.cnt - (s.seq - 1) * NMEA_MAX_SV_INFO
    IN  IF left > NMEA_MAX_SV_INFO THEN NMEA_MAX_SV_INFO ELSE left

\* An empty token is number 0.
svAt(i) == svId(S, IF i \in DOMAIN S.sats THEN S.sats[i] ELSE 0)

Accepted(prn) ==
    /\ prn > 0 /\ ~(prn < 65 /\ prn > GPS_MAX_SVS)
    /\ IF mtk THEN ~(prn > 96 /\ prn < 200) /\ prn <= 232 ELSE prn <= 96

\* nmea_reader_update_sv_status_gnss and _gps.
nmea_reader_update_sv_status ==
    /\ rpc = "sv" /\ idx < sv_num(S)
    /\ idx' = idx + 1
    /\ LET prn == svAt(idx + 1)
           sv_index == sv_count + num_svs
       IN  IF Accepted(prn) /\ sv_count < MAX_SVS /\ sv_index < MAX_SVS
           THEN /\ sv_list' = [sv_list EXCEPT ![sv_index] =
                      [prn |-> prn, used |-> mtk /\ prn \in used, e |-> S.e]]
                /\ sv_count' = sv_count + 1
           ELSE UNCHANGED <<sv_list, sv_count>>
    /\ UNCHANGED <<env, mnl, dev, rpc, reader, chunk, line, locs, num_svs, used,
                   cbs>>

GSVEnd ==
    /\ rpc = "sv" /\ idx >= sv_num(S)
    /\ IF S.seq = S.num
       THEN IF sv_count <= S.cnt
            THEN num_svs' = num_svs + sv_count /\ UNCHANGED sv_count
            ELSE num_svs' = 0 /\ sv_count' = 0
       ELSE UNCHANGED <<num_svs, sv_count>>
    /\ rpc' = "report"
    /\ UNCHANGED <<env, mnl, dev, reader, chunk, line, idx, locs, sv_list, used,
                   cbs>>

\* Mutation: the flags of a reported location stay.
ReportLocationKeeps ==
    IF LOC_FIXED /\ fix.flags # {} /\ end_tag
    THEN loc' = fix /\ UNCHANGED fix
    ELSE UNCHANGED <<loc, fix>>

ReportLocation ==
    IF LOC_FIXED /\ fix.flags # {} /\ end_tag
    THEN loc' = fix /\ fix' = [fix EXCEPT !.flags = {}]
    ELSE UNCHANGED <<loc, fix>>

ReportSvs ==
    IF num_svs # 0 /\ end_tag
    THEN /\ svs' = [n |-> num_svs, list |-> sv_list, used |-> used]
         /\ sv_count' = 0 /\ num_svs' = 0 /\ used' = {}
    ELSE UNCHANGED <<svs, sv_count, num_svs, used>>

Report ==
    /\ rpc = "report"
    /\ ReportLocation /\ ReportSvs /\ EndLine
    /\ UNCHANGED <<env, mnl, dev, reader, chunk, overflow, idx, utc_day,
                   fix_mode, sv_list>>

-----------------------------------------------------------------------------

Next ==
    \/ NewEpoch \/ WriteSentence
    \/ SkipChunk \/ GpsEvent \/ ReadChunk \/ WouldBlock
    \/ Start \/ Stop \/ Restart
    \/ Swallow \/ LineFull \/ AddChar
    \/ GGA \/ GSA \/ RMC \/ GSV \/ ACCURACY \/ Unknown
    \/ nmea_reader_update_sv_status \/ GSVEnd \/ Report

Spec == Init /\ [][Next]_vars

-----------------------------------------------------------------------------
(* Properties. *)

\* MNL writes an epoch at once, a chunk has room for it, and every chunk is
\* read in time and used.
OneRead == /\ Burst /\ Prompt /\ Interval = 1
           /\ \A k \in link.epochs :
                 /\ \A i \in DOMAIN k : k[i].len <= NMEA_MAX_SIZE
                 /\ Len(k) * NMEA_MAX_SIZE <= BUFF_SIZE

\* The fields nmea_reader_parse takes from a sentence.
Own(id) == CASE id = "GGA"      -> {"latlong", "altitude"}
             [] id = "RMC"      -> {"latlong", "bearing", "speed"}
             [] id = "ACCURACY" -> {"accuracy"}
             [] OTHER           -> {}

\* The fields MNL gives in an epoch.
Given(k) == {f \in Field : \E i \in DOMAIN k : f \in k[i].has}

\* Locations as MNL writes them: every field is in its sentences; and where
\* there is a position there are a valid RMC with its time and a GSA, each GSA
\* says that there is a fix, and says so before an ACCURACY.
RegularFix(k) ==
    /\ \A i \in DOMAIN k : k[i].has \cap Field \subseteq Own(k[i].id)
    /\ Given(k) # {} =>
          /\ \E i \in DOMAIN k : k[i].id = "RMC" /\ "time" \in k[i].has
          /\ \E i \in DOMAIN k : k[i].id = "GSA" /\ k[i].talker = "GP"
          /\ \A i \in DOMAIN k : /\ k[i].id = "RMC" => k[i].mode # 1
                                 /\ k[i].id = "GSA" => k[i].mode # 1
          /\ \A i, j \in DOMAIN k :
                k[i].id = "ACCURACY" /\ k[j].id = "GSA" => j < i

RegularFixes == OneRead /\ \A k \in link.epochs : RegularFix(k)

\* Then a location the framework gets is of one epoch: all the fields it has,
\* and the time, with the right date also just after midnight.
LocationWhole ==
    RegularFixes /\ loc.flags # {} =>
        /\ \A f \in loc.flags : loc.data[f] = loc.time[2]
        /\ loc.time[1] = DayOf[loc.time[2]]

\* When everything is read, the location of an epoch has been reported with
\* every field MNL gave.
LocationReported ==
    RegularFixes /\ Idle =>
        \A f \in Given(now) : f \in loc.flags /\ loc.data[f] = epoch

\* The GSV sentences whose satellites are counted, and the GSA sentences that
\* tell which are used.
Counts(s) == s.id = "GSV" /\ (mtk \/ s.talker # "BD")
Marks(s)  == s.id = "GSA" /\ (mtk \/ s.talker = "GP")

Ids(s)  == {svId(s, s.sats[j]) : j \in DOMAIN s.sats}
Seen(s) == {prn \in Ids(s) : Accepted(prn)}

\* Satellites in view and satellites used, by the sentences of an epoch.
InView(k) == UNION {Seen(k[i]) : i \in {i \in DOMAIN k : Counts(k[i])}}
InFix(k)  == UNION {Ids(k[i]) : i \in {i \in DOMAIN k : /\ Marks(k[i])
                                                        /\ k[i].mode \in {2, 3}}}

\* Satellites as MNL writes them.  The GSV of a talker are one whole set, in
\* order and not mixed with those of another; each has the satellites that its
\* counts announce, and no satellite comes twice.  Every GSA comes before them,
\* names no satellite after an invalid one, and none if there is none in view;
\* where only the last GSA of GP counts it is the only one.
RegularSats(k) ==
    LET gsv == {i \in DOMAIN k : Counts(k[i])}
        gsa == {i \in DOMAIN k : Marks(k[i])}
        same(i, j) == k[i].talker = k[j].talker
    IN  /\ \A i \in gsv :
              /\ k[i].seq \in 1..k[i].num /\ Len(k[i].sats) = sv_num(k[i])
              /\ \A q \in 1..k[i].num : \E j \in gsv : same(i, j) /\ k[j].seq = q
        /\ \A i, j \in gsv : i < j /\ same(i, j) =>
              /\ k[i].seq < k[j].seq /\ k[i].num = k[j].num
              /\ \A m \in gsv : i < m /\ m < j => same(i, m)
        /\ \A i, j \in gsv : \A a \in DOMAIN k[i].sats, b \in DOMAIN k[j].sats :
              svId(k[i], k[i].sats[a]) = svId(k[j], k[j].sats[b]) => i = j /\ a = b
        /\ \A i \in gsa : /\ \A j \in gsv : i < j
                          /\ Seen(k[i]) \subseteq GsaSats(k[i])
                          /\ ~mtk => gsa = {i}
        /\ InView(k) = {} => InFix(k) = {}

RegularSatellites == OneRead /\ \A k \in link.epochs : RegularSats(k)

Reported(i) == svs.list[i].prn
Marked(i)   == IF mtk THEN svs.list[i].used ELSE svs.list[i].prn \in svs.used

\* When everything is read, the satellites in view have been reported, each
\* once and with its use in this epoch's fix, up to the size of the table.
SatellitesReported ==
    RegularSatellites /\ Idle /\ InView(now) # {} =>
        LET all == {Reported(i) : i \in 0..svs.n - 1}
        IN  /\ svs.n = Cardinality(all) /\ all \subseteq InView(now)
            /\ svs.n = MAX_SVS \/ all = InView(now)
            /\ \A i \in 0..svs.n - 1 :
                  /\ svs.list[i].e = epoch
                  /\ Marked(i) <=> Reported(i) \in InFix(now)

\* A line is never put together from two sentences.
LineIntact ==
    \A i \in 1..Len(in) - 1 : in[i + 1] = [s |-> in[i].s, i |-> in[i].i + 1]
=============================================================================
