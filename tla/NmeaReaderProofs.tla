-------------------------- MODULE NmeaReaderProofs --------------------------
(***************************************************************************)
(* Proofs about NmeaReader, for every size of the buffers and tables and   *)
(* whatever sentences MNL writes: types and lines without an assumption,   *)
(* locations and satellites for epochs that are regular and read in one    *)
(* chunk.                                                                  *)
(***************************************************************************)
EXTENDS NmeaReader, SequenceTheorems, FiniteSetTheorems, FunctionTheorems, TLAPS

\* What is left to do where the thread is.
RpcInv == /\ rpc = "feed" => buff # <<>>
          /\ rpc \in {"parse", "sv", "report"} => in # <<>>

LEMMA CharsType ==
  ASSUME NEW s \in Sentence
  PROVE  /\ Chars(s) \in Seq(Char) /\ Len(Chars(s)) = s.len
         /\ s.len \in Nat \ {0}
         /\ \A i \in 1..s.len : Chars(s)[i] = [s |-> s, i |-> i]
  <1>1. s.len \in Nat \ {0} BY DEF Sentence
  <1>2. \A i \in 1..s.len : [s |-> s, i |-> i] \in Char
    BY <1>1 DEF Char
  <1>3. Chars(s) \in [1..s.len -> Char] BY <1>2 DEF Chars
  <1>4. Chars(s) \in Seq(Char) BY <1>1, <1>3, SeqDef
  <1>5. DOMAIN Chars(s) = 1..s.len BY DEF Chars
  <1>6. Len(Chars(s)) = s.len BY <1>1, <1>4, <1>5, LenProperties
  <1>7. \A i \in 1..s.len : Chars(s)[i] = [s |-> s, i |-> i]
    BY DEF Chars
  <1> QED BY <1>1, <1>4, <1>6, <1>7

\* The line's sentence.
LEMMA LineSentence == TypeOK /\ in # <<>> => S \in Sentence
  <1> SUFFICES ASSUME TypeOK, in # <<>> PROVE S \in Sentence
    OBVIOUS
  <1>1. in \in Seq(Char) BY DEF TypeOK
  <1>2. in[1] \in Char BY <1>1
  <1> QED BY <1>2 DEF S, Char

LEMMA UpdatedType ==
  ASSUME fix \in Fix, S \in Sentence, NEW fields \in SUBSET Field
  PROVE  updated(fields) \in Fix
  <1>1. S.e \in 0..MaxEpoch BY DEF Sentence
  <1> QED BY <1>1 DEF updated, Fix

LEMMA TimedType ==
  ASSUME NEW f \in Fix, S \in Sentence, NEW day,
         "time" \in S.has => day \in Nat
  PROVE  timed(f, day) \in Fix
  BY DEF timed, Fix, Sentence

LEMMA GsaSatsType == ASSUME S \in Sentence PROVE GsaSats(S) \subseteq Nat
  BY DEF GsaSats, svId, Sentence

-----------------------------------------------------------------------------
(* Type correctness. *)

LEMMA SizesType ==
  /\ NMEA_MAX_SIZE \in Nat \ {0} /\ NMEA_MAX_SV_INFO \in Nat \ {0}
  /\ MaxEpoch \in Nat \ {0}
  /\ DayOf \in [0..MaxEpoch -> Nat]
  /\ GPS_MAX_SVS \in Nat \ {0} /\ GNSS_MAX_SVS \in Nat \ {0}
  /\ MAX_SVS \in Nat \ {0}
  BY NmeaAssumption DEF NmeaAssumption, MAX_SVS

LEMMA LinkType ==
  ASSUME link \in Links
  PROVE  /\ BUFF_SIZE \in Nat \ {0} /\ Interval \in Nat \ {0}
         /\ link.bound \in 0..MaxEpoch /\ link.epochs \subseteq Seq(Sentence)
  BY NmeaAssumption DEF NmeaAssumption, BUFF_SIZE, Interval

LEMMA TypeInit == Init => TypeOK /\ RpcInv
  <1> SUFFICES ASSUME Init PROVE TypeOK /\ RpcInv
    OBVIOUS
  <1> USE SizesType
  <1>0. link \in Links /\ Interval \in Nat \ {0}
    BY LinkType DEF Init
  <1>1. NoFix \in Fix BY DEF NoFix, Fix, NoEpoch
  <1>2. sv_list \in Svs BY DEF Init, Svs, NoSv, NoEpoch
  <1>3. svs \in [n : Nat, list : Svs, used : SUBSET Nat] BY <1>2 DEF Init
  <1>4. mtk \in BOOLEAN /\ started \in BOOLEAN /\ end_tag \in BOOLEAN
        /\ overflow \in BOOLEAN
    BY Zenon DEF Init
  <1>5. in \in Seq(Char) /\ Len(in) <= NMEA_MAX_SIZE BY DEF Init
  <1>6. now \in Seq(Sentence) /\ rest \in Seq(Sentence)
        /\ dev \in Seq(Char) /\ buff \in Seq(Char)
    BY DEF Init
  <1> QED BY <1>0, <1>1, <1>2, <1>3, <1>4, <1>5, <1>6 DEF Init, TypeOK, RpcInv

\* The beginning and the rest of /dev/gps.
LEMMA TakenCut ==
  ASSUME link \in Links, dev \in Seq(Char), dev # <<>>
  PROVE  /\ Taken \in 1..Len(dev)
         /\ SubSeq(dev, 1, Taken) \in Seq(Char)
         /\ Len(SubSeq(dev, 1, Taken)) = Taken
         /\ SubSeq(dev, Taken + 1, Len(dev)) \in Seq(Char)
         /\ Len(SubSeq(dev, Taken + 1, Len(dev))) = Len(dev) - Taken
         /\ \A i \in 1..Taken : SubSeq(dev, 1, Taken)[i] = dev[i]
         /\ \A i \in 1..Len(dev) - Taken :
               SubSeq(dev, Taken + 1, Len(dev))[i] = dev[Taken + i]
  <1>1. Len(dev) \in Nat \ {0} BY EmptySeq
  <1>2. Taken \in 1..Len(dev) BY <1>1, LinkType DEF Taken
  <1> HIDE DEF Taken
  <1> QED BY <1>1, <1>2, SubSeqProperties

LEMMA TypeStep == TypeOK /\ RpcInv /\ [Next]_vars => TypeOK' /\ RpcInv'
  <1> SUFFICES ASSUME TypeOK, RpcInv, [Next]_vars PROVE TypeOK' /\ RpcInv'
    OBVIOUS
  <1>l. /\ link \in Links /\ Interval \in Nat \ {0}
        /\ link.bound \in 0..MaxEpoch /\ link.epochs \subseteq Seq(Sentence)
    BY LinkType DEF TypeOK
  <1> USE SizesType, <1>l DEF env, mnl, reader, chunk, line, locs, table, cbs
  <1>m. env' = env => Svs' = Svs /\ MAX_SVS' = MAX_SVS /\ Interval' = Interval
    BY DEF Svs, MAX_SVS, Interval
  <1>s. in # <<>> => S \in Sentence BY LineSentence
  <1>t. \A b \in Seq(Char) : NextChar(b) \in {"read", "feed"}
                             /\ (NextChar(b) = "feed" => b # <<>>)
    BY DEF NextChar
  <1>e. <<>> \in Seq(Char) /\ Len(<<>>) <= NMEA_MAX_SIZE
    OBVIOUS
  <1>b. rpc = "feed" => /\ Head(buff) \in Char /\ Tail(buff) \in Seq(Char)
    BY DEF RpcInv, TypeOK
  <1>1. CASE NewEpoch
    <2>0. epoch < link.bound /\ epoch' = epoch + 1 /\ epoch \in 0..MaxEpoch
      BY <1>1, Zenon DEF NewEpoch, TypeOK
    <2>1. epoch' \in 0..MaxEpoch BY <2>0
    <2>2. PICK k \in link.epochs :
             now' = [i \in DOMAIN k |-> [k[i] EXCEPT !.e = epoch + 1]]
      BY <1>1 DEF NewEpoch
    <2>3. k \in Seq(Sentence) OBVIOUS
    <2>4. \A i \in DOMAIN k : [k[i] EXCEPT !.e = epoch + 1] \in Sentence
      <3> SUFFICES ASSUME NEW i \in DOMAIN k
                   PROVE  [k[i] EXCEPT !.e = epoch + 1] \in Sentence
        OBVIOUS
      <3>1. k[i] \in Sentence BY <2>3
      <3>2. epoch + 1 \in 0..MaxEpoch BY <2>0
      <3> QED BY <3>1, <3>2 DEF Sentence
    <2>5. DOMAIN k = 1..Len(k) /\ Len(k) \in Nat BY <2>3, LenProperties
    <2>6. now' \in Seq(Sentence) BY <2>2, <2>4, <2>5, SeqDef
    <2> QED BY <1>1, <1>m, <2>1, <2>6 DEF NewEpoch, TypeOK, RpcInv
  <1>2. CASE WriteSentence
    <2>1. Head(rest) \in Sentence /\ Tail(rest) \in Seq(Sentence)
      BY <1>2 DEF WriteSentence, TypeOK
    <2>2. dev \o Chars(Head(rest)) \in Seq(Char)
      BY <2>1, CharsType, ConcatProperties DEF TypeOK
    <2> QED BY <1>2, <1>m, <2>1, <2>2 DEF WriteSentence, TypeOK, RpcInv
  <1>3. CASE SkipChunk
    <2>1. dev' \in Seq(Char)
      BY <1>3, TakenCut DEF SkipChunk, TypeOK
    <2>2. count' \in 0..Interval BY <1>3 DEF SkipChunk, TypeOK
    <2> QED BY <1>3, <1>m, <2>1, <2>2 DEF SkipChunk, TypeOK, RpcInv
  <1>4. CASE GpsEvent
    BY <1>4, <1>m DEF GpsEvent, TypeOK, RpcInv
  <1>5. CASE ReadChunk
    <2>1. dev' \in Seq(Char) /\ buff' \in Seq(Char) /\ Len(buff') > 0
      <3>1. /\ dev # <<>> /\ buff' = SubSeq(dev, 1, Taken)
            /\ dev' = SubSeq(dev, Taken + 1, Len(dev)) /\ dev \in Seq(Char)
        BY <1>5 DEF ReadChunk, TypeOK
      <3> HIDE DEF Taken
      <3> QED BY <3>1, TakenCut
    <2>2. buff' # <<>> BY <2>1
    <2>3. end_tag' \in BOOLEAN BY <1>5 DEF ReadChunk
    <2> QED BY <1>5, <1>m, <2>1, <2>2, <2>3 DEF ReadChunk, TypeOK, RpcInv
  <1>6. CASE WouldBlock
    BY <1>6, <1>m DEF WouldBlock, TypeOK, RpcInv
  <1>7. CASE Start
    <2>1. fix' \in Fix BY <1>7 DEF Start, TypeOK, Fix
    <2>2. started' \in BOOLEAN BY <1>7 DEF Start
    <2>3. /\ sv_count' = 0 /\ num_svs' = 0
          /\ UNCHANGED <<env, mnl, dev, rpc, count, chunk, line, idx, utc_day,
                         fix_mode, sv_list, used, cbs>>
      BY <1>7 DEF Start
    <2> QED BY <1>m, <2>1, <2>2, <2>3 DEF TypeOK, RpcInv
  <1>8. CASE Stop
    <2>1. started' \in BOOLEAN BY <1>8 DEF Stop
    <2> QED BY <1>8, <1>m, <2>1 DEF Stop, TypeOK, RpcInv
  <1>9. CASE Restart
    BY <1>9, <1>m DEF Restart, TypeOK, RpcInv
  <1>10. CASE Swallow
    <2>1. end_tag' \in BOOLEAN /\ overflow' \in BOOLEAN
      BY <1>10, Zenon DEF Swallow, Feed
    <2> QED BY <1>10, <1>m, <1>t, <1>b, <2>1
            DEF Swallow, Feed, TypeOK, RpcInv
  <1>11. CASE LineFull
    <2>1. end_tag' \in BOOLEAN /\ overflow' \in BOOLEAN
      BY <1>11, Zenon DEF LineFull, Feed
    <2> QED BY <1>11, <1>m, <1>t, <1>b, <1>e, <2>1
            DEF LineFull, Feed, TypeOK, RpcInv
  <1>12. CASE AddChar
    <2>1. end_tag' \in BOOLEAN BY <1>12, Zenon DEF AddChar, Feed
    <2>2. in' \in Seq(Char) /\ Len(in') <= NMEA_MAX_SIZE /\ Len(in') > 0
      <3>1. in \in Seq(Char) /\ Len(in) < NMEA_MAX_SIZE /\ Head(buff) \in Char
        BY <1>12, <1>b DEF AddChar, Full, TypeOK
      <3>2. in' = Append(in, Head(buff)) BY <1>12 DEF AddChar
      <3> QED BY <3>1, <3>2
    <2>3. in' # <<>> BY <2>2
    <2>4. buff' \in Seq(Char) BY <1>12, <1>b DEF AddChar, Feed
    <2>5. /\ rpc' \in {"parse", "read", "feed"}
          /\ rpc' = "feed" => buff' # <<>>
      BY <1>12, <1>t, <1>b DEF AddChar, Feed
    <2> QED BY <1>12, <1>m, <2>1, <2>2, <2>3, <2>4, <2>5
            DEF AddChar, TypeOK, RpcInv
  <1>13. CASE GGA
    <2>1. in # <<>> /\ S \in Sentence
      BY <1>13, <1>s DEF GGA, Parsing, RpcInv
    <2>2. PICK today \in {DayOf[e] : e \in 0..MaxEpoch} :
             utc_day' = IF utc_day < 0 /\ "time" \in S.has THEN today
                                                           ELSE utc_day
      BY <1>13 DEF GGA
    <2>3. /\ utc_day' \in Nat \cup {-1}
          /\ "time" \in S.has => utc_day' \in Nat
      BY <2>2 DEF TypeOK
    <2>4. updated({"latlong", "altitude"}) \in Fix
      BY <2>1, UpdatedType DEF TypeOK, Field
    <2>5. fix' \in Fix BY <1>13, <2>1, <2>3, <2>4, TimedType DEF GGA
    <2> QED BY <1>13, <1>m, <2>1, <2>3, <2>5 DEF GGA, TypeOK, RpcInv
  <1>14. CASE GSA
    <2>1. in # <<>> /\ S \in Sentence
      BY <1>14, <1>s DEF GSA, Parsing, RpcInv
    <2>2. GsaSats(S) \subseteq Nat BY <2>1, GsaSatsType
    <2>3. fix_mode' \in 0..3 BY <1>14, <2>1 DEF GSA, Sentence
    <2> QED BY <1>14, <1>m, <2>1, <2>2, <2>3 DEF GSA, TypeOK, RpcInv
  <1>15. CASE RMC
    <2>1. in # <<>> /\ S \in Sentence
      BY <1>15, <1>s DEF RMC, Parsing, RpcInv
    <2>2. DayOf[S.e] \in Nat BY <2>1 DEF Sentence
    <2>3. updated({"latlong", "bearing", "speed"}) \in Fix
      BY <2>1, UpdatedType DEF TypeOK, Field
    <2>4. timed(updated({"latlong", "bearing", "speed"}), DayOf[S.e]) \in Fix
      BY <2>1, <2>2, <2>3, TimedType
    <2>5. fix' \in Fix /\ utc_day' \in Nat \cup {-1}
      BY <1>15, <2>2, <2>4 DEF RMC, TypeOK
    <2> QED BY <1>15, <1>m, <2>1, <2>5 DEF RMC, TypeOK, RpcInv
  <1>16. CASE GSV
    <2>1. in # <<>> BY <1>16 DEF GSV, Parsing, RpcInv
    <2> QED BY <1>16, <1>m, <2>1 DEF GSV, TypeOK, RpcInv
  <1>17. CASE ACCURACY
    <2>1. in # <<>> /\ S \in Sentence
      BY <1>17, <1>s DEF ACCURACY, Parsing, RpcInv
    <2>2. updated({"accuracy"}) \in Fix
      BY <2>1, UpdatedType DEF TypeOK, Field
    <2>3. fix' \in Fix BY <1>17, <2>2 DEF ACCURACY, TypeOK
    <2> QED BY <1>17, <1>m, <2>1, <2>3 DEF ACCURACY, TypeOK, RpcInv
  <1>18. CASE Unknown
    <2>1. in # <<>> BY <1>18 DEF Unknown, RpcInv
    <2>2. /\ rpc' \in {"read", "feed", "report"} /\ in' \in {in, <<>>}
          /\ rpc' = "feed" => buff # <<>>
          /\ rpc' = "report" => in' = in
          /\ UNCHANGED <<env, mnl, dev, reader, chunk, overflow, idx, locs,
                         table, used, cbs>>
      BY <1>18, <1>t DEF Unknown, EndLine, TypeOK
    <2> QED BY <1>m, <1>e, <2>1, <2>2 DEF TypeOK, RpcInv
  <1>19. CASE nmea_reader_update_sv_status
    <2>1. in # <<>> /\ S \in Sentence
      BY <1>19, <1>s DEF nmea_reader_update_sv_status, RpcInv
    <2> DEFINE prn == svAt(idx + 1)
               i == sv_count + num_svs
               new == [prn |-> prn, used |-> mtk /\ prn \in used, e |-> S.e]
    <2>2. prn \in Nat
      BY <2>1 DEF svAt, svId, Sentence
    <2>3. S.e \in 0..MaxEpoch BY <2>1 DEF Sentence
    <2>4. (mtk /\ prn \in used) \in BOOLEAN OBVIOUS
    <2>5. new \in [prn : Nat, used : BOOLEAN, e : 0..MaxEpoch]
      <3> HIDE DEF prn
      <3> QED BY <2>2, <2>3, <2>4
    <2>6. \/ UNCHANGED <<sv_list, sv_count>>
          \/ /\ sv_list' = [sv_list EXCEPT ![i] = new] /\ i < MAX_SVS
             /\ sv_count' = sv_count + 1 /\ sv_count < MAX_SVS
      BY <1>19 DEF nmea_reader_update_sv_status
    <2> HIDE DEF prn, new
    <2>7. sv_list' \in Svs
      BY <2>5, <2>6 DEF TypeOK, Svs
    <2>8. sv_count' \in 0..MAX_SVS BY <2>6 DEF TypeOK
    <2> QED BY <1>19, <1>m, <2>1, <2>7, <2>8
            DEF nmea_reader_update_sv_status, TypeOK, RpcInv
  <1>20. CASE GSVEnd
    <2>1. in # <<>> BY <1>20 DEF GSVEnd, RpcInv
    <2>2. num_svs' \in Nat /\ sv_count' \in 0..MAX_SVS
      <3>1. num_svs + sv_count \in Nat /\ 0 \in 0..MAX_SVS BY DEF TypeOK
      <3>2. \/ num_svs' \in {num_svs, num_svs + sv_count} /\ sv_count' = sv_count
            \/ num_svs' = 0 /\ sv_count' = 0
        BY <1>20 DEF GSVEnd
      <3> QED BY <3>1, <3>2 DEF TypeOK
    <2>3. /\ rpc' = "report"
          /\ UNCHANGED <<env, mnl, dev, reader, chunk, line, idx, locs, sv_list,
                         used, cbs>>
      BY <1>20 DEF GSVEnd
    <2> QED BY <1>m, <2>1, <2>2, <2>3 DEF TypeOK, RpcInv
  <1>21. CASE Report
    <2>1. fix' \in Fix /\ loc' \in Fix
      BY <1>21 DEF Report, ReportLocation, TypeOK, Fix
    <2>2. /\ svs' \in [n : Nat, list : Svs, used : SUBSET Nat]
          /\ sv_count' \in 0..MAX_SVS /\ num_svs' \in Nat /\ used' \subseteq Nat
      <3> DEFINE T == [n : Nat, list : Svs, used : SUBSET Nat]
      <3>1. svs \in T /\ [n |-> num_svs, list |-> sv_list, used |-> used] \in T
        BY DEF TypeOK
      <3> HIDE DEF T
      <3>2. svs' \in T BY <1>21, <3>1 DEF Report, ReportSvs
      <3>3. /\ sv_count' \in 0..MAX_SVS /\ num_svs' \in Nat
            /\ used' \subseteq Nat
        <4>1. \/ UNCHANGED <<sv_count, num_svs, used>>
              \/ sv_count' = 0 /\ num_svs' = 0 /\ used' = {}
          BY <1>21 DEF Report, ReportSvs
        <4>2. 0 \in 0..MAX_SVS /\ 0 \in Nat /\ {} \subseteq Nat OBVIOUS
        <4>3. sv_count \in 0..MAX_SVS /\ num_svs \in Nat /\ used \subseteq Nat
          BY DEF TypeOK
        <4> QED BY <4>1, <4>2, <4>3
      <3> QED BY <3>2, <3>3 DEF T
    <2>3. /\ rpc' = NextChar(buff) /\ in' = <<>>
          /\ UNCHANGED <<env, mnl, dev, reader, chunk, overflow, idx, utc_day,
                         fix_mode, sv_list>>
      BY <1>21 DEF Report, EndLine
    <2>4. buff \in Seq(Char) BY DEF TypeOK
    <2>5. rpc' \in {"read", "feed"} /\ (rpc' = "feed" => buff # <<>>)
      BY <1>t, <2>3, <2>4
    <2> QED BY <1>m, <1>e, <2>1, <2>2, <2>3, <2>5 DEF TypeOK, RpcInv
  <1>22. CASE UNCHANGED vars
    BY <1>22, <1>m DEF vars, TypeOK, RpcInv
  <1> QED BY <1>1, <1>2, <1>3, <1>4, <1>5, <1>6, <1>7, <1>8, <1>9, <1>10,
             <1>11, <1>12, <1>13, <1>14, <1>15, <1>16, <1>17, <1>18, <1>19,
             <1>20, <1>21, <1>22
          DEF Next

-----------------------------------------------------------------------------
(* Lines stay intact. *)

Succ(c) == [s |-> c.s, i |-> c.i + 1]

\* d may come after c in what MNL writes.
Follows(c, d) == IF last(c) THEN d.i = 1 ELSE d = Succ(c)

Chain(q) == \A i \in 1..Len(q) - 1 : Follows(q[i], q[i + 1])

Final(q) == q[Len(q)]

\* /dev/gps holds whole sentences from some point on; the chunk continues in
\* it, and the line in the chunk.
DevInv  == Chain(dev) /\ (dev # <<>> => last(Final(dev)))
BuffInv == /\ Chain(buff)
           /\ buff # <<>> => IF dev = <<>> THEN last(Final(buff))
                                           ELSE Follows(Final(buff), dev[1])
InInv   == /\ rpc \in {"read", "feed"} /\ in # <<>> =>
                 /\ ~last(Final(in))
                 /\ IF buff # <<>> THEN buff[1] = Succ(Final(in))
                    ELSE dev # <<>> /\ dev[1] = Succ(Final(in))
           /\ rpc \in {"poll", "read"} => buff = <<>>
           /\ rpc = "poll" => in = <<>>
           /\ overflow => in = <<>>

StreamInv == DevInv /\ BuffInv /\ InInv /\ LineIntact

\* A sentence is written.
LEMMA WriteChain ==
  ASSUME NEW q \in Seq(Char), Chain(q), q # <<>> => last(Final(q)),
         NEW s \in Sentence
  PROVE  LET r == q \o Chars(s)
         IN  /\ Chain(r) /\ r # <<>> /\ last(Final(r))
             /\ r[1].i = 1 \/ q # <<>>
             /\ q # <<>> => r[1] = q[1]
  <1> DEFINE r == q \o Chars(s)
             k == s.len
             m == Len(q)
  <1>1. /\ Chars(s) \in Seq(Char) /\ Len(Chars(s)) = k /\ k \in Nat \ {0}
        /\ \A i \in 1..k : Chars(s)[i] = [s |-> s, i |-> i]
    BY CharsType
  <1>2. /\ r \in Seq(Char) /\ Len(r) = m + k /\ m \in Nat
        /\ \A i \in 1..m : r[i] = q[i]
        /\ \A i \in 1..k : r[m + i] = [s |-> s, i |-> i]
    <2>1. r \in Seq(Char) /\ Len(r) = m + k /\ m \in Nat
      BY <1>1, ConcatProperties
    <2>2. \A i \in 1..m + k : r[i] = IF i <= m THEN q[i] ELSE Chars(s)[i - m]
      BY <1>1, ConcatProperties
    <2> HIDE DEF r, k, m
    <2>3. \A i \in 1..m : r[i] = q[i] BY <1>1, <2>1, <2>2
    <2>4. ASSUME NEW i \in 1..k PROVE r[m + i] = [s |-> s, i |-> i]
      <3>1. m + i \in 1..m + k /\ ~(m + i <= m) /\ m + i - m = i
        BY <1>1, <2>1
      <3> DEFINE j == m + i
      <3>2. j \in 1..m + k /\ ~(j <= m) BY <3>1
      <3> HIDE DEF j
      <3>3. r[j] = Chars(s)[j - m] BY <2>2, <3>2, Zenon
      <3>4. j - m = i BY <1>1, <2>1 DEF j
      <3>5. r[j] = [s |-> s, i |-> i] BY <1>1, <3>3, <3>4
      <3> QED BY <3>5 DEF j
    <2> QED BY <2>1, <2>3, <2>4
  <1>q. q # <<>> => m \in Nat \ {0} BY EmptySeq
  <1>k. s.len = k OBVIOUS
  <1> HIDE DEF r, k, m
  <1>3. ASSUME NEW i \in 1..Len(r) - 1 PROVE Follows(r[i], r[i + 1])
    <2>1. CASE i < m
      <3>1. i \in 1..m - 1 /\ i \in 1..m /\ i + 1 \in 1..m
        BY <1>2, <2>1
      <3> QED BY <1>2, <3>1 DEF Chain, m
    <2>2. CASE i = m
      <3>1. m \in 1..m /\ 1 \in 1..k BY <1>1, <1>2, <2>2
      <3>2. r[i] = q[m] /\ r[i + 1] = [s |-> s, i |-> 1]
        BY <1>2, <2>2, <3>1
      <3>3. q # <<>> BY <2>2, <1>2 DEF m
      <3>4. last(q[m]) BY <3>3 DEF Final, m
      <3> QED BY <3>2, <3>4 DEF Follows
    <2>3. CASE i > m
      <3>1. PICK j \in 1..k - 1 : i = m + j
        <4>1. i - m \in 1..k - 1 /\ i = m + (i - m) BY <1>1, <1>2, <2>3
        <4> QED BY <4>1
      <3>2. j \in 1..k /\ j + 1 \in 1..k /\ i + 1 = m + (j + 1) /\ j # k
        BY <1>1, <1>2, <3>1
      <3>3. r[i] = [s |-> s, i |-> j] /\ r[i + 1] = [s |-> s, i |-> j + 1]
        BY <1>2, <3>1, <3>2
      <3> QED BY <1>k, <3>2, <3>3 DEF Follows, last, Succ
    <2> QED BY <1>2, <2>1, <2>2, <2>3
  <1>4. r # <<>> BY <1>1, <1>2
  <1>5. last(Final(r))
    <2>1. k \in 1..k BY <1>1
    <2>2. r[m + k] = [s |-> s, i |-> k] BY <1>2, <2>1
    <2>3. Final(r) = [s |-> s, i |-> k] BY <1>2, <2>2 DEF Final
    <2> QED BY <1>k, <2>3 DEF last
  <1>6. q = <<>> => r[1].i = 1
    <2> SUFFICES ASSUME q = <<>> PROVE r[1].i = 1
      OBVIOUS
    <2>1. m = 0 /\ 1 \in 1..k BY <1>1 DEF m
    <2>2. r[m + 1] = [s |-> s, i |-> 1] BY <1>2, <2>1
    <2>3. m + 1 = 1 BY <2>1
    <2>4. r[1] = [s |-> s, i |-> 1] BY <2>2, <2>3
    <2> QED BY <2>4
  <1>7. q # <<>> => r[1] = q[1] BY <1>2, <1>q
  <1> QED BY <1>3, <1>4, <1>5, <1>6, <1>7 DEF Chain, r

\* What is read from /dev/gps continues in what is left.
LEMMA CutChain ==
  ASSUME link \in Links, dev \in Seq(Char), dev # <<>>, DevInv
  PROVE  LET b == SubSeq(dev, 1, Taken)
             d == SubSeq(dev, Taken + 1, Len(dev))
         IN  /\ Chain(b) /\ b # <<>> /\ b[1] = dev[1]
             /\ Chain(d) /\ (d # <<>> => last(Final(d)))
             /\ IF d = <<>> THEN last(Final(b)) ELSE Follows(Final(b), d[1])
  <1> DEFINE b == SubSeq(dev, 1, Taken)
             d == SubSeq(dev, Taken + 1, Len(dev))
             k == Taken
             n == Len(dev)
  <1>1. /\ k \in 1..n /\ b \in Seq(Char) /\ Len(b) = k
        /\ d \in Seq(Char) /\ Len(d) = n - k
        /\ \A i \in 1..k : b[i] = dev[i]
        /\ \A i \in 1..n - k : d[i] = dev[k + i]
    BY TakenCut
  <1>2. /\ \A i \in 1..n - 1 : Follows(dev[i], dev[i + 1])
        /\ last(dev[n]) /\ n \in Nat
    BY DEF DevInv, Chain, Final
  <1> HIDE DEF b, d, k, n
  <1>3. Chain(b)
    <2> SUFFICES ASSUME NEW i \in 1..k - 1 PROVE Follows(b[i], b[i + 1])
      BY <1>1 DEF Chain
    <2>1. i \in 1..k /\ i + 1 \in 1..k /\ i \in 1..n - 1 BY <1>1, <1>2
    <2> QED BY <1>1, <1>2, <2>1
  <1>4. b # <<>> /\ b[1] = dev[1] BY <1>1, <1>2
  <1>5. Chain(d)
    <2> SUFFICES ASSUME NEW i \in 1..n - k - 1 PROVE Follows(d[i], d[i + 1])
      BY <1>1 DEF Chain
    <2>1. /\ i \in 1..n - k /\ i + 1 \in 1..n - k /\ k + i \in 1..n - 1
          /\ k + (i + 1) = k + i + 1
      BY <1>1, <1>2
    <2> QED BY <1>1, <1>2, <2>1
  <1>6. d # <<>> => last(Final(d))
    <2> SUFFICES ASSUME d # <<>> PROVE last(Final(d))
      OBVIOUS
    <2>1. Len(d) # 0 BY <1>1, EmptySeq
    <2>2. n - k \in 1..n - k /\ k + (n - k) = n BY <1>1, <1>2, <2>1
    <2> QED BY <1>1, <1>2, <2>2 DEF Final
  <1>7. IF d = <<>> THEN last(Final(b)) ELSE Follows(Final(b), d[1])
    <2>0. k \in 1..k /\ Final(b) = dev[k] BY <1>1, <1>2 DEF Final
    <2>1. CASE d = <<>>
      <3>1. Len(d) = 0 BY <2>1
      <3>2. k = n BY <1>1, <1>2, <3>1
      <3> QED BY <1>2, <2>0, <2>1, <3>2
    <2>2. CASE d # <<>>
      <3>1. Len(d) # 0 BY <1>1, <2>2, EmptySeq
      <3>2. 1 \in 1..n - k /\ k \in 1..n - 1 BY <1>1, <1>2, <3>1
      <3> QED BY <1>1, <1>2, <2>0, <2>2, <3>2
    <2> QED BY <2>1, <2>2
  <1> QED BY <1>3, <1>4, <1>5, <1>6, <1>7 DEF b, d

\* A character is taken from the chunk.
LEMMA TailChain ==
  ASSUME NEW q \in Seq(Char), q # <<>>, Chain(q)
  PROVE  /\ Head(q) = q[1] /\ Tail(q) \in Seq(Char) /\ Chain(Tail(q))
         /\ Tail(q) = <<>> => Final(q) = q[1]
         /\ Tail(q) # <<>> => /\ Final(Tail(q)) = Final(q)
                              /\ Follows(q[1], Tail(q)[1])
  <1> DEFINE t == Tail(q)
             n == Len(q)
  <1>1. /\ t \in Seq(Char) /\ Len(t) = n - 1 /\ n \in Nat \ {0}
        /\ \A i \in 1..n - 1 : t[i] = q[i + 1]
    BY HeadTailProperties, EmptySeq
  <1>2. \A i \in 1..n - 1 : Follows(q[i], q[i + 1]) BY DEF Chain
  <1>3. Head(q) = q[1] OBVIOUS
  <1> HIDE DEF t, n
  <1>4. Chain(t)
    <2> SUFFICES ASSUME NEW i \in 1..n - 2 PROVE Follows(t[i], t[i + 1])
      BY <1>1 DEF Chain
    <2>1. i \in 1..n - 1 /\ i + 1 \in 1..n - 1 BY <1>1
    <2> QED BY <1>1, <1>2, <2>1
  <1>5. t = <<>> => Final(q) = q[1]
    <2> SUFFICES ASSUME t = <<>> PROVE Final(q) = q[1]
      OBVIOUS
    <2>1. Len(t) = 0 OBVIOUS
    <2>2. n = 1 BY <1>1, <2>1
    <2> QED BY <2>2 DEF Final, n
  <1>6. t # <<>> => Final(t) = Final(q) /\ Follows(q[1], t[1])
    <2> SUFFICES ASSUME t # <<>> PROVE Final(t) = Final(q) /\ Follows(q[1], t[1])
      OBVIOUS
    <2>1. Len(t) # 0 BY <1>1, EmptySeq
    <2>2. 1 \in 1..n - 1 /\ n - 1 \in 1..n - 1 /\ n - 1 + 1 = n
      BY <1>1, <2>1
    <2>3. t[n - 1] = q[n] /\ t[1] = q[1 + 1] BY <1>1, <2>2
    <2>4. Follows(q[1], q[1 + 1]) BY <1>2, <2>2
    <2> QED BY <1>1, <2>3, <2>4 DEF Final, n
  <1> QED BY <1>1, <1>3, <1>4, <1>5, <1>6 DEF t

LEMMA FeedChain ==
  ASSUME TypeOK, RpcInv, StreamInv, rpc = "feed", Feed, dev' = dev
  PROVE  /\ Head(buff) \in Char /\ Head(buff) = buff[1] /\ BuffInv'
         /\ ~last(Head(buff)) =>
               IF buff' # <<>> THEN buff'[1] = Succ(Head(buff))
               ELSE dev # <<>> /\ dev[1] = Succ(Head(buff))
  <1> DEFINE c == Head(buff)
  <1>1. /\ buff \in Seq(Char) /\ buff # <<>> /\ buff' = Tail(buff)
        /\ Chain(buff)
        /\ IF dev = <<>> THEN last(Final(buff)) ELSE Follows(Final(buff), dev[1])
    BY DEF TypeOK, RpcInv, StreamInv, BuffInv, Feed
  <1>2. c \in Char /\ c = buff[1] BY <1>1
  <1>3. /\ Chain(buff')
        /\ buff' = <<>> => Final(buff) = c
        /\ buff' # <<>> => Final(buff') = Final(buff) /\ Follows(c, buff'[1])
    BY <1>1, <1>2, TailChain
  <1>4. BuffInv' BY <1>1, <1>3 DEF BuffInv
  <1> HIDE DEF c
  <1>5. ~last(c) => IF buff' # <<>> THEN buff'[1] = Succ(c)
                    ELSE dev # <<>> /\ dev[1] = Succ(c)
    BY <1>1, <1>3 DEF Follows
  <1> QED BY <1>2, <1>4, <1>5 DEF c

LEMMA AppendLine ==
  ASSUME in \in Seq(Char), LineIntact, NEW c \in Char,
         in # <<>> => c = Succ(Final(in)), in' = Append(in, c)
  PROVE  in' # <<>> /\ Final(in') = c /\ LineIntact'
  <1> DEFINE n == Len(in)
  <1>1. /\ n \in Nat /\ Len(in') = n + 1 /\ in' \in Seq(Char)
        /\ \A i \in 1..n : in'[i] = in[i]
        /\ in'[n + 1] = c
    BY AppendProperties
  <1>2. \A i \in 1..n - 1 : in[i + 1] = [s |-> in[i].s, i |-> in[i].i + 1]
    BY DEF LineIntact
  <1>3. n > 0 => c = [s |-> in[n].s, i |-> in[n].i + 1]
    BY DEF Final, Succ
  <1> HIDE DEF n
  <1>4. in' # <<>> /\ Final(in') = c BY <1>1 DEF Final
  <1>5. ASSUME NEW i \in 1..n
        PROVE  in'[i + 1] = [s |-> in'[i].s, i |-> in'[i].i + 1]
    <2>1. CASE i = n BY <1>1, <1>3, <2>1
    <2>2. CASE i # n
      <3>1. i \in 1..n - 1 /\ i + 1 \in 1..n BY <1>1, <2>2
      <3> QED BY <1>1, <1>2, <3>1
    <2> QED BY <2>1, <2>2
  <1>6. LineIntact' BY <1>1, <1>5 DEF LineIntact
  <1> QED BY <1>4, <1>6

LEMMA StreamInit == Init => StreamInv
  <1> SUFFICES ASSUME Init PROVE StreamInv
    OBVIOUS
  <1>1. dev = <<>> /\ buff = <<>> /\ in = <<>> /\ ~overflow BY DEF Init
  <1>2. Chain(<<>>) BY DEF Chain
  <1>3. LineIntact BY <1>1 DEF LineIntact
  <1> QED BY <1>1, <1>2, <1>3 DEF StreamInv, DevInv, BuffInv, InInv

LEMMA StreamStep ==
  TypeOK /\ RpcInv /\ StreamInv /\ [Next]_vars => StreamInv'
  <1> SUFFICES ASSUME TypeOK, RpcInv, StreamInv, [Next]_vars PROVE StreamInv'
    OBVIOUS
  <1> USE DEF env, mnl, reader, chunk, line, locs, table, cbs
  <1>1. /\ dev \in Seq(Char) /\ buff \in Seq(Char) /\ in \in Seq(Char)
        /\ link \in Links
    BY DEF TypeOK
  <1>2. DevInv /\ BuffInv /\ InInv /\ LineIntact BY DEF StreamInv
  <1>e. in' = <<>> => LineIntact' BY DEF LineIntact
  <1>u. in' = in => LineIntact' BY <1>2 DEF LineIntact
  <1>3. CASE WriteSentence
    <2> DEFINE r == dev \o Chars(Head(rest))
    <2>1. Head(rest) \in Sentence BY <1>3 DEF WriteSentence, TypeOK
    <2>2. /\ Chain(r) /\ r # <<>> /\ last(Final(r))
          /\ r[1].i = 1 \/ dev # <<>>
      BY <1>1, <1>2, <2>1, WriteChain DEF DevInv
    <2>3. dev' = r /\ UNCHANGED <<rpc, buff, in, overflow>>
      BY <1>3 DEF WriteSentence
    <2> HIDE DEF r
    <2>4. DevInv' BY <2>2, <2>3 DEF DevInv
    <2>5. dev # <<>> => dev'[1] = dev[1]
      BY <1>1, <1>2, <2>1, <2>3, WriteChain DEF DevInv, r
    <2>6. BuffInv' BY <1>2, <2>2, <2>3, <2>5 DEF BuffInv, Follows
    <2>7. InInv' BY <1>2, <2>2, <2>3, <2>5 DEF InInv
    <2> QED BY <1>u, <2>3, <2>4, <2>6, <2>7 DEF StreamInv
  <1>4. CASE SkipChunk
    <2>1. /\ dev # <<>> /\ dev' = SubSeq(dev, Taken + 1, Len(dev))
          /\ rpc = "poll" /\ UNCHANGED <<rpc, buff, in, overflow>>
      BY <1>4 DEF SkipChunk
    <2>2. DevInv' BY <1>1, <1>2, <2>1, CutChain DEF DevInv
    <2>3. buff = <<>> /\ in = <<>> BY <1>2, <2>1 DEF InInv
    <2>4. BuffInv' BY <1>2, <2>1, <2>3 DEF BuffInv
    <2>5. InInv' BY <1>2, <2>1, <2>3 DEF InInv
    <2> QED BY <1>u, <2>1, <2>2, <2>4, <2>5 DEF StreamInv
  <1>5. CASE ReadChunk
    <2>1. /\ dev # <<>> /\ dev' = SubSeq(dev, Taken + 1, Len(dev))
          /\ buff' = SubSeq(dev, 1, Taken) /\ rpc = "read" /\ rpc' = "feed"
          /\ UNCHANGED <<in, overflow>>
      BY <1>5 DEF ReadChunk
    <2>2. /\ Chain(buff') /\ buff' # <<>> /\ buff'[1] = dev[1]
          /\ Chain(dev') /\ (dev' # <<>> => last(Final(dev')))
          /\ IF dev' = <<>> THEN last(Final(buff'))
                            ELSE Follows(Final(buff'), dev'[1])
      BY <1>1, <1>2, <2>1, CutChain
    <2>3. DevInv' BY <2>2 DEF DevInv
    <2>4. BuffInv' BY <2>2 DEF BuffInv
    <2>5. InInv' BY <1>2, <2>1, <2>2 DEF InInv
    <2> QED BY <1>u, <2>1, <2>3, <2>4, <2>5 DEF StreamInv
  <1>6. CASE GpsEvent \/ WouldBlock
    <2>1. /\ \/ rpc = "poll" /\ rpc' = "read"
             \/ rpc = "read" /\ rpc' = "poll" /\ dev = <<>>
          /\ UNCHANGED <<dev, buff, in, overflow>>
      BY <1>6 DEF GpsEvent, WouldBlock
    <2>2. buff = <<>> /\ in = <<>> BY <1>2, <2>1 DEF InInv
    <2>3. InInv' BY <2>1, <2>2 DEF InInv
    <2>4. DevInv' /\ BuffInv' BY <1>2, <2>1 DEF DevInv, BuffInv
    <2> QED BY <1>u, <2>1, <2>3, <2>4 DEF StreamInv
  <1>7. CASE Swallow \/ LineFull
    <2>1. /\ rpc = "feed" /\ Feed /\ dev' = dev /\ in' = <<>>
          /\ rpc' = NextChar(buff')
      BY <1>2, <1>7 DEF Swallow, LineFull, Feed, InInv
    <2>2. DevInv' BY <1>2, <2>1 DEF DevInv
    <2>3. BuffInv' BY <2>1, FeedChain
    <2>4. InInv' BY <2>1 DEF InInv, NextChar
    <2> QED BY <1>e, <2>1, <2>2, <2>3, <2>4 DEF StreamInv
  <1>8. CASE AddChar
    <2> DEFINE c == Head(buff)
    <2>1. /\ rpc = "feed" /\ Feed /\ dev' = dev /\ in' = Append(in, c)
          /\ rpc' = IF last(c) THEN "parse" ELSE NextChar(buff')
          /\ ~overflow /\ overflow' = overflow
      BY <1>8 DEF AddChar, Feed
    <2>2. /\ c \in Char /\ c = buff[1] /\ BuffInv'
          /\ ~last(c) => IF buff' # <<>> THEN buff'[1] = Succ(c)
                         ELSE dev # <<>> /\ dev[1] = Succ(c)
      BY <2>1, FeedChain
    <2>3. buff # <<>> BY <2>1 DEF RpcInv
    <2> HIDE DEF c
    <2>4. in # <<>> => c = Succ(Final(in)) BY <1>2, <2>1, <2>2, <2>3 DEF InInv
    <2>5. in' # <<>> /\ Final(in') = c /\ LineIntact'
      BY <1>1, <1>2, <2>1, <2>2, <2>4, AppendLine
    <2>6. InInv' BY <2>1, <2>2, <2>5 DEF InInv, NextChar
    <2>7. DevInv' BY <1>2, <2>1 DEF DevInv
    <2> QED BY <2>2, <2>5, <2>6, <2>7 DEF StreamInv
  \* The other steps do not touch the characters, but for the end of a line.
  <1> DEFINE Quiet == /\ UNCHANGED <<dev, buff, overflow>>
                      /\ \/ UNCHANGED <<rpc, in>>
                         \/ in' = in /\ rpc' \in {"sv", "report"}
                         \/ in' = <<>> /\ rpc' = NextChar(buff)
  <1>9. CASE Quiet
    <2>1. DevInv' /\ BuffInv' BY <1>2, <1>9 DEF DevInv, BuffInv
    <2>2. InInv' BY <1>2, <1>9 DEF InInv, NextChar
    <2> QED BY <1>e, <1>u, <1>9, <2>1, <2>2 DEF StreamInv
  <1>10. NewEpoch \/ Start \/ Stop \/ Restart => Quiet
    BY DEF NewEpoch, Start, Stop, Restart
  <1>11. GGA \/ GSA \/ RMC \/ GSV \/ ACCURACY => Quiet
    BY DEF GGA, GSA, RMC, GSV, ACCURACY
  <1>12. Unknown \/ nmea_reader_update_sv_status \/ GSVEnd \/ Report => Quiet
    BY DEF Unknown, nmea_reader_update_sv_status, GSVEnd, Report, EndLine
  <1>13. UNCHANGED vars => Quiet BY DEF vars
  <1> HIDE DEF Quiet
  <1> QED BY <1>3, <1>4, <1>5, <1>6, <1>7, <1>8, <1>9, <1>10, <1>11, <1>12,
             <1>13
          DEF Next

-----------------------------------------------------------------------------
(* What MNL and the reader do with whole epochs. *)

Told == {now[i] : i \in DOMAIN now}

\* Where characters are; the chunk is the whole epoch.
PlaceInv ==
    /\ rest # <<>> => rpc = "poll"
    /\ rpc \notin {"poll", "read"} => dev = <<>>
    /\ rpc \in {"poll", "read"} => buff = <<>> /\ in = <<>>
    /\ ~overflow
    /\ Len(dev) + Len(rest) * NMEA_MAX_SIZE <= BUFF_SIZE
    /\ dev # <<>> => dev[1].i = 1

\* The line is the beginning of a sentence, and all of it when it is parsed.
LineInv ==
    /\ \A i \in 1..Len(in) : in[i] = [s |-> S, i |-> i]
    /\ rpc = "feed" => IF in = <<>> THEN buff[1].i = 1 ELSE ~last(Final(in))
    /\ rpc \in {"parse", "sv", "report"} =>
          /\ last(Final(in)) /\ (buff # <<>> => buff[1].i = 1)
          /\ end_tag <=> buff = <<>>

\* Characters of the epoch.
Known(q) == \A i \in 1..Len(q) : q[i].s \in Told /\ q[i].i \in 1..q[i].s.len

SourceInv ==
    /\ \A s \in Told : s.e = epoch /\ s.len <= NMEA_MAX_SIZE
    /\ \A i \in 1..Len(rest) : rest[i] \in Told
    /\ Known(dev) /\ Known(buff) /\ (in # <<>> => S \in Told)

ReadInv == PlaceInv /\ LineInv /\ SourceInv

\* What OneRead says of the epochs.
LEMMA MnlFacts ==
  ASSUME TypeOK, OneRead
  PROVE  /\ Burst /\ Prompt /\ Interval = 1
         /\ \A k \in link.epochs :
               /\ k \in Seq(Sentence)
               /\ \A i \in DOMAIN k : k[i].len <= NMEA_MAX_SIZE
               /\ Len(k) * NMEA_MAX_SIZE <= BUFF_SIZE
  <1>1. link.epochs \subseteq Seq(Sentence) BY LinkType DEF TypeOK
  <1> QED BY <1>1 DEF OneRead

\* The steps, as far as characters and what is reported go.
Kept  == UNCHANGED <<utc_day, fix, fix_mode, loc>>
Same  == UNCHANGED <<idx, sv_count, num_svs, sv_list, used, svs>>
Fresh == /\ rpc = "poll" /\ dev = <<>> /\ rest = <<>> /\ epoch' = epoch + 1
         /\ \E k \in link.epochs :
               now' = [i \in DOMAIN k |-> [k[i] EXCEPT !.e = epoch + 1]]
         /\ rest' = now' /\ UNCHANGED <<dev, rpc, buff, end_tag, in>> /\ Kept /\ Same
Wrote == /\ rpc = "poll" /\ rest # <<>>
         /\ dev' = dev \o Chars(Head(rest)) /\ rest' = Tail(rest)
         /\ UNCHANGED <<epoch, now, rpc, buff, end_tag, in>> /\ Kept /\ Same
Went  == /\ {rpc, rpc'} = {"poll", "read"} /\ rest = <<>>
         /\ UNCHANGED <<epoch, now, rest, dev, buff, end_tag, in>> /\ Kept /\ Same
Got   == /\ rpc = "read" /\ rpc' = "feed" /\ dev # <<>>
         /\ buff' = dev /\ dev' = <<>>
         /\ UNCHANGED <<epoch, now, rest, in>> /\ Kept /\ Same
Added == /\ rpc = "feed" /\ in' = Append(in, Head(buff)) /\ buff' = Tail(buff)
         /\ end_tag' <=> buff' = <<>>
         /\ rpc' = IF last(Head(buff)) THEN "parse" ELSE "feed"
         /\ ~last(Head(buff)) => buff'[1] = Succ(Head(buff))
         /\ UNCHANGED <<epoch, now, rest, dev>> /\ Kept /\ Same
Looked == /\ rpc \in {"parse", "sv"} /\ rpc' \in {"sv", "report"}
          /\ UNCHANGED <<epoch, now, rest, dev, buff, end_tag, in, loc>>
          /\ \/ GGA \/ GSA \/ RMC \/ GSV \/ ACCURACY \/ Unknown \/ GSVEnd
             \/ nmea_reader_update_sv_status
Ended == /\ rpc = "report" /\ rpc' = NextChar(buff) /\ in' = <<>>
         /\ UNCHANGED <<epoch, now, rest, dev, buff, end_tag>>
         /\ ReportLocation /\ ReportSvs /\ UNCHANGED <<utc_day, fix_mode, sv_list>>
Still == /\ UNCHANGED <<epoch, now, rest, dev, rpc, buff, end_tag, in, loc>>
         /\ Kept \/ (rpc = "poll" /\ fix'.flags \in {fix.flags, {}})
         /\ Same \/ /\ rpc = "poll" /\ sv_count' = 0 /\ num_svs' = 0
                    /\ UNCHANGED <<idx, sv_list, used, svs>>

\* A finished line is a sentence.
LEMMA WholeLine ==
  ASSUME TypeOK, RpcInv, LineInv, rpc \in {"parse", "sv", "report"}
  PROVE  Whole /\ S \in Sentence /\ in[1].i = 1
  <1> DEFINE n == Len(in)
  <1>1. in \in Seq(Char) /\ in # <<>> BY DEF TypeOK, RpcInv
  <1>2. n \in Nat \ {0} /\ DOMAIN in = 1..n /\ in \in [1..n -> Char]
    BY <1>1, EmptySeq, LenProperties
  <1>3. /\ \A i \in 1..n : in[i] = [s |-> S, i |-> i]
        /\ last(in[n])
    BY DEF LineInv, Final
  <1>4. S \in Sentence BY <1>1, LineSentence
  <1> HIDE DEF n
  <1>5. 1 \in 1..n /\ n \in 1..n BY <1>2
  <1>6. in[1].i = 1 /\ in[n].i = n /\ in[n].s = S
    <2>1. in[1] = [s |-> S, i |-> 1] /\ in[n] = [s |-> S, i |-> n]
      BY <1>3, <1>5
    <2> HIDE DEF S
    <2> QED BY <2>1
  <1>7. S.len = n BY <1>3, <1>6 DEF last
  <1>8. /\ Chars(S) \in Seq(Char) /\ Len(Chars(S)) = n
        /\ \A i \in 1..n : Chars(S)[i] = [s |-> S, i |-> i]
    BY <1>4, <1>7, CharsType
  <1> DEFINE c == Chars(S)
             r == SubSeq(c, 1, n)
  <1> HIDE DEF c
  <1>9. /\ r \in Seq(Char) /\ Len(r) = n
        /\ \A i \in 1..n : r[i] = [s |-> S, i |-> i]
    <2>1. c \in Seq(Char) /\ Len(c) = n /\ \A i \in 1..n : c[i] = [s |-> S, i |-> i]
      BY <1>8 DEF c
    <2> QED BY <2>1, <1>2, SubSeqProperties
  <1> HIDE DEF r
  <1>10. r \in [1..n -> Char] BY <1>9, LenProperties
  <1>11. in = r BY <1>2, <1>3, <1>9, <1>10
  <1> QED BY <1>4, <1>6, <1>7, <1>11 DEF Whole, c, r

\* What is in /dev/gps fits into the chunk.
LEMMA AllTaken ==
  ASSUME TypeOK, PlaceInv, dev # <<>>
  PROVE  SubSeq(dev, 1, Taken) = dev /\ SubSeq(dev, Taken + 1, Len(dev)) = <<>>
  <1>1. /\ dev \in Seq(Char) /\ link \in Links /\ rest \in Seq(Sentence)
        /\ Len(dev) + Len(rest) * NMEA_MAX_SIZE <= BUFF_SIZE
    BY DEF TypeOK, PlaceInv
  <1>2. BUFF_SIZE \in Nat /\ NMEA_MAX_SIZE \in Nat BY <1>1, LinkType, SizesType
  <1>3. Len(dev) \in Nat /\ Len(rest) \in Nat BY <1>1
  <1>4. Len(rest) * NMEA_MAX_SIZE \in Nat BY <1>2, <1>3
  <1>5. Taken = Len(dev) BY <1>1, <1>2, <1>3, <1>4 DEF Taken
  <1>6. /\ SubSeq(dev, 1, Taken) \in Seq(Char)
        /\ Len(SubSeq(dev, 1, Taken)) = Taken
        /\ SubSeq(dev, Taken + 1, Len(dev)) \in Seq(Char)
        /\ Len(SubSeq(dev, Taken + 1, Len(dev))) = Len(dev) - Taken
        /\ \A i \in 1..Taken : SubSeq(dev, 1, Taken)[i] = dev[i]
    BY <1>1, TakenCut
  <1> DEFINE b == SubSeq(dev, 1, Taken)
             d == SubSeq(dev, Taken + 1, Len(dev))
  <1>7. b \in Seq(Char) /\ Len(b) = Len(dev) /\ \A i \in 1..Len(dev) : b[i] = dev[i]
    BY <1>5, <1>6
  <1>8. d \in Seq(Char) /\ Len(d) = 0 BY <1>3, <1>5, <1>6
  <1> HIDE DEF b, d
  <1>9. b = dev BY <1>1, <1>7, SeqEqual
  <1>10. d = <<>> BY <1>8, EmptySeq
  <1> QED BY <1>9, <1>10 DEF b, d

\* Every step is one of these; no chunk is skipped and no line overflows.
LEMMA Moves ==
  ASSUME TypeOK, RpcInv, StreamInv, ReadInv, OneRead, [Next]_vars
  PROVE  /\ Fresh \/ Wrote \/ Went \/ Got \/ Added \/ Looked \/ Ended \/ Still
         /\ link' = link /\ mtk' = mtk /\ overflow' = overflow
  <1> USE DEF ReadInv
  <1> USE DEF env, mnl, reader, chunk, line, locs, table, cbs, Kept, Same
  <1>m. Burst /\ Prompt /\ Interval = 1 BY MnlFacts
  <1>1. NewEpoch => Fresh BY <1>m DEF NewEpoch, Fresh, Idle
  <1>2. WriteSentence => Wrote BY DEF WriteSentence, Wrote, PlaceInv
  <1>3. ~SkipChunk
    <2>1. count \in Nat BY LinkType DEF TypeOK
    <2> QED BY <1>m, <2>1 DEF SkipChunk
  <1>4. GpsEvent \/ WouldBlock => Went
    BY <1>m DEF GpsEvent, WouldBlock, Went, Written
  <1>5. ReadChunk => Got
    BY AllTaken DEF ReadChunk, Got
  <1>6. Start \/ Stop \/ Restart => Still
    <2>1. fix' = [fix EXCEPT !.flags = {}] => fix'.flags = {} BY DEF TypeOK, Fix
    <2> QED BY <2>1 DEF Start, Stop, Restart, Still
  <1>7. ~Swallow BY DEF Swallow, PlaceInv
  <1>8. ASSUME rpc = "feed" PROVE ~Full
    <2>1. CASE in = <<>> BY <2>1, SizesType DEF Full
    <2>2. CASE in # <<>>
      <3> DEFINE n == Len(in)
      <3>1. in \in Seq(Char) BY DEF TypeOK
      <3>2. n \in Nat \ {0} BY <2>2, <3>1, EmptySeq
      <3>3. in[n] = [s |-> S, i |-> n] BY <3>2 DEF LineInv
      <3>4. ~last(in[n]) BY <1>8, <2>2 DEF LineInv, Final
      <3>5. S \in Sentence /\ S.len <= NMEA_MAX_SIZE /\ n # S.len
        BY <2>2, <3>3, <3>4, LineSentence DEF SourceInv, last
      <3>6. n <= S.len
        <4>1. buff \in Seq(Char) /\ buff # <<>> BY <1>8 DEF TypeOK, RpcInv
        <4>2. buff[1] = Succ(in[n])
          BY <1>8, <2>2, <4>1 DEF StreamInv, InInv, Final
        <4>3. buff[1].s = S /\ buff[1].i = n + 1 BY <3>3, <4>2 DEF Succ
        <4>4. 1 \in 1..Len(buff) BY <4>1
        <4>5. buff[1].i \in 1..buff[1].s.len BY <4>4 DEF SourceInv, Known
        <4>6. S.len \in Nat BY <3>5 DEF Sentence
        <4> HIDE DEF n
        <4> QED BY <3>2, <4>3, <4>5, <4>6
      <3> HIDE DEF n
      <3>7. S.len \in Nat BY <3>5 DEF Sentence
      <3>8. ~(n >= NMEA_MAX_SIZE) BY <3>2, <3>5, <3>6, <3>7, SizesType
      <3> QED BY <3>8 DEF Full, n
    <2> QED BY <2>1, <2>2
  <1>9. ~LineFull BY <1>8 DEF LineFull
  <1>10. ASSUME AddChar PROVE Added
    <2> DEFINE c == Head(buff)
    <2>1. /\ rpc = "feed" /\ Feed /\ dev' = dev /\ in' = Append(in, c)
          /\ rpc' = IF last(c) THEN "parse" ELSE NextChar(buff')
          /\ buff' = Tail(buff) /\ UNCHANGED <<epoch, now, rest, dev>> /\ Kept /\ Same
      BY <1>10 DEF AddChar, Feed
    <2>2. dev = <<>> BY <2>1 DEF PlaceInv
    <2>3. ~last(c) => buff' # <<>> /\ buff'[1] = Succ(c)
      BY <2>1, <2>2, FeedChain
    <2>4. end_tag' = (Tail(buff) = <<>>) BY <1>10 DEF AddChar, Feed
    <2>5. end_tag' <=> buff' = <<>> BY <2>1, <2>4
    <2>6. rpc' = IF last(c) THEN "parse" ELSE "feed"
      BY <2>1, <2>3 DEF NextChar
    <2> QED BY <2>1, <2>3, <2>5, <2>6 DEF Added
  <1>11. GGA \/ GSA \/ RMC \/ GSV \/ ACCURACY => Looked
    BY DEF GGA, GSA, RMC, GSV, ACCURACY, Parsing, Looked
  <1>12. ASSUME Unknown PROVE Looked
    <2>1. rpc = "parse" BY <1>12 DEF Unknown
    <2>2. Whole BY <2>1, WholeLine
    <2> QED BY <1>12, <2>1, <2>2 DEF Unknown, Looked
  <1>13. nmea_reader_update_sv_status \/ GSVEnd => Looked
    BY DEF nmea_reader_update_sv_status, GSVEnd, Looked
  <1>14. Report => Ended BY DEF Report, EndLine, Ended
  <1>15. UNCHANGED vars => Still BY DEF vars, Still
  <1>16. Fresh \/ Wrote \/ Went \/ Got \/ Added \/ Looked \/ Ended \/ Still
    BY <1>1, <1>2, <1>3, <1>4, <1>5, <1>6, <1>7, <1>9, <1>10, <1>11, <1>12,
       <1>13, <1>14, <1>15, Zenon DEF Next
  <1>17. link' = link /\ mtk' = mtk
    BY DEF Next, vars, NewEpoch, WriteSentence, SkipChunk, GpsEvent, ReadChunk,
       WouldBlock, Start, Stop, Restart, Swallow, LineFull, AddChar, GGA, GSA,
       RMC, GSV, ACCURACY, Unknown, nmea_reader_update_sv_status, GSVEnd, Report
  <1>18. overflow' = overflow
    BY <1>7, <1>9 DEF Next, vars, NewEpoch, WriteSentence, SkipChunk, GpsEvent,
       ReadChunk, WouldBlock, Start, Stop, Restart, AddChar, GGA, GSA,
       RMC, GSV, ACCURACY, Unknown, nmea_reader_update_sv_status, GSVEnd, Report
  <1> QED BY <1>16, <1>17, <1>18

\* Elements of /dev/gps after a sentence has been written.
LEMMA WriteElements ==
  ASSUME NEW q \in Seq(Char), NEW s \in Sentence
  PROVE  LET r == q \o Chars(s)
         IN  /\ r \in Seq(Char) /\ Len(r) = Len(q) + s.len
             /\ \A i \in 1..Len(q) : r[i] = q[i]
             /\ \A i \in 1..s.len : r[Len(q) + i] = [s |-> s, i |-> i]
             /\ \A i \in 1..Len(r) : i > Len(q) =>
                   i - Len(q) \in 1..s.len /\ r[i] = [s |-> s, i |-> i - Len(q)]
  <1> DEFINE r == q \o Chars(s)
             k == s.len
             m == Len(q)
  <1>1. /\ Chars(s) \in Seq(Char) /\ Len(Chars(s)) = k /\ k \in Nat \ {0}
        /\ \A i \in 1..k : Chars(s)[i] = [s |-> s, i |-> i]
    BY CharsType
  <1>2. r \in Seq(Char) /\ Len(r) = m + k /\ m \in Nat
    BY <1>1, ConcatProperties
  <1>3. \A i \in 1..m + k : r[i] = IF i <= m THEN q[i] ELSE Chars(s)[i - m]
    BY <1>1, ConcatProperties
  <1>k. s.len = k OBVIOUS
  <1> HIDE DEF r, k, m
  <1>4. \A i \in 1..m : r[i] = q[i] BY <1>1, <1>2, <1>3
  <1>5. ASSUME NEW j \in 1..Len(r), j > m
        PROVE  j - m \in 1..k /\ r[j] = [s |-> s, i |-> j - m]
    <2>1. j - m \in 1..k /\ ~(j <= m) /\ j \in 1..m + k BY <1>1, <1>2, <1>5
    <2>2. r[j] = Chars(s)[j - m] BY <1>3, <2>1, Zenon
    <2> QED BY <1>1, <2>1, <2>2
  <1>6. ASSUME NEW i \in 1..k PROVE r[m + i] = [s |-> s, i |-> i]
    <2> DEFINE j == m + i
    <2>1. j \in 1..Len(r) /\ j > m /\ j - m = i BY <1>1, <1>2
    <2> HIDE DEF j
    <2>2. r[j] = [s |-> s, i |-> j - m] BY <1>5, <2>1, Zenon
    <2>3. r[j] = [s |-> s, i |-> i] BY <2>1, <2>2
    <2> QED BY <2>3 DEF j
  <1>7. \A i \in 1..Len(r) : i > m =>
                   i - m \in 1..k /\ r[i] = [s |-> s, i |-> i - m]
    BY <1>5
  <1>8. \A i \in 1..k : r[m + i] = [s |-> s, i |-> i] BY <1>6
  <1> QED BY <1>2, <1>4, <1>7, <1>8, Zenon DEF r, m, k

\* Between two epochs everything is read: the chunk is all of one.
LEMMA PlaceStep ==
  ASSUME TypeOK, RpcInv, StreamInv, ReadInv, OneRead, [Next]_vars
  PROVE  PlaceInv'
  <1>1. /\ Fresh \/ Wrote \/ Went \/ Got \/ Added \/ Looked \/ Ended \/ Still
        /\ link' = link /\ overflow' = overflow
    BY Moves
  <1>2. /\ dev \in Seq(Char) /\ rest \in Seq(Sentence) /\ link \in Links
        /\ buff \in Seq(Char) /\ NMEA_MAX_SIZE \in Nat \ {0}
    BY SizesType DEF TypeOK
  <1>3. BUFF_SIZE' = BUFF_SIZE /\ BUFF_SIZE \in Nat
    BY <1>1, <1>2, LinkType DEF BUFF_SIZE
  <1>4. PlaceInv /\ LineInv /\ SourceInv BY DEF ReadInv
  <1>5. CASE Fresh
    <2>1. PICK k \in link.epochs :
             now' = [i \in DOMAIN k |-> [k[i] EXCEPT !.e = epoch + 1]]
      BY <1>5 DEF Fresh
    <2>2. k \in Seq(Sentence) /\ Len(k) * NMEA_MAX_SIZE <= BUFF_SIZE
      BY MnlFacts
    <2>3. Len(rest') = Len(k)
      <3>1. DOMAIN now' = DOMAIN k BY <2>1
      <3>2. now' \in Seq(Sentence) BY TypeStep DEF TypeOK
      <3>3. Len(now') \in Nat /\ DOMAIN now' = 1..Len(now') BY <3>2, LenProperties
      <3>4. Len(k) \in Nat /\ DOMAIN k = 1..Len(k) BY <2>2, LenProperties
      <3>5. Len(now') = Len(k)
        <4> DEFINE a == Len(now')
                   b == Len(k)
        <4>1. a \in Nat /\ b \in Nat /\ \A i : i \in 1..a <=> i \in 1..b
          BY <3>1, <3>3, <3>4, Zenon
        <4> HIDE DEF a, b
        <4>2. (a \in 1..a <=> a \in 1..b) /\ (b \in 1..a <=> b \in 1..b)
          BY <4>1, Zenon
        <4>3. a = b BY <4>1, <4>2
        <4> QED BY <4>3 DEF a, b
      <3> QED BY <1>5, <3>5 DEF Fresh
    <2>4. Len(dev') = 0 /\ dev' = <<>> BY <1>5 DEF Fresh
    <2>5. Len(dev') + Len(rest') * NMEA_MAX_SIZE <= BUFF_SIZE'
      <3> DEFINE p == Len(k) * NMEA_MAX_SIZE
      <3>1. Len(k) \in Nat BY <2>2
      <3>2. p \in Nat BY <1>2, <3>1
      <3>3. p <= BUFF_SIZE BY <2>2
      <3>4. Len(rest') * NMEA_MAX_SIZE = p BY <2>3
      <3> HIDE DEF p
      <3> QED BY <1>3, <2>4, <3>2, <3>3, <3>4
    <2> QED BY <1>1, <1>4, <1>5, <2>4, <2>5 DEF Fresh, PlaceInv
  <1>6. CASE Wrote
    <2> DEFINE s == Head(rest)
    <2>1. s \in Sentence /\ Len(rest') = Len(rest) - 1 /\ Len(rest) \in Nat \ {0}
      BY <1>2, <1>6, EmptySeq DEF Wrote
    <2>2. s.len <= NMEA_MAX_SIZE /\ s.len \in Nat \ {0}
      <3>1. rest[1] \in Told BY <1>4, <2>1 DEF SourceInv
      <3>2. s = rest[1] OBVIOUS
      <3> QED BY <1>4, <2>1, <3>1, <3>2 DEF SourceInv, Sentence
    <2>3. /\ Len(dev') = Len(dev) + s.len
          /\ \A i \in 1..Len(dev) : dev'[i] = dev[i]
          /\ \A i \in 1..s.len : dev'[Len(dev) + i] = [s |-> s, i |-> i]
      BY <1>2, <1>6, <2>1, WriteElements DEF Wrote
    <2> HIDE DEF s
    <2>4. Len(dev') + Len(rest') * NMEA_MAX_SIZE <= BUFF_SIZE'
      <3> DEFINE a == Len(rest)
                 b == Len(dev)
                 p == a * NMEA_MAX_SIZE
                 p1 == (a - 1) * NMEA_MAX_SIZE
      <3>1. a \in Nat \ {0} /\ b \in Nat BY <1>2, <2>1
      <3>2. p \in Nat /\ p1 = p - NMEA_MAX_SIZE BY <1>2, <3>1
      <3>3. b + p <= BUFF_SIZE BY <1>4 DEF PlaceInv
      <3>4. Len(dev') + Len(rest') * NMEA_MAX_SIZE = (b + s.len) + p1 BY <2>1, <2>3
      <3> HIDE DEF a, b, p, p1
      <3>5. (b + s.len) + p1 <= BUFF_SIZE BY <1>2, <1>3, <2>2, <3>1, <3>2, <3>3
      <3> QED BY <1>3, <3>4, <3>5
    <2>5. dev'[1].i = 1
      <3>1. CASE dev = <<>>
        <4>1. 0 + 1 = 1 /\ 1 \in 1..s.len /\ Len(dev) = 0 BY <2>2, <3>1
        <4>2. dev'[1] = [s |-> s, i |-> 1] BY <2>3, <4>1
        <4> QED BY <4>2
      <3>2. CASE dev # <<>>
        <4>1. 1 \in 1..Len(dev) BY <1>2, <3>2, EmptySeq
        <4> QED BY <1>4, <2>3, <3>2, <4>1 DEF PlaceInv
      <3> QED BY <3>1, <3>2
    <2> QED BY <1>1, <1>4, <1>6, <2>4, <2>5 DEF Wrote, PlaceInv
  <1>7. CASE Went
    BY <1>1, <1>3, <1>4, <1>7 DEF Went, PlaceInv
  <1>8. CASE Got
    <2>1. rest' = <<>> /\ dev' = <<>> BY <1>4, <1>8 DEF Got, PlaceInv
    <2>2. Len(dev') + Len(rest') * NMEA_MAX_SIZE <= BUFF_SIZE'
      <3>1. Len(rest') = 0 /\ Len(dev') = 0 BY <2>1
      <3> QED BY <1>2, <1>3, <3>1
    <2> QED BY <1>1, <1>4, <1>8, <2>1, <2>2 DEF Got, PlaceInv
  <1>9. CASE Added \/ Looked
    BY <1>1, <1>3, <1>4, <1>9 DEF Added, Looked, PlaceInv
  <1>10. CASE Ended
    BY <1>1, <1>3, <1>4, <1>10 DEF Ended, NextChar, PlaceInv
  <1>11. CASE Still
    BY <1>1, <1>3, <1>4, <1>11 DEF Still, PlaceInv
  <1> QED BY <1>1, <1>5, <1>6, <1>7, <1>8, <1>9, <1>10, <1>11

\* Every line is one whole sentence.
LEMMA LineStep ==
  ASSUME TypeOK, RpcInv, StreamInv, ReadInv, OneRead, [Next]_vars
  PROVE  LineInv'
  <1>1. Fresh \/ Wrote \/ Went \/ Got \/ Added \/ Looked \/ Ended \/ Still
    BY Moves
  <1>2. buff \in Seq(Char) /\ in \in Seq(Char) BY DEF TypeOK
  <1>4. PlaceInv /\ LineInv /\ SourceInv BY DEF ReadInv
  <1>5. CASE Added
    <2> DEFINE c == Head(buff)
               n == Len(in)
    <2>1. buff # <<>> BY <1>5 DEF Added, RpcInv
    <2>2. c = buff[1] /\ c \in Char BY <1>2, <2>1
    <2>3. /\ in' = Append(in, c) /\ rpc = "feed"
          /\ rpc' = IF last(c) THEN "parse" ELSE "feed"
          /\ end_tag' <=> buff' = <<>>
          /\ buff' = Tail(buff) /\ dev = <<>>
          /\ ~last(c) => buff'[1] = Succ(c)
      BY <1>4, <1>5 DEF Added, PlaceInv
    <2>4. /\ in' \in Seq(Char) /\ Len(in') = n + 1 /\ n \in Nat
          /\ \A i \in 1..n : in'[i] = in[i]
          /\ in'[n + 1] = c
      BY <1>2, <2>2, <2>3, AppendProperties
    <2>5. c = [s |-> S', i |-> n + 1] /\ (n > 0 => S' = S)
      <3>1. CASE in = <<>>
        <4>1. n = 0 BY <3>1
        <4>2. in'[1] = c BY <2>4, <4>1
        <4>3. S' = c.s BY <4>2 DEF S
        <4>4. c.i = 1 BY <1>4, <2>2, <2>3, <3>1 DEF LineInv
        <4>5. c = [s |-> c.s, i |-> c.i] BY <2>2 DEF Char
        <4> QED BY <4>1, <4>3, <4>4, <4>5
      <3>2. CASE in # <<>>
        <4>1. n # 0 BY <1>2, <3>2, EmptySeq
        <4>2. 1 \in 1..n /\ n \in 1..n BY <2>4, <4>1
        <4>3. in'[1] = in[1] BY <2>4, <4>2
        <4>4. S' = S BY <4>3 DEF S
        <4>5. in[n] = [s |-> S, i |-> n] BY <1>4, <4>2 DEF LineInv
        <4>6. c = Succ(in[n])
          BY <2>1, <2>2, <2>3, <3>2 DEF StreamInv, InInv, Final
        <4>7. c = [s |-> S, i |-> n + 1] BY <4>5, <4>6 DEF Succ
        <4> QED BY <4>4, <4>7
      <3> QED BY <3>1, <3>2
    <2> HIDE DEF c, n
    <2>6. ASSUME NEW i \in 1..Len(in') PROVE in'[i] = [s |-> S', i |-> i]
      <3>1. CASE i = n + 1 BY <2>4, <2>5, <3>1
      <3>2. CASE i # n + 1
        <4>1. i \in 1..n /\ n > 0 BY <2>4, <3>2
        <4>2. in[i] = [s |-> S, i |-> i] BY <1>4, <4>1 DEF LineInv, n
        <4> QED BY <2>4, <2>5, <4>1, <4>2
      <3> QED BY <3>1, <3>2
    <2>7. Final(in') = c BY <2>4 DEF Final
    <2>8. in' # <<>> BY <2>4
    <2>9. ASSUME last(c), buff' # <<>> PROVE buff'[1].i = 1
      <3>1. Follows(c, buff'[1])
        <4>1. Chain(buff) BY DEF StreamInv, BuffInv
        <4>2. Tail(buff) # <<>> BY <2>3, <2>9
        <4>3. Follows(buff[1], Tail(buff)[1])
          BY <1>2, <2>1, <4>1, <4>2, TailChain, Zenon
        <4>4. Tail(buff)[1] = buff'[1] BY <2>3
        <4>5. Follows(c, buff'[1]) = Follows(buff[1], Tail(buff)[1])
          BY <2>2, <4>4
        <4> QED BY <4>3, <4>5
      <3> QED BY <2>9, <3>1 DEF Follows
    <2>10. /\ rpc' = "feed" => ~last(Final(in'))
           /\ rpc' \in {"parse", "sv", "report"} =>
                 last(Final(in')) /\ (buff' # <<>> => buff'[1].i = 1)
      BY <2>3, <2>7, <2>9
    <2>11. rpc' \in {"parse", "sv", "report"} => (end_tag' <=> buff' = <<>>)
      BY <2>3
    <2> QED BY <2>6, <2>8, <2>10, <2>11 DEF LineInv
  <1>s. in' = in => S' = S BY DEF S
  <1>6. CASE Fresh \/ Wrote \/ Went
    <2>1. in' = in /\ rpc' \in {"poll", "read"}
      BY <1>6 DEF Fresh, Wrote, Went
    <2> QED BY <1>4, <1>s, <2>1 DEF LineInv
  <1>7. CASE Got
    <2>1. in' = in /\ in = <<>> /\ rpc' = "feed" /\ buff'[1].i = 1
      BY <1>4, <1>7 DEF Got, PlaceInv
    <2> QED BY <1>4, <1>s, <2>1 DEF LineInv
  <1>8. CASE Looked
    BY <1>4, <1>s, <1>8 DEF Looked, LineInv
  <1>9. CASE Ended
    <2>1. in' = <<>> /\ buff' = buff /\ (buff # <<>> => buff[1].i = 1)
          /\ rpc' = NextChar(buff)
      BY <1>4, <1>9 DEF Ended, LineInv
    <2>2. Len(in') = 0 BY <2>1
    <2> QED BY <2>1, <2>2 DEF LineInv, NextChar
  <1>10. CASE Still
    BY <1>4, <1>s, <1>10 DEF Still, LineInv
  <1> QED BY <1>1, <1>5, <1>6, <1>7, <1>8, <1>9, <1>10

\* What a new epoch keeps of the one it is made from.
LEMMA EpochOf ==
  ASSUME NEW k \in Seq(Sentence), NEW n, NEW e \in 0..MaxEpoch,
         n = [i \in DOMAIN k |-> [k[i] EXCEPT !.e = e]]
  PROVE  /\ DOMAIN n = DOMAIN k
         /\ RegularFix(k) => RegularFix(n)
         /\ \A i \in DOMAIN k : n[i].e = e /\ n[i].len = k[i].len
  <1>1. DOMAIN n = DOMAIN k /\ \A i \in DOMAIN k : n[i] = [k[i] EXCEPT !.e = e]
    OBVIOUS
  <1>2. ASSUME NEW i \in DOMAIN k
        PROVE  /\ n[i].e = e /\ n[i].len = k[i].len /\ n[i].id = k[i].id
               /\ n[i].has = k[i].has /\ n[i].mode = k[i].mode
               /\ n[i].talker = k[i].talker
    <2>1. k[i] \in Sentence OBVIOUS
    <2>2. n[i] = [k[i] EXCEPT !.e = e] BY <1>1
    <2> QED BY <2>1, <2>2 DEF Sentence
  <1>3. Given(n) = Given(k) BY <1>1, <1>2 DEF Given
  <1>4. RegularFix(k) => RegularFix(n)
    <2> SUFFICES ASSUME RegularFix(k) PROVE RegularFix(n)
      OBVIOUS
    <2>1. \A i \in DOMAIN n : n[i].has \cap Field \subseteq Own(n[i].id)
      BY <1>1, <1>2 DEF RegularFix
    <2>2. ASSUME Given(n) # {}
          PROVE  /\ \E i \in DOMAIN n : n[i].id = "RMC" /\ "time" \in n[i].has
                 /\ \E i \in DOMAIN n : n[i].id = "GSA" /\ n[i].talker = "GP"
                 /\ \A i \in DOMAIN n : /\ n[i].id = "RMC" => n[i].mode # 1
                                        /\ n[i].id = "GSA" => n[i].mode # 1
                 /\ \A i, j \in DOMAIN n :
                       n[i].id = "ACCURACY" /\ n[j].id = "GSA" => j < i
      BY <1>1, <1>2, <1>3, <2>2 DEF RegularFix
    <2> QED BY <2>1, <2>2 DEF RegularFix
  <1> QED BY <1>1, <1>2, <1>4

\* What MNL begins to write.
LEMMA FreshEpoch ==
  ASSUME TypeOK, RpcInv, OneRead, [Next]_vars, Fresh
  PROVE  /\ now' \in Seq(Sentence) /\ epoch' \in 0..MaxEpoch
         /\ \A i \in DOMAIN now' : now'[i].e = epoch' /\ now'[i].len <= NMEA_MAX_SIZE
         /\ RegularFixes => RegularFix(now')
  <1>1. PICK k \in link.epochs :
           now' = [i \in DOMAIN k |-> [k[i] EXCEPT !.e = epoch + 1]]
    BY DEF Fresh
  <1>2. /\ k \in Seq(Sentence) /\ (RegularFixes => RegularFix(k))
        /\ \A i \in DOMAIN k : k[i].len <= NMEA_MAX_SIZE
    BY MnlFacts DEF RegularFixes
  <1>3. epoch' \in 0..MaxEpoch /\ now' \in Seq(Sentence) BY TypeStep DEF TypeOK
  <1>4. epoch' = epoch + 1 BY DEF Fresh
  <1>5. now' = [i \in DOMAIN k |-> [k[i] EXCEPT !.e = epoch']] BY <1>1, <1>4
  <1>6. /\ DOMAIN now' = DOMAIN k /\ (RegularFix(k) => RegularFix(now'))
        /\ \A i \in DOMAIN k : now'[i].e = epoch' /\ now'[i].len = k[i].len
    <2> DEFINE n == now'
               e == epoch'
    <2>1. n = [i \in DOMAIN k |-> [k[i] EXCEPT !.e = e]] BY <1>5
    <2>2. e \in 0..MaxEpoch /\ k \in Seq(Sentence) BY <1>2, <1>3
    <2> HIDE DEF n, e
    <2>3. /\ DOMAIN n = DOMAIN k /\ (RegularFix(k) => RegularFix(n))
          /\ \A i \in DOMAIN k : n[i].e = e /\ n[i].len = k[i].len
      BY <2>1, <2>2, EpochOf
    <2> QED BY <2>3 DEF n, e
  <1> QED BY <1>2, <1>3, <1>6

\* The first of a sequence and the rest.
LEMMA TailElements ==
  ASSUME NEW A, NEW q \in Seq(A), q # <<>>
  PROVE  /\ Len(q) \in Nat \ {0} /\ Head(q) = q[1] /\ 1 \in 1..Len(q)
         /\ Len(Tail(q)) = Len(q) - 1 /\ Tail(q) \in Seq(A)
         /\ \A i \in 1..Len(Tail(q)) : i + 1 \in 1..Len(q) /\ Tail(q)[i] = q[i + 1]
         /\ \A i \in 1..Len(q) : i # 1 => i - 1 \in 1..Len(Tail(q))
                                          /\ q[i] = Tail(q)[i - 1]
  <1> DEFINE n == Len(q)
             t == Tail(q)
  <1>1. n \in Nat \ {0} /\ Head(q) = q[1] BY EmptySeq
  <1>2. Len(t) = n - 1 /\ t \in Seq(A) /\ \A i \in 1..n - 1 : t[i] = q[i + 1]
    BY HeadTailProperties
  <1> HIDE DEF n, t
  <1>3. 1 \in 1..n BY <1>1
  <1>4. \A i \in 1..Len(t) : i + 1 \in 1..n /\ t[i] = q[i + 1] BY <1>1, <1>2
  <1>5. ASSUME NEW i \in 1..n, i # 1 PROVE i - 1 \in 1..Len(t) /\ q[i] = t[i - 1]
    <2>1. i - 1 \in 1..n - 1 /\ (i - 1) + 1 = i BY <1>1, <1>5
    <2>2. t[i - 1] = q[(i - 1) + 1] BY <1>2, <2>1
    <2> QED BY <1>2, <2>1, <2>2
  <1> QED BY <1>1, <1>2, <1>3, <1>4, <1>5 DEF n, t

\* All characters are of the present epoch.
LEMMA SourceStep ==
  ASSUME TypeOK, RpcInv, StreamInv, ReadInv, OneRead, [Next]_vars
  PROVE  SourceInv'
  <1>1. Fresh \/ Wrote \/ Went \/ Got \/ Added \/ Looked \/ Ended \/ Still
    BY Moves
  <1>2. /\ buff \in Seq(Char) /\ in \in Seq(Char) /\ dev \in Seq(Char)
        /\ rest \in Seq(Sentence)
    BY DEF TypeOK
  <1>4. PlaceInv /\ LineInv /\ SourceInv BY DEF ReadInv
  <1>s. in' = in => S' = S BY DEF S
  <1>5. CASE Fresh
    <2>1. /\ now' \in Seq(Sentence)
          /\ \A i \in DOMAIN now' : now'[i].e = epoch' /\ now'[i].len <= NMEA_MAX_SIZE
      BY <1>5, FreshEpoch
    <2>2. \A s \in Told' : s.e = epoch' /\ s.len <= NMEA_MAX_SIZE
      BY <2>1 DEF Told
    <2>3. \A i \in 1..Len(rest') : rest'[i] \in Told'
      <3>1. rest' = now' /\ DOMAIN now' = 1..Len(now')
        BY <1>5, <2>1, LenProperties DEF Fresh
      <3> QED BY <3>1 DEF Told
    <2>4. dev' = <<>> /\ buff' = <<>> /\ in' = <<>>
      BY <1>4, <1>5 DEF Fresh, PlaceInv
    <2>5. Known(dev)' /\ Known(buff)' BY <2>4 DEF Known
    <2> QED BY <2>1, <2>2, <2>3, <2>4, <2>5 DEF SourceInv
  <1>t. CASE Told' = Told /\ now' = now /\ epoch' = epoch
    <2>0. \A s \in Told' : s.e = epoch' /\ s.len <= NMEA_MAX_SIZE
      BY <1>4, <1>t DEF SourceInv
    <2>1. CASE Wrote
      <3> DEFINE s == Head(rest)
                 n == Len(dev)
      <3>1. rest # <<>> /\ rest' = Tail(rest) /\ buff' = buff /\ in' = in
            /\ dev' = dev \o Chars(s)
        BY <2>1 DEF Wrote
      <3>2. /\ s = rest[1] /\ s \in Sentence /\ 1 \in 1..Len(rest)
            /\ \A i \in 1..Len(rest') : i + 1 \in 1..Len(rest) /\ rest'[i] = rest[i + 1]
        BY <1>2, <3>1, TailElements
      <3>3. s \in Told /\ \A i \in 1..Len(rest') : rest'[i] \in Told
        BY <1>4, <3>2 DEF SourceInv
      <3>4. /\ Len(dev') = n + s.len
            /\ \A i \in 1..n : dev'[i] = dev[i]
            /\ \A i \in 1..Len(dev') : i > n =>
                  i - n \in 1..s.len /\ dev'[i] = [s |-> s, i |-> i - n]
        BY <1>2, <3>1, <3>2, WriteElements
      <3>n. n \in Nat BY <1>2
      <3>k. \A i \in 1..n : dev[i].s \in Told /\ dev[i].i \in 1..dev[i].s.len
        BY <1>4 DEF SourceInv, Known
      <3> HIDE DEF s, n
      <3>5. n \in Nat /\ s.len \in Nat BY <3>2, <3>n DEF Sentence
      <3>6. ASSUME NEW i \in 1..Len(dev')
            PROVE  dev'[i].s \in Told /\ dev'[i].i \in 1..dev'[i].s.len
        <4>1. CASE i <= n BY <3>4, <3>5, <3>k, <4>1
        <4>2. CASE i > n
          <5>1. i - n \in 1..s.len /\ dev'[i] = [s |-> s, i |-> i - n]
            BY <3>4, <4>2
          <5>2. dev'[i].s = s /\ dev'[i].i = i - n BY <5>1
          <5> QED BY <3>3, <5>1, <5>2
        <4> QED BY <3>4, <3>5, <4>1, <4>2
      <3>7. Known(dev)' BY <1>t, <3>6 DEF Known
      <3>8. Known(buff)' BY <1>4, <1>t, <3>1 DEF SourceInv, Known
      <3> QED BY <1>4, <1>s, <1>t, <2>0, <3>1, <3>3, <3>7, <3>8 DEF SourceInv
    <2>2. CASE Got
      <3>1. buff' = dev /\ dev' = <<>> /\ rest' = rest /\ in' = in
        BY <2>2 DEF Got
      <3>2. Known(buff)' /\ Known(dev)' BY <1>4, <1>t, <3>1 DEF SourceInv, Known
      <3> QED BY <1>4, <1>s, <1>t, <2>0, <3>1, <3>2 DEF SourceInv
    <2>3. CASE Added
      <3> DEFINE c == Head(buff)
                 n == Len(buff)
      <3>1. buff # <<>> /\ buff' = Tail(buff) /\ in' = Append(in, c) /\ dev' = dev
            /\ rest' = rest
        BY <2>3 DEF Added, RpcInv
      <3>2. /\ c = buff[1] /\ 1 \in 1..n
            /\ \A i \in 1..Len(buff') : i + 1 \in 1..n /\ buff'[i] = buff[i + 1]
        BY <1>2, <3>1, TailElements
      <3>3. Known(buff)' /\ c.s \in Told
        BY <1>4, <1>t, <3>2 DEF SourceInv, Known
      <3>4. Known(dev)' BY <1>4, <1>t, <3>1 DEF SourceInv, Known
      <3>5. c \in Char BY <1>2, <3>1
      <3>6. S' \in Told
        <4>1. CASE in = <<>>
          <5>1. in'[1] = c BY <3>1, <3>5, <4>1
          <5> QED BY <3>3, <5>1 DEF S
        <4>2. CASE in # <<>>
          <5>1. 1 \in 1..Len(in) BY <1>2, <4>2, EmptySeq
          <5>2. in'[1] = in[1] BY <1>2, <3>1, <3>5, <5>1, AppendProperties
          <5> QED BY <1>4, <4>2, <5>2 DEF S, SourceInv
        <4> QED BY <4>1, <4>2
      <3> QED BY <1>4, <1>t, <2>0, <3>1, <3>3, <3>4, <3>6 DEF SourceInv
    <2>4. CASE Went \/ Looked \/ Ended \/ Still
      <3>1. dev' = dev /\ buff' = buff /\ rest' = rest /\ in' \in {in, <<>>}
        BY <2>4 DEF Went, Looked, Ended, Still
      <3>2. Known(buff)' /\ Known(dev)' BY <1>4, <1>t, <3>1 DEF SourceInv, Known
      <3> QED BY <1>4, <1>s, <1>t, <2>0, <3>1, <3>2 DEF SourceInv
    <2> QED BY <1>1, <1>5, <2>1, <2>2, <2>3, <2>4
  <1>6. Wrote \/ Went \/ Got \/ Added \/ Looked \/ Ended \/ Still =>
           now' = now /\ epoch' = epoch
    BY DEF Wrote, Went, Got, Added, Looked, Ended, Still
  <1>7. now' = now => Told' = Told BY DEF Told
  <1> QED BY <1>1, <1>5, <1>t, <1>6, <1>7

\* The sentences keep the order of the epoch k.
Before(k, s, t) == \E i, j \in DOMAIN k : k[i] = s /\ k[j] = t /\ i < j
Ordered(k, q) == \A i, j \in 1..Len(q) :
                    i < j /\ last(q[i]) => Before(k, q[i].s, q[j].s)
Sorted(k, q)  == \A i, j \in 1..Len(q) : i < j => Before(k, q[i], q[j])
Ahead(k, q, r) == \A i \in 1..Len(q), j \in 1..Len(r) : Before(k, q[i].s, r[j])
Behind(k, s, q) == \A j \in 1..Len(q) : Before(k, s, q[j].s)

\* A line is being parsed.
Busy == rpc \in {"parse", "sv", "report"}

OrderInv == /\ Sorted(now, rest) /\ Ahead(now, dev, rest) /\ Ordered(now, dev)
            /\ Ordered(now, buff) /\ (Busy => Behind(now, S, buff))

\* The line that has been finished is of the sentence of its last character.
LEMMA LineEnd ==
  ASSUME TypeOK, RpcInv, StreamInv, ReadInv, OneRead, [Next]_vars, Added
  PROVE  S' = Head(buff).s
  <1> DEFINE c == Head(buff)
             m == Len(in)
  <1>1. buff # <<>> /\ in' = Append(in, c) BY DEF Added, RpcInv
  <1>2. in \in Seq(Char) /\ c \in Char BY <1>1 DEF TypeOK
  <1>3. in'[m + 1] = c /\ Len(in') = m + 1 /\ m \in Nat
    BY <1>1, <1>2, AppendProperties
  <1>4. LineInv' BY LineStep
  <1> HIDE DEF m, c
  <1>5. m + 1 \in 1..Len(in') BY <1>3
  <1>6. in'[m + 1] = [s |-> S', i |-> m + 1] BY <1>4, <1>5 DEF LineInv
  <1>7. c = [s |-> S', i |-> m + 1] BY <1>3, <1>6
  <1>8. c.s = S' BY <1>7
  <1> QED BY <1>8 DEF c

\* Sentences are written, read and parsed in their order.
LEMMA OrderStep ==
  ASSUME TypeOK, RpcInv, StreamInv, ReadInv, OrderInv, OneRead, [Next]_vars
  PROVE  OrderInv'
  <1>1. Fresh \/ Wrote \/ Went \/ Got \/ Added \/ Looked \/ Ended \/ Still
    BY Moves
  <1>2. /\ buff \in Seq(Char) /\ in \in Seq(Char) /\ dev \in Seq(Char)
        /\ rest \in Seq(Sentence)
    BY DEF TypeOK
  <1>4. PlaceInv /\ LineInv /\ SourceInv BY DEF ReadInv
  <1>s. in' = in => S' = S BY DEF S
  <1>5. CASE Fresh
    <2>1. now' \in Seq(Sentence) /\ rest' = now'
      BY <1>5, FreshEpoch DEF Fresh
    <2>2. Sorted(now', rest')
      <3> DEFINE n == now'
                 m == Len(n)
      <3>1. DOMAIN n = 1..m /\ m \in Nat BY <2>1, LenProperties
      <3> HIDE DEF n, m
      <3>2. ASSUME NEW i \in 1..m, NEW j \in 1..m, i < j
            PROVE  Before(n, n[i], n[j])
        <4>1. i \in DOMAIN n /\ j \in DOMAIN n /\ i < j BY <3>1, <3>2
        <4> QED BY <4>1 DEF Before
      <3> QED BY <2>1, <3>2 DEF Sorted, n, m
    <2>3. dev' = <<>> /\ buff' = <<>> /\ ~Busy'
      BY <1>4, <1>5 DEF Fresh, PlaceInv, Busy
    <2> QED BY <2>2, <2>3 DEF OrderInv, Ahead, Ordered
  <1>6. Wrote \/ Went \/ Got \/ Added \/ Looked \/ Ended \/ Still => now' = now
    BY DEF Wrote, Went, Got, Added, Looked, Ended, Still
  <1>7. CASE now' = now
    <2>0. /\ Sorted(now, rest) /\ Ahead(now, dev, rest) /\ Ordered(now, dev)
          /\ Ordered(now, buff) /\ (Busy => Behind(now, S, buff))
      BY DEF OrderInv
    <2>1. CASE Wrote
      <3> DEFINE s == Head(rest)
                 n == Len(dev)
      <3>1. rest # <<>> /\ rest' = Tail(rest) /\ buff' = buff /\ in' = in
            /\ dev' = dev \o Chars(s) /\ Busy' = Busy
        BY <2>1 DEF Wrote, Busy
      <3>2. /\ s = rest[1] /\ s \in Sentence /\ 1 \in 1..Len(rest)
            /\ \A i \in 1..Len(rest') : i + 1 \in 1..Len(rest) /\ rest'[i] = rest[i + 1]
        BY <1>2, <3>1, TailElements
      <3>4. /\ Len(dev') = n + s.len
            /\ \A i \in 1..n : dev'[i] = dev[i]
            /\ \A i \in 1..Len(dev') : i > n =>
                  i - n \in 1..s.len /\ dev'[i] = [s |-> s, i |-> i - n]
        BY <1>2, <3>1, <3>2, WriteElements
      <3>n. n \in Nat BY <1>2
      <3>m. /\ \A i, j \in 1..n : i < j /\ last(dev[i]) => Before(now, dev[i].s, dev[j].s)
            /\ \A i \in 1..n : Before(now, dev[i].s, s)
            /\ \A i \in 1..n, j \in 1..Len(rest) : Before(now, dev[i].s, rest[j])
        BY <2>0, <3>2 DEF Ordered, Ahead
      <3> HIDE DEF s, n
      <3>5. s.len \in Nat BY <3>2 DEF Sentence
      <3>6. \A i \in 1..Len(dev') : i > n => dev'[i].s = s
        <4> SUFFICES ASSUME NEW i \in 1..Len(dev'), i > n PROVE dev'[i].s = s
          OBVIOUS
        <4>1. dev'[i] = [s |-> s, i |-> i - n] BY <3>4
        <4> QED BY <4>1
      <3>7. \A i \in 1..Len(dev') : i \in 1..n \/ i > n BY <3>4, <3>5, <3>n
      <3>8. ASSUME NEW i \in 1..Len(dev'), i > n, i # Len(dev') PROVE ~last(dev'[i])
        <4>1. dev'[i] = [s |-> s, i |-> i - n] BY <3>4, <3>8
        <4>2. dev'[i].s = s /\ dev'[i].i = i - n BY <4>1
        <4>3. i - n # s.len BY <3>4, <3>5, <3>8, <3>n
        <4> QED BY <4>2, <4>3 DEF last
      <3>9. Ordered(now, dev')
        <4> SUFFICES ASSUME NEW i \in 1..Len(dev'), NEW j \in 1..Len(dev'), i < j,
                            last(dev'[i])
                     PROVE  Before(now, dev'[i].s, dev'[j].s)
          BY DEF Ordered
        <4>1. CASE j \in 1..n
          <5>1. i \in 1..n BY <3>4, <3>5, <3>n, <4>1
          <5> QED BY <3>4, <3>m, <4>1, <5>1
        <4>2. CASE j > n
          <5>1. dev'[j].s = s BY <3>6, <4>2
          <5>2. CASE i \in 1..n BY <3>4, <3>m, <5>1, <5>2
          <5>3. CASE i > n
            <6>1. i # Len(dev') BY <3>4, <3>5, <3>n
            <6> QED BY <3>8, <5>3, <6>1
          <5> QED BY <3>7, <5>2, <5>3
        <4> QED BY <3>7, <4>1, <4>2
      <3>10. Sorted(now, rest')
        <4> SUFFICES ASSUME NEW i \in 1..Len(rest'), NEW j \in 1..Len(rest'), i < j
                     PROVE  Before(now, rest'[i], rest'[j])
          BY DEF Sorted
        <4>0. Len(rest') \in Nat BY <1>2, <3>1
        <4>1. /\ i + 1 \in 1..Len(rest) /\ j + 1 \in 1..Len(rest) /\ i + 1 < j + 1
              /\ rest'[i] = rest[i + 1] /\ rest'[j] = rest[j + 1]
          BY <3>2, <4>0
        <4> QED BY <2>0, <4>1 DEF Sorted
      <3>11. Ahead(now, dev', rest')
        <4> SUFFICES ASSUME NEW i \in 1..Len(dev'), NEW j \in 1..Len(rest')
                     PROVE  Before(now, dev'[i].s, rest'[j])
          BY DEF Ahead
        <4>1. j + 1 \in 1..Len(rest) /\ rest'[j] = rest[j + 1] BY <3>2
        <4>2. CASE i \in 1..n BY <3>4, <3>m, <4>1, <4>2
        <4>3. CASE i > n
          <5>1. 1 < j + 1
            <6>1. Len(rest') \in Nat BY <1>2, <3>1
            <6> QED BY <6>1
          <5>2. Before(now, rest[1], rest[j + 1]) BY <2>0, <3>2, <4>1, <5>1 DEF Sorted
          <5> QED BY <3>2, <3>6, <4>1, <4>3, <5>2
        <4> QED BY <3>7, <4>2, <4>3
      <3> QED BY <1>7, <1>s, <2>0, <3>1, <3>9, <3>10, <3>11 DEF OrderInv
    <2>2. CASE Got
      <3>1. buff' = dev /\ dev' = <<>> /\ rest' = rest /\ ~Busy'
        BY <2>2 DEF Got, Busy
      <3>2. Ahead(now, dev', rest') /\ Ordered(now, dev') BY <3>1 DEF Ahead, Ordered
      <3> QED BY <1>7, <2>0, <3>1, <3>2 DEF OrderInv
    <2>3. CASE Added
      <3> DEFINE c == Head(buff)
                 n == Len(buff)
      <3>1. buff # <<>> /\ buff' = Tail(buff) /\ in' = Append(in, c) /\ dev' = dev
            /\ rest' = rest
        BY <2>3 DEF Added, RpcInv
      <3>2. /\ c = buff[1] /\ 1 \in 1..n /\ n \in Nat
            /\ Len(buff') = n - 1
            /\ \A i \in 1..Len(buff') : i + 1 \in 1..n /\ buff'[i] = buff[i + 1]
        BY <1>2, <3>1, TailElements
      <3>o. \A i, j \in 1..n : i < j /\ last(buff[i]) => Before(now, buff[i].s, buff[j].s)
        BY <2>0 DEF Ordered
      <3>5. c \in Char BY <1>2, <3>1
      <3> HIDE DEF c, n
      <3>6. Busy' => last(c) /\ S' = c.s BY <2>3, LineEnd DEF Added, Busy, c
      <3>7. Ordered(now, buff')
        <4> SUFFICES ASSUME NEW i \in 1..Len(buff'), NEW j \in 1..Len(buff'), i < j,
                            last(buff'[i])
                     PROVE  Before(now, buff'[i].s, buff'[j].s)
          BY DEF Ordered
        <4>1. i + 1 < j + 1 BY <3>2
        <4> QED BY <3>2, <3>o, <4>1
      <3>8. ASSUME Busy' PROVE Behind(now, S', buff')
        <4> SUFFICES ASSUME NEW j \in 1..Len(buff') PROVE Before(now, S', buff'[j].s)
          BY DEF Behind
        <4>1. j + 1 \in 1..n /\ 1 < j + 1 /\ buff'[j] = buff[j + 1] BY <3>2
        <4>2. last(buff[1]) /\ S' = buff[1].s BY <3>2, <3>6, <3>8
        <4>3. Before(now, buff[1].s, buff[j + 1].s) BY <3>2, <3>o, <4>1, <4>2
        <4> QED BY <4>1, <4>2, <4>3
      <3> QED BY <1>7, <2>0, <3>1, <3>7, <3>8 DEF OrderInv
    <2>4. CASE Went \/ Looked \/ Ended \/ Still
      <3>1. dev' = dev /\ buff' = buff /\ rest' = rest
            /\ (Busy' => Busy /\ in' = in)
        BY <2>4 DEF Went, Looked, Ended, Still, Busy, NextChar
      <3> QED BY <1>7, <1>s, <2>0, <3>1 DEF OrderInv
    <2> QED BY <1>1, <1>5, <2>1, <2>2, <2>3, <2>4
  <1> QED BY <1>1, <1>5, <1>6, <1>7

\* A sentence is still to be parsed.
Ends(q, s) == \E i \in 1..Len(q) : q[i] = [s |-> s, i |-> s.len]
Pending(s) == \/ \E i \in 1..Len(rest) : rest[i] = s
              \/ Ends(dev, s) \/ Ends(buff, s)
              \/ rpc = "parse" /\ S = s

\* A sentence waits until it is parsed.
LEMMA PendingStep ==
  ASSUME TypeOK, RpcInv, StreamInv, ReadInv, OneRead, [Next]_vars, ~Fresh,
         NEW s \in Told, Pending(s)
  PROVE  Pending(s)' \/ (Looked /\ rpc = "parse" /\ S = s)
  <1>1. Wrote \/ Went \/ Got \/ Added \/ Looked \/ Ended \/ Still
    BY Moves
  <1>2. /\ buff \in Seq(Char) /\ in \in Seq(Char) /\ dev \in Seq(Char)
        /\ rest \in Seq(Sentence)
    BY DEF TypeOK
  <1>4. PlaceInv /\ LineInv /\ SourceInv BY DEF ReadInv
  <1>s. in' = in => S' = S BY DEF S
  <1>5. s \in Sentence
    <2>1. now \in Seq(Sentence) BY DEF TypeOK
    <2> QED BY <2>1 DEF Told
  <1>6. CASE Wrote
    <2> DEFINE h == Head(rest)
               n == Len(dev)
    <2>1. rest # <<>> /\ rest' = Tail(rest) /\ buff' = buff /\ in' = in
          /\ dev' = dev \o Chars(h) /\ rpc' = rpc
      BY <1>6 DEF Wrote
    <2>2. /\ h = rest[1] /\ h \in Sentence
          /\ \A i \in 1..Len(rest) : i # 1 => i - 1 \in 1..Len(rest')
                                              /\ rest[i] = rest'[i - 1]
      BY <1>2, <2>1, TailElements
    <2>3. /\ Len(dev') = n + h.len
          /\ \A i \in 1..n : dev'[i] = dev[i]
          /\ \A i \in 1..h.len : dev'[n + i] = [s |-> h, i |-> i]
      BY <1>2, <2>1, <2>2, WriteElements
    <2>n. n \in Nat BY <1>2
    <2> HIDE DEF h, n
    <2>4. h.len \in Nat \ {0} BY <2>2 DEF Sentence
    <2>5. ASSUME NEW i \in 1..Len(rest), rest[i] = s PROVE Pending(s)'
      <3>1. CASE i = 1
        <4>1. s = h BY <2>2, <2>5, <3>1
        <4>2. h.len \in 1..h.len /\ n + h.len \in 1..Len(dev') BY <2>3, <2>4, <2>n
        <4>3. dev'[n + h.len] = [s |-> h, i |-> h.len] BY <2>3, <4>2
        <4>4. Ends(dev', s) BY <4>1, <4>2, <4>3 DEF Ends
        <4> QED BY <4>4 DEF Pending
      <3>2. CASE i # 1
        <4>1. i - 1 \in 1..Len(rest') /\ rest'[i - 1] = s BY <2>2, <2>5, <3>2
        <4> QED BY <4>1 DEF Pending
      <3> QED BY <3>1, <3>2
    <2>6. ASSUME NEW i \in 1..n, dev[i] = [s |-> s, i |-> s.len] PROVE Pending(s)'
      <3>1. i \in 1..Len(dev') /\ dev'[i] = [s |-> s, i |-> s.len]
        BY <2>3, <2>4, <2>6, <2>n
      <3>2. Ends(dev', s) BY <3>1 DEF Ends
      <3> QED BY <3>2 DEF Pending
    <2>7. Ends(dev, s) => Pending(s)' BY <2>6 DEF Ends, n
    <2>8. Ends(buff, s) => Pending(s)' BY <2>1 DEF Pending
    <2>9. rpc # "parse" BY <1>6 DEF Wrote
    <2> QED BY <2>5, <2>7, <2>8, <2>9 DEF Pending
  <1>7. CASE Got
    <2>1. buff' = dev /\ rest' = rest /\ rpc # "parse" /\ buff = <<>>
      BY <1>4, <1>7 DEF Got, PlaceInv
    <2>2. ~Ends(buff, s) BY <2>1 DEF Ends
    <2> QED BY <2>1, <2>2 DEF Pending
  <1>8. CASE Added
    <2> DEFINE c == Head(buff)
               n == Len(buff)
    <2>1. buff # <<>> /\ buff' = Tail(buff) /\ in' = Append(in, c) /\ dev' = dev
          /\ rest' = rest /\ rpc # "parse"
          /\ rpc' = IF last(c) THEN "parse" ELSE "feed"
      BY <1>8 DEF Added, RpcInv
    <2>2. /\ c = buff[1]
          /\ \A i \in 1..n : i # 1 => i - 1 \in 1..Len(buff')
                                      /\ buff[i] = buff'[i - 1]
      BY <1>2, <2>1, TailElements
    <2>3. c \in Char BY <1>2, <2>1
    <2>4. S' = c.s BY <1>8, LineEnd
    <2> HIDE DEF c, n
    <2>5. ASSUME NEW i \in 1..n, buff[i] = [s |-> s, i |-> s.len] PROVE Pending(s)'
      <3>1. CASE i = 1
        <4>1. c = [s |-> s, i |-> s.len] BY <2>2, <2>5, <3>1
        <4>2. c.s = s /\ c.i = s.len BY <4>1
        <4>3. last(c) BY <4>2 DEF last
        <4> QED BY <2>1, <2>4, <4>2, <4>3 DEF Pending
      <3>2. CASE i # 1
        <4>1. i - 1 \in 1..Len(buff') /\ buff'[i - 1] = [s |-> s, i |-> s.len]
          BY <2>2, <2>5, <3>2
        <4>2. Ends(buff', s) BY <4>1 DEF Ends
        <4> QED BY <4>2 DEF Pending
      <3> QED BY <3>1, <3>2
    <2>6. Ends(buff, s) => Pending(s)' BY <2>5 DEF Ends, n
    <2> QED BY <2>1, <2>6 DEF Pending
  <1>9. CASE Went \/ Ended \/ Still
    <2>1. /\ dev' = dev /\ buff' = buff /\ rest' = rest
          /\ rpc = "parse" => in' = in /\ rpc' = rpc
      BY <1>9 DEF Went, Ended, Still
    <2> QED BY <1>s, <2>1 DEF Pending
  <1>10. CASE Looked
    <2>1. dev' = dev /\ buff' = buff /\ rest' = rest
      BY <1>10 DEF Looked
    <2> QED BY <1>10, <2>1 DEF Pending
  <1> QED BY <1>1, <1>6, <1>7, <1>8, <1>9, <1>10

\* The fix has the time of the epoch.
TimeRight == utc_day = DayOf[epoch] /\ fix.time = <<DayOf[epoch], epoch>>

\* What the sentences parsed so far have left.
Gathered(s) ==
    /\ s.has \cap Field \subseteq fix.flags
    /\ Given(now) # {} =>
          /\ s.id = "RMC" /\ "time" \in s.has => TimeRight
          /\ s.id = "GSA" /\ s.talker = "GP" => LOC_FIXED

\* Between two chunks.
Outside == rpc \in {"poll", "read"}

\* Sentences that are not pending have left what they give in fix; its fields
\* are of this epoch; what was given is in loc when everything is read.
GatherInv == /\ Outside /\ (dev # <<>> \/ rest # <<>>) => \A s \in Told : Pending(s)
             /\ ~Outside => \A s \in Told : Pending(s) \/ Gathered(s)
FlagInv == fix.flags # {} => /\ ~Outside /\ Given(now) # {}
                             /\ \A f \in fix.flags : fix.data[f] = epoch
DoneInv == Outside /\ dev = <<>> /\ rest = <<>> =>
              \A s \in Told : \A f \in s.has \cap Field :
                 f \in loc.flags /\ loc.data[f] = epoch

LocInv == RegularFix(now) /\ GatherInv /\ FlagInv /\ DoneInv /\ LocationWhole

\* The fields of an epoch are those of its sentences.
LEMMA GivenTold ==
  Given(now) # {} <=> \E s \in Told : s.has \cap Field # {}
  BY DEF Given, Told

\* What parsing a sentence does.
LEMMA LookedEffects ==
  ASSUME TypeOK, RpcInv, StreamInv, ReadInv, OrderInv, OneRead, Looked,
         RegularFix(now), GatherInv
  PROVE  /\ \/ rpc = "sv" /\ UNCHANGED <<fix, utc_day, fix_mode>>
            \/ /\ rpc = "parse"
               /\ fix'.flags = fix.flags \cup (S.has \cap Field)
               /\ \A f \in fix'.flags :
                     fix'.data[f] = IF f \in S.has THEN epoch ELSE fix.data[f]
               /\ Given(now) # {} =>
                     /\ LOC_FIXED \/ (S.id = "GSA" /\ S.talker = "GP") => LOC_FIXED'
                     /\ TimeRight \/ (S.id = "RMC" /\ "time" \in S.has) => TimeRight'
  <1> USE DEF env, mnl, reader, chunk, line, locs, table, cbs
  <1>1. CASE rpc = "sv"
    BY <1>1 DEF Looked, GGA, GSA, RMC, GSV, ACCURACY, Unknown, Parsing, GSVEnd,
                nmea_reader_update_sv_status
  <1>2. CASE rpc = "parse"
    <2>1. /\ Whole /\ S \in Sentence /\ in # <<>> BY <1>2, WholeLine DEF RpcInv, ReadInv
    <2>2. S \in Told /\ S.e = epoch /\ RegularFix(now)
      BY <2>1 DEF ReadInv, SourceInv
    <2>3. PICK a \in DOMAIN now : now[a] = S BY <2>2 DEF Told
    <2>4. /\ S.has \cap Field \subseteq Own(S.id)
          /\ S.has \cap Field # {} => Given(now) # {}
          /\ Given(now) # {} => /\ S.id = "RMC" => S.mode # 1
                                /\ S.id = "GSA" => S.mode # 1
      <3>1. S.has \cap Field \subseteq Own(S.id) BY <2>2, <2>3 DEF RegularFix
      <3>2. S.has \cap Field # {} => Given(now) # {} BY <2>3 DEF Given
      <3> QED BY <2>2, <2>3, <3>1, <3>2 DEF RegularFix
    <2>5. epoch \in 0..MaxEpoch /\ DayOf[epoch] \in Nat /\ fix \in Fix
      BY SizesType DEF TypeOK
    <2>6. epoch' = epoch BY DEF Looked
    \* A sentence that the location is not made of.
    <2>7. ASSUME Own(S.id) = {}, UNCHANGED <<fix, utc_day>>,
                 S.id # "RMC", Given(now) # {} /\ (LOC_FIXED \/ (S.id = "GSA" /\ S.talker = "GP")) => LOC_FIXED'
          PROVE  /\ fix'.flags = fix.flags \cup (S.has \cap Field)
                 /\ \A f \in fix'.flags :
                       fix'.data[f] = IF f \in S.has THEN epoch ELSE fix.data[f]
                 /\ Given(now) # {} =>
                     /\ LOC_FIXED \/ (S.id = "GSA" /\ S.talker = "GP") => LOC_FIXED'
                     /\ TimeRight \/ (S.id = "RMC" /\ "time" \in S.has) => TimeRight'
      <3>1. S.has \cap Field = {} BY <2>4, <2>7
      <3>2. fix'.flags = fix.flags \cup (S.has \cap Field) BY <2>7, <3>1
      <3>3. fix.flags \subseteq Field BY <2>5 DEF Fix
      <3>4. \A f \in fix'.flags : f \notin S.has BY <2>7, <3>1, <3>3
      <3>5. TimeRight => TimeRight' BY <2>6, <2>7 DEF TimeRight
      <3> QED BY <2>7, <3>2, <3>4, <3>5
    \* One that gives fields and time.
    <2>8. ASSUME NEW F, NEW d, F \subseteq Field, S.has \cap Field \subseteq F,
                 fix' = timed(updated(F), d) \/ fix' = updated(F)
          PROVE  /\ fix'.flags = fix.flags \cup (S.has \cap Field)
                 /\ \A f \in fix'.flags :
                       fix'.data[f] = IF f \in S.has THEN epoch ELSE fix.data[f]
                 /\ fix' = updated(F) => fix'.time = fix.time
                 /\ fix' = timed(updated(F), d) =>
                       fix'.time = IF "time" \in S.has THEN <<d, epoch>> ELSE fix.time
      <3> DEFINE u == updated(F)
                 new == S.has \cap F
      <3>1. /\ u.flags = fix.flags \cup new /\ u.time = fix.time
            /\ u.data = [f \in Field |-> IF f \in new THEN S.e ELSE fix.data[f]]
            /\ u = [flags |-> u.flags, time |-> u.time, data |-> u.data]
        BY DEF updated
      <3>2. new = S.has \cap Field BY <2>8
      <3> HIDE DEF u
      <3>3. /\ timed(u, d).flags = u.flags /\ timed(u, d).data = u.data
            /\ timed(u, d).time = IF "time" \in S.has THEN <<d, S.e>> ELSE u.time
        BY <3>1 DEF timed
      <3>4. fix'.flags = u.flags /\ fix'.data = u.data BY <2>8, <3>3 DEF u
      <3>5. fix'.flags = fix.flags \cup (S.has \cap Field) BY <3>1, <3>2, <3>4
      <3>6. fix.flags \subseteq Field BY <2>5 DEF Fix
      <3>7. ASSUME NEW f \in fix'.flags
            PROVE  fix'.data[f] = IF f \in S.has THEN epoch ELSE fix.data[f]
        <4>1. f \in Field /\ (f \in new <=> f \in S.has) BY <3>2, <3>5, <3>6
        <4>2. fix'.data[f] = IF f \in new THEN S.e ELSE fix.data[f]
          BY <3>1, <3>4, <4>1
        <4> QED BY <2>2, <4>1, <4>2
      <3> QED BY <2>2, <3>1, <3>3, <3>5, <3>7 DEF u
    <2>9. CASE GGA
      <3>1. /\ S.id = "GGA" /\ fix_mode' = fix_mode
            /\ fix' = timed(updated({"latlong", "altitude"}), utc_day')
            /\ utc_day >= 0 => utc_day' = utc_day
        <4>1. utc_day \in Int BY DEF TypeOK
        <4> QED BY <2>9, <4>1 DEF GGA, Parsing
      <3>2. Own(S.id) = {"latlong", "altitude"} BY <3>1 DEF Own
      <3>3. /\ fix'.flags = fix.flags \cup (S.has \cap Field)
            /\ \A f \in fix'.flags :
                  fix'.data[f] = IF f \in S.has THEN epoch ELSE fix.data[f]
            /\ fix'.time = IF "time" \in S.has THEN <<utc_day', epoch>> ELSE fix.time
        BY <2>4, <2>8, <3>1, <3>2 DEF Field
      <3>4. TimeRight => TimeRight'
        BY <2>5, <2>6, <3>1, <3>3 DEF TimeRight
      <3>5. LOC_FIXED => LOC_FIXED' BY <3>1 DEF LOC_FIXED
      <3> QED BY <1>2, <3>1, <3>3, <3>4, <3>5
    <2>10. CASE RMC
      <3>1. S.id = "RMC" /\ fix_mode' = fix_mode BY <2>10 DEF RMC, Parsing
      <3>2. Own(S.id) = {"latlong", "bearing", "speed"} BY <3>1 DEF Own
      <3>3. LOC_FIXED => LOC_FIXED' BY <3>1 DEF LOC_FIXED
      <3>4. CASE S.mode = 1
        <4>1. UNCHANGED <<utc_day, fix>> BY <2>10, <3>4 DEF RMC
        <4>2. Given(now) = {} /\ S.has \cap Field = {} BY <2>4, <3>1, <3>4
        <4>3. fix'.flags = fix.flags \cup (S.has \cap Field) BY <4>1, <4>2
        <4>4. fix.flags \subseteq Field BY <2>5 DEF Fix
        <4>5. \A f \in fix'.flags : f \notin S.has BY <4>1, <4>2, <4>4
        <4> QED BY <1>2, <4>1, <4>2, <4>3, <4>5
      <3>5. CASE S.mode # 1
        <4>1. /\ utc_day' = DayOf[S.e]
              /\ fix' = timed(updated({"latlong", "bearing", "speed"}), utc_day')
          BY <2>10, <3>5 DEF RMC
        <4>2. /\ fix'.flags = fix.flags \cup (S.has \cap Field)
              /\ \A f \in fix'.flags :
                    fix'.data[f] = IF f \in S.has THEN epoch ELSE fix.data[f]
              /\ fix'.time = IF "time" \in S.has THEN <<utc_day', epoch>> ELSE fix.time
          BY <2>4, <2>8, <3>2, <4>1 DEF Field
        <4>3. TimeRight \/ "time" \in S.has => TimeRight'
          BY <2>2, <2>6, <4>1, <4>2 DEF TimeRight
        <4> QED BY <1>2, <3>1, <3>3, <4>2, <4>3
      <3> QED BY <3>4, <3>5
    <2>11. CASE ACCURACY
      <3>1. /\ S.id = "ACCURACY" /\ fix_mode' = fix_mode /\ utc_day' = utc_day
            /\ fix' = IF LOC_FIXED THEN updated({"accuracy"}) ELSE fix
        BY <2>11 DEF ACCURACY, Parsing
      <3>2. Own(S.id) = {"accuracy"} BY <3>1 DEF Own
      <3>3. LOC_FIXED => LOC_FIXED' BY <3>1 DEF LOC_FIXED
      <3>4. CASE LOC_FIXED
        <4>1. fix' = updated({"accuracy"}) BY <3>1, <3>4
        <4>2. /\ fix'.flags = fix.flags \cup (S.has \cap Field)
              /\ \A f \in fix'.flags :
                    fix'.data[f] = IF f \in S.has THEN epoch ELSE fix.data[f]
              /\ fix'.time = fix.time
          BY <2>4, <2>8, <3>2, <4>1 DEF Field
        <4>3. TimeRight => TimeRight' BY <2>6, <3>1, <4>2 DEF TimeRight
        <4> QED BY <1>2, <3>1, <3>3, <4>2, <4>3
      \* The GSA has been parsed, unless there is no position.
      <3>5. CASE ~LOC_FIXED
        <4>1. ASSUME Given(now) # {} PROVE FALSE
          <5>1. PICK i \in DOMAIN now : now[i].id = "GSA" /\ now[i].talker = "GP"
            BY <2>2, <4>1 DEF RegularFix
          <5> DEFINE g == now[i]
          <5>2. g \in Told BY DEF Told
          <5>3. ~Gathered(g) BY <3>5, <4>1, <5>1 DEF Gathered
          <5>4. Pending(g) BY <1>2, <5>2, <5>3 DEF GatherInv, Outside
          <5>5. rest = <<>> /\ dev = <<>> BY <1>2 DEF ReadInv, PlaceInv
          <5>6. S # g BY <3>1, <5>1
          <5>7. Behind(now, S, buff) BY <1>2 DEF OrderInv, Busy
          <5> HIDE DEF g
          <5>8. Ends(buff, g) BY <5>4, <5>5, <5>6 DEF Pending, Ends
          <5>9. PICK j \in 1..Len(buff) : buff[j] = [s |-> g, i |-> g.len]
            BY <5>8 DEF Ends
          <5>10. buff[j].s = g BY <5>9
          <5>11. Before(now, S, g) BY <5>7, <5>10 DEF Behind
          <5>12. PICK u, v \in DOMAIN now : now[u] = S /\ now[v] = g /\ u < v
            BY <5>11 DEF Before
          <5>13. v < u BY <2>2, <3>1, <4>1, <5>1, <5>12 DEF RegularFix, g
          <5>14. u \in Nat /\ v \in Nat
            <6>1. now \in Seq(Sentence) BY DEF TypeOK
            <6>2. DOMAIN now = 1..Len(now) BY <6>1, LenProperties
            <6> QED BY <6>2
          <5> QED BY <5>12, <5>13, <5>14
        <4>2. S.has \cap Field = {} BY <2>4, <4>1
        <4>3. fix' = fix BY <3>1, <3>5
        <4>4. fix.flags \subseteq Field BY <2>5 DEF Fix
        <4>5. \A f \in fix'.flags : f \notin S.has BY <4>2, <4>3, <4>4
        <4> QED BY <1>2, <4>1, <4>2, <4>3, <4>5
      <3> QED BY <3>4, <3>5
    <2>12. CASE GSA
      <3>1. S.id = "GSA" /\ fix_mode' = S.mode /\ UNCHANGED <<fix, utc_day>>
        BY <2>12 DEF GSA, Parsing
      <3>2. Given(now) # {} => LOC_FIXED'
        BY <2>1, <2>4, <3>1 DEF LOC_FIXED, Sentence
      <3>3. Own(S.id) = {} BY <3>1 DEF Own
      <3>4. S.id # "RMC" BY <3>1
      <3> QED BY <1>2, <2>7, <3>1, <3>2, <3>3, <3>4
    <2>13. CASE GSV \/ Unknown
      <3>1. /\ S.id \in {"GSV", "VTG"} \/ (S.id = "GSA" /\ S.talker # "GP")
            /\ UNCHANGED <<fix, utc_day, fix_mode>>
        BY <2>1, <2>13 DEF GSV, Unknown, Parsing
      <3>2. LOC_FIXED => LOC_FIXED' BY <3>1 DEF LOC_FIXED
      <3>3. Own(S.id) = {} BY <3>1 DEF Own
      <3>4. S.id # "RMC" /\ ~(S.id = "GSA" /\ S.talker = "GP") BY <3>1
      <3> QED BY <1>2, <2>7, <3>1, <3>2, <3>3, <3>4
    <2>14. ~GSVEnd /\ ~nmea_reader_update_sv_status
      BY <1>2 DEF GSVEnd, nmea_reader_update_sv_status
    <2> QED BY <2>9, <2>10, <2>11, <2>12, <2>13, <2>14 DEF Looked
  <1> QED BY <1>1, <1>2 DEF Looked

\* LocInv is kept: parsing moves a sentence from pending to gathered, and
\* the report at the end of the chunk finds every sentence gathered.
LEMMA LocStep ==
  ASSUME TypeOK, RpcInv, StreamInv, ReadInv, OrderInv, LocInv, RegularFixes,
         [Next]_vars
  PROVE  LocInv'
  <1>o. OneRead BY DEF RegularFixes
  <1>1. /\ Fresh \/ Wrote \/ Went \/ Got \/ Added \/ Looked \/ Ended \/ Still
        /\ link' = link
    BY <1>o, Moves
  <1>2. RegularFix(now) /\ GatherInv /\ FlagInv /\ DoneInv /\ LocationWhole
    BY DEF LocInv
  <1>3. PlaceInv /\ LineInv /\ SourceInv BY DEF ReadInv
  <1>4. now' = now => Told' = Told /\ Given(now)' = Given(now) BY DEF Told
  <1>p. ~Fresh => \A s \in Told :
           Pending(s) => Pending(s)' \/ (Looked /\ rpc = "parse" /\ S = s)
    BY <1>o, PendingStep
  <1>r. RegularFix(now')
    <2>1. Fresh => RegularFix(now') BY <1>o, FreshEpoch
    <2>2. Wrote \/ Went \/ Got \/ Added \/ Looked \/ Ended \/ Still => now' = now
      BY DEF Wrote, Went, Got, Added, Looked, Ended, Still
    <2> QED BY <1>1, <1>2, <2>1, <2>2
  <1>w. loc' = loc => LocationWhole' BY <1>2 DEF LocationWhole, RegularFixes
  <1>k. Kept => /\ \A s : Given(now') = Given(now) /\ epoch' = epoch /\ Gathered(s)
                             => Gathered(s)'
                /\ fix' = fix /\ loc' = loc
    BY DEF Kept, Gathered, TimeRight, LOC_FIXED
  <1>5. CASE Fresh
    <2>1. rest' = now' /\ Kept /\ rpc' = rpc /\ rpc = "poll" BY <1>5 DEF Fresh
    <2>2. now' \in Seq(Sentence) BY <1>o, <1>5, FreshEpoch
    <2>3. DOMAIN now' = 1..Len(now') BY <2>2, LenProperties
    <2>4. \A s \in Told' : Pending(s)' BY <2>1, <2>3 DEF Told, Pending
    <2>5. GatherInv' BY <2>1, <2>4 DEF GatherInv, Outside
    <2>6. FlagInv' BY <1>2, <1>k, <2>1 DEF FlagInv, Outside
    <2>7. DoneInv'
      <3> SUFFICES ASSUME rest' = <<>> PROVE DoneInv'
        BY DEF DoneInv
      <3>1. DOMAIN now' = {} BY <2>1, <2>3
      <3>2. Told' = {} BY <3>1 DEF Told
      <3> QED BY <3>2 DEF DoneInv
    <2> QED BY <1>r, <1>k, <1>w, <2>1, <2>5, <2>6, <2>7 DEF LocInv
  <1>6. CASE Wrote
    <2>1. /\ Kept /\ now' = now /\ epoch' = epoch /\ rpc' = rpc /\ rpc = "poll"
          /\ rest # <<>> /\ dev' = dev \o Chars(Head(rest))
      BY <1>6 DEF Wrote
    <2>2. \A s \in Told : Pending(s)
      BY <1>2, <2>1 DEF GatherInv, Outside
    <2>3. ~Fresh /\ ~Looked BY <2>1 DEF Fresh, Looked
    <2>4. \A s \in Told' : Pending(s)' BY <1>4, <1>p, <2>1, <2>2, <2>3
    <2>5. GatherInv' BY <2>1, <2>4 DEF GatherInv, Outside
    <2>6. FlagInv' BY <1>2, <1>k, <2>1 DEF FlagInv, Outside
    <2>7. dev' # <<>>
      <3>1. dev \in Seq(Char) /\ Head(rest) \in Sentence BY <2>1 DEF TypeOK
      <3>2. Len(dev') = Len(dev) + Head(rest).len BY <2>1, <3>1, WriteElements
      <3>3. Head(rest).len \in Nat \ {0} BY <3>1, CharsType
      <3>4. Len(dev) \in Nat BY <3>1
      <3>5. Len(dev') # 0 BY <3>2, <3>3, <3>4
      <3> QED BY <3>5
    <2>8. DoneInv' BY <2>7 DEF DoneInv
    <2> QED BY <1>r, <1>k, <1>w, <2>1, <2>5, <2>6, <2>8 DEF LocInv
  <1>7. CASE Went \/ (Still /\ Outside)
    <2>1. /\ now' = now /\ epoch' = epoch /\ rest' = rest /\ dev' = dev
          /\ Outside /\ Outside' /\ loc' = loc
          /\ Kept \/ fix'.flags \in {fix.flags, {}}
      BY <1>7 DEF Went, Still, Outside, Kept
    <2>e. epoch \in 0..MaxEpoch BY DEF TypeOK
    <2>f. ~Fresh
      <3>1. epoch' # epoch + 1 BY <2>1, <2>e, SizesType
      <3> QED BY <3>1 DEF Fresh
    <2>2. ~Fresh /\ ~Looked BY <2>1, <2>f DEF Looked, Outside
    <2>3. GatherInv' BY <1>2, <1>4, <1>p, <2>1, <2>2 DEF GatherInv
    <2>4. fix.flags = {} BY <1>2, <2>1 DEF FlagInv
    <2>5. fix'.flags = {} BY <1>k, <2>1, <2>4
    <2>6. FlagInv' BY <2>5 DEF FlagInv
    <2>7. DoneInv' BY <1>2, <1>4, <2>1 DEF DoneInv
    <2> QED BY <1>r, <1>w, <2>1, <2>3, <2>6, <2>7 DEF LocInv
  <1>8. CASE Got
    <2>1. /\ Kept /\ now' = now /\ epoch' = epoch /\ Outside /\ ~Outside'
          /\ dev # <<>> /\ loc' = loc /\ fix' = fix
      BY <1>8, <1>k DEF Got, Outside
    <2>2. ~Fresh /\ ~Looked BY <1>8 DEF Got, Fresh, Looked
    <2>3. \A s \in Told' : Pending(s)' BY <1>2, <1>4, <1>p, <2>1, <2>2 DEF GatherInv
    <2>4. GatherInv' BY <2>1, <2>3 DEF GatherInv
    <2>5. FlagInv' BY <1>2, <2>1 DEF FlagInv
    <2>6. DoneInv' BY <2>1 DEF DoneInv
    <2> QED BY <1>r, <1>w, <2>1, <2>4, <2>5, <2>6 DEF LocInv
  <1>9. CASE Added \/ (Still /\ ~Outside)
    <2>1. /\ Kept /\ now' = now /\ epoch' = epoch /\ ~Outside /\ ~Outside'
      BY <1>9 DEF Added, Still, Outside
    <2>2. loc' = loc /\ fix' = fix BY <1>k, <2>1
    <2>3. ~Fresh BY <2>1 DEF Fresh, Outside
    <2>4. ~(Looked /\ rpc = "parse")
      BY <1>9 DEF Added, Still, Looked
    <2>5. \A s \in Told' : Pending(s)' \/ Gathered(s)'
      BY <1>2, <1>4, <1>k, <1>p, <2>1, <2>3, <2>4 DEF GatherInv
    <2>6. GatherInv' BY <2>1, <2>5 DEF GatherInv
    <2>7. FlagInv' BY <1>2, <1>4, <2>1, <2>2 DEF FlagInv
    <2>8. DoneInv' BY <2>1 DEF DoneInv
    <2> QED BY <1>r, <1>w, <2>2, <2>6, <2>7, <2>8 DEF LocInv
  <1>10. CASE Looked
    <2>1. /\ now' = now /\ epoch' = epoch /\ ~Outside /\ ~Outside' /\ loc' = loc
          /\ ~Fresh
      BY <1>10 DEF Looked, Outside, Fresh
    <2>2. DoneInv' BY <2>1 DEF DoneInv
    <2>3. CASE rpc = "sv" /\ UNCHANGED <<fix, utc_day, fix_mode>>
      <3>1. Kept BY <2>1, <2>3 DEF Kept
      <3>2. rpc # "parse" BY <2>3
      <3>3. \A s \in Told' : Pending(s)' \/ Gathered(s)'
        BY <1>2, <1>4, <1>k, <1>p, <2>1, <3>1, <3>2 DEF GatherInv
      <3>4. GatherInv' BY <2>1, <3>3 DEF GatherInv
      <3>5. FlagInv' BY <1>2, <1>4, <2>1, <2>3 DEF FlagInv
      <3> QED BY <1>r, <1>w, <2>1, <2>2, <3>4, <3>5 DEF LocInv
    <2>4. CASE /\ rpc = "parse"
               /\ fix'.flags = fix.flags \cup (S.has \cap Field)
               /\ \A f \in fix'.flags :
                     fix'.data[f] = IF f \in S.has THEN epoch ELSE fix.data[f]
               /\ Given(now) # {} =>
                     /\ LOC_FIXED \/ (S.id = "GSA" /\ S.talker = "GP") => LOC_FIXED'
                     /\ TimeRight \/ (S.id = "RMC" /\ "time" \in S.has) => TimeRight'
      <3>1. \A s \in Told : Gathered(s) \/ s = S => Gathered(s)'
        BY <1>4, <2>1, <2>4 DEF Gathered
      <3>2. \A s \in Told' : Pending(s)' \/ Gathered(s)'
        BY <1>2, <1>4, <1>p, <2>1, <3>1 DEF GatherInv
      <3>3. GatherInv' BY <2>1, <3>2 DEF GatherInv
      <3>4. S \in Told
        <4>1. in # <<>> BY <2>4 DEF RpcInv
        <4> QED BY <1>3, <4>1 DEF SourceInv
      <3>5. S.has \cap Field # {} => Given(now) # {} BY <3>4, GivenTold
      <3>6. FlagInv'
        <4> SUFFICES ASSUME fix'.flags # {}
                     PROVE  /\ ~Outside' /\ Given(now') # {}
                            /\ \A f \in fix'.flags : fix'.data[f] = epoch'
          BY DEF FlagInv
        <4>1. Given(now) # {} BY <1>2, <2>4, <3>5 DEF FlagInv
        <4>2. \A f \in fix'.flags : f \in S.has \/ f \in fix.flags BY <2>4
        <4>3. \A f \in fix'.flags : fix'.data[f] = epoch
          BY <1>2, <2>4, <4>2 DEF FlagInv
        <4> QED BY <1>4, <2>1, <4>1, <4>3
      <3> QED BY <1>r, <1>w, <2>1, <2>2, <3>3, <3>6 DEF LocInv
    <2> QED BY <1>o, <1>2, <1>10, <2>3, <2>4, LookedEffects
  <1>11. CASE Ended
    <2>1. /\ now' = now /\ epoch' = epoch /\ rpc = "report" /\ rpc' = NextChar(buff)
          /\ ReportLocation /\ utc_day' = utc_day /\ fix_mode' = fix_mode
          /\ rest' = rest /\ dev' = dev /\ ~Outside /\ ~Fresh
          /\ ~(Looked /\ rpc = "parse")
      BY <1>11 DEF Ended, Outside, Fresh
    <2>2. CASE buff # <<>>
      <3>1. ~end_tag BY <1>3, <2>1, <2>2 DEF LineInv
      <3>2. fix' = fix /\ loc' = loc BY <2>1, <3>1 DEF ReportLocation
      <3>3. Kept /\ ~Outside' BY <2>1, <2>2, <3>2 DEF Kept, NextChar, Outside
      <3>4. \A s \in Told' : Pending(s)' \/ Gathered(s)'
        BY <1>2, <1>4, <1>k, <1>p, <2>1, <3>3 DEF GatherInv
      <3>5. GatherInv' BY <3>3, <3>4 DEF GatherInv
      <3>6. FlagInv' BY <1>2, <1>4, <2>1, <3>2, <3>3 DEF FlagInv
      <3>7. DoneInv' BY <3>3 DEF DoneInv
      <3> QED BY <1>r, <1>w, <3>2, <3>5, <3>6, <3>7 DEF LocInv
    <2>3. CASE buff = <<>>
      <3>1. end_tag /\ rest = <<>> /\ dev = <<>>
        BY <1>3, <2>1, <2>3 DEF LineInv, PlaceInv
      <3>2. \A s \in Told : ~Pending(s)
        BY <2>1, <2>3, <3>1 DEF Pending, Ends
      <3>3. \A s \in Told : Gathered(s) BY <1>2, <2>1, <3>2 DEF GatherInv
      <3>4. Outside' /\ rest' = <<>> /\ dev' = <<>>
        BY <2>1, <2>3, <3>1 DEF NextChar, Outside
      <3>5. GatherInv' BY <3>4 DEF GatherInv
      <3>6. CASE fix.flags # {}
        <4>1. /\ Given(now) # {} /\ \A f \in fix.flags : fix.data[f] = epoch
          BY <1>2, <3>6 DEF FlagInv
        <4>2. TimeRight /\ LOC_FIXED
          <5>1. RegularFix(now) BY <1>2
          <5>2. /\ \E i \in DOMAIN now : now[i].id = "RMC" /\ "time" \in now[i].has
                /\ \E i \in DOMAIN now : now[i].id = "GSA" /\ now[i].talker = "GP"
            BY <4>1, <5>1 DEF RegularFix
          <5>3. /\ \E s \in Told : s.id = "RMC" /\ "time" \in s.has
                /\ \E s \in Told : s.id = "GSA" /\ s.talker = "GP"
            BY <5>2 DEF Told
          <5> QED BY <3>3, <4>1, <5>3 DEF Gathered
        <4>3. loc' = fix /\ fix' = [fix EXCEPT !.flags = {}]
          BY <2>1, <3>1, <3>6, <4>2 DEF ReportLocation
        <4>4. fix'.flags = {} BY <4>3 DEF TypeOK, Fix
        <4>5. FlagInv' BY <4>4 DEF FlagInv
        <4>6. DoneInv'
          <5>1. \A s \in Told : \A f \in s.has \cap Field :
                   f \in fix.flags /\ fix.data[f] = epoch
            BY <3>3, <4>1 DEF Gathered
          <5> QED BY <1>4, <2>1, <4>3, <5>1 DEF DoneInv
        <4>7. LocationWhole'
          <5>1. fix.time[1] = DayOf[epoch] /\ fix.time[2] = epoch
            BY <4>2 DEF TimeRight
          <5>2. /\ \A f \in loc'.flags : loc'.data[f] = loc'.time[2]
                /\ loc'.time[1] = DayOf[loc'.time[2]]
            BY <4>1, <4>3, <5>1
          <5> QED BY <5>2 DEF LocationWhole
        <4> QED BY <1>r, <3>5, <4>5, <4>6, <4>7 DEF LocInv
      <3>7. CASE fix.flags = {}
        <4>1. loc' = loc /\ fix' = fix BY <2>1, <3>7 DEF ReportLocation
        <4>2. FlagInv' BY <3>7, <4>1 DEF FlagInv
        <4>3. \A s \in Told : s.has \cap Field = {} BY <3>3, <3>7 DEF Gathered
        <4>4. DoneInv' BY <1>4, <2>1, <4>3 DEF DoneInv
        <4> QED BY <1>r, <1>w, <3>5, <4>1, <4>2, <4>4 DEF LocInv
      <3> QED BY <3>6, <3>7
    <2> QED BY <2>2, <2>3
  <1> QED BY <1>1, <1>5, <1>6, <1>7, <1>8, <1>9, <1>10, <1>11

\* At first there is nothing to read.
LEMMA RegularInit == Init => ReadInv /\ OrderInv /\ LocInv
  <1> SUFFICES ASSUME Init PROVE ReadInv /\ OrderInv /\ LocInv
    OBVIOUS
  <1>1. /\ rest = <<>> /\ dev = <<>> /\ buff = <<>> /\ in = <<>> /\ now = <<>>
        /\ ~overflow /\ rpc = "poll" /\ fix = NoFix /\ loc = NoFix
        /\ link \in Links
    BY DEF Init
  <1>2. Len(rest) = 0 /\ Len(dev) = 0 /\ Len(buff) = 0 /\ Len(in) = 0
        /\ DOMAIN now = {}
    BY <1>1
  <1>3. Told = {} /\ Given(now) = {} BY <1>2 DEF Told, Given
  <1>4. fix.flags = {} /\ loc.flags = {} BY <1>1 DEF NoFix
  <1>5. PlaceInv
    <2>1. BUFF_SIZE \in Nat /\ NMEA_MAX_SIZE \in Nat BY <1>1, LinkType, SizesType
    <2>2. Len(dev) + Len(rest) * NMEA_MAX_SIZE <= BUFF_SIZE BY <1>2, <2>1
    <2> QED BY <1>1, <2>2 DEF PlaceInv
  <1>6. LineInv BY <1>1, <1>2 DEF LineInv
  <1>7. RegularFix(now) BY <1>2, <1>3 DEF RegularFix
  <1>8. SourceInv BY <1>1, <1>2, <1>3 DEF SourceInv, Known
  <1>9. OrderInv BY <1>1, <1>2 DEF OrderInv, Sorted, Ahead, Ordered, Busy
  <1>10. LocInv
    BY <1>1, <1>3, <1>4, <1>7 DEF LocInv, GatherInv, Outside, FlagInv, DoneInv, LocationWhole
  <1> QED BY <1>5, <1>6, <1>8, <1>9, <1>10 DEF ReadInv

\* What is proved of every step, under the assumptions on MNL it needs.
LocIInv == /\ TypeOK /\ RpcInv /\ StreamInv
           /\ OneRead => ReadInv /\ OrderInv
           /\ RegularFixes => LocInv

\* The inductive invariant.
LEMMA LocIInvAlways == Spec => []LocIInv
  <1>1. Init => LocIInv BY TypeInit, StreamInit, RegularInit DEF LocIInv
  <1>2. LocIInv /\ [Next]_vars => LocIInv'
    <2> SUFFICES ASSUME LocIInv, [Next]_vars PROVE LocIInv'
      OBVIOUS
    <2>1. TypeOK' /\ RpcInv' /\ StreamInv'
      BY TypeStep, StreamStep DEF LocIInv
    <2>2. link' = link
      BY DEF Next, vars, env, NewEpoch, WriteSentence, SkipChunk, GpsEvent, ReadChunk,
         WouldBlock, Start, Stop, Restart, Swallow, LineFull, AddChar, GGA, GSA,
         RMC, GSV, ACCURACY, Unknown, nmea_reader_update_sv_status, GSVEnd, Report
    <2>3. (OneRead' => OneRead) /\ (RegularFixes' => RegularFixes)
      BY <2>2 DEF RegularFixes, OneRead, Burst, Prompt, Interval, BUFF_SIZE
    <2>4. ASSUME OneRead PROVE (ReadInv /\ OrderInv)'
      BY <2>4, PlaceStep, LineStep, SourceStep, OrderStep DEF LocIInv, ReadInv
    <2>5. ASSUME RegularFixes PROVE LocInv'
      BY <2>5, LocStep DEF LocIInv, RegularFixes
    <2> QED BY <2>1, <2>3, <2>4, <2>5 DEF LocIInv
  <1> QED BY <1>1, <1>2, PTL DEF Spec

-----------------------------------------------------------------------------
(* The order in which sentences are parsed. *)

\* A sentence that is not pending was not pending before.
LEMMA PendingBack ==
  ASSUME TypeOK, RpcInv, StreamInv, ReadInv, OneRead, [Next]_vars, ~Outside,
         NEW s \in Told, Pending(s)'
  PROVE  Pending(s)
  <1>1. Added \/ Looked \/ Ended \/ Still
    BY Moves DEF Fresh, Wrote, Went, Got, Outside
  <1>2. buff \in Seq(Char) /\ in \in Seq(Char) BY DEF TypeOK
  <1>s. in' = in => S' = S BY DEF S
  <1>3. CASE Added
    <2> DEFINE c == Head(buff)
               n == Len(buff)
    <2>1. /\ buff # <<>> /\ buff' = Tail(buff) /\ dev' = dev /\ rest' = rest
          /\ rpc' = IF last(c) THEN "parse" ELSE "feed"
      BY <1>3 DEF Added, RpcInv
    <2>2. /\ c = buff[1] /\ 1 \in 1..n
          /\ \A i \in 1..Len(buff') : i + 1 \in 1..n /\ buff'[i] = buff[i + 1]
      BY <1>2, <2>1, TailElements
    <2>3. c \in Char BY <1>2, <2>1
    <2>4. S' = c.s BY <1>3, LineEnd
    <2>5. Ends(buff', s) => Ends(buff, s) BY <2>2 DEF Ends
    <2>6. ASSUME rpc' = "parse", S' = s PROVE Ends(buff, s)
      <3>1. last(c) /\ c.s = s BY <2>1, <2>4, <2>6
      <3>2. c.i = s.len BY <3>1 DEF last
      <3> HIDE DEF c
      <3>3. c = [s |-> s, i |-> s.len] BY <2>3, <3>1, <3>2 DEF Char
      <3> QED BY <2>2, <3>3 DEF Ends
    <2> QED BY <2>1, <2>5, <2>6 DEF Pending
  <1>4. CASE Looked \/ Ended \/ Still
    <2>1. /\ dev' = dev /\ buff' = buff /\ rest' = rest
          /\ rpc' = "parse" => in' = in /\ rpc = "parse"
      BY <1>4 DEF Looked, Ended, Still, NextChar
    <2> QED BY <1>s, <2>1 DEF Pending
  <1> QED BY <1>1, <1>3, <1>4

\* While a line is parsed the others that are pending come after it.
LEMMA PendingAfter ==
  ASSUME ReadInv, OrderInv, Busy, NEW s, Pending(s), s = S => rpc # "parse"
  PROVE  Before(now, S, s)
  <1>1. dev = <<>> /\ rest = <<>> BY DEF ReadInv, PlaceInv, Busy
  <1>2. Ends(buff, s) BY <1>1 DEF Pending, Ends
  <1>3. PICK i \in 1..Len(buff) : buff[i] = [s |-> s, i |-> s.len] BY <1>2 DEF Ends
  <1>4. buff[i].s = s BY <1>3
  <1> QED BY <1>4 DEF OrderInv, Behind

\* Before the chunk is read every sentence is pending; in it the ones that are
\* parsed come first.
TurnInv ==
    /\ Outside /\ (dev # <<>> \/ rest # <<>>) => \A s \in Told : Pending(s)
    /\ ~Outside => \A s, t \in Told : Pending(s) /\ ~Pending(t) => Before(now, t, s)
    /\ Busy => \A t \in Told : Pending(t) \/ t = S \/ Before(now, t, S)

\* The end of the chunk comes when nothing is pending.
LEMMA TurnStep ==
  ASSUME TypeOK, RpcInv, StreamInv, ReadInv, OrderInv, TurnInv, OneRead,
         [Next]_vars
  PROVE  TurnInv'
  <1>1. Fresh \/ Wrote \/ Went \/ Got \/ Added \/ Looked \/ Ended \/ Still
    BY Moves
  <1>2. now' = now => Told' = Told BY DEF Told
  <1>s. in' = in => S' = S BY DEF S
  <1>e. Fresh => epoch' # epoch
    <2>1. epoch \in Nat BY SizesType DEF TypeOK
    <2> QED BY <2>1 DEF Fresh
  <1>p. ~Fresh => \A s \in Told :
           Pending(s) => Pending(s)' \/ (Looked /\ rpc = "parse" /\ S = s)
    BY PendingStep
  <1>b. ~Outside => \A s \in Told : Pending(s)' => Pending(s) BY PendingBack
  <1>3. CASE Fresh
    <2>1. rest' = now' /\ Outside' /\ ~Busy' BY <1>3 DEF Fresh, Outside, Busy
    <2>2. now' \in Seq(Sentence) BY <1>3, FreshEpoch
    <2>3. DOMAIN now' = 1..Len(now') BY <2>2, LenProperties
    <2>4. \A s \in Told' : Pending(s)' BY <2>1, <2>3 DEF Told, Pending
    <2> QED BY <2>1, <2>4 DEF TurnInv
  <1>4. CASE Wrote \/ Got \/ Went \/ (Still /\ Outside)
    <2>1. /\ now' = now /\ Outside /\ ~Busy' /\ ~Looked
          /\ Outside' \/ (Got /\ ~Outside')
      BY <1>4 DEF Wrote, Got, Went, Still, Outside, Busy, Looked
    <2>2. ~Fresh BY <1>4, <1>e DEF Wrote, Got, Went, Still
    <2>3. CASE dev # <<>> \/ rest # <<>>
      <3>1. \A s \in Told' : Pending(s)' BY <1>2, <1>p, <2>1, <2>2, <2>3 DEF TurnInv
      <3> QED BY <2>1, <3>1 DEF TurnInv
    <2>4. CASE dev = <<>> /\ rest = <<>>
      <3>1. dev' = <<>> /\ rest' = <<>> /\ Outside'
        BY <1>4, <2>4, <2>1 DEF Wrote, Got, Went, Still
      <3> QED BY <2>1, <3>1 DEF TurnInv
    <2> QED BY <2>3, <2>4
  <1>5. CASE Added
    <2>1. now' = now /\ ~Outside /\ ~Outside' /\ ~Looked /\ ~Fresh
          /\ (Busy' => rpc' = "parse")
      BY <1>5 DEF Added, Outside, Busy, Looked, Fresh
    <2>2. \A s \in Told : Pending(s)' <=> Pending(s) BY <1>p, <1>b, <2>1
    <2>3. \A s, t \in Told' : Pending(s)' /\ ~Pending(t)' => Before(now', t, s)
      BY <1>2, <2>1, <2>2 DEF TurnInv
    <2>5. ASSUME Busy', NEW t \in Told', ~Pending(t)' PROVE Before(now', t, S')
      <3>1. in' # <<>> BY <2>1, <2>5, TypeStep DEF RpcInv
      <3>2. SourceInv' BY SourceStep
      <3>3. S' \in Told' BY <3>1, <3>2 DEF SourceInv
      <3>4. PICK u \in Told' : u = S' BY <3>3
      <3>5. Pending(u)' BY <2>1, <2>5, <3>4 DEF Pending
      <3> QED BY <2>3, <2>5, <3>4, <3>5
    <2> QED BY <2>1, <2>3, <2>5 DEF TurnInv
  <1>6. CASE Looked
    <2>1. now' = now /\ ~Outside /\ ~Outside' /\ Busy /\ Busy' /\ ~Fresh
          /\ rpc' # "parse" /\ in' = in
      BY <1>6 DEF Looked, Outside, Busy, Fresh
    <2>2. S' = S BY <1>s, <2>1
    <2>3. \A s, t \in Told' : Pending(s)' /\ ~Pending(t)' => Before(now', t, s)
      <3> SUFFICES ASSUME NEW s \in Told, NEW t \in Told, Pending(s)', ~Pending(t)'
                   PROVE  Before(now, t, s)
        BY <1>2, <2>1
      <3>1. Pending(s) BY <1>b, <2>1
      <3>2. CASE ~Pending(t) BY <2>1, <3>1, <3>2 DEF TurnInv
      <3>3. CASE Pending(t)
        <4>1. t = S BY <1>p, <2>1, <3>3
        <4>2. ReadInv' /\ OrderInv'
          BY PlaceStep, LineStep, SourceStep, OrderStep DEF ReadInv
        <4>3. dev' = <<>> /\ rest' = <<>> BY <2>1, <4>2 DEF ReadInv, PlaceInv, Outside
        <4>a. Len(rest') = 0 /\ ~Ends(dev', s) BY <4>3 DEF Ends
        <4>4. Ends(buff', s) BY <2>1, <4>a DEF Pending
        <4>5. PICK i \in 1..Len(buff') : buff'[i] = [s |-> s, i |-> s.len]
          BY <4>4 DEF Ends
        <4>6. buff'[i].s = s BY <4>5
        <4>7. Before(now', S', s) BY <2>1, <4>2, <4>6 DEF OrderInv, Behind
        <4> QED BY <2>1, <2>2, <4>1, <4>7
      <3> QED BY <3>2, <3>3
    <2>4. \A t \in Told' : Pending(t)' \/ t = S' \/ Before(now', t, S')
      BY <1>2, <1>p, <2>1, <2>2 DEF TurnInv
    <2> QED BY <2>1, <2>3, <2>4 DEF TurnInv
  <1>7. CASE Ended
    <2>1. /\ now' = now /\ ~Outside /\ ~Busy' /\ ~Looked /\ ~Fresh
          /\ rest' = rest /\ dev' = dev
      BY <1>7 DEF Ended, Outside, Busy, Fresh, Looked, NextChar
    <2>2. \A s \in Told : Pending(s)' <=> Pending(s) BY <1>p, <1>b, <2>1
    <2>3. \A s, t \in Told' : Pending(s)' /\ ~Pending(t)' => Before(now', t, s)
      BY <1>2, <2>1, <2>2 DEF TurnInv
    <2>4. dev' = <<>> /\ rest' = <<>> BY <2>1 DEF ReadInv, PlaceInv, Outside
    <2> QED BY <2>1, <2>3, <2>4 DEF TurnInv
  <1>8. CASE Still /\ ~Outside
    <2>1. /\ now' = now /\ ~Outside /\ ~Outside' /\ (Busy' <=> Busy) /\ in' = in
          /\ ~(Looked /\ rpc = "parse") /\ ~Fresh
      BY <1>8 DEF Still, Outside, Busy, Looked, Fresh
    <2>2. \A s \in Told : Pending(s)' <=> Pending(s) BY <1>p, <1>b, <2>1
    <2> QED BY <1>2, <1>s, <2>1, <2>2 DEF TurnInv
  <1> QED BY <1>1, <1>3, <1>4, <1>5, <1>6, <1>7, <1>8

-----------------------------------------------------------------------------
(* What a regular epoch says of its sentences. *)

Counted == {s \in Told : Counts(s)}
Marking == {s \in Told : Marks(s)}

\* GsaSats depends on the talker and the satellites alone.
LEMMA GsaSame ==
  ASSUME NEW a, NEW b, a.sats = b.sats, a.talker = b.talker
  PROVE  GsaSats(a) = GsaSats(b)
  <1> DEFINE good == IF mtk THEN (1..32) \cup (65..96) \cup (201..232) ELSE 1..32
             qzss == 193..197
             takes(s, j) == /\ j <= 12 /\ svId(s, s.sats[j]) \in good
                            /\ \A m \in 1..j : svId(s, s.sats[m]) \in good \cup qzss
  <1>1. \A s, p : p \in GsaSats(s) <=>
           \E j \in DOMAIN s.sats : takes(s, j) /\ p = svId(s, s.sats[j])
    BY Zenon DEF GsaSats
  <1>2. \A x : svId(a, x) = svId(b, x) BY DEF svId
  <1>3. \A j : /\ svId(a, a.sats[j]) = svId(b, b.sats[j])
               /\ takes(a, j) <=> takes(b, j)
    <2> HIDE DEF good, qzss
    <2> QED BY <1>2
  <1> HIDE DEF takes
  <1>4. ASSUME NEW p PROVE p \in GsaSats(a) <=> p \in GsaSats(b)
    <2>1. ASSUME p \in GsaSats(a) PROVE p \in GsaSats(b)
      <3>1. PICK j \in DOMAIN a.sats : takes(a, j) /\ p = svId(a, a.sats[j])
        BY <1>1, <2>1
      <3>2. j \in DOMAIN b.sats /\ takes(b, j) /\ p = svId(b, b.sats[j])
        BY <1>3, <3>1
      <3> QED BY <1>1, <3>2
    <2>2. ASSUME p \in GsaSats(b) PROVE p \in GsaSats(a)
      <3>1. PICK j \in DOMAIN b.sats : takes(b, j) /\ p = svId(b, b.sats[j])
        BY <1>1, <2>2
      <3>2. j \in DOMAIN a.sats /\ takes(a, j) /\ p = svId(a, a.sats[j])
        BY <1>3, <3>1
      <3> QED BY <1>1, <3>2
    <2> QED BY <2>1, <2>2
  <1>5. GsaSats(a) \subseteq GsaSats(b) /\ GsaSats(b) \subseteq GsaSats(a) BY <1>4
  <1> QED BY <1>5

\* A new epoch is as regular as the one it is made from.
LEMMA EpochSats ==
  ASSUME NEW k \in Seq(Sentence), NEW n, NEW e \in 0..MaxEpoch,
         n = [i \in DOMAIN k |-> [k[i] EXCEPT !.e = e]], RegularSats(k)
  PROVE  RegularSats(n)
  <1>1. DOMAIN n = DOMAIN k /\ \A i \in DOMAIN k : n[i] = [k[i] EXCEPT !.e = e]
    OBVIOUS
  <1>2. ASSUME NEW i \in DOMAIN k
        PROVE  /\ n[i].id = k[i].id /\ n[i].mode = k[i].mode
               /\ n[i].talker = k[i].talker /\ n[i].num = k[i].num
               /\ n[i].seq = k[i].seq /\ n[i].cnt = k[i].cnt /\ n[i].sats = k[i].sats
    <2>1. k[i] \in Sentence OBVIOUS
    <2>2. n[i] = [k[i] EXCEPT !.e = e] BY <1>1
    <2> QED BY <2>1, <2>2 DEF Sentence
  <1>3. ASSUME NEW i \in DOMAIN k
        PROVE  /\ Counts(n[i]) <=> Counts(k[i])
               /\ Marks(n[i]) <=> Marks(k[i])
               /\ sv_num(n[i]) = sv_num(k[i])
               /\ \A x : svId(n[i], x) = svId(k[i], x)
               /\ Ids(n[i]) = Ids(k[i]) /\ Seen(n[i]) = Seen(k[i])
               /\ GsaSats(n[i]) = GsaSats(k[i])
    <2>1. \A x : svId(n[i], x) = svId(k[i], x) BY <1>2 DEF svId
    <2>2. Ids(n[i]) = Ids(k[i]) BY <1>2, <2>1 DEF Ids
    <2>3. GsaSats(n[i]) = GsaSats(k[i]) BY <1>2, GsaSame
    <2> QED BY <1>2, <2>1, <2>2, <2>3 DEF Counts, Marks, sv_num, Seen
  <1>4. InView(n) = InView(k)
    <2>1. {i \in DOMAIN n : Counts(n[i])} = {i \in DOMAIN k : Counts(k[i])}
      BY <1>1, <1>3
    <2> QED BY <1>1, <1>3, <2>1 DEF InView
  <1>5. InFix(n) = InFix(k)
    <2>1. {i \in DOMAIN n : Marks(n[i]) /\ n[i].mode \in {2, 3}}
             = {i \in DOMAIN k : Marks(k[i]) /\ k[i].mode \in {2, 3}}
      BY <1>1, <1>2, <1>3
    <2> QED BY <1>1, <1>3, <2>1 DEF InFix
  <1> DEFINE gsv(q) == {i \in DOMAIN q : Counts(q[i])}
             gsa(q) == {i \in DOMAIN q : Marks(q[i])}
             r1(q) == \A i \in gsv(q) :
                /\ q[i].seq \in 1..q[i].num /\ Len(q[i].sats) = sv_num(q[i])
                /\ \A r \in 1..q[i].num :
                      \E j \in gsv(q) : q[i].talker = q[j].talker /\ q[j].seq = r
             r2(q) == \A i, j \in gsv(q) : i < j /\ q[i].talker = q[j].talker =>
                /\ q[i].seq < q[j].seq /\ q[i].num = q[j].num
                /\ \A m \in gsv(q) : i < m /\ m < j => q[i].talker = q[m].talker
             r3(q) == \A i, j \in gsv(q) :
                \A a \in DOMAIN q[i].sats, b \in DOMAIN q[j].sats :
                   svId(q[i], q[i].sats[a]) = svId(q[j], q[j].sats[b])
                      => i = j /\ a = b
             r4(q) == \A i \in gsa(q) : /\ \A j \in gsv(q) : i < j
                                        /\ Seen(q[i]) \subseteq GsaSats(q[i])
                                        /\ ~mtk => gsa(q) = {i}
             r5(q) == InView(q) = {} => InFix(q) = {}
  <1>6. \A q : RegularSats(q) <=> r1(q) /\ r2(q) /\ r3(q) /\ r4(q) /\ r5(q)
    BY DEF RegularSats
  <1>7. gsv(n) = gsv(k) /\ gsa(n) = gsa(k) BY <1>1, <1>3
  <1>8. r1(k) /\ r2(k) /\ r3(k) /\ r4(k) /\ r5(k) BY <1>6
  <1>9. \A i \in gsv(k) : i \in DOMAIN k OBVIOUS
  <1>10. \A i \in gsa(k) : i \in DOMAIN k OBVIOUS
  <1> HIDE DEF gsv, gsa
  <1>11. r1(n) BY <1>2, <1>3, <1>7, <1>8, <1>9
  <1>12. r2(n) BY <1>2, <1>7, <1>8, <1>9
  <1>13. r3(n) BY <1>2, <1>3, <1>7, <1>8, <1>9
  <1>14. r4(n) BY <1>3, <1>7, <1>8, <1>10
  <1>15. r5(n) BY <1>4, <1>5, <1>8
  <1> QED BY <1>6, <1>11, <1>12, <1>13, <1>14, <1>15

\* The same, said of sentences instead of their places.
Rules ==
    /\ \A s \in Counted :
          /\ s.seq \in 1..s.num /\ Len(s.sats) = sv_num(s)
          /\ \A q \in 1..s.num : \E t \in Counted : t.talker = s.talker /\ t.seq = q
    /\ \A s, t \in Counted : /\ ~(Before(now, s, t) /\ Before(now, t, s))
                             /\ s = t \/ Before(now, s, t) \/ Before(now, t, s)
    /\ \A s, t \in Counted : Before(now, s, t) /\ s.talker = t.talker =>
          /\ s.seq < t.seq /\ s.num = t.num
          /\ \A m \in Counted : Before(now, s, m) /\ Before(now, m, t) =>
                m.talker = s.talker
    /\ \A s, t \in Counted : \A a \in DOMAIN s.sats, b \in DOMAIN t.sats :
          svId(s, s.sats[a]) = svId(t, t.sats[b]) => s = t /\ a = b
    /\ \A g \in Marking :
          /\ \A s \in Counted : ~Before(now, s, g)
          /\ Seen(g) \subseteq GsaSats(g) /\ (~mtk => Marking = {g})
    /\ InView(now) = UNION {Seen(s) : s \in Counted}
    /\ InFix(now) = UNION {Ids(g) : g \in {g \in Marking : g.mode \in {2, 3}}}
    /\ InView(now) = {} => InFix(now) = {}

\* RegularSats says so; in particular no GSV sentence comes twice.
LEMMA RulesHold == ASSUME TypeOK, RegularSats(now) PROVE Rules
  <1> DEFINE k == now
             gsv == {i \in DOMAIN k : Counts(k[i])}
             gsa == {i \in DOMAIN k : Marks(k[i])}
  <1>0. k \in Seq(Sentence) BY DEF TypeOK
  <1>1. DOMAIN k \subseteq Nat BY <1>0
  <1>2. /\ \A i \in gsv : i \in DOMAIN k /\ k[i] \in Counted /\ i \in Nat
        /\ \A s \in Counted : \E i \in gsv : k[i] = s
        /\ \A i \in gsa : i \in DOMAIN k /\ k[i] \in Marking /\ i \in Nat
        /\ \A s \in Marking : \E i \in gsa : k[i] = s
    BY <1>1 DEF Counted, Marking, Told
  <1>3. \A i \in gsv :
              /\ k[i].seq \in 1..k[i].num /\ Len(k[i].sats) = sv_num(k[i])
              /\ \A q \in 1..k[i].num : \E j \in gsv : k[i].talker = k[j].talker /\ k[j].seq = q
    BY DEF RegularSats
  <1>4. \A i, j \in gsv : i < j /\ k[i].talker = k[j].talker =>
              /\ k[i].seq < k[j].seq /\ k[i].num = k[j].num
              /\ \A m \in gsv : i < m /\ m < j => k[i].talker = k[m].talker
    BY DEF RegularSats
  <1>5. \A i, j \in gsv : \A a \in DOMAIN k[i].sats, b \in DOMAIN k[j].sats :
              svId(k[i], k[i].sats[a]) = svId(k[j], k[j].sats[b]) => i = j /\ a = b
    BY DEF RegularSats
  <1>6. \A i \in gsa : /\ \A j \in gsv : i < j
                       /\ Seen(k[i]) \subseteq GsaSats(k[i])
                       /\ ~mtk => gsa = {i}
    BY DEF RegularSats
  <1>7. InView(k) = {} => InFix(k) = {} BY DEF RegularSats
  <1>8. InView(k) = UNION {Seen(s) : s \in Counted}
    BY DEF InView, Counted, Told
  <1>9. InFix(k) = UNION {Ids(g) : g \in {g \in Marking : g.mode \in {2, 3}}}
    BY DEF InFix, Marking, Told
  <1>10. \A i, j \in DOMAIN k : k[i] = k[j] /\ i \in gsv => j \in gsv
    OBVIOUS
  <1>b. \A s, t : Before(k, s, t) <=>
           \E i, j \in DOMAIN k : k[i] = s /\ k[j] = t /\ i < j
    BY DEF Before
  <1>n. \A s \in Counted : s.seq \in Nat
    <2>1. \A s \in Told : s \in Sentence BY <1>0 DEF Told
    <2> QED BY <2>1 DEF Counted, Sentence
  <1>g. \A i \in DOMAIN k : (i \in gsv <=> Counts(k[i])) /\ (i \in gsa <=> Marks(k[i]))
    OBVIOUS
  <1>c. (\A s \in Counted : Counts(s)) /\ (\A s \in Marking : Marks(s))
    BY DEF Counted, Marking
  <1>i. InView(now) = InView(k) /\ InFix(now) = InFix(k) OBVIOUS
  <1> HIDE DEF k, gsv, gsa
  <1>11. ASSUME NEW i \in gsv, NEW j \in gsv, k[i] = k[j] PROVE i = j
    <2>1. i \in Nat /\ j \in Nat /\ k[i].seq \in Nat BY <1>2, <1>n
    <2>2. ~(i < j) /\ ~(j < i) BY <1>4, <1>11, <2>1
    <2> QED BY <2>1, <2>2
  <1>p. \A s, t \in Counted : Before(k, s, t) <=>
           \E i, j \in gsv : k[i] = s /\ k[j] = t /\ i < j
    BY <1>b, <1>g, <1>c, <1>2
  <1>12. \A s \in Counted :
          /\ s.seq \in 1..s.num /\ Len(s.sats) = sv_num(s)
          /\ \A q \in 1..s.num : \E t \in Counted : t.talker = s.talker /\ t.seq = q
    <2> SUFFICES ASSUME NEW s \in Counted
                 PROVE  /\ s.seq \in 1..s.num /\ Len(s.sats) = sv_num(s)
                        /\ \A q \in 1..s.num : \E t \in Counted : t.talker = s.talker /\ t.seq = q
      OBVIOUS
    <2>1. PICK i \in gsv : k[i] = s BY <1>2
    <2>2. s.seq \in 1..s.num /\ Len(s.sats) = sv_num(s) BY <1>3, <2>1
    <2>3. ASSUME NEW q \in 1..s.num PROVE \E t \in Counted : t.talker = s.talker /\ t.seq = q
      <3>1. PICK j \in gsv : k[i].talker = k[j].talker /\ k[j].seq = q BY <1>3, <2>1
      <3> QED BY <1>2, <2>1, <3>1
    <2> QED BY <2>2, <2>3
  <1>13. ASSUME NEW s \in Counted, NEW t \in Counted
         PROVE  /\ ~(Before(k, s, t) /\ Before(k, t, s))
                /\ s = t \/ Before(k, s, t) \/ Before(k, t, s)
    <2>1. PICK i \in gsv : k[i] = s BY <1>2
    <2>2. PICK j \in gsv : k[j] = t BY <1>2
    <2>3. i \in Nat /\ j \in Nat BY <1>2
    <2>4. /\ Before(k, s, t) => i < j
          /\ Before(k, t, s) => j < i
      BY <1>p, <1>11, <2>1, <2>2
    <2>5. i < j \/ j < i \/ i = j BY <2>3
    <2>6. (i < j => Before(k, s, t)) /\ (j < i => Before(k, t, s))
      BY <1>p, <2>1, <2>2
    <2> QED BY <2>1, <2>2, <2>3, <2>4, <2>5, <2>6
  <1>14. ASSUME NEW s \in Counted, NEW t \in Counted, Before(k, s, t), s.talker = t.talker
         PROVE  /\ s.seq < t.seq /\ s.num = t.num
                /\ \A m \in Counted : Before(k, s, m) /\ Before(k, m, t) =>
                      m.talker = s.talker
    <2>1. PICK i, j \in gsv : k[i] = s /\ k[j] = t /\ i < j BY <1>p, <1>14
    <2>2. s.seq < t.seq /\ s.num = t.num BY <1>4, <1>14, <2>1
    <2>3. ASSUME NEW m \in Counted, Before(k, s, m), Before(k, m, t)
          PROVE  m.talker = s.talker
      <3>1. PICK a, b \in gsv : k[a] = s /\ k[b] = m /\ a < b BY <1>p, <2>3
      <3>2. PICK c, d \in gsv : k[c] = m /\ k[d] = t /\ c < d BY <1>p, <2>3
      <3>3. a = i /\ d = j /\ c = b BY <1>11, <2>1, <3>1, <3>2
      <3> QED BY <1>4, <1>14, <2>1, <3>1, <3>2, <3>3
    <2> QED BY <2>2, <2>3
  <1>15. ASSUME NEW s \in Counted, NEW t \in Counted,
                NEW a \in DOMAIN s.sats, NEW b \in DOMAIN t.sats,
                svId(s, s.sats[a]) = svId(t, t.sats[b])
         PROVE  s = t /\ a = b
    <2>1. PICK i \in gsv : k[i] = s BY <1>2
    <2>2. PICK j \in gsv : k[j] = t BY <1>2
    <2> QED BY <1>5, <1>15, <2>1, <2>2
  <1>16. ASSUME NEW g \in Marking
         PROVE  /\ \A s \in Counted : ~Before(k, s, g)
                /\ Seen(g) \subseteq GsaSats(g) /\ (~mtk => Marking = {g})
    <2>1. PICK i \in gsa : k[i] = g BY <1>2
    <2>2. Seen(g) \subseteq GsaSats(g) BY <1>6, <2>1
    <2>3. ASSUME NEW s \in Counted, Before(k, s, g) PROVE FALSE
      <3>1. PICK a, b \in DOMAIN k : k[a] = s /\ k[b] = g /\ a < b BY <1>b, <2>3
      <3>2. a \in gsv /\ b \in gsa BY <1>g, <1>c, <3>1
      <3>3. b < a BY <1>6, <3>2
      <3> QED BY <1>2, <3>1, <3>2, <3>3
    <2>4. ASSUME ~mtk PROVE Marking = {g}
      <3>1. gsa = {i} BY <1>6, <2>1, <2>4
      <3>2. ASSUME NEW h \in Marking PROVE h = g BY <1>2, <2>1, <3>1
      <3> QED BY <3>2
    <2> QED BY <2>2, <2>3, <2>4
  <1> QED BY <1>7, <1>8, <1>9, <1>12, <1>13, <1>14, <1>15, <1>16 DEF Rules, k

-----------------------------------------------------------------------------
(* The table of satellites while a chunk is parsed. *)

\* The GSV sentences that are dealt with; the satellites of the one at hand
\* that are; all of them that could be entered so far.
Done  == {s \in Counted : ~Pending(s) /\ ~(rpc = "sv" /\ S = s)}
Part  == IF rpc = "sv" THEN {p \in {svId(S, S.sats[j]) : j \in 1..idx} : Accepted(p)}
                       ELSE {}
Found == (UNION {Seen(s) : s \in Done}) \cup Part

\* A set of GSV sentences has begun and not ended; entries of the table.
Open  == rpc = "sv" \/ \E s \in Done, t \in Counted : Pending(t) /\ s.talker = t.talker
Filled == num_svs + (IF Open THEN sv_count ELSE 0)

\* The first n entries of l are satellites F, all of them if they fit.
Table(F, n, l) ==
    /\ n \in 0..MAX_SVS
    /\ \A i \in 0..n - 1 : /\ l[i].prn \in F /\ l[i].e = epoch
                           /\ mtk => (l[i].used <=> l[i].prn \in InFix(now))
    /\ \A i, j \in 0..n - 1 : l[i].prn = l[j].prn => i = j
    /\ n = MAX_SVS \/ \A p \in F : \E i \in 0..n - 1 : l[i].prn = p

\* What a GSA sentence marks as used.
Names(s) == IF s.mode \in {2, 3} THEN GsaSats(s) ELSE {}

TableInv == ~Outside => Table(Found, Filled, sv_list)
CountInv ==
    /\ rpc = "sv" => /\ Counts(S) /\ idx \in 0..Len(S.sats)
                     /\ sv_count <= (S.seq - 1) * NMEA_MAX_SV_INFO + idx
    /\ ~Outside /\ rpc # "sv" =>
          \A s \in Done, t \in Counted :
             Pending(t) /\ s.talker = t.talker /\ t.seq = s.seq + 1
                => sv_count <= s.seq * NMEA_MAX_SV_INFO
UsedInv ==
    /\ Outside => used = {} /\ num_svs = 0
    /\ ~Outside => /\ \A p \in used : \E g \in Marking : p \in Names(g)
                   /\ \A g \in Marking : Pending(g) \/ Names(g) \subseteq used

\* The last report is right.
Right ==
    LET all == {Reported(i) : i \in 0..svs.n - 1}
    IN  /\ svs.n = Cardinality(all) /\ all \subseteq InView(now)
        /\ svs.n = MAX_SVS \/ all = InView(now)
        /\ \A i \in 0..svs.n - 1 : /\ svs.list[i].e = epoch
                                   /\ Marked(i) <=> Reported(i) \in InFix(now)
RightInv == Outside /\ dev = <<>> /\ rest = <<>> /\ InView(now) # {} => Right

SatInv == RegularSats(now) /\ TableInv /\ CountInv /\ UsedInv /\ RightInv

\* Where a satellite that is found comes from.
LEMMA FoundIn == \A q : q \in Found <=> q \in Part \/ \E s \in Done : q \in Seen(s)
  <1> DEFINE all == {Seen(s) : s \in Done}
  <1>1. Found = (UNION all) \cup Part BY DEF Found
  <1>2. \A x : x \in all <=> \E s \in Done : x = Seen(s) OBVIOUS
  <1> HIDE DEF all
  <1>3. \A q : q \in UNION all <=> \E s \in Done : q \in Seen(s) BY <1>2
  <1> QED BY <1>1, <1>3

\* What depends on mtk alone.
LEMMA MtkSame ==
  ASSUME mtk' = mtk
  PROVE  /\ \A s : /\ Counts(s)' <=> Counts(s)
                   /\ Marks(s)' <=> Marks(s)
                   /\ Seen(s)' = Seen(s) /\ GsaSats(s)' = GsaSats(s)
                   /\ Names(s)' = Names(s)
         /\ \A p : Accepted(p)' <=> Accepted(p)
         /\ MAX_SVS' = MAX_SVS
  <1>1. \A p : Accepted(p)' <=> Accepted(p) BY DEF Accepted
  <1>2. \A s : GsaSats(s)' = GsaSats(s) BY DEF GsaSats
  <1>3. \A s : Seen(s)' = Seen(s) BY <1>1 DEF Seen
  <1>4. \A s : Names(s)' = Names(s) BY <1>2 DEF Names
  <1> QED BY <1>1, <1>2, <1>3, <1>4 DEF Counts, Marks, MAX_SVS

\* The same after a step.
LEMMA FoundNext ==
  ASSUME mtk' = mtk
  PROVE  \A q : q \in Found' <=> q \in Part' \/ \E s \in Done' : q \in Seen(s)
  <1> DEFINE all == {Seen(s) : s \in Done'}
  <1>1. Found' = (UNION all) \cup Part' BY MtkSame DEF Found
  <1>2. \A x : x \in all <=> \E s \in Done' : x = Seen(s) OBVIOUS
  <1> HIDE DEF all
  <1>3. \A q : q \in UNION all <=> \E s \in Done' : q \in Seen(s) BY <1>2
  <1> QED BY <1>1, <1>3

\* And on the epoch.
LEMMA NowSame ==
  ASSUME mtk' = mtk, now' = now
  PROVE  /\ Told' = Told /\ Counted' = Counted /\ Marking' = Marking
         /\ InView(now)' = InView(now) /\ InFix(now)' = InFix(now)
         /\ RegularSats(now)' <=> RegularSats(now)
  <1>1. Told' = Told BY DEF Told
  <1>2. Counted' = Counted /\ Marking' = Marking
    BY <1>1, MtkSame DEF Counted, Marking
  <1>3. InView(now)' = InView(now) BY MtkSame DEF InView
  <1>4. InFix(now)' = InFix(now) BY MtkSame DEF InFix
  <1>5. RegularSats(now)' <=> RegularSats(now)
    BY MtkSame, <1>3, <1>4 DEF RegularSats
  <1> QED BY <1>1, <1>2, <1>3, <1>4, <1>5

\* While a GSV sentence is at hand, the others are pending or dealt with
\* according to their place.
LEMMA Sides ==
  ASSUME RpcInv, ReadInv, OrderInv, TurnInv, Rules, Busy, Counts(S)
  PROVE  /\ S \in Counted
         /\ Pending(S) <=> rpc = "parse"
         /\ \A t \in Counted : t # S => /\ Pending(t) <=> Before(now, S, t)
                                        /\ ~Pending(t) <=> Before(now, t, S)
  <1>1. S \in Counted
    <2>1. in # <<>> BY DEF RpcInv, Busy
    <2> QED BY <2>1 DEF ReadInv, SourceInv, Counted
  <1>2. \A s, t \in Counted : ~(Before(now, s, t) /\ Before(now, t, s))
    BY DEF Rules
  <1>3. rpc = "parse" => Pending(S) BY DEF Pending
  <1>4. rpc # "parse" => ~Pending(S) BY <1>1, <1>2, PendingAfter
  <1>5. ASSUME NEW t \in Counted, t # S
        PROVE  /\ Pending(t) <=> Before(now, S, t)
               /\ ~Pending(t) <=> Before(now, t, S)
    <2>1. Pending(t) => Before(now, S, t) BY <1>5, PendingAfter
    <2>2. ~Pending(t) => Before(now, t, S) BY <1>5 DEF TurnInv, Counted
    <2> QED BY <1>1, <1>2, <2>1, <2>2
  <1> QED BY <1>1, <1>3, <1>4, <1>5

\* A GSV sentence begins a set or goes on with the one that is open.
LEMMA Opening ==
  ASSUME TypeOK, RpcInv, ReadInv, OrderInv, TurnInv, Rules, rpc = "parse", Counts(S)
  PROVE  /\ S.seq = 1 => ~Open
         /\ S.seq # 1 => Open /\ \E t \in Done : t.talker = S.talker /\ S.seq = t.seq + 1
         /\ S \notin Done
  <1>s. S \in Sentence BY LineSentence DEF RpcInv
  <1>b. Busy BY DEF Busy
  <1>1. /\ S \in Counted /\ Pending(S)
        /\ \A t \in Counted : t # S => /\ Pending(t) <=> Before(now, S, t)
                                       /\ ~Pending(t) <=> Before(now, t, S)
    BY <1>b, Sides
  <1>n. \A s \in Counted : s.seq \in Nat \ {0} /\ s.num \in Nat
    <2>1. \A s \in Told : s \in Sentence BY DEF TypeOK, Told
    <2>2. \A s \in Counted : s.seq \in Nat /\ s.num \in Nat BY <2>1 DEF Counted, Sentence
    <2> QED BY <2>2 DEF Rules
  <1>2. S \notin Done BY <1>1 DEF Done
  <1>3. ASSUME S.seq = 1, Open PROVE FALSE
    <2>1. PICK s \in Done, t \in Counted : Pending(t) /\ s.talker = t.talker
      BY <1>3 DEF Open
    <2>2. s \in Counted /\ ~Pending(s) BY DEF Done
    <2>3. s # S /\ Before(now, s, S) BY <1>1, <2>2
    <2>4. s.talker = S.talker
      <3>1. CASE t = S BY <2>1, <3>1
      <3>2. CASE t # S
        <4>1. Before(now, S, t) BY <1>1, <2>1, <3>2
        <4>2. Before(now, s, t) BY <2>1, <2>2 DEF TurnInv, Counted, Outside
        <4> QED BY <1>1, <2>1, <2>2, <2>3, <4>1, <4>2 DEF Rules
      <3> QED BY <3>1, <3>2
    <2>5. s.seq < S.seq BY <1>1, <2>2, <2>3, <2>4 DEF Rules
    <2> QED BY <1>n, <1>3, <2>2, <2>5
  <1>4. ASSUME S.seq # 1
        PROVE  Open /\ \E t \in Done : t.talker = S.talker /\ S.seq = t.seq + 1
    <2>0. S.seq \in 1..S.num BY <1>1 DEF Rules
    <2>1. S.seq - 1 \in 1..S.num BY <1>n, <1>1, <1>4, <2>0
    <2>2. PICK t \in Counted : t.talker = S.talker /\ t.seq = S.seq - 1
      BY <1>1, <2>1 DEF Rules
    <2>3. S.seq = t.seq + 1 /\ t # S /\ ~(S.seq < t.seq) BY <1>n, <1>1, <2>2
    <2>4. ~Before(now, S, t) BY <1>1, <2>2, <2>3 DEF Rules
    <2>5. t \in Done BY <1>1, <2>3, <2>4 DEF Done
    <2> QED BY <1>1, <2>2, <2>3, <2>5 DEF Open
  <1> QED BY <1>2, <1>3, <1>4

\* It ends a set exactly when it is the last by its number.
LEMMA Closing ==
  ASSUME TypeOK, RpcInv, ReadInv, OrderInv, TurnInv, Rules, rpc = "sv", Counts(S)
  PROVE  /\ \A s \in Done, t \in Counted : Pending(t) /\ s.talker = t.talker =>
               s.seq < S.seq /\ S.seq < t.seq /\ s.talker = S.talker
         /\ \A t \in Counted : Pending(t) /\ S.talker = t.talker =>
               S.seq < t.seq /\ t.seq <= S.num
         /\ S.seq # S.num => \E t \in Counted : Pending(t) /\ S.talker = t.talker
         /\ \A s \in Counted : s \in Done \/ s = S \/ Pending(s)
         /\ S \in Counted /\ ~Pending(S)
  <1>b. Busy BY DEF Busy
  <1>1. /\ S \in Counted /\ ~Pending(S)
        /\ \A t \in Counted : t # S => /\ Pending(t) <=> Before(now, S, t)
                                       /\ ~Pending(t) <=> Before(now, t, S)
    BY <1>b, Sides
  <1>n. \A s \in Counted : s.seq \in Nat \ {0} /\ s.num \in Nat /\ s.seq <= s.num
    <2>1. \A s \in Told : s \in Sentence BY DEF TypeOK, Told
    <2>2. \A s \in Counted : s.seq \in Nat /\ s.num \in Nat BY <2>1 DEF Counted, Sentence
    <2> QED BY <2>2 DEF Rules
  <1>2. ASSUME NEW t \in Counted, Pending(t), S.talker = t.talker
        PROVE  S.seq < t.seq /\ t.seq <= S.num
    <2>1. Before(now, S, t) BY <1>1, <1>2
    <2>2. S.seq < t.seq /\ S.num = t.num BY <1>1, <1>2, <2>1 DEF Rules
    <2> QED BY <1>n, <2>2
  <1>3. ASSUME NEW s \in Done, NEW t \in Counted, Pending(t), s.talker = t.talker
        PROVE  s.seq < S.seq /\ S.seq < t.seq /\ s.talker = S.talker
    <2>1. s \in Counted /\ ~Pending(s) /\ s # S BY DEF Done
    <2>2. Before(now, s, S) /\ Before(now, S, t) BY <1>1, <1>3, <2>1
    <2>3. Before(now, s, t) BY <1>3, <1>b, <2>1 DEF TurnInv, Counted, Outside, Busy
    <2>4. s.talker = S.talker BY <1>1, <1>3, <2>1, <2>2, <2>3 DEF Rules
    <2>5. s.seq < S.seq BY <1>1, <2>1, <2>2, <2>4 DEF Rules
    <2> QED BY <1>2, <1>3, <2>4, <2>5
  <1>4. ASSUME S.seq # S.num PROVE \E t \in Counted : Pending(t) /\ S.talker = t.talker
    <2>1. S.seq + 1 \in 1..S.num BY <1>1, <1>4, <1>n
    <2>2. PICK t \in Counted : t.talker = S.talker /\ t.seq = S.seq + 1
      BY <1>1, <2>1 DEF Rules
    <2>3. t # S /\ ~(t.seq < S.seq) BY <1>n, <1>1, <2>2
    <2>4. ~Before(now, t, S) BY <1>1, <2>2, <2>3 DEF Rules
    <2> QED BY <1>1, <2>2, <2>3, <2>4
  <1>5. \A s \in Counted : s \in Done \/ s = S \/ Pending(s) BY DEF Done
  <1> QED BY <1>1, <1>2, <1>3, <1>4, <1>5

\* One more satellite is entered, or there is no room for more.
LEMMA TableAdd ==
  ASSUME TypeOK, NEW F, NEW n, Table(F, n, sv_list), n < MAX_SVS,
         NEW p \in Nat, p \notin F, NEW u \in BOOLEAN,
         mtk => (u <=> p \in InFix(now)),
         NEW l, l = [sv_list EXCEPT ![n] = [prn |-> p, used |-> u, e |-> epoch]]
  PROVE  Table(F \cup {p}, n + 1, l)
  <1> DEFINE d == 0..MAX_SVS - 1
             new == [prn |-> p, used |-> u, e |-> epoch]
  <1>1. /\ n \in 0..MAX_SVS /\ MAX_SVS \in Nat /\ n \in Nat /\ n \in d
        /\ \A i \in 0..n - 1 : i \in d /\ i \in 0..n /\ i # n
    BY SizesType DEF Table
  <1>2. sv_list \in [d -> [prn : Nat, used : BOOLEAN, e : 0..MaxEpoch]]
    BY DEF TypeOK, Svs
  <1> HIDE DEF d
  <1>3. l[n] = new /\ \A i \in 0..n - 1 : l[i] = sv_list[i] BY <1>1, <1>2
  <1>4. l[n].prn = p /\ l[n].used = u /\ l[n].e = epoch BY <1>3
  <1>5. \A i \in 0..n : i = n \/ i \in 0..n - 1 BY <1>1
  <1>6. \A i \in 0..n - 1 : /\ l[i].prn \in F /\ l[i].e = epoch
                            /\ mtk => (l[i].used <=> l[i].prn \in InFix(now))
    BY <1>3 DEF Table
  <1>7. \A i, j \in 0..n - 1 : l[i].prn = l[j].prn => i = j BY <1>3 DEF Table
  <1>8. (n + 1) - 1 = n /\ n + 1 \in 0..MAX_SVS BY <1>1
  <1>9. \A i \in 0..n : /\ l[i].prn \in F \cup {p} /\ l[i].e = epoch
                        /\ mtk => (l[i].used <=> l[i].prn \in InFix(now))
    BY <1>4, <1>5, <1>6
  <1>10. \A i, j \in 0..n : l[i].prn = l[j].prn => i = j
    BY <1>4, <1>5, <1>6, <1>7
  <1>11. \A q \in F \cup {p} : \E i \in 0..n : l[i].prn = q
    <2>1. n \in 0..n BY <1>1
    <2>2. ASSUME NEW q \in F PROVE \E i \in 0..n : l[i].prn = q
      <3>1. n # MAX_SVS BY <1>1
      <3>2. PICK i \in 0..n - 1 : sv_list[i].prn = q BY <3>1 DEF Table
      <3> QED BY <1>1, <1>3, <3>2
    <2> QED BY <1>4, <2>1, <2>2
  <1>12. 0..(n + 1) - 1 = 0..n BY <1>8
  <1> QED BY <1>8, <1>9, <1>10, <1>11, <1>12 DEF Table

\* Steps in which no GSV sentence is begun or ended.
LEMMA SatsSame ==
  ASSUME mtk' = mtk, now' = now, epoch' = epoch, rpc # "sv", rpc' # "sv",
         \A s \in Counted : Pending(s)' <=> Pending(s),
         UNCHANGED <<sv_count, num_svs, sv_list>>
  PROVE  /\ Done' = Done /\ Found' = Found /\ Filled' = Filled
         /\ ~Outside /\ TableInv => TableInv'
         /\ ~Outside /\ CountInv => CountInv'
  <1>1. Counted' = Counted /\ InFix(now)' = InFix(now) BY NowSame
  <1>2. Done' = Done BY <1>1 DEF Done
  <1>3. Found' = Found BY <1>2, MtkSame DEF Found, Part
  <1>4. Open' <=> Open
    <2>1. Open => Open' BY <1>1, <1>2 DEF Open
    <2>2. Open' => Open BY <1>1, <1>2 DEF Open
    <2> QED BY <2>1, <2>2
  <1>5. Filled' = Filled BY <1>4 DEF Filled
  <1>6. ~Outside /\ TableInv => TableInv'
    BY <1>1, <1>3, <1>5, MtkSame DEF TableInv, Table
  <1>7. ~Outside /\ CountInv => CountInv' BY <1>1, <1>2 DEF CountInv
  <1> QED BY <1>2, <1>3, <1>5, <1>6, <1>7

\* A GSV sentence is begun.
LEMMA GsvStep ==
  ASSUME TypeOK, RpcInv, ReadInv, OrderInv, TurnInv, Rules, TableInv, CountInv,
         GSV, mtk' = mtk, now' = now, epoch' = epoch,
         \A s \in Counted : s # S => (Pending(s)' <=> Pending(s))
  PROVE  TableInv' /\ CountInv'
  <1> USE DEF env, mnl, reader, chunk, line, locs, table, cbs
  <1>1. /\ rpc = "parse" /\ rpc' = "sv" /\ idx' = 0 /\ in' = in /\ S.id = "GSV" /\ HasGsv
        /\ sv_count' = IF S.seq = 1 THEN 0 ELSE sv_count
        /\ UNCHANGED <<num_svs, sv_list, dev, rest, buff>>
    BY DEF GSV, Parsing
  <1>2. S \in Sentence BY <1>1, LineSentence DEF RpcInv
  <1>3. Counts(S)
    <2>1. S.talker \in {"GP", "GL", "BD"} BY <1>2 DEF Sentence, Talker
    <2> QED BY <1>1, <2>1 DEF Counts, HasGsv
  <1>4. S' = S BY <1>1 DEF S
  <1>5. /\ S.seq = 1 => ~Open
        /\ S.seq # 1 => Open /\ \E t \in Done : t.talker = S.talker /\ S.seq = t.seq + 1
        /\ S \notin Done
    BY <1>1, <1>3, Opening
  <1>b. Busy /\ ~Outside /\ ~Outside' BY <1>1 DEF Busy, Outside
  <1>6. Counted' = Counted /\ S \in Counted /\ Pending(S) BY <1>1, <1>3, <1>b, NowSame, Sides
  <1>7. Done' = Done
    <2>1. \A s \in Counted : s # S => (s \in Done' <=> s \in Done)
      BY <1>1, <1>4, <1>6 DEF Done
    <2>2. S \notin Done' BY <1>1, <1>4 DEF Done
    <2>3. Done \subseteq Counted /\ Done' \subseteq Counted BY <1>6 DEF Done
    <2>4. Done \subseteq Done' /\ Done' \subseteq Done BY <1>5, <2>1, <2>2, <2>3
    <2> QED BY <2>4
  <1>8. Found' = Found
    <2>1. Part' = {}
      <3>1. 1..idx' = {} BY <1>1
      <3> QED BY <3>1 DEF Part
    <2>2. Part = {} BY <1>1 DEF Part
    <2> QED BY <1>7, <2>1, <2>2, MtkSame DEF Found
  <1>9. Filled' = Filled
    <2>1. Open' BY <1>1 DEF Open
    <2>2. num_svs \in Nat BY DEF TypeOK
    <2>3. Filled' = num_svs + sv_count' BY <1>1, <2>1 DEF Filled
    <2>4. CASE S.seq = 1 BY <1>1, <1>5, <2>2, <2>3, <2>4 DEF Filled
    <2>5. CASE S.seq # 1 BY <1>1, <1>5, <2>3, <2>5 DEF Filled
    <2> QED BY <2>4, <2>5
  <1>10. TableInv'
    <2>1. InFix(now)' = InFix(now) BY NowSame
    <2> QED BY <1>1, <1>8, <1>9, <1>b, <2>1, MtkSame DEF TableInv, Table
  <1>11. CountInv'
    <2>1. Counts(S)' BY <1>3, <1>4, MtkSame DEF Counts
    <2>2. idx' \in 0..Len(S.sats)
      <3>1. Len(S.sats) \in Nat BY <1>2 DEF Sentence
      <3> QED BY <1>1, <3>1
    <2>i. NMEA_MAX_SV_INFO \in Nat /\ S.seq \in Nat BY <1>2, SizesType DEF Sentence
    <2>3. sv_count' <= (S.seq - 1) * NMEA_MAX_SV_INFO + idx'
      <3>1. CASE S.seq = 1
        <4>1. (S.seq - 1) * NMEA_MAX_SV_INFO = 0 BY <2>i, <3>1
        <4> QED BY <1>1, <3>1, <4>1
      <3>2. CASE S.seq # 1
        <4>1. PICK t \in Done : t.talker = S.talker /\ S.seq = t.seq + 1
          BY <1>5, <3>2
        <4>2. sv_count <= t.seq * NMEA_MAX_SV_INFO
          BY <1>1, <1>6, <1>b, <4>1 DEF CountInv
        <4>3. t.seq \in Nat
          <5>1. t \in Told BY DEF Done, Counted
          <5>2. t \in Sentence BY <5>1 DEF Told, TypeOK
          <5> QED BY <5>2 DEF Sentence
        <4>4. S.seq - 1 = t.seq BY <4>1, <4>3
        <4>5. t.seq * NMEA_MAX_SV_INFO \in Nat BY <2>i, <4>3
        <4> QED BY <1>1, <3>2, <4>2, <4>4, <4>5
      <3> QED BY <3>1, <3>2
    <2>4. Counts(S)' /\ idx' \in 0..Len(S'.sats)
          /\ sv_count' <= (S'.seq - 1) * NMEA_MAX_SV_INFO + idx'
      BY <1>4, <2>1, <2>2, <2>3
    <2> QED BY <1>1, <2>4 DEF CountInv
  <1> QED BY <1>10, <1>11

\* When a GSV sentence is looked at, used holds what the GSA sentences name,
\* so that a satellite is marked exactly when it is used in the fix.
LEMMA UsedRight ==
  ASSUME Rules, UsedInv, ~Outside, \A g \in Marking : ~Pending(g)
  PROVE  /\ used \subseteq InFix(now)
         /\ \A p \in InFix(now) : Accepted(p) => p \in used
  <1>1. \A g \in Marking : GsaSats(g) \subseteq Ids(g)
    BY DEF GsaSats, Ids
  <1>2. InFix(now) = UNION {Ids(g) : g \in {g \in Marking : g.mode \in {2, 3}}}
    BY DEF Rules
  <1>3. ASSUME NEW p \in used PROVE p \in InFix(now)
    <2>1. PICK g \in Marking : p \in Names(g) BY DEF UsedInv
    <2>2. g.mode \in {2, 3} /\ p \in GsaSats(g) BY <2>1 DEF Names
    <2> QED BY <1>1, <1>2, <2>2
  <1>4. ASSUME NEW p \in InFix(now), Accepted(p) PROVE p \in used
    <2>1. PICK g \in Marking : g.mode \in {2, 3} /\ p \in Ids(g) BY <1>2
    <2>2. p \in Seen(g) BY <1>4, <2>1 DEF Seen
    <2>3. p \in GsaSats(g) BY <2>2 DEF Rules
    <2>4. Names(g) \subseteq used BY DEF UsedInv
    <2> QED BY <2>1, <2>3, <2>4 DEF Names
  <1> QED BY <1>3, <1>4

\* No GSA sentence is pending when a GSV sentence is parsed.
LEMMA GsaFirst ==
  ASSUME RpcInv, ReadInv, OrderInv, TurnInv, Rules, Busy, Counts(S)
  PROVE  \A g \in Marking : ~Pending(g)
  <1>1. S \in Counted BY Sides
  <1> SUFFICES ASSUME NEW g \in Marking, Pending(g) PROVE FALSE
    OBVIOUS
  <1>2. g # S BY DEF Marking, Marks, Counts
  <1>3. Before(now, S, g) BY <1>2, PendingAfter
  <1> QED BY <1>1, <1>3 DEF Rules

\* A satellite of a GSV sentence is entered.
LEMMA UpdateStep ==
  ASSUME TypeOK, RpcInv, ReadInv, OrderInv, TurnInv, Rules, TableInv, CountInv,
         UsedInv, nmea_reader_update_sv_status, now' = now, epoch' = epoch,
         mtk' = mtk, \A s \in Counted : Pending(s)' <=> Pending(s)
  PROVE  TableInv' /\ CountInv'
  <1> USE DEF env, mnl, reader, chunk, line, locs, table, cbs
  <1> DEFINE p == svAt(idx + 1)
             n == sv_count + num_svs
             new == [prn |-> p, used |-> mtk /\ p \in used, e |-> S.e]
             go == Accepted(p) /\ sv_count < MAX_SVS /\ n < MAX_SVS
  <1>1. /\ rpc = "sv" /\ rpc' = "sv" /\ idx < sv_num(S) /\ idx' = idx + 1 /\ in' = in
        /\ go => sv_list' = [sv_list EXCEPT ![n] = new] /\ sv_count' = sv_count + 1
        /\ ~go => UNCHANGED <<sv_list, sv_count>>
        /\ UNCHANGED <<num_svs, used>>
    BY DEF nmea_reader_update_sv_status
  <1>2. S \in Sentence BY <1>1, LineSentence DEF RpcInv
  <1>3. Counts(S) /\ idx \in 0..Len(S.sats)
        /\ sv_count <= (S.seq - 1) * NMEA_MAX_SV_INFO + idx
    BY <1>1 DEF CountInv
  <1>4. S' = S BY <1>1 DEF S
  <1>b. Busy /\ ~Outside /\ ~Outside' BY <1>1 DEF Busy, Outside
  <1>5. S \in Counted /\ S.e = epoch
    <2>1. S \in Counted BY <1>b, <1>3, Sides
    <2> QED BY <2>1 DEF ReadInv, SourceInv, Counted
  <1>6. Len(S.sats) = sv_num(S) /\ Len(S.sats) \in Nat /\ DOMAIN S.sats = 1..Len(S.sats)
    <2>1. S.sats \in Seq(Nat) BY <1>2 DEF Sentence
    <2> QED BY <1>5, <2>1, LenProperties DEF Rules
  <1>7. idx \in Nat /\ idx + 1 \in DOMAIN S.sats BY <1>1, <1>3, <1>6
  <1>8. p = svId(S, S.sats[idx + 1]) BY <1>7 DEF svAt
  <1>p. p \in Nat
    <2>1. S.sats[idx + 1] \in Nat BY <1>2, <1>7 DEF Sentence
    <2> QED BY <1>8, <2>1 DEF svId
  <1> HIDE DEF p
  <1>9. Counted' = Counted /\ InFix(now)' = InFix(now) BY NowSame
  <1>10. Done' = Done BY <1>1, <1>4, <1>9 DEF Done
  <1>11. Found' = Found \cup (IF Accepted(p) THEN {p} ELSE {})
    <2>1. Part' = Part \cup (IF Accepted(p) THEN {p} ELSE {})
      <3>1. Part = {q \in {svId(S, S.sats[j]) : j \in 1..idx} : Accepted(q)}
        BY <1>1 DEF Part
      <3>2. Part' = {q \in {svId(S, S.sats[j]) : j \in 1..idx + 1} : Accepted(q)}
        BY <1>1, <1>4, MtkSame DEF Part, svId
      <3>3. \A j : j \in 1..idx + 1 <=> j \in 1..idx \/ j = idx + 1 BY <1>7
      <3> QED BY <1>8, <3>1, <3>2, <3>3
    <2>2. \A q : q \in Found' <=> q \in Part' \/ \E s \in Done : q \in Seen(s)
      BY <1>10, FoundNext
    <2>3. \A q : q \in Found' <=> q \in Found \/ (Accepted(p) /\ q = p)
      BY <2>1, <2>2, FoundIn
    <2> QED BY <2>3
  <1>r. \A s, t \in Counted : \A a \in DOMAIN s.sats, b \in DOMAIN t.sats :
           svId(s, s.sats[a]) = svId(t, t.sats[b]) => s = t /\ a = b
    BY DEF Rules
  <1>12. p \notin Found
    <2>1. ASSUME NEW s \in Done, p \in Seen(s) PROVE FALSE
      <3>1. s \in Counted /\ s # S BY <1>1 DEF Done
      <3>2. PICK b \in DOMAIN s.sats : p = svId(s, s.sats[b]) BY <2>1 DEF Seen, Ids
      <3> QED BY <1>5, <1>7, <1>8, <1>r, <3>1, <3>2
    <2>2. ASSUME p \in Part PROVE FALSE
      <3>1. PICK j \in 1..idx : p = svId(S, S.sats[j]) BY <1>1, <2>2 DEF Part
      <3>2. j \in DOMAIN S.sats /\ j # idx + 1 BY <1>3, <1>6, <1>7
      <3> QED BY <1>5, <1>7, <1>8, <1>r, <3>1, <3>2
    <2> QED BY <2>1, <2>2, FoundIn
  <1>c. sv_count \in Nat /\ num_svs \in Nat /\ sv_count \in 0..MAX_SVS BY SizesType DEF TypeOK
  <1>13. Filled = n /\ Filled' = num_svs + sv_count'
    <2>1. Open /\ Open' BY <1>1 DEF Open
    <2> QED BY <1>1, <1>c, <2>1 DEF Filled
  <1>14. Table(Found, n, sv_list) BY <1>b, <1>13 DEF TableInv
  <1> HIDE DEF n
  <1>n. n \in 0..MAX_SVS /\ n = sv_count + num_svs BY <1>14 DEF Table, n
  <1>15. Table(Found', Filled', sv_list')
    <2>1. CASE go
      <3> DEFINE u == mtk /\ p \in used
      <3>1. mtk => (u <=> p \in InFix(now))
        <4>1. \A g \in Marking : ~Pending(g) BY <1>b, <1>3, GsaFirst
        <4> QED BY <1>b, <2>1, <4>1, UsedRight
      <3>2. u \in BOOLEAN OBVIOUS
      <3>3. sv_list' = [sv_list EXCEPT ![n] = [prn |-> p, used |-> u, e |-> epoch]]
        BY <1>1, <1>5, <2>1
      <3> HIDE DEF u
      <3>4. n < MAX_SVS BY <2>1
      <3>5. Table(Found \cup {p}, n + 1, sv_list')
        BY <1>12, <1>14, <1>p, <3>1, <3>2, <3>3, <3>4, TableAdd
      <3>6. Filled' = n + 1 BY <1>1, <1>13, <1>c, <1>n, <2>1
      <3>7. Found' = Found \cup {p} BY <1>11, <2>1
      <3> QED BY <3>5, <3>6, <3>7
    <2>2. CASE ~go
      <3>1. Filled' = n /\ sv_list' = sv_list BY <1>1, <1>13, <1>c, <1>n, <2>2
      <3>2. CASE ~Accepted(p) BY <1>11, <1>14, <3>1, <3>2
      <3>3. CASE Accepted(p)
        <4>1. n = MAX_SVS BY <1>c, <1>n, <2>2, <3>3, SizesType
        <4>2. Found \subseteq Found' BY <1>11
        <4>3. Table(Found', n, sv_list) BY <1>14, <4>1, <4>2 DEF Table
        <4> QED BY <3>1, <4>3
      <3> QED BY <3>2, <3>3
    <2> QED BY <2>1, <2>2
  <1>16. TableInv'
    <2>1. Table(Found, Filled, sv_list)' BY <1>9, <1>15, MtkSame DEF Table
    <2> QED BY <2>1 DEF TableInv
  <1>17. CountInv'
    <2>1. Counts(S)' BY <1>3, <1>4, MtkSame DEF Counts
    <2>2. idx' \in 0..Len(S.sats) BY <1>1, <1>6, <1>7
    <2>i. NMEA_MAX_SV_INFO \in Nat /\ S.seq \in Nat BY <1>2, SizesType DEF Sentence
    <2>3. (S.seq - 1) * NMEA_MAX_SV_INFO \in Int BY <2>i
    <2>4. sv_count' <= sv_count + 1 BY <1>1, <1>c
    <2>c. sv_count' \in Nat BY <1>1, <1>c
    <2>5. sv_count' <= (S.seq - 1) * NMEA_MAX_SV_INFO + idx'
      BY <1>1, <1>3, <1>7, <1>c, <2>3, <2>4, <2>c
    <2>6. Counts(S)' /\ idx' \in 0..Len(S'.sats)
          /\ sv_count' <= (S'.seq - 1) * NMEA_MAX_SV_INFO + idx'
      BY <1>4, <2>1, <2>2, <2>5
    <2> QED BY <1>1, <2>6 DEF CountInv
  <1> QED BY <1>16, <1>17

\* A GSV sentence is ended.
LEMMA GsvEndStep ==
  ASSUME TypeOK, RpcInv, ReadInv, OrderInv, TurnInv, Rules, TableInv, CountInv,
         GSVEnd, now' = now, epoch' = epoch, mtk' = mtk,
         \A s \in Counted : Pending(s)' <=> Pending(s)
  PROVE  TableInv' /\ CountInv'
  <1> USE DEF env, mnl, reader, chunk, line, locs, table, cbs
  <1>1. /\ rpc = "sv" /\ rpc' = "report" /\ idx >= sv_num(S)
        /\ UNCHANGED <<in, sv_list>>
        /\ S.seq = S.num /\ sv_count <= S.cnt =>
              num_svs' = num_svs + sv_count /\ sv_count' = sv_count
        /\ S.seq # S.num => UNCHANGED <<num_svs, sv_count>>
    BY DEF GSVEnd
  <1>2. S \in Sentence BY <1>1, LineSentence DEF RpcInv
  <1>3. Counts(S) /\ idx \in 0..Len(S.sats)
        /\ sv_count <= (S.seq - 1) * NMEA_MAX_SV_INFO + idx
    BY <1>1 DEF CountInv
  <1>4. /\ \A s \in Done, t \in Counted : Pending(t) /\ s.talker = t.talker =>
               s.seq < S.seq /\ S.seq < t.seq /\ s.talker = S.talker
        /\ \A t \in Counted : Pending(t) /\ S.talker = t.talker =>
               S.seq < t.seq /\ t.seq <= S.num
        /\ S.seq # S.num => \E t \in Counted : Pending(t) /\ S.talker = t.talker
        /\ \A s \in Counted : s \in Done \/ s = S \/ Pending(s)
        /\ S \in Counted /\ ~Pending(S)
    BY <1>1, <1>3, Closing
  <1>b. ~Outside /\ ~Outside' BY <1>1 DEF Outside
  <1>6. Len(S.sats) = sv_num(S) /\ Len(S.sats) \in Nat /\ DOMAIN S.sats = 1..Len(S.sats)
    <2>1. S.sats \in Seq(Nat) BY <1>2 DEF Sentence
    <2> QED BY <1>4, <2>1, LenProperties DEF Rules
  <1>7. idx = Len(S.sats) BY <1>1, <1>3, <1>6
  <1>8. Counted' = Counted /\ InFix(now)' = InFix(now) BY NowSame
  <1>9. Done' = Done \cup {S}
    <2>1. Done' = {s \in Counted : ~Pending(s)} BY <1>1, <1>8 DEF Done
    <2> QED BY <1>4, <2>1 DEF Done
  <1>10. Found' = Found
    <2>1. Part = Seen(S)
      <3>1. {svId(S, S.sats[j]) : j \in 1..idx} = Ids(S) BY <1>6, <1>7 DEF Ids
      <3> QED BY <1>1, <3>1 DEF Part, Seen
    <2>2. Part' = {} BY <1>1 DEF Part
    <2>3. \A q : q \in Found' <=> \E s \in Done' : q \in Seen(s)
      BY <2>2, FoundNext
    <2>5. \A q : q \in Found' <=> q \in Found BY <1>9, <2>1, <2>3, FoundIn
    <2>6. Found' \subseteq Found /\ Found \subseteq Found' BY <2>5
    <2> QED BY <2>6
  <1>n. /\ S.seq \in Nat /\ S.num \in Nat /\ S.cnt \in Nat /\ NMEA_MAX_SV_INFO \in Nat
        /\ sv_count \in Nat /\ num_svs \in Nat /\ S.seq \in 1..S.num
        /\ (S.seq - 1) * NMEA_MAX_SV_INFO \in Int
    <2>1. /\ S.seq \in Nat /\ S.num \in Nat /\ S.cnt \in Nat /\ NMEA_MAX_SV_INFO \in Nat
          /\ sv_count \in Nat /\ num_svs \in Nat /\ S.seq \in 1..S.num
      BY <1>2, <1>4, SizesType DEF Sentence, TypeOK, Rules
    <2> QED BY <2>1
  <1>11. sv_count <= S.cnt /\ idx <= NMEA_MAX_SV_INFO
    <2> DEFINE z == (S.seq - 1) * NMEA_MAX_SV_INFO
               left == S.cnt - z
    <2>1. idx = IF left > NMEA_MAX_SV_INFO THEN NMEA_MAX_SV_INFO ELSE left
      BY <1>6, <1>7 DEF sv_num
    <2>2. z \in Int /\ sv_count <= z + idx /\ idx \in Nat BY <1>3, <1>n, <1>6, <1>7
    <2> HIDE DEF z
    <2> QED BY <1>n, <2>1, <2>2
  <1>12. Open' <=> S.seq # S.num
    <2>1. ASSUME S.seq = S.num, Open' PROVE FALSE
      <3>1. PICK s \in Done', t \in Counted' : Pending(t)' /\ s.talker = t.talker
        BY <1>1, <2>1 DEF Open
      <3>2. t \in Counted /\ Pending(t) BY <1>8, <3>1
      <3>3. S.talker = t.talker BY <1>4, <1>9, <3>1, <3>2
      <3>4. S.seq < t.seq /\ t.seq <= S.num BY <1>4, <3>2, <3>3
      <3>5. t.seq \in Nat
        <4>1. t \in Sentence BY <3>2 DEF Counted, Told, TypeOK
        <4> QED BY <4>1 DEF Sentence
      <3> QED BY <1>n, <2>1, <3>4, <3>5
    <2>2. ASSUME S.seq # S.num PROVE Open'
      <3>1. PICK t \in Counted : Pending(t) /\ S.talker = t.talker BY <1>4, <2>2
      <3>2. S \in Done' /\ t \in Counted' /\ Pending(t)' BY <1>8, <1>9, <3>1
      <3> QED BY <3>1, <3>2 DEF Open
    <2> QED BY <2>1, <2>2
  <1>13. Filled' = Filled
    <2>1. Filled = num_svs + sv_count BY <1>1 DEF Filled, Open
    <2>2. CASE S.seq = S.num
      <3>1. Filled' = num_svs' + 0 BY <1>12, <2>2 DEF Filled
      <3> QED BY <1>1, <1>11, <1>n, <2>1, <2>2, <3>1
    <2>3. CASE S.seq # S.num
      <3>1. Filled' = num_svs' + sv_count' BY <1>12, <2>3 DEF Filled
      <3> QED BY <1>1, <2>1, <2>3, <3>1
    <2> QED BY <2>2, <2>3
  <1>14. TableInv' BY <1>1, <1>b, <1>8, <1>10, <1>13, MtkSame DEF TableInv, Table
  <1>15. sv_count' = sv_count BY <1>1, <1>11
  <1>16. CountInv'
    <2>1. ASSUME NEW s \in Done', NEW t \in Counted, Pending(t), s.talker = t.talker,
                 t.seq = s.seq + 1
          PROVE  sv_count <= s.seq * NMEA_MAX_SV_INFO
      <3>0. s \in Counted BY <1>9, <1>4 DEF Done
      <3>1. s.seq \in Nat /\ t.seq \in Nat
        <4>1. s \in Sentence /\ t \in Sentence BY <3>0 DEF Counted, Told, TypeOK
        <4> QED BY <4>1 DEF Sentence
      <3>2. CASE s = S
        <4> DEFINE z == (S.seq - 1) * NMEA_MAX_SV_INFO
                   y == S.seq * NMEA_MAX_SV_INFO
        <4>1. y = z + NMEA_MAX_SV_INFO BY <1>n
        <4>2. z \in Int /\ y \in Int /\ sv_count <= z + idx /\ idx \in Nat
          BY <1>3, <1>n, <1>6, <1>7
        <4> HIDE DEF z, y
        <4>3. sv_count <= y BY <1>n, <1>11, <4>1, <4>2
        <4> QED BY <3>2, <4>3 DEF y
      <3>3. CASE s # S
        <4>1. s.seq < S.seq /\ S.seq < t.seq BY <1>4, <1>9, <2>1, <3>3
        <4> QED BY <1>n, <2>1, <3>1, <4>1
      <3> QED BY <3>2, <3>3
    <2>2. \A s \in Done', t \in Counted' :
             Pending(t)' /\ s.talker = t.talker /\ t.seq = s.seq + 1
                => sv_count' <= s.seq * NMEA_MAX_SV_INFO
      BY <1>8, <1>15, <2>1
    <2> QED BY <1>1, <2>2 DEF CountInv
  <1> QED BY <1>14, <1>16

\* Different entries are counted.
LEMMA CountDistinct ==
  ASSUME NEW n \in Nat, NEW r, NEW f \in [0..n - 1 -> r],
         \A i, j \in 0..n - 1 : f[i] = f[j] => i = j,
         \A p \in r : \E i \in 0..n - 1 : f[i] = p
  PROVE  Cardinality(r) = n
  <1> DEFINE d == 0..n - 1
  <1>1. IsFiniteSet(d) /\ Cardinality(d) = n
    <2>1. /\ IsFiniteSet(0..n - 1)
          /\ Cardinality(0..n - 1) = IF 0 > n - 1 THEN 0 ELSE n - 1 - 0 + 1
      BY FS_Interval
    <2> QED BY <2>1
  <1>2. /\ f \in [d -> r] /\ \A i, j \in d : f[i] = f[j] => i = j
        /\ \A p \in r : \E i \in d : f[i] = p
    OBVIOUS
  <1> HIDE DEF d
  <1>3. f \in Bijection(d, r) BY <1>2, Fun_IsBij
  <1>4. ExistsBijection(d, r) BY <1>3, Fun_ExistsBij
  <1> QED BY <1>1, <1>4, FS_Bijection

\* The report at the end of the chunk.
LEMMA ReportStep ==
  ASSUME TypeOK, RpcInv, ReadInv, TurnInv, Rules, TableInv, UsedInv,
         Ended, buff = <<>>, mtk' = mtk
  PROVE  used' = {} /\ num_svs' = 0 /\ (InView(now)' # {} => Right')
  <1>1. /\ rpc = "report" /\ ReportSvs /\ now' = now /\ epoch' = epoch /\ ~Outside
        /\ sv_list' = sv_list
    BY DEF Ended, Outside
  <1>2. dev = <<>> /\ rest = <<>> /\ end_tag
    BY <1>1 DEF ReadInv, PlaceInv, LineInv, Outside
  <1>3. \A s : ~Pending(s) BY <1>1, <1>2 DEF Pending, Ends
  <1>4. Done = Counted /\ Part = {} BY <1>1, <1>3 DEF Done, Part
  <1>5. Found = InView(now)
    <2> DEFINE all == {Seen(s) : s \in Counted}
    <2>1. Found = UNION all BY <1>4 DEF Found
    <2>2. InView(now) = UNION all BY DEF Rules
    <2> QED BY <2>1, <2>2
  <1>6. ~Open BY <1>1, <1>3 DEF Open
  <1>7. num_svs \in Nat /\ MAX_SVS \in Nat \ {0} BY SizesType DEF TypeOK
  <1>8. Filled = num_svs BY <1>6, <1>7 DEF Filled
  <1>9. Table(InView(now), num_svs, sv_list) BY <1>1, <1>5, <1>8 DEF TableInv
  <1>10. /\ used \subseteq InFix(now)
         /\ \A p \in InFix(now) : Accepted(p) => p \in used
    BY <1>1, <1>3, UsedRight
  <1>11. InView(now)' = InView(now) /\ InFix(now)' = InFix(now) BY <1>1, NowSame
  <1>12. CASE num_svs = 0
    <2>1. InView(now) = {}
      <3>1. 0..num_svs - 1 = {} BY <1>12
      <3> QED BY <1>7, <1>9, <1>12, <3>1 DEF Table
    <2>2. used = {} BY <1>10, <2>1 DEF Rules
    <2>3. used' = used /\ num_svs' = num_svs BY <1>1, <1>12 DEF ReportSvs
    <2> QED BY <1>11, <1>12, <2>1, <2>2, <2>3
  <1>13. CASE num_svs # 0
    <2>1. /\ svs' = [n |-> num_svs, list |-> sv_list, used |-> used]
          /\ num_svs' = 0 /\ used' = {}
      BY <1>1, <1>2, <1>13 DEF ReportSvs
    <2>2. svs'.n = num_svs /\ svs'.list = sv_list /\ svs'.used = used BY <2>1
    <2> DEFINE all == {sv_list[i].prn : i \in 0..num_svs - 1}
    <2>3. Cardinality(all) = num_svs
      <3> DEFINE f == [i \in 0..num_svs - 1 |-> sv_list[i].prn]
      <3>1. \A i, j \in 0..num_svs - 1 : sv_list[i].prn = sv_list[j].prn => i = j
        BY <1>9 DEF Table
      <3>2. /\ f \in [0..num_svs - 1 -> all]
            /\ \A i, j \in 0..num_svs - 1 : f[i] = f[j] => i = j
            /\ \A p \in all : \E i \in 0..num_svs - 1 : f[i] = p
        BY <3>1
      <3> HIDE DEF all, f
      <3> QED BY <1>7, <3>2, CountDistinct
    <2>4. /\ \A i \in 0..num_svs - 1 : sv_list[i].prn \in InView(now)
          /\ num_svs = MAX_SVS \/
                \A p \in InView(now) : \E i \in 0..num_svs - 1 : sv_list[i].prn = p
      BY <1>9 DEF Table
    <2>5. all \subseteq InView(now) /\ (num_svs = MAX_SVS \/ all = InView(now))
      BY <2>4
    <2>6. ASSUME NEW i \in 0..num_svs - 1
          PROVE  /\ sv_list[i].e = epoch
                 /\ (IF mtk THEN sv_list[i].used ELSE sv_list[i].prn \in used)
                       <=> sv_list[i].prn \in InFix(now)
      <3>1. /\ sv_list[i].e = epoch
            /\ mtk => (sv_list[i].used <=> sv_list[i].prn \in InFix(now))
        BY <1>9 DEF Table
      <3>2. Accepted(sv_list[i].prn)
        <4>1. \A q \in InView(now) : Accepted(q)
          BY DEF Rules, Seen
        <4> QED BY <2>4, <4>1
      <3> QED BY <1>10, <3>1, <3>2
    <2>7. Right'
      <3>1. {Reported(i)' : i \in 0..svs'.n - 1} = all BY <2>2 DEF Reported
      <3>2. \A i \in 0..svs'.n - 1 : /\ svs'.list[i].e = epoch'
                                     /\ Marked(i)' <=> Reported(i)' \in InFix(now)'
        BY <1>1, <1>11, <2>2, <2>6 DEF Marked, Reported
      <3>3. MAX_SVS' = MAX_SVS BY MtkSame
      <3> HIDE DEF all
      <3> QED BY <1>11, <2>2, <2>3, <2>5, <3>1, <3>2, <3>3 DEF Right
    <2> QED BY <2>1, <2>7
  <1> QED BY <1>12, <1>13

\* What MNL begins to write is regular too.
LEMMA FreshSats ==
  ASSUME TypeOK, RpcInv, RegularSatellites, [Next]_vars, Fresh, mtk' = mtk
  PROVE  RegularSats(now)'
  <1>1. PICK k \in link.epochs :
           now' = [i \in DOMAIN k |-> [k[i] EXCEPT !.e = epoch + 1]]
    BY DEF Fresh
  <1>2. k \in Seq(Sentence) /\ RegularSats(k)
    BY MnlFacts DEF RegularSatellites
  <1>3. epoch' \in 0..MaxEpoch BY TypeStep DEF TypeOK
  <1>4. epoch' = epoch + 1 BY DEF Fresh
  <1> DEFINE n == now'
             e == epoch'
  <1>5. n = [i \in DOMAIN k |-> [k[i] EXCEPT !.e = e]] BY <1>1, <1>4
  <1> HIDE DEF n, e
  <1>6. e \in 0..MaxEpoch BY <1>3 DEF e
  <1>7. RegularSats(n) BY <1>2, <1>5, <1>6, EpochSats
  <1>8. RegularSats(now') BY <1>7 DEF n
  <1>9. InView(now)' = InView(now') BY MtkSame DEF InView
  <1>10. InFix(now)' = InFix(now') BY MtkSame DEF InFix
  <1> QED BY <1>8, <1>9, <1>10, MtkSame DEF RegularSats

\* A GSA sentence is parsed, or one without satellites.
LEMMA OtherStep ==
  ASSUME TypeOK, RpcInv, ReadInv, OrderInv, TurnInv, Rules, UsedInv,
         Looked, rpc = "parse", ~GSV, mtk' = mtk,
         \A s \in Told : s # S => (Pending(s)' <=> Pending(s))
  PROVE  UsedInv' /\ rpc' # "sv" /\ ~Counts(S)
         /\ UNCHANGED <<sv_count, num_svs, sv_list, svs>>
  <1> USE DEF env, mnl, reader, chunk, line, locs, table, cbs
  <1>w. Whole /\ S \in Sentence BY WholeLine DEF ReadInv
  <1>1. GGA \/ GSA \/ RMC \/ ACCURACY \/ Unknown
    BY DEF Looked, GSVEnd, nmea_reader_update_sv_status
  <1>2. /\ rpc' = "report" /\ now' = now /\ UNCHANGED <<sv_count, num_svs, sv_list, svs>>
        /\ GSA \/ used' = used
    BY <1>1, <1>w DEF GGA, GSA, RMC, ACCURACY, Unknown, Looked
  <1>3. ~Counts(S)
    <2>1. S.talker \in {"GP", "GL", "BD"} BY <1>w DEF Sentence, Talker
    <2> QED BY <1>1, <1>w, <2>1
            DEF GGA, GSA, RMC, ACCURACY, Unknown, Parsing, Counts, HasGsv
  <1>4. Told' = Told /\ Marking' = Marking BY <1>2, NowSame
  <1>5. ~Outside /\ ~Outside' BY <1>2 DEF Outside
  <1>6. \A p \in used : \E g \in Marking : p \in Names(g)
    BY <1>5 DEF UsedInv
  <1>7. \A g \in Marking : Pending(g) \/ Names(g) \subseteq used
    BY <1>5 DEF UsedInv
  <1>8. CASE GSA
    <2>1. S.id = "GSA" /\ (mtk \/ S.talker = "GP")
          /\ used' = (IF mtk THEN used ELSE {}) \cup Names(S)
      BY <1>8 DEF GSA, Parsing, Names
    <2>2. S \in Marking
      <3>1. S \in Told BY DEF ReadInv, SourceInv, RpcInv
      <3> QED BY <2>1, <3>1 DEF Marking, Marks
    <2>3. \A p \in used' : \E g \in Marking : p \in Names(g) BY <1>6, <2>1, <2>2
    <2>4. ASSUME NEW g \in Marking PROVE Pending(g)' \/ Names(g) \subseteq used'
      <3>1. CASE g = S BY <2>1, <3>1
      <3>2. CASE g # S
        <4>1. mtk BY <2>2, <3>2 DEF Rules
        <4>2. g \in Told BY DEF Marking
        <4> QED BY <1>7, <2>1, <3>2, <4>1, <4>2
      <3> QED BY <3>1, <3>2
    <2> QED BY <1>2, <1>3, <1>4, <1>5, <2>3, <2>4, MtkSame DEF UsedInv
  <1>9. CASE ~GSA
    <2>1. used' = used /\ S \notin Marking
      <3>1. S \notin Marking
        BY <1>1, <1>9, <1>w DEF GGA, RMC, ACCURACY, Unknown, Parsing, Marking, Marks
      <3> QED BY <1>2, <1>9, <3>1
    <2>2. ASSUME NEW g \in Marking PROVE Pending(g)' \/ Names(g) \subseteq used'
      <3>1. g # S /\ g \in Told BY <2>1 DEF Marking
      <3> QED BY <1>7, <2>1, <3>1
    <2> QED BY <1>2, <1>3, <1>4, <1>5, <1>6, <2>1, <2>2, MtkSame DEF UsedInv
  <1> QED BY <1>8, <1>9

\* SatInv is kept: satellites are entered once, sets of GSV sentences are
\* opened and closed in turn, and the report comes when all are closed.
LEMMA SatStep ==
  ASSUME TypeOK, RpcInv, StreamInv, ReadInv, OrderInv, TurnInv, SatInv,
         RegularSatellites, [Next]_vars
  PROVE  SatInv'
  <1>o. OneRead BY DEF RegularSatellites
  <1>1. /\ Fresh \/ Wrote \/ Went \/ Got \/ Added \/ Looked \/ Ended \/ Still
        /\ mtk' = mtk
    BY <1>o, Moves
  <1>2. RegularSats(now) /\ TableInv /\ CountInv /\ UsedInv /\ RightInv BY DEF SatInv
  <1>3. Rules BY <1>2, RulesHold
  <1>s. in' = in => S' = S BY DEF S
  <1>e. Fresh => epoch' # epoch
    <2>1. epoch \in Nat BY SizesType DEF TypeOK
    <2> QED BY <2>1 DEF Fresh
  <1>n. Wrote \/ Went \/ Got \/ Added \/ Looked \/ Ended \/ Still =>
           now' = now /\ epoch' = epoch /\ ~Fresh
    BY <1>e DEF Wrote, Went, Got, Added, Looked, Ended, Still
  <1>m. now' = now => /\ Told' = Told /\ Counted' = Counted /\ Marking' = Marking
                      /\ InView(now)' = InView(now) /\ InFix(now)' = InFix(now)
                      /\ RegularSats(now)'
    BY <1>1, <1>2, NowSame
  <1>p. ~Fresh => \A s \in Told :
           Pending(s) => Pending(s)' \/ (Looked /\ rpc = "parse" /\ S = s)
    BY <1>o, PendingStep
  <1>b. ~Outside => \A s \in Told : Pending(s)' => Pending(s) BY <1>o, PendingBack
  <1>c. \A s \in Counted : s \in Told BY DEF Counted
  <1>g. \A s \in Marking : s \in Told BY DEF Marking
  <1>u. ASSUME used' = used, ~Outside, ~Outside', now' = now,
               \A s \in Marking : Pending(s)' <=> Pending(s)
        PROVE  UsedInv'
    BY <1>1, <1>2, <1>m, <1>u, MtkSame DEF UsedInv
  <1>4. CASE Fresh \/ Wrote \/ Went \/ (Still /\ Outside)
    <2>1. /\ Outside /\ Outside' /\ rpc' # "sv" /\ used' = used /\ svs' = svs
          /\ num_svs' \in {num_svs, 0}
      BY <1>4 DEF Fresh, Wrote, Went, Still, Same, Outside
    <2>2. TableInv' /\ CountInv' BY <2>1 DEF TableInv, CountInv
    <2>3. UsedInv' BY <1>2, <2>1 DEF UsedInv
    <2>4. RegularSats(now)' BY <1>1, <1>4, <1>m, <1>n, FreshSats
    <2>5. RightInv'
      <3>1. CASE Fresh
        <4>1. rest' = now' BY <3>1 DEF Fresh
        <4>2. now' = <<>> => InView(now)' = {} BY DEF InView
        <4> QED BY <4>1, <4>2 DEF RightInv
      <3>2. CASE Wrote
        <4>1. dev' = dev \o Chars(Head(rest)) /\ dev \in Seq(Char) /\ Head(rest) \in Sentence
          BY <3>2 DEF Wrote, TypeOK
        <4>2. Len(dev') = Len(dev) + Head(rest).len BY <4>1, WriteElements
        <4>3. Head(rest).len \in Nat \ {0} BY <4>1, CharsType
        <4>4. Len(dev) \in Nat BY <4>1
        <4>5. Len(dev') # 0 BY <4>2, <4>3, <4>4
        <4> QED BY <4>5 DEF RightInv
      <3>3. CASE Went \/ Still
        <4>1. dev' = dev /\ rest' = rest /\ now' = now /\ epoch' = epoch
          BY <3>3 DEF Went, Still
        <4>2. Right => Right'
          BY <1>1, <1>m, <2>1, <4>1, MtkSame DEF Right, Reported, Marked
        <4> QED BY <1>2, <1>m, <2>1, <4>1, <4>2 DEF RightInv
      <3> QED BY <1>4, <3>1, <3>2, <3>3
    <2> QED BY <2>2, <2>3, <2>4, <2>5 DEF SatInv
  <1>5. CASE Got
    <2>1. /\ Outside /\ ~Outside' /\ now' = now /\ dev # <<>> /\ rpc' = "feed"
          /\ used' = used /\ num_svs' = num_svs /\ ~Looked /\ ~Fresh
      BY <1>5, <1>n DEF Got, Same, Outside, Looked
    <2>2. \A s \in Told : Pending(s)' BY <1>p, <2>1 DEF TurnInv
    <2>3. used' = {} /\ num_svs' = 0 BY <1>2, <2>1 DEF UsedInv
    <2>4. Done' = {} BY <1>c, <1>m, <2>1, <2>2 DEF Done
    <2>5. Found' = {}
      <3>1. Part' = {} BY <2>1 DEF Part
      <3>2. \A q : q \notin Found' BY <1>1, <2>4, <3>1, FoundNext
      <3> QED BY <3>2
    <2>6. ~Open' BY <2>1, <2>4 DEF Open
    <2>7. Filled' = 0 BY <2>3, <2>6 DEF Filled
    <2>8. TableInv'
      <3>1. 0..Filled' - 1 = {} BY <2>7
      <3>2. Filled' \in 0..MAX_SVS' BY <1>1, <2>7, SizesType, MtkSame
      <3> QED BY <2>5, <3>1, <3>2 DEF TableInv, Table
    <2>9. CountInv' BY <2>1, <2>4 DEF CountInv
    <2>10. UsedInv' BY <1>g, <1>m, <2>1, <2>2, <2>3 DEF UsedInv
    <2>11. RightInv' BY <2>1 DEF RightInv
    <2> QED BY <1>m, <2>1, <2>8, <2>9, <2>10, <2>11 DEF SatInv
  <1>6. CASE Added \/ (Still /\ ~Outside /\ rpc # "sv")
    <2>1. /\ ~Outside /\ ~Outside' /\ rpc # "sv" /\ rpc' # "sv" /\ Same /\ ~Fresh
          /\ ~(Looked /\ rpc = "parse")
      BY <1>6, <1>n DEF Added, Still, Outside, Looked
    <2>2. \A s \in Told : Pending(s)' <=> Pending(s) BY <1>b, <1>p, <2>1
    <2>3. now' = now /\ epoch' = epoch BY <1>6, <1>n
    <2>4. TableInv' /\ CountInv'
      BY <1>1, <1>2, <1>c, <2>1, <2>2, <2>3, SatsSame DEF Same
    <2>5. UsedInv' BY <1>g, <1>u, <2>1, <2>2, <2>3 DEF Same
    <2>6. RightInv' BY <2>1 DEF RightInv
    <2> QED BY <1>m, <2>3, <2>4, <2>5, <2>6 DEF SatInv
  <1>7. CASE Still /\ rpc = "sv"
    <2>1. /\ ~Outside /\ ~Outside' /\ rpc' = "sv" /\ Same /\ ~Fresh /\ in' = in
          /\ now' = now /\ epoch' = epoch /\ rpc # "parse"
      BY <1>7, <1>n DEF Still, Outside
    <2>2. \A s \in Told : Pending(s)' <=> Pending(s) BY <1>b, <1>p, <2>1
    <2>3. S' = S BY <1>s, <2>1
    <2>4. Done' = Done BY <1>c, <1>m, <1>7, <2>1, <2>2, <2>3 DEF Done
    <2>5. Part' = Part BY <1>1, <1>7, <2>1, <2>3, MtkSame DEF Part, Same, svId
    <2>6. Found' = Found
      <3>1. \A q : q \in Found' <=> q \in Found BY <1>1, <2>4, <2>5, FoundIn, FoundNext
      <3>2. Found' \subseteq Found /\ Found \subseteq Found' BY <3>1
      <3> QED BY <3>2
    <2>7. Filled' = Filled
      <3>1. Open /\ Open' BY <1>7, <2>1 DEF Open
      <3> QED BY <2>1, <3>1 DEF Filled, Same
    <2>8. TableInv' BY <1>1, <1>2, <1>m, <2>1, <2>6, <2>7, MtkSame DEF TableInv, Table, Same
    <2>9. CountInv'
      <3>1. Counts(S)' <=> Counts(S) BY <1>1, <2>3 DEF Counts
      <3> QED BY <1>2, <1>7, <2>1, <2>3, <3>1 DEF CountInv, Same
    <2>10. UsedInv' BY <1>g, <1>u, <2>1, <2>2 DEF Same
    <2>11. RightInv' BY <2>1 DEF RightInv
    <2> QED BY <1>m, <2>1, <2>8, <2>9, <2>10, <2>11 DEF SatInv
  <1>8. CASE Looked
    <2>1. /\ ~Outside /\ ~Outside' /\ now' = now /\ epoch' = epoch /\ ~Fresh
          /\ in' = in /\ Busy
      BY <1>8, <1>n DEF Looked, Outside, Busy
    <2>2. \A s \in Told : s # S \/ rpc # "parse" => (Pending(s)' <=> Pending(s))
      BY <1>b, <1>p, <2>1
    <2>3. RightInv' BY <2>1 DEF RightInv
    <2>4. CASE GSV
      <3>1. rpc = "parse" /\ used' = used BY <2>4 DEF GSV, Parsing
      <3>2. TableInv' /\ CountInv'
        BY <1>1, <1>2, <1>3, <1>c, <2>1, <2>2, <2>4, GsvStep
      <3>3. \A g \in Marking : g # S
        <4>1. S.id = "GSV" BY <2>4 DEF GSV, Parsing
        <4> QED BY <4>1 DEF Marking, Marks
      <3>4. UsedInv' BY <1>g, <1>u, <2>1, <2>2, <3>1, <3>3
      <3> QED BY <1>m, <2>1, <2>3, <3>2, <3>4 DEF SatInv
    <2>5. CASE nmea_reader_update_sv_status
      <3>1. rpc = "sv" /\ used' = used BY <2>5 DEF nmea_reader_update_sv_status
      <3>2. TableInv' /\ CountInv'
        BY <1>1, <1>2, <1>3, <1>c, <2>1, <2>2, <2>5, <3>1, UpdateStep
      <3>3. UsedInv' BY <1>g, <1>u, <2>1, <2>2, <3>1
      <3> QED BY <1>m, <2>1, <2>3, <3>2, <3>3 DEF SatInv
    <2>6. CASE GSVEnd
      <3>1. rpc = "sv" /\ used' = used BY <2>6 DEF GSVEnd
      <3>2. TableInv' /\ CountInv'
        BY <1>1, <1>2, <1>3, <1>c, <2>1, <2>2, <2>6, <3>1, GsvEndStep
      <3>3. UsedInv' BY <1>g, <1>u, <2>1, <2>2, <3>1
      <3> QED BY <1>m, <2>1, <2>3, <3>2, <3>3 DEF SatInv
    <2>7. CASE ~GSV /\ rpc = "parse"
      <3>1. /\ UsedInv' /\ rpc' # "sv" /\ ~Counts(S)
            /\ UNCHANGED <<sv_count, num_svs, sv_list>>
        BY <1>1, <1>2, <1>3, <1>8, <2>2, <2>7, OtherStep
      <3>2. \A s \in Counted : Pending(s)' <=> Pending(s)
        BY <2>2, <3>1 DEF Counted
      <3>3. TableInv' /\ CountInv'
        BY <1>1, <1>2, <2>1, <2>7, <3>1, <3>2, SatsSame
      <3> QED BY <1>m, <2>1, <2>3, <3>1, <3>3 DEF SatInv
    <2>8. rpc = "parse" \/ nmea_reader_update_sv_status \/ GSVEnd
      BY <1>8 DEF Looked, GGA, GSA, RMC, GSV, ACCURACY, Unknown, Parsing
    <2> QED BY <2>4, <2>5, <2>6, <2>7, <2>8
  <1>9. CASE Ended
    <2>1. /\ ~Outside /\ now' = now /\ epoch' = epoch /\ ~Fresh /\ rpc = "report"
          /\ rpc' = NextChar(buff) /\ ReportSvs /\ sv_list' = sv_list
      BY <1>9, <1>n DEF Ended, Outside
    <2>2. \A s \in Told : Pending(s)' <=> Pending(s) BY <1>b, <1>p, <2>1
    <2>3. CASE buff # <<>>
      <3>1. ~end_tag BY <2>1, <2>3 DEF ReadInv, LineInv
      <3>2. UNCHANGED <<sv_count, num_svs, used>> BY <2>1, <3>1 DEF ReportSvs
      <3>3. rpc' = "feed" /\ ~Outside' BY <2>1, <2>3 DEF NextChar, Outside
      <3>4. TableInv' /\ CountInv'
        BY <1>1, <1>2, <1>c, <2>1, <2>2, <3>2, <3>3, SatsSame
      <3>5. UsedInv' BY <1>g, <1>u, <2>1, <2>2, <3>2, <3>3
      <3>6. RightInv' BY <3>3 DEF RightInv
      <3> QED BY <1>m, <2>1, <3>4, <3>5, <3>6 DEF SatInv
    <2>4. CASE buff = <<>>
      <3>1. used' = {} /\ num_svs' = 0 /\ (InView(now)' # {} => Right')
        BY <1>1, <1>2, <1>3, <1>9, <2>4, ReportStep
      <3>2. rpc' = "read" /\ Outside' BY <2>1, <2>4 DEF NextChar, Outside
      <3>3. TableInv' /\ CountInv' BY <3>2 DEF TableInv, CountInv
      <3>4. UsedInv' BY <3>1, <3>2 DEF UsedInv
      <3>5. RightInv' BY <3>1 DEF RightInv
      <3> QED BY <1>m, <2>1, <3>3, <3>4, <3>5 DEF SatInv
    <2> QED BY <2>3, <2>4
  <1> QED BY <1>1, <1>4, <1>5, <1>6, <1>7, <1>8, <1>9

\* At first there is nothing in view.
LEMMA SatInit == Init => TurnInv /\ SatInv
  <1> SUFFICES ASSUME Init PROVE TurnInv /\ SatInv
    OBVIOUS
  <1>1. /\ rest = <<>> /\ dev = <<>> /\ now = <<>> /\ rpc = "poll"
        /\ used = {} /\ num_svs = 0
    BY DEF Init
  <1>2. DOMAIN now = {} BY <1>1
  <1>3. InView(now) = {} BY <1>2 DEF InView
  <1>4. InFix(now) = {} BY <1>2 DEF InFix
  <1>5. RegularSats(now) BY <1>2, <1>3, <1>4 DEF RegularSats
  <1>6. TurnInv BY <1>1 DEF TurnInv, Outside, Busy
  <1>7. TableInv /\ CountInv /\ UsedInv /\ RightInv
    BY <1>1, <1>3 DEF TableInv, CountInv, UsedInv, RightInv, Outside
  <1> QED BY <1>5, <1>6, <1>7 DEF SatInv

\* The inductive invariant: SatInv is claimed where the epochs are regular.
SatIInv == LocIInv /\ (OneRead => TurnInv) /\ (RegularSatellites => SatInv)

\* The link and the kind of callbacks do not change, so neither do the
\* conditions.
LEMMA SatIInvAlways == Spec => []SatIInv
  <1>1. Init => (OneRead => TurnInv) /\ (RegularSatellites => SatInv) BY SatInit
  <1>2. LocIInv /\ (OneRead => TurnInv) /\ (RegularSatellites => SatInv) /\ [Next]_vars
           => ((OneRead => TurnInv) /\ (RegularSatellites => SatInv))'
    <2> SUFFICES ASSUME LocIInv, OneRead => TurnInv, RegularSatellites => SatInv,
                        [Next]_vars
                 PROVE  ((OneRead => TurnInv) /\ (RegularSatellites => SatInv))'
      OBVIOUS
    <2>1. link' = link /\ mtk' = mtk
      BY DEF Next, vars, env, NewEpoch, WriteSentence, SkipChunk, GpsEvent, ReadChunk,
         WouldBlock, Start, Stop, Restart, Swallow, LineFull, AddChar, GGA, GSA,
         RMC, GSV, ACCURACY, Unknown, nmea_reader_update_sv_status, GSVEnd, Report
    <2>2. OneRead' => OneRead
      BY <2>1 DEF OneRead, Burst, Prompt, Interval, BUFF_SIZE
    <2>3. RegularSatellites' => RegularSatellites
      <3>1. \A k : RegularSats(k)' => RegularSats(k)
        <4>1. \A k : InView(k)' = InView(k) BY <2>1, MtkSame DEF InView
        <4>2. \A k : InFix(k)' = InFix(k) BY <2>1, MtkSame DEF InFix
        <4> QED BY <2>1, <4>1, <4>2, MtkSame DEF RegularSats
      <3> QED BY <2>1, <2>2, <3>1 DEF RegularSatellites
    <2>4. ASSUME OneRead PROVE TurnInv' BY <2>4, TurnStep DEF LocIInv
    <2>5. ASSUME RegularSatellites PROVE SatInv'
      BY <2>5, SatStep DEF LocIInv, RegularSatellites
    <2> QED BY <2>2, <2>3, <2>4, <2>5
  <1> QED BY <1>1, <1>2, LocIInvAlways, PTL DEF Spec, SatIInv

-----------------------------------------------------------------------------
(* The theorems. *)

\* Whatever MNL writes and however the chunks cut it, the reader keeps to its
\* types: nmea_reader_addc never lets a line outgrow in[], sv_count never
\* exceeds the table, and no fix is stamped before a date is known.
THEOREM NmeaTypeCorrect == Spec => []TypeOK
  <1>1. Init => TypeOK /\ RpcInv BY TypeInit
  <1>2. TypeOK /\ RpcInv /\ [Next]_vars => (TypeOK /\ RpcInv)' BY TypeStep
  <1> QED BY <1>1, <1>2, PTL DEF Spec

\* nmea_reader_addc never puts characters of two sentences on one line, also
\* where a line overflows, a chunk is thrown away or ends within a sentence.
THEOREM LineIntactTheorem == Spec => []LineIntact
  <1> DEFINE IInv == TypeOK /\ RpcInv /\ StreamInv
  <1>1. Init => IInv BY TypeInit, StreamInit
  <1>2. IInv /\ [Next]_vars => IInv' BY TypeStep, StreamStep
  <1>3. IInv => LineIntact BY DEF StreamInv
  <1> QED BY <1>1, <1>2, <1>3, PTL DEF Spec

\* Where MNL writes regular epochs and each is read in one chunk, the location
\* nmea_reader_parse hands to location_cb never mixes two epochs: the flags
\* cleared after a report and the date of RMC see to it.
THEOREM LocationAlwaysWhole == Spec => []LocationWhole
  <1>1. LocIInv => LocationWhole BY DEF LocIInv, LocInv, LocationWhole
  <1> QED BY <1>1, LocIInvAlways, PTL

\* And by the end of the chunk it has been handed over with every field of the
\* epoch, although nmea_reader_parse reports on the last line only, whichever
\* sentence that is.
THEOREM LocationAlwaysReported == Spec => []LocationReported
  <1>1. LocIInv => LocationReported
    <2> SUFFICES ASSUME LocIInv, RegularFixes, Idle, NEW f \in Given(now)
                 PROVE  f \in loc.flags /\ loc.data[f] = epoch
      BY DEF LocationReported
    <2>1. DoneInv BY DEF LocIInv, LocInv
    <2>2. PICK s \in Told : f \in s.has \cap Field BY DEF Given, Told
    <2> QED BY <2>1, <2>2 DEF DoneInv, Outside, Idle
  <1> QED BY <1>1, LocIInvAlways, PTL

\* Where the satellites of the epochs are regular too, by the end of the chunk
\* nmea_reader_parse has handed those in view to the framework, each once and
\* up to the size of the table, marked as used in the fix exactly when a GSA
\* sentence names them, although the count of a set is carried from sentence to
\* sentence and nmea_reader_update_sv_status fills the table one by one.
THEOREM SatellitesAlwaysReported == Spec => []SatellitesReported
  <1>1. SatIInv => SatellitesReported
    <2> SUFFICES ASSUME SatIInv, RegularSatellites, Idle, InView(now) # {}
                 PROVE  Right
      BY DEF SatellitesReported, Right
    <2> QED BY DEF SatIInv, SatInv, RightInv, Idle, Outside
  <1> QED BY <1>1, SatIInvAlways, PTL
=============================================================================
