-------------------------- MODULE WpaDriverProofs --------------------------
(***************************************************************************)
(* Proofs about WpaDriver.  Each property is inductive together with the   *)
(* types of the variables it reads; the lemmas say what one step may do to *)
(* each group of variables, and the theorems combine them.  What a report  *)
(* is made of is shown by induction over its lines.                        *)
(***************************************************************************)
EXTENDS WpaDriver, Induction, SequenceTheorems, TLAPS

\* What any step does to the variables of P2P's channels.
ChannelStep ==
    \/ \E freq \in Freqs \cup {0} : p2p_wfd_sink_config_scc(freq)
    \/ UNCHANGED <<op, channels, scc>>

\* What any step does to the error count.
ErrorStep == PrivateCmd \/ UNCHANGED errs

\* What any step does to the scan loading timeout.
ScanStep ==
    \/ timeouts' = <<ScanTimeout>> /\ scan' = "pending" /\ quiet' = 0
    \/ timeouts' = <<>> /\ scan' = "lost" /\ quiet' = 0
    \/ Second \/ ScanLoadingTimeout
    \/ UNCHANGED timer

\* What any step does to the block lists.
BlockStep ==
    \/ \E a \in Stations, on \in BOOLEAN : BlockStation(a, on)
    \/ UNCHANGED block

\* What any step does to the channel list and the driver's country.
ListStep ==
    /\ country' \in Countries \cup {country}
    /\ \/ ChannelListChanged
       \/ doubt' = TRUE /\ UNCHANGED cfg
       \/ UNCHANGED lists

\* What any step does to the state of the interface.
PowerStep ==
    /\ up' \in BOOLEAN \cup {up}
    /\ announced' \in BOOLEAN \cup {announced}

\* What any step does to the interfaces' links.
LinkStep ==
    \/ \E i \in Iface, link \in Links : ifs' = [ifs EXCEPT ![i] = link]
    \/ UNCHANGED ifs

\* What any step does to the last report.
ReportStep ==
    \/ \E kind \in {"statistics", "link"}, n \in 0..MaxBuf : Report(kind, n)
    \/ UNCHANGED report

\* What any step does to the other variables.
Switches == {"rxfilter", "smt", "band", "wapi", "sigma", "wfd", "beamplus",
             "suspend", "resume", "scan"}
SettingStep ==
    /\ \/ \E mcc \in BOOLEAN : Mcc(mcc)
       \/ UNCHANGED <<multi, concurrent>>
    /\ use_mcc' \in BOOLEAN \cup {use_mcc}
    /\ \/ \E n \in Capabilities : dev_capab' = n % 256
       \/ UNCHANGED dev_capab
    /\ sw' \in Switches \cup {sw}

\* The interfaces' links, on which the shared frequencies rest.
LinksOK == ifs \in [Iface -> Links]

\* The frequencies an interface can be on are among those of the model
\* (mtk_get_shared_radio_freqs).
LEMMA SharedInFreqs == LinksOK => SharedFreqs \subseteq Freqs \cup {0}
<1> SUFFICES ASSUME LinksOK, NEW i \in Iface, ifs[i].mode # "none"
             PROVE  ifs[i].freq \in Freqs
  BY Zenon DEF SharedFreqs, InUse
<1>1. ifs[i] \in Links
  BY DEF LinksOK
<1>2. ifs[i] # NoLink
  BY DEF NoLink
<1>3. ifs[i].freq \in ApFreqs
  BY <1>1, <1>2 DEF Links
<1> QED
  BY <1>3, WpaAssumption

\* Every step is one of these, as seen from each group of variables.
LEMMA StepEffects ==
    ASSUME [Next]_vars, LinksOK
    PROVE  /\ ErrorStep /\ ScanStep /\ BlockStep /\ ListStep /\ PowerStep
           /\ ChannelStep /\ LinkStep /\ ReportStep /\ SettingStep
           /\ UNCHANGED fixed
<1> USE DEF ErrorStep, ScanStep, BlockStep, ListStep, PowerStep, ChannelStep, LinkStep,
            ReportStep, SettingStep, fixed,
            radio, p2p, errs, timer, block, lists, power, drv
<1>1. CASE Unsupported
  BY <1>1, Zenon DEF Unsupported
<1>2. CASE Miracast
  <2>1. PICK freq \in SharedFreqs \cup Freqs : p2p_wfd_sink_config_scc(freq)
    BY <1>2 DEF Miracast
  <2>2. freq \in Freqs \cup {0}
    BY <2>1, SharedInFreqs
  <2> QED
    BY <1>2, <2>1, <2>2, Zenon DEF Miracast
<1>3. CASE SetScanLoading
  <2>1. sw' \in Switches \cup {sw}
    BY <1>3, Zenon DEF SetScanLoading, Switches
  <2> QED
    BY <1>3, <2>1, Zenon DEF SetScanLoading
<1>4. ASSUME NEW c \in DOMAIN SwitchOption \cup {"rxfilter", "smt"},
             SwitchCmd(c)
      PROVE  /\ ErrorStep /\ ScanStep /\ BlockStep /\ ListStep /\ PowerStep
             /\ ChannelStep /\ LinkStep /\ ReportStep /\ SettingStep
             /\ UNCHANGED fixed
  <2>1. c \in Switches
    BY DEF Switches, SwitchOption
  <2>2. sw' \in Switches \cup {sw}
    BY <1>4, <2>1, Zenon DEF SwitchCmd
  <2> QED
    BY <1>4, <2>2, Zenon DEF SwitchCmd
<1>5. ASSUME NEW c \in {"suspend", "resume"}, SetSuspendMode(c)
      PROVE  /\ ErrorStep /\ ScanStep /\ BlockStep /\ ListStep /\ PowerStep
             /\ ChannelStep /\ LinkStep /\ ReportStep /\ SettingStep
             /\ UNCHANGED fixed
  <2>1. c \in Switches
    BY DEF Switches
  <2>2. sw' \in Switches \cup {sw}
    BY <1>5, <2>1, Zenon DEF SetSuspendMode
  <2> QED
    BY <1>5, <2>2, Zenon DEF SetSuspendMode
<1>6. ASSUME NEW a \in Stations, NEW on \in BOOLEAN, BlockStation(a, on)
      PROVE  /\ ErrorStep /\ ScanStep /\ BlockStep /\ ListStep /\ PowerStep
             /\ ChannelStep /\ LinkStep /\ ReportStep /\ SettingStep
             /\ UNCHANGED fixed
  <2>1. UNCHANGED <<fixed, radio, p2p, errs, timer, sw, lists, power, report>>
    BY <1>6 DEF BlockStation
  <2> QED
    BY <1>6, <2>1, Zenon
<1>7. ASSUME NEW b \in BOOLEAN, UseMcc(b)
      PROVE  /\ ErrorStep /\ ScanStep /\ BlockStep /\ ListStep /\ PowerStep
             /\ ChannelStep /\ LinkStep /\ ReportStep /\ SettingStep
             /\ UNCHANGED fixed
  <2>1. PICK freq \in IF b THEN {0} ELSE SharedFreqs :
            p2p_wfd_sink_config_scc(freq)
    BY <1>7 DEF UseMcc
  <2>2. freq \in Freqs \cup {0}
    BY <2>1, SharedInFreqs
  <2> QED
    BY <1>7, <2>1, <2>2, Zenon DEF UseMcc
<1>8. ASSUME NEW b \in BOOLEAN, Mcc(b)
      PROVE  /\ ErrorStep /\ ScanStep /\ BlockStep /\ ListStep /\ PowerStep
             /\ ChannelStep /\ LinkStep /\ ReportStep /\ SettingStep
             /\ UNCHANGED fixed
  BY <1>8, Zenon DEF Mcc
<1>9. ASSUME NEW b \in BOOLEAN, StartStop(b)
      PROVE  /\ ErrorStep /\ ScanStep /\ BlockStep /\ ListStep /\ PowerStep
             /\ ChannelStep /\ LinkStep /\ ReportStep /\ SettingStep
             /\ UNCHANGED fixed
  <2>1. "wlan0" \in Iface /\ NoLink \in Links
    BY DEF Iface, Links
  <2>2. ifs' \in {ifs, [ifs EXCEPT !["wlan0"] = NoLink]}
    BY <1>9 DEF StartStop
  <2> QED
    BY <1>9, <2>1, <2>2, Zenon DEF StartStop
<1>10. ASSUME NEW c \in Countries, Country(c)
      PROVE  /\ ErrorStep /\ ScanStep /\ BlockStep /\ ListStep /\ PowerStep
             /\ ChannelStep /\ LinkStep /\ ReportStep /\ SettingStep
             /\ UNCHANGED fixed
  BY <1>10, Zenon DEF Country
<1>11. ASSUME NEW n \in Capabilities, SetCapability(n)
      PROVE  /\ ErrorStep /\ ScanStep /\ BlockStep /\ ListStep /\ PowerStep
             /\ ChannelStep /\ LinkStep /\ ReportStep /\ SettingStep
             /\ UNCHANGED fixed
  BY <1>11, Zenon DEF SetCapability
<1>12. ASSUME NEW kind \in {"statistics", "link"}, NEW n \in 0..MaxBuf,
              Report(kind, n)
      PROVE  /\ ErrorStep /\ ScanStep /\ BlockStep /\ ListStep /\ PowerStep
             /\ ChannelStep /\ LinkStep /\ ReportStep /\ SettingStep
             /\ UNCHANGED fixed
  BY <1>12, Zenon DEF Report
<1>13. CASE Second
  BY <1>13, Zenon DEF Second
<1>14. CASE ScanLoadingTimeout
  BY <1>14, Zenon DEF ScanLoadingTimeout
<1>15. CASE Connect
  BY <1>15, Zenon DEF Connect
<1>16. CASE UNCHANGED vars
  BY <1>16, Zenon DEF vars
<1> QED
  BY <1>1, <1>2, <1>3, <1>4, <1>5, <1>6, <1>7, <1>8, <1>9, <1>10, <1>11,
     <1>12, <1>13, <1>14, <1>15, <1>16, Zenon DEF Next, driver_cmd

-----------------------------------------------------------------------------

\* The links stay links.
LEMMA LinksInv == Spec => []LinksOK
<1>1. Init => LinksOK
  BY DEF Init, LinksOK, Links
<1>2. LinksOK /\ [Next]_vars => LinksOK'
  <2> SUFFICES ASSUME LinksOK, [Next]_vars PROVE LinksOK'
    OBVIOUS
  <2>1. LinkStep
    BY StepEffects
  <2> QED
    BY <2>1 DEF LinkStep, LinksOK
<1> QED
  BY <1>1, <1>2, PTL DEF Spec

\* Every frequency the table knows is converted to the channel that has it
\* (priv_p2p_freq_to_channel).
LEMMA FreqToChannel ==
    ASSUME NEW freq \in Nat, Known(freq),
           NEW c \in priv_p2p_freq_to_channel(freq)
    PROVE  ChannelFreq(c) = freq
<1>1. CASE freq \in {2407 + 5 * n : n \in 1..13}
  <2>1. PICK n \in 1..13 : freq = 2407 + 5 * n
    BY <1>1
  <2>2. freq \in 2412..2472 /\ (freq - 2407) % 5 = 0
        /\ (freq - 2407) \div 5 = n
    BY <2>1
  <2>3. freq # 2484 /\ freq < 5180
    BY <2>2
  <2>4. priv_p2p_freq_to_channel(freq) = Chan(81, (freq - 2407) \div 5)
    BY <2>2, <2>3 DEF priv_p2p_freq_to_channel
  <2>5. c = <<81, n>>
    BY <2>2, <2>4 DEF Chan
  <2> QED
    BY <2>1, <2>5 DEF ChannelFreq
<1>2. CASE freq = 2484
  <2>1. c = <<82, 14>>
    BY <1>2 DEF priv_p2p_freq_to_channel, Chan
  <2> QED
    BY <1>2, <2>1 DEF ChannelFreq
<1>3. CASE \E n \in 9..12 : freq = 5000 + 20 * n
  <2>1. PICK n \in 9..12 : freq = 5000 + 20 * n
    BY <1>3
  <2>2. freq \in 5180..5240 /\ freq % 5 = 0 /\ (freq - 5000) \div 5 = 4 * n
    BY <2>1
  <2>3. c = <<115, 4 * n>>
    BY <2>1, <2>2 DEF priv_p2p_freq_to_channel, Chan
  <2> QED
    BY <2>1, <2>3 DEF ChannelFreq
<1>4. CASE \E n \in 37..40 : freq = 5005 + 20 * n
  <2>1. PICK n \in 37..40 : freq = 5005 + 20 * n
    BY <1>4
  <2>2. freq \in 5745..5805 /\ freq % 5 = 0 /\ (freq - 5000) \div 5 = 4 * n + 1
    BY <2>1
  <2>3. c = <<124, 4 * n + 1>>
    BY <2>1, <2>2 DEF priv_p2p_freq_to_channel, Chan
  <2> QED
    BY <2>1, <2>3 DEF ChannelFreq
<1>5. CASE BuiltIn("P2P_5G") /\ \E n \in 13..16 : freq = 5000 + 20 * n
  <2>1. PICK n \in 13..16 : freq = 5000 + 20 * n
    BY <1>5
  <2>2. freq \in 5260..5320 /\ (freq - 5000) \div 5 = 4 * n
    BY <2>1
  <2>3. c = <<118, 4 * n>>
    BY <1>5, <2>1, <2>2 DEF priv_p2p_freq_to_channel, Chan
  <2> QED
    BY <2>1, <2>3 DEF ChannelFreq
<1>6. CASE BuiltIn("P2P_5G") /\ \E n \in 25..35 : freq = 5000 + 20 * n
  <2>1. PICK n \in 25..35 : freq = 5000 + 20 * n
    BY <1>6
  <2>2. freq \in 5500..5700 /\ (freq - 5000) \div 5 = 4 * n
    BY <2>1
  <2>3. c = <<121, 4 * n>>
    BY <1>6, <2>1, <2>2 DEF priv_p2p_freq_to_channel, Chan
  <2> QED
    BY <2>1, <2>3 DEF ChannelFreq
<1>7. CASE BuiltIn("P2P_5G") /\ freq \in {5825, 5845}
  <2>1. c = <<125, (freq - 5000) \div 5>>
    BY <1>7 DEF priv_p2p_freq_to_channel, Chan
  <2> QED
    BY <1>7, <2>1 DEF ChannelFreq
<1>8. \/ freq \in {2407 + 5 * n : n \in 1..13} \/ freq = 2484
      \/ \E n \in 9..12 : freq = 5000 + 20 * n
      \/ \E n \in 37..40 : freq = 5005 + 20 * n
      \/ BuiltIn("P2P_5G") /\ \E n \in 13..16 : freq = 5000 + 20 * n
      \/ BuiltIn("P2P_5G") /\ \E n \in 25..35 : freq = 5000 + 20 * n
      \/ BuiltIn("P2P_5G") /\ freq \in {5825, 5845}
  BY DEF Known
<1> QED
  BY <1>1, <1>2, <1>3, <1>4, <1>5, <1>6, <1>7, <1>8

\* A P2P tied to a known frequency operates on exactly that one.
THEOREM AlwaysOnSharedChannel == Spec => []OnSharedChannel
<1>1. Init => OnSharedChannel
  BY DEF Init, OnSharedChannel, Known
<1>2. OnSharedChannel /\ LinksOK /\ [Next]_vars => OnSharedChannel'
  <2> SUFFICES ASSUME OnSharedChannel, LinksOK, [Next]_vars, Known(scc)'
               PROVE  ChannelFreq(op)' = scc'
    BY DEF OnSharedChannel
  <2>1. ChannelStep /\ build' = build
    BY StepEffects DEF fixed
  <2>2. Known(scc')
    BY <2>1 DEF Known, BuiltIn
  <2>3. ASSUME NEW freq \in Freqs \cup {0}, p2p_wfd_sink_config_scc(freq)
        PROVE  ChannelFreq(op)' = scc'
    <3>1. scc' = freq /\ freq \in Nat
      BY <2>3, WpaAssumption DEF p2p_wfd_sink_config_scc
    <3>2. freq # 0
      BY <2>2, <3>1 DEF Known
    <3>3. op' \in priv_p2p_freq_to_channel(freq)
      BY <2>3, <3>2 DEF p2p_wfd_sink_config_scc
    <3>4. ChannelFreq(op') = freq
      BY <2>2, <3>1, <3>3, FreqToChannel
    <3> QED
      BY <3>1, <3>4 DEF ChannelFreq
  <2>4. CASE UNCHANGED <<op, channels, scc>>
    BY <2>2, <2>4 DEF OnSharedChannel, ChannelFreq
  <2> QED
    BY <2>1, <2>3, <2>4 DEF ChannelStep
<1> QED
  BY <1>1, <1>2, LinksInv, PTL DEF Spec

\* The count of errors and the types it needs.
ErrorsInv == drv_errors \in Nat /\ fails \in Nat /\ ErrorsCounted

\* The count and its types, in every state.
LEMMA ErrorsInvAlways == Spec => []ErrorsInv
<1> DEFINE L == DRV_NUMBER_SEQUENTIAL_ERRORS + 1
<1>0. L \in Nat \ {0} /\ DRV_NUMBER_SEQUENTIAL_ERRORS \in Nat
  BY WpaAssumption
<1>1. Init => ErrorsInv
  <2> SUFFICES ASSUME Init PROVE ErrorsInv
    OBVIOUS
  <2>1. 0 \in 0..fails /\ fails = 0 * L + drv_errors
    BY <1>0 DEF Init
  <2> QED
    BY <1>0, <2>1 DEF Init, ErrorsInv, ErrorsCounted
<1>2. ErrorsInv /\ LinksOK /\ [Next]_vars => ErrorsInv'
  <2> SUFFICES ASSUME ErrorsInv, LinksOK, [Next]_vars PROVE ErrorsInv'
    OBVIOUS
  <2>1. ErrorStep
    BY StepEffects
  <2>2. CASE fails' = fails + 1 /\ wpa_driver_send_hang_msg
    <3>1. PICK rounds \in 0..fails : fails = rounds * L + drv_errors
      BY DEF ErrorsInv, ErrorsCounted
    <3>2. /\ fails \in Nat /\ fails' = fails + 1 /\ drv_errors \in Nat
          /\ drv_errors <= DRV_NUMBER_SEQUENTIAL_ERRORS
      BY <2>2 DEF ErrorsInv, ErrorsCounted
    <3>3. CASE drv_errors = DRV_NUMBER_SEQUENTIAL_ERRORS
      <4>1. drv_errors' = 0
        BY <1>0, <2>2, <3>3 DEF wpa_driver_send_hang_msg
      <4>2. fails' = (rounds + 1) * L + 0
        BY <1>0, <3>1, <3>2, <3>3
      <4>3. rounds + 1 \in 0..fails'
        BY <3>1, <3>2
      <4> QED
        BY <1>0, <3>2, <4>1, <4>2, <4>3 DEF ErrorsInv, ErrorsCounted
    <3>4. CASE drv_errors # DRV_NUMBER_SEQUENTIAL_ERRORS
      <4>1. /\ drv_errors' = drv_errors + 1
            /\ drv_errors' <= DRV_NUMBER_SEQUENTIAL_ERRORS
        BY <1>0, <2>2, <3>2, <3>4 DEF wpa_driver_send_hang_msg
      <4>2. rounds * L \in Nat
        BY <1>0, <3>1, <3>2
      <4>3. rounds \in 0..fails' /\ fails' = rounds * L + drv_errors'
        <5> HIDE DEF L
        <5> QED BY <3>1, <3>2, <4>1, <4>2
      <4> QED
        BY <1>0, <3>2, <4>1, <4>3 DEF ErrorsInv, ErrorsCounted
    <3> QED
      BY <3>3, <3>4
  <2>3. CASE fails' = 0 /\ drv_errors' = 0
    <3>1. 0 \in 0..fails' /\ fails' = 0 * L + drv_errors'
      BY <1>0, <2>3
    <3> QED
      BY <1>0, <2>3, <3>1 DEF ErrorsInv, ErrorsCounted
  <2>4. CASE UNCHANGED errs
    BY <2>4 DEF ErrorsInv, ErrorsCounted, errs
  <2> QED
    BY <2>1, <2>2, <2>3, <2>4 DEF ErrorStep, PrivateCmd
<1> QED
  BY <1>1, <1>2, LinksInv, PTL DEF Spec

\* drv_errors counts the failures in a row, for every limit.
THEOREM ErrorsAlwaysCounted == Spec => []ErrorsCounted
<1>1. ErrorsInv => ErrorsCounted
  BY DEF ErrorsInv
<1> QED
  BY <1>1, ErrorsInvAlways, PTL

\* The element of a sequence of one.
LEMMA OneElement ==
    ASSUME NEW S, NEW seq \in Seq(S), Len(seq) = 1
    PROVE  seq[1] \in S
BY ElementOfSeq

\* The scan loading timeout and the types it needs.
ScanInv ==
    /\ scan \in {"none", "pending", "done", "lost"}
    /\ timeouts \in Seq(0..ScanTimeout) /\ quiet \in 0..ScanTimeout
    /\ ScanLoading

\* The timeout and its types, in every state.
LEMMA ScanInvAlways == Spec => []ScanInv
<1>1. Init => ScanInv
  BY WpaAssumption DEF Init, ScanInv, ScanLoading
<1>2. ScanInv /\ LinksOK /\ [Next]_vars => ScanInv'
  <2> SUFFICES ASSUME ScanInv, LinksOK, [Next]_vars PROVE ScanInv'
    OBVIOUS
  <2>0. ScanTimeout \in Nat
    BY WpaAssumption
  <2>1. ScanStep
    BY StepEffects
  <2>2. CASE timeouts' = <<ScanTimeout>> /\ scan' = "pending" /\ quiet' = 0
    BY <2>0, <2>2 DEF ScanInv, ScanLoading
  <2>6. CASE timeouts' = <<>> /\ scan' = "lost" /\ quiet' = 0
    BY <2>0, <2>6 DEF ScanInv, ScanLoading
  <2>7. CASE Second /\ scan = "lost"
    <3>1. timeouts = <<>> /\ quiet \in 0..ScanTimeout
      BY <2>7 DEF ScanInv, ScanLoading
    <3>2. /\ timeouts' = [i \in DOMAIN timeouts |-> timeouts[i] - 1]
          /\ quiet' = quiet + 1 /\ quiet < ScanTimeout /\ scan' = "lost"
      BY <2>7, <3>1 DEF Second
    <3>3. timeouts' = <<>>
      BY <3>1, <3>2
    <3> QED
      BY <2>0, <3>1, <3>2, <3>3 DEF ScanInv, ScanLoading
  <2>3. CASE Second /\ scan # "lost"
    <3>1. scan = "pending"
      <4>1. scan # "none" /\ (timeouts # <<>> \/ quiet < ScanTimeout)
        BY <2>3 DEF Second
      <4>2. scan # "done"
        BY <4>1, <2>0 DEF ScanInv, ScanLoading
      <4> QED
        BY <2>3, <4>1, <4>2 DEF ScanInv
    <3>2. /\ Len(timeouts) = 1 /\ timeouts[1] \in 1..ScanTimeout
          /\ timeouts[1] + quiet = ScanTimeout /\ quiet \in 0..ScanTimeout
      <4>1. Len(timeouts) = 1 /\ timeouts[1] + quiet = ScanTimeout
        BY <3>1 DEF ScanInv, ScanLoading
      <4>2. timeouts \in Seq(0..ScanTimeout) /\ quiet \in 0..ScanTimeout
        BY DEF ScanInv
      <4>3. 1 \in DOMAIN timeouts
        BY <4>1, <4>2
      <4>4. timeouts[1] \in 0..ScanTimeout
        BY <4>1, <4>2, OneElement, Zenon
      <4>5. timeouts[1] > 0
        BY <2>3, <4>3 DEF Second
      <4> QED
        BY <4>1, <4>2, <4>4, <4>5, <2>0
    <3>3. timeouts' = <<timeouts[1] - 1>>
      <4>1. timeouts' = [i \in DOMAIN timeouts |-> timeouts[i] - 1]
        BY <2>3 DEF Second
      <4>2. DOMAIN timeouts = {1}
        BY <3>2 DEF ScanInv
      <4> QED
        BY <4>1, <4>2
    <3>4. quiet' = quiet + 1 /\ scan' = "pending"
      BY <2>3, <3>1, <3>2, <2>0 DEF Second
    <3>5. timeouts[1] - 1 \in 0..ScanTimeout /\ quiet + 1 \in 0..ScanTimeout
          /\ timeouts[1] - 1 + quiet + 1 = ScanTimeout
      BY <2>0, <3>2
    <3>6. /\ timeouts' \in Seq(0..ScanTimeout) /\ Len(timeouts') = 1
          /\ timeouts'[1] = timeouts[1] - 1
      BY <3>3, <3>5
    <3>7. timeouts'[1] + quiet' = ScanTimeout /\ quiet' \in 0..ScanTimeout
      BY <2>0, <3>2, <3>4, <3>5, <3>6
    <3> QED
      BY <3>4, <3>6, <3>7 DEF ScanInv, ScanLoading
  <2>4. CASE ScanLoadingTimeout
    <3>1. scan = "pending"
      BY <2>4 DEF ScanLoadingTimeout, ScanInv, ScanLoading
    <3>2. Len(timeouts) = 1 /\ timeouts[1] = 0 /\ quiet = ScanTimeout
      BY <2>4, <3>1, <2>0 DEF ScanLoadingTimeout, ScanInv, ScanLoading
    <3>3. timeouts' = <<>>
      BY <2>4, <3>2 DEF ScanLoadingTimeout, ScanInv
    <3> QED
      BY <2>4, <3>2, <3>3, <2>0 DEF ScanLoadingTimeout, ScanInv, ScanLoading
  <2>5. CASE UNCHANGED timer
    BY <2>5 DEF ScanInv, ScanLoading, timer
  <2> QED
    BY <2>1, <2>2, <2>3, <2>4, <2>5, <2>6, <2>7 DEF ScanStep
<1> QED
  BY <1>1, <1>2, LinksInv, PTL DEF Spec

\* At most one timeout is registered, that of the last set_scan_loading, and
\* it fires ScanTimeout seconds after it, for every ScanTimeout.
THEOREM ScanLoadingAlways == Spec => []ScanLoading
<1>1. ScanInv => ScanLoading
  BY DEF ScanInv
<1> QED
  BY <1>1, ScanInvAlways, PTL

\* With test mode messages the framework and the driver block the same
\* stations, except for those whose last command got an error.
THEOREM BlockListAlwaysAgrees == Spec => []BlockListAgrees
<1>1. Init => BlockListAgrees
  BY DEF Init, BlockListAgrees
<1>2. BlockListAgrees /\ LinksOK /\ [Next]_vars => BlockListAgrees'
  <2> SUFFICES ASSUME BlockListAgrees, LinksOK, [Next]_vars,
                      BuiltIn("TURNKEY_WLAN")'
               PROVE  believed' \ unsure' = blocked' \ unsure'
    BY DEF BlockListAgrees
  <2>1. BlockStep /\ BuiltIn("TURNKEY_WLAN") /\ believed \ unsure = blocked \ unsure
    BY StepEffects DEF fixed, BlockListAgrees, BuiltIn
  <2>2. ASSUME NEW a \in Stations, NEW on \in BOOLEAN, BlockStation(a, on)
        PROVE  believed' \ unsure' = blocked' \ unsure'
    <3>1. PICK ok, taken \in BOOLEAN :
             /\ ok => taken
             /\ blocked' = IF ~taken THEN blocked
                           ELSE IF on THEN blocked \cup {a} ELSE blocked \ {a}
             /\ believed' = IF ~ok THEN believed
                            ELSE IF on THEN believed \cup {a} ELSE believed \ {a}
             /\ unsure' = IF ok THEN unsure \ {a} ELSE unsure \cup {a}
      BY <2>1, <2>2, Zenon DEF BlockStation, Testmode
    <3>2. CASE ok /\ on
      <4>1. /\ blocked' = blocked \cup {a} /\ believed' = believed \cup {a}
            /\ unsure' = unsure \ {a}
        BY <3>1, <3>2
      <4> QED
        BY <2>1, <4>1
    <3>3. CASE ok /\ ~on
      <4>1. /\ blocked' = blocked \ {a} /\ believed' = believed \ {a}
            /\ unsure' = unsure \ {a}
        BY <3>1, <3>3
      <4> QED
        BY <2>1, <4>1
    <3>4. CASE ~ok
      <4>1. /\ believed' = believed /\ unsure' = unsure \cup {a}
            /\ blocked' \in {blocked, blocked \cup {a}, blocked \ {a}}
        BY <3>1, <3>4
      <4> QED
        BY <2>1, <4>1
    <3> QED
      BY <3>2, <3>3, <3>4
  <2> QED
    BY <2>1, <2>2 DEF BlockStep, block
<1> QED
  BY <1>1, <1>2, LinksInv, PTL DEF Spec

\* The supplicant's channel list is current unless COUNTRY got an error since
\* its last update.
THEOREM ChannelListAlwaysCurrent == Spec => []ChannelListCurrent
<1>1. Init => ChannelListCurrent
  BY DEF Init, ChannelListCurrent
<1>2. ChannelListCurrent /\ LinksOK /\ [Next]_vars => ChannelListCurrent'
  <2> SUFFICES ASSUME ChannelListCurrent, LinksOK, [Next]_vars
               PROVE  ChannelListCurrent'
    OBVIOUS
  <2>1. ListStep
    BY StepEffects
  <2> QED
    BY <2>1 DEF ListStep, ChannelListChanged, ChannelListCurrent, lists
<1> QED
  BY <1>1, <1>2, LinksInv, PTL DEF Spec

-----------------------------------------------------------------------------
(* Reports. *)

\* The bytes of the first n lines are those of the lines before and of line n.
LEMMA BytesDef ==
    ASSUME NEW lines \in Seq(Nat \ {0})
    PROVE  /\ \A n \in 0..Len(lines) : Bytes(lines, n) \in Nat
           /\ Bytes(lines, 0) = 0
           /\ \A n \in 1..Len(lines) : Bytes(lines, n) = Bytes(lines, n - 1) + lines[n]
<1>0. Len(lines) \in Nat /\ \A i \in 1..Len(lines) : lines[i] \in Nat
  BY ElementOfSeq
<1> DEFINE d == [i \in 1..Len(lines) |-> [v \in Nat |-> v + lines[i]]]
           b[i \in 0..Len(lines)] == IF i = 0 THEN 0 ELSE b[i - 1] + lines[i]
<1>1. d \in Steps(Len(lines), Nat)
  BY <1>0 DEF Steps
<1>2. \A i \in 1..Len(lines), v \in Nat : d[i][v] = v + lines[i]
  OBVIOUS
<1> HIDE DEF d
<1>3. PICK g \in [0..Len(lines) -> Nat] : Iterates(g, 0, Len(lines), d)
  BY <1>0, <1>1, Iteration
<1>4. g = [i \in 0..Len(lines) |-> IF i = 0 THEN 0 ELSE g[i - 1] + lines[i]]
  <2>1. ASSUME NEW i \in 1..Len(lines) PROVE g[i] = g[i - 1] + lines[i]
    <3>1. i - 1 \in 0..Len(lines)
      BY <1>0
    <3> QED
      BY <1>2, <1>3, <3>1 DEF Iterates
  <2>2. \A i \in 0..Len(lines) : g[i] = IF i = 0 THEN 0 ELSE g[i - 1] + lines[i]
    BY <1>0, <1>3, <2>1 DEF Iterates
  <2> QED
    BY <2>2
<1>5. b = [i \in 0..Len(lines) |-> IF i = 0 THEN 0 ELSE b[i - 1] + lines[i]]
  BY <1>4, Zenon
<1>6. \A n : Bytes(lines, n) = b[n]
  BY DEF Bytes
<1> HIDE DEF b
<1>7. \A i \in 0..Len(lines) : b[i] = IF i = 0 THEN 0 ELSE b[i - 1] + lines[i]
  BY <1>5
<1>8. b[0] = 0 /\ \A i \in 1..Len(lines) : b[i] = b[i - 1] + lines[i]
  BY <1>0, <1>7
<1> DEFINE T == {n \in 0..Len(lines) : b[n] \in Nat}
<1>9. 0 \in T
  BY <1>0, <1>8
<1>10. \A n \in 0..(Len(lines) - 1) : n \in T => n + 1 \in T
  BY <1>0, <1>8
<1>11. 0..Len(lines) \subseteq T
  <2> HIDE DEF T
  <2> QED
    BY <1>0, <1>9, <1>10, UpTo
<1> QED
  BY <1>0, <1>6, <1>8, <1>11

\* What Printed gets to after i lines when n of them fit.
Reached(lines, size, i, n) ==
    /\ n \in 0..i
    /\ n = 0 \/ Bytes(lines, n) < size
    /\ n < i => Bytes(lines, n + 1) >= size

\* Printed stops after the lines that fit, whatever their lengths.
LEMMA PrintedDef ==
    ASSUME NEW lines \in Seq(Nat \ {0}), NEW size \in Nat
    PROVE  \E n \in 0..Len(lines) :
              /\ Reached(lines, size, Len(lines), n)
              /\ Printed(lines, size) =
                    [pos |-> Bytes(lines, n), full |-> n # Len(lines)]
<1> DEFINE V == [pos : Nat, full : BOOLEAN]
           next(v, i) == IF v.full \/ lines[i] >= size - v.pos
                         THEN [v EXCEPT !.full = TRUE]
                         ELSE [v EXCEPT !.pos = @ + lines[i]]
           c == [pos |-> 0, full |-> FALSE]
           d == [i \in 1..Len(lines) |-> [v \in V |-> next(v, i)]]
           p[i \in 0..Len(lines)] ==
              IF i = 0 THEN [pos |-> 0, full |-> FALSE]
              ELSE IF p[i - 1].full \/ lines[i] >= size - p[i - 1].pos
               THEN [p[i - 1] EXCEPT !.full = TRUE]
               ELSE [p[i - 1] EXCEPT !.pos = @ + lines[i]]
<1>0. Len(lines) \in Nat /\ \A i \in 1..Len(lines) : lines[i] \in Nat
  BY ElementOfSeq
<1>a. ASSUME NEW v \in V, NEW i \in 1..Len(lines) PROVE next(v, i) \in V
  <2>1. v.pos \in Nat /\ v.full \in BOOLEAN /\ v = [pos |-> v.pos, full |-> v.full]
    OBVIOUS
  <2>2. v.pos + lines[i] \in Nat
    BY <1>0, <2>1
  <2>3. [v EXCEPT !.full = TRUE] \in V
    BY <2>1
  <2>4. [v EXCEPT !.pos = @ + lines[i]] \in V
    BY <2>1, <2>2
  <2> QED
    BY <2>3, <2>4, Zenon
<1>1. d \in Steps(Len(lines), V)
  BY <1>a DEF Steps
<1>2. \A i \in 1..Len(lines), v \in V : d[i][v] = next(v, i)
  OBVIOUS
<1>b. c \in V
  OBVIOUS
<1> HIDE DEF d, V
<1>3. PICK g \in [0..Len(lines) -> V] : Iterates(g, c, Len(lines), d)
  BY <1>0, <1>1, <1>b, Iteration
<1> HIDE DEF next, c
<1>4. g = [i \in 0..Len(lines) |-> IF i = 0 THEN c ELSE next(g[i - 1], i)]
  <2>1. ASSUME NEW i \in 1..Len(lines) PROVE g[i] = next(g[i - 1], i)
    <3>1. i - 1 \in 0..Len(lines)
      BY <1>0
    <3> QED
      BY <1>2, <1>3, <3>1 DEF Iterates
  <2>2. \A i \in 0..Len(lines) : g[i] = IF i = 0 THEN c ELSE next(g[i - 1], i)
    BY <1>0, <1>3, <2>1 DEF Iterates
  <2> QED
    BY <2>2
<1>5. p = [i \in 0..Len(lines) |-> IF i = 0 THEN c ELSE next(p[i - 1], i)]
  BY <1>4, Zenon DEF next, c
<1>6. Printed(lines, size) = p[Len(lines)]
  BY DEF Printed
<1> HIDE DEF p
<1>7. p[0] = c /\ \A i \in 1..Len(lines) : p[i] = next(p[i - 1], i)
  <2>1. \A i \in 0..Len(lines) : p[i] = IF i = 0 THEN c ELSE next(p[i - 1], i)
    BY <1>5, Zenon
  <2>2. 0 \in 0..Len(lines) /\ \A i \in 1..Len(lines) : i \in 0..Len(lines) /\ i # 0
    BY <1>0
  <2> QED
    BY <2>1, <2>2, Zenon
<1> DEFINE At(i, n) == [pos |-> Bytes(lines, n), full |-> n # i]
           T == {i \in 0..Len(lines) :
                    \E n \in 0..i : Reached(lines, size, i, n) /\ p[i] = At(i, n)}
<1>8. 0 \in T
  <2>1. Reached(lines, size, 0, 0)
    BY DEF Reached
  <2>2. p[0] = At(0, 0)
    BY <1>7, BytesDef DEF c
  <2> QED
    BY <1>0, <2>1, <2>2
<1>9. ASSUME NEW i \in 0..(Len(lines) - 1), i \in T PROVE i + 1 \in T
  <2>1. PICK n \in 0..i : Reached(lines, size, i, n) /\ p[i] = At(i, n)
    BY <1>9
  <2>2. i + 1 \in 1..Len(lines) /\ (i + 1) - 1 = i /\ i \in Nat /\ n \in 0..Len(lines)
    BY <1>0
  <2>3. p[i + 1] = next(At(i, n), i + 1)
    BY <1>7, <2>1, <2>2
  <2>4. Bytes(lines, n) \in Nat /\ lines[i + 1] \in Nat
    BY <1>0, <2>2, BytesDef
  <2>5. CASE n # i
    <3>1. p[i + 1] = At(i + 1, n)
      <4>1. (n # i) = TRUE /\ (n # i + 1) = TRUE
        BY <2>2, <2>5
      <4>2. At(i, n) = [pos |-> Bytes(lines, n), full |-> TRUE]
        BY <4>1
      <4>3. At(i + 1, n) = [pos |-> Bytes(lines, n), full |-> TRUE]
        BY <4>1
      <4>4. next([pos |-> Bytes(lines, n), full |-> TRUE], i + 1)
               = [pos |-> Bytes(lines, n), full |-> TRUE]
        BY DEF next
      <4> QED
        BY <2>3, <4>2, <4>3, <4>4, Zenon
    <3>2. Reached(lines, size, i + 1, n)
      BY <2>1, <2>2, <2>5 DEF Reached
    <3> QED
      BY <2>2, <3>1, <3>2
  <2>6. CASE n = i /\ lines[i + 1] >= size - Bytes(lines, i)
    <3>1. p[i + 1] = At(i + 1, n)
      <4>1. (n # i) = FALSE /\ (n # i + 1) = TRUE
        BY <2>2, <2>6
      <4>2. At(i, n) = [pos |-> Bytes(lines, n), full |-> FALSE]
        BY <4>1
      <4>3. At(i + 1, n) = [pos |-> Bytes(lines, n), full |-> TRUE]
        BY <4>1
      <4>4. next([pos |-> Bytes(lines, n), full |-> FALSE], i + 1)
               = [pos |-> Bytes(lines, n), full |-> TRUE]
        BY <2>6 DEF next
      <4> QED
        BY <2>3, <4>2, <4>3, <4>4, Zenon
    <3>2. Bytes(lines, i + 1) = Bytes(lines, i) + lines[i + 1]
      BY <2>2, BytesDef
    <3>3. Bytes(lines, n + 1) >= size
      BY <2>4, <2>6, <3>2
    <3>4. Reached(lines, size, i + 1, n)
      BY <2>1, <2>2, <2>6, <3>3 DEF Reached
    <3> QED
      BY <2>2, <3>1, <3>4
  <2>7. CASE n = i /\ ~(lines[i + 1] >= size - Bytes(lines, i))
    <3>1. Bytes(lines, i + 1) = Bytes(lines, i) + lines[i + 1]
      BY <2>2, BytesDef
    <3>2. p[i + 1] = At(i + 1, i + 1)
      BY <2>2, <2>3, <2>7, <3>1 DEF next
    <3>3. Bytes(lines, i + 1) < size
      BY <2>4, <2>7, <3>1
    <3>4. Reached(lines, size, i + 1, i + 1)
      BY <2>2, <3>3 DEF Reached
    <3> QED
      BY <2>2, <3>2, <3>4
  <2> QED
    BY <2>5, <2>6, <2>7
<1>10. Len(lines) \in T
  <2> HIDE DEF T
  <2>1. 0..Len(lines) \subseteq T
    BY <1>0, <1>8, <1>9, UpTo
  <2> QED
    BY <1>0, <2>1
<1> QED
  BY <1>6, <1>10

\* Each line adds to the bytes.
LEMMA BytesGrow ==
    ASSUME NEW lines \in Seq(Nat \ {0}), NEW n \in 0..Len(lines),
           NEW k \in 0..Len(lines), n <= k
    PROVE  Bytes(lines, n) <= Bytes(lines, k)
<1>0. Len(lines) \in Nat /\ \A i \in 1..Len(lines) : lines[i] \in Nat
  BY ElementOfSeq
<1> DEFINE T == {i \in Nat : n + i <= Len(lines) => Bytes(lines, n) <= Bytes(lines, n + i)}
<1>1. 0 \in T
  BY <1>0, BytesDef
<1>2. ASSUME NEW i \in 0..((k - n) - 1), i \in T PROVE i + 1 \in T
  <2>1. n + i \in 0..Len(lines) /\ n + i + 1 \in 1..Len(lines) /\ i \in Nat
    BY <1>0
  <2>2. Bytes(lines, n + i + 1) = Bytes(lines, n + i) + lines[n + i + 1]
    BY <2>1, BytesDef
  <2>3. Bytes(lines, n) \in Nat /\ Bytes(lines, n + i) \in Nat /\ lines[n + i + 1] \in Nat
    BY <1>0, <2>1, BytesDef
  <2>4. Bytes(lines, n) <= Bytes(lines, n + i)
    BY <1>2, <2>1
  <2>5. n + (i + 1) = n + i + 1
    BY <2>1
  <2> QED
    BY <2>1, <2>2, <2>3, <2>4, <2>5
<1>3. k - n \in Nat /\ n + (k - n) = k
  BY <1>0
<1>4. k - n \in T
  <2> HIDE DEF T
  <2>1. 0..(k - n) \subseteq T
    BY <1>1, <1>2, <1>3, UpTo
  <2> QED
    BY <1>3, <2>1
<1> QED
  BY <1>0, <1>3, <1>4

\* The lines Printed stops after are the most that fit.
LEMMA MostLines ==
    ASSUME NEW lines \in Seq(Nat \ {0}), NEW size \in Nat,
           NEW n \in 0..Len(lines), Reached(lines, size, Len(lines), n)
    PROVE  LastFit(lines, size) = n
<1> DEFINE fits == Fits(lines, size)
<1>0. Len(lines) \in Nat
  OBVIOUS
<1>1. n \in fits
  BY DEF Reached, Fits
<1>2. ASSUME NEW k \in fits PROVE k <= n
  <2>0. k \in 0..Len(lines) /\ (k = 0 \/ Bytes(lines, k) < size)
    BY DEF Fits
  <2> SUFFICES ASSUME n < k PROVE FALSE
    BY <1>0, <2>0
  <2>1. n + 1 \in 0..Len(lines) /\ n + 1 <= k /\ k # 0 /\ n < Len(lines)
    BY <1>0, <2>0
  <2>2. Bytes(lines, n + 1) <= Bytes(lines, k)
    BY <2>0, <2>1, BytesGrow
  <2>3. Bytes(lines, n + 1) >= size /\ Bytes(lines, k) < size
    BY <2>0, <2>1 DEF Reached
  <2>4. Bytes(lines, n + 1) \in Nat /\ Bytes(lines, k) \in Nat
    BY <2>0, <2>1, BytesDef
  <2> QED
    BY <2>2, <2>3, <2>4
<1>3. ASSUME NEW k \in fits, \A j \in fits : j <= k PROVE k = n
  BY <1>0, <1>1, <1>2, <1>3 DEF Fits
<1> QED
  BY <1>1, <1>2, <1>3 DEF LastFit

\* What a report of the given kind has for its length.
LEMMA ReportMade ==
    ASSUME NEW kind \in {"statistics", "link"}, NEW n \in 0..MaxBuf,
           Report(kind, n)
    PROVE  /\ report' \in [kind : {"statistics", "link"}, size : 0..MaxBuf,
                           len : Int]
           /\ ReportsWhole'
<1> DEFINE lines == IF kind = "link" THEN LinkLines ELSE StatsLines
<1>0. lines \in Seq(Nat \ {0}) /\ n \in Nat /\ Len(lines) \in Nat
  BY WpaAssumption
<1>1. PICK k \in 0..Len(lines) :
         /\ Reached(lines, n, Len(lines), k)
         /\ Printed(lines, n) = [pos |-> Bytes(lines, k), full |-> k # Len(lines)]
  BY <1>0, PrintedDef
<1>2. Bytes(lines, k) \in Nat
  BY <1>0, BytesDef
<1> DEFINE len == IF kind = "link" \/ k = Len(lines) THEN Bytes(lines, k) ELSE 0
<1>3. len \in Nat
  BY <1>2
<1>4. kind = "link" => print_sta_link_detect(n) = len
  BY <1>1 DEF print_sta_link_detect
<1>5. kind # "link" => print_sta_statistics(n) = len
  <2> SUFFICES ASSUME kind # "link" PROVE print_sta_statistics(n) = len
    OBVIOUS
  <2>1. lines = StatsLines
    OBVIOUS
  <2>2. CASE k = Len(lines)
    <3>1. Printed(StatsLines, n).full = FALSE
          /\ Printed(StatsLines, n).pos = Bytes(lines, k)
      <4>1. (k # Len(lines)) = FALSE
        BY <2>2
      <4>2. Printed(lines, n) = [pos |-> Bytes(lines, k), full |-> FALSE]
        BY <1>1, <4>1, Zenon
      <4>3. Printed(StatsLines, n) = [pos |-> Bytes(lines, k), full |-> FALSE]
        BY <2>1, <4>2
      <4> HIDE DEF lines
      <4> QED
        BY <4>3
    <3> QED
      BY <2>2, <3>1, Zenon DEF print_sta_statistics
  <2>3. CASE k # Len(lines)
    <3>1. Printed(StatsLines, n).full = TRUE
      <4>1. (k # Len(lines)) = TRUE
        BY <2>3
      <4>2. Printed(lines, n) = [pos |-> Bytes(lines, k), full |-> TRUE]
        BY <1>1, <4>1, Zenon
      <4>3. Printed(StatsLines, n) = [pos |-> Bytes(lines, k), full |-> TRUE]
        BY <2>1, <4>2
      <4> HIDE DEF lines
      <4> QED
        BY <4>3
    <3> QED
      BY <2>3, <3>1, Zenon DEF print_sta_statistics
  <2> QED
    BY <2>2, <2>3
<1>6. \/ report' = [kind |-> kind, size |-> n, len |-> -1]
      \/ report' = [kind |-> kind, size |-> n, len |-> len]
  BY <1>4, <1>5, Zenon DEF Report
<1>7. LastFit(lines, n) = k
  BY <1>0, <1>1, MostLines
<1> HIDE DEF len
<1>8. CASE report' = [kind |-> kind, size |-> n, len |-> -1]
  BY <1>8 DEF ReportsWhole
<1>9. CASE report' = [kind |-> kind, size |-> n, len |-> len]
  <2>1. report'.kind = kind /\ report'.size = n /\ report'.len = len
    BY <1>9
  <2>2. ReportsWhole'
    <3>1. lines = IF report'.kind = "link" THEN LinkLines ELSE StatsLines
      BY <2>1
    <3>2. len = IF report'.kind = "link" \/ k = Len(lines)
                THEN Bytes(lines, k) ELSE 0
      BY <2>1 DEF len
    <3> HIDE DEF lines
    <3> QED
      BY <1>7, <2>1, <3>1, <3>2 DEF ReportsWhole
  <2> QED
    BY <1>3, <1>9, <2>2
<1> QED
  BY <1>6, <1>8, <1>9

\* Every report leaves room for the end of the string and consists of whole
\* lines, for any lines and any size of the buffer.
THEOREM ReportsAlwaysWhole == Spec => []ReportsWhole
<1>1. Init => ReportsWhole
  BY DEF Init, NoReport, ReportsWhole
<1>2. ReportsWhole /\ LinksOK /\ [Next]_vars => ReportsWhole'
  <2> SUFFICES ASSUME ReportsWhole, LinksOK, [Next]_vars PROVE ReportsWhole'
    OBVIOUS
  <2>1. ReportStep
    BY StepEffects
  <2>2. CASE UNCHANGED report
    BY <2>2 DEF ReportsWhole
  <2> QED
    BY <2>1, <2>2, ReportMade DEF ReportStep
<1> QED
  BY <1>1, <1>2, LinksInv, PTL DEF Spec

-----------------------------------------------------------------------------

\* The class and the channel of a frequency fit in a byte each.
LEMMA ChannelTyped ==
    ASSUME NEW freq \in Nat
    PROVE  priv_p2p_freq_to_channel(freq) \subseteq Channel
<1>2. freq \in 2412..2472 => (freq - 2407) \div 5 \in 0..255
  OBVIOUS
<1>3. freq \in 5180..5845 => (freq - 5000) \div 5 \in 0..255
  OBVIOUS
<1>4. Garbage \subseteq Channel
  BY WpaAssumption
<1>5. CASE freq \in 2412..2484
  <2>1. freq \in 2412..2472 => Chan(81, (freq - 2407) \div 5) \subseteq Channel
    BY <1>2 DEF Chan, Channel
  <2>2. Chan(82, 14) \subseteq Channel
    BY DEF Chan, Channel
  <2> QED
    BY <1>4, <1>5, <2>1, <2>2 DEF priv_p2p_freq_to_channel
<1>6. CASE freq \in 5180..5845
  <2>1. \A a \in 0..255 : Chan(a, (freq - 5000) \div 5) \subseteq Channel
    <3>1. (freq - 5000) \div 5 \in 0..255
      BY <1>3, <1>6
    <3> QED
      BY <3>1 DEF Chan, Channel
  <2>2. /\ Chan(115, (freq - 5000) \div 5) \subseteq Channel
        /\ Chan(118, (freq - 5000) \div 5) \subseteq Channel
        /\ Chan(121, (freq - 5000) \div 5) \subseteq Channel
        /\ Chan(124, (freq - 5000) \div 5) \subseteq Channel
        /\ Chan(125, (freq - 5000) \div 5) \subseteq Channel
    BY <2>1
  <2> QED
    BY <1>4, <1>6, <2>2 DEF priv_p2p_freq_to_channel
<1>7. CASE freq \notin 2412..2484 /\ freq \notin 5180..5845
  BY <1>4, <1>7 DEF priv_p2p_freq_to_channel
<1> QED
  BY <1>5, <1>6, <1>7

\* The types the other lemmas do not have.
RestOK ==
    /\ build \in Builds /\ client \in Clients
    /\ multi \in [Iface -> {0, 2}] /\ concurrent \in BOOLEAN
    /\ op \in Channel /\ channels \subseteq Channel /\ use_mcc \in BOOLEAN
    /\ dev_capab \in 0..255 /\ scc \in Freqs \cup {0}
    /\ fails \in 0..MaxFails
    /\ sw \in Switches \cup {"none"}
    /\ blocked \subseteq Stations /\ believed \subseteq Stations
    /\ unsure \subseteq Stations
    /\ country \in Countries /\ cfg \subseteq Channel /\ doubt \in BOOLEAN
    /\ up \in BOOLEAN /\ announced \in BOOLEAN
    /\ report \in [kind : {"none", "statistics", "link"}, size : 0..MaxBuf,
                   len : Int]

\* Whatever commands are sent, the variables keep their types: the numbers
\* written to bytes fit, the error count stays below its limit and the report
\* is one of the supplicant's.
THEOREM TypeCorrect == Spec => []TypeOK
<1>h. Home \subseteq Channel
  BY WpaAssumption DEF Home, Social, Channel
<1>1. Init => RestOK
  <2> SUFFICES ASSUME Init PROVE RestOK
    OBVIOUS
  <2>1. report \in [kind : {"none", "statistics", "link"}, size : 0..MaxBuf,
                    len : Int]
    BY WpaAssumption DEF Init, NoReport
  <2>2. op \in Channel /\ channels \subseteq Channel /\ cfg \subseteq Channel
    <3>1. Lists[country] \subseteq Channel
      BY WpaAssumption DEF Init
    <3> QED
      BY <1>h, <3>1 DEF Init
  <2>3. fails \in 0..MaxFails /\ dev_capab \in 0..255
    BY WpaAssumption DEF Init
  <2>4. multi \in [Iface -> {0, 2}]
    BY DEF Init
  <2> QED
    BY <2>1, <2>2, <2>3, <2>4 DEF Init, RestOK
<1>2. RestOK /\ LinksOK /\ [Next]_vars => RestOK'
  <2> SUFFICES ASSUME RestOK, LinksOK, [Next]_vars PROVE RestOK'
    OBVIOUS
  <2>0. /\ ErrorStep /\ BlockStep /\ ListStep /\ PowerStep /\ ChannelStep /\ ReportStep
        /\ SettingStep /\ UNCHANGED fixed
    BY StepEffects
  <2>1. (op \in Channel /\ channels \subseteq Channel /\ scc \in Freqs \cup {0})'
    <3>1. ASSUME NEW freq \in Freqs \cup {0}, p2p_wfd_sink_config_scc(freq)
          PROVE  (op \in Channel /\ channels \subseteq Channel /\ scc \in Freqs \cup {0})'
      <4>0. freq \in Nat /\ scc' = freq
        BY <3>1, WpaAssumption DEF p2p_wfd_sink_config_scc
      <4>1. CASE freq = 0
        BY <1>h, <3>1, <4>0, <4>1 DEF p2p_wfd_sink_config_scc, RestOK
      <4>2. CASE freq # 0
        BY <3>1, <4>0, <4>2, ChannelTyped DEF p2p_wfd_sink_config_scc
      <4> QED
        BY <4>1, <4>2
    <3>2. CASE UNCHANGED <<op, channels, scc>>
      BY <3>2 DEF RestOK
    <3> QED
      BY <2>0, <3>1, <3>2 DEF ChannelStep
  <2>2. (fails \in 0..MaxFails)'
    BY <2>0, WpaAssumption DEF ErrorStep, PrivateCmd, errs, RestOK
  <2>3. (blocked \subseteq Stations /\ believed \subseteq Stations /\ unsure \subseteq Stations)'
    <3>1. ASSUME NEW a \in Stations, NEW on \in BOOLEAN, BlockStation(a, on)
          PROVE  (blocked \subseteq Stations /\ believed \subseteq Stations /\ unsure \subseteq Stations)'
      BY <3>1 DEF BlockStation, RestOK
    <3> QED
      BY <2>0, <3>1 DEF BlockStep, RestOK, block
  <2>4. (country \in Countries /\ cfg \subseteq Channel)'
    <3>1. (country \in Countries)'
      BY <2>0 DEF ListStep, RestOK, lists
    <3>2. Lists[country'] \subseteq Channel
      BY <3>1, WpaAssumption
    <3> QED
      BY <2>0, <3>1, <3>2 DEF ListStep, ChannelListChanged, RestOK, lists
  <2>11. (doubt \in BOOLEAN)'
    BY <2>0, Zenon DEF ListStep, ChannelListChanged, RestOK, lists
  <2>5. (up \in BOOLEAN /\ announced \in BOOLEAN)'
    BY <2>0, Zenon DEF PowerStep, RestOK
  <2>6. (report \in [kind : {"none", "statistics", "link"}, size : 0..MaxBuf,
                     len : Int])'
    BY <2>0, ReportMade DEF ReportStep, RestOK
  <2>7. (multi \in [Iface -> {0, 2}] /\ concurrent \in BOOLEAN)'
    <3>1. ASSUME NEW mcc \in BOOLEAN, Mcc(mcc)
          PROVE  (multi \in [Iface -> {0, 2}] /\ concurrent \in BOOLEAN)'
      <4>1. (multi \in [Iface -> {0, 2}])'
        BY <3>1 DEF Mcc
      <4> QED
        BY <3>1, <4>1, Zenon DEF Mcc
    <3> QED
      BY <2>0, <3>1, Zenon DEF SettingStep, RestOK
  <2>8. (dev_capab \in 0..255)'
    <3>1. \A n \in Capabilities : n % 256 \in 0..255
      BY WpaAssumption
    <3> QED
      BY <2>0, <3>1 DEF SettingStep, RestOK
  <2>9. (use_mcc \in BOOLEAN /\ sw \in Switches \cup {"none"})'
    BY <2>0, Zenon DEF SettingStep, RestOK
  <2>10. (build \in Builds /\ client \in Clients)'
    BY <2>0 DEF fixed, RestOK
  <2> QED
    BY <2>1, <2>2, <2>3, <2>4, <2>5, <2>6, <2>7, <2>8, <2>9, <2>10, <2>11,
       Zenon DEF RestOK
<1>3. RestOK /\ LinksOK /\ ErrorsInv /\ ScanInv => TypeOK
  <2> SUFFICES ASSUME RestOK, LinksOK, ErrorsInv, ScanInv PROVE TypeOK
    OBVIOUS
  <2>1. drv_errors \in 0..DRV_NUMBER_SEQUENTIAL_ERRORS
    BY WpaAssumption DEF ErrorsInv, ErrorsCounted
  <2>2. sw \in {"none", "rxfilter", "smt", "band", "wapi", "sigma", "wfd",
                "beamplus", "suspend", "resume", "scan"}
    BY DEF RestOK, Switches
  <2> QED
    BY <2>1, <2>2, Zenon DEF RestOK, LinksOK, ScanInv, TypeOK
<1> QED
  BY <1>1, <1>2, <1>3, LinksInv, ErrorsInvAlways, ScanInvAlways, PTL DEF Spec
=============================================================================
