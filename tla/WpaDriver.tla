----------------------------- MODULE WpaDriver -----------------------------
(***************************************************************************)
(* The driver commands MediaTek adds to wpa_supplicant,                    *)
(* src/wpa_supplicant/mediatek_driver_cmd_nl80211.c.  One thread, the      *)
(* supplicant's event loop, runs them: each command is one step, and the   *)
(* timeouts a command registers fire between commands.  The kernel driver, *)
(* which may refuse anything, the interfaces, which connect and disconnect *)
(* on their own, and the framework, which believes the answers, are        *)
(* external.  Which commands exist depends on the build options; a command *)
(* that is not built in falls through to the driver as a private one.      *)
(***************************************************************************)
EXTENDS Integers, Sequences

CONSTANTS
    Builds,       \* sets of build options: the CONFIG_ macros of the file
    Clients,      \* sets of command families: who uses the driver
    Freqs,        \* frequencies in MHz given with MIRACAST
    ApFreqs,      \* those of access points and groups
    OperChannel,  \* {} or {conf->p2p_oper_reg_class and _channel}
    Garbage,      \* what two bytes of stack nobody wrote may hold
    Stations,     \* addresses of hotspot clients
    Countries,
    Lists,        \* the driver's channels in each country: class and channel
    Capabilities, \* numbers given to p2p_set_cap
    DRV_NUMBER_SEQUENTIAL_ERRORS,
    ScanTimeout,  \* seconds scan loading takes (10 in the code)
    StatsLines,   \* lengths of the lines of a statistics report
    LinkLines,    \* likewise, of a link detection report
    MaxBuf,       \* bound: sizes of the answer buffer
    MaxFails      \* bound: private commands that fail in a row

Option == {"TURNKEY_WLAN", "WFD_SINK", "SCC_MCC", "P2P_5G", "P2P_SIGMA",
           "STAGE_SCAN", "HOTSPOT_MGR", "POOR_LINK_DETECT", "WAPI", "P2P",
           "WIFI_BEAM"}
Family == {"p2p", "concurrency", "scan", "switch", "hotspot",
           "country", "power", "report", "capability"}
Channel == (0..255) \X (0..255)
Iface  == {"wlan0", "p2p0"}

ASSUME WpaAssumption ==
    /\ Builds \subseteq SUBSET Option /\ Clients \subseteq SUBSET Family
    /\ Freqs \subseteq Nat \ {0} /\ ApFreqs \subseteq Freqs
    /\ OperChannel \subseteq Channel /\ Capabilities \subseteq Int
    /\ Lists \in [Countries -> SUBSET Channel] /\ Garbage \subseteq Channel
    /\ DRV_NUMBER_SEQUENTIAL_ERRORS \in Nat /\ ScanTimeout \in Nat \ {0}
    /\ StatsLines \in Seq(Nat \ {0}) /\ LinkLines \in Seq(Nat \ {0})
    /\ MaxBuf \in Nat /\ MaxFails \in Nat

VARIABLES
    build, client,  \* fixed: how the file was built, who uses it
    ifs,            \* the interfaces of the radio, in wpa_s->radio->ifaces order
    multi,          \* num_multichan_concurrent of each interface
    concurrent,     \* p2p->cfg->concurrent_operations
    op, channels,   \* p2p->op_reg_class and op_channel, p2p->channels
    cfg,            \* p2p->cfg->channels, the supplicant's channel list
    use_mcc,        \* p2p->p2p_use_mcc
    dev_capab,      \* p2p->dev_capab
    scc,            \* the frequency P2P was tied to, 0 in MCC (history)
    drv_errors,
    fails,          \* private commands that failed in a row (history)
    timeouts,       \* registered scan loading timeouts: seconds left
    scan,           \* last scan loading request: none, pending, done, or lost
                    \* as the timeout could not be registered (history)
    quiet,          \* seconds since that request, up to ScanTimeout (history)
    sw,             \* the last switch command the driver accepted (external)
    blocked,        \* the stations the driver blocks (external)
    believed,       \* those the framework was told are blocked (external)
    unsure,         \* those whose last command got an error (history)
    country,        \* the driver's country (external)
    doubt,          \* COUNTRY got an error since cfg was updated (history)
    up, announced,  \* is the interface up, was it announced as started?
    report          \* the last report: kind, size of the buffer, length

fixed == <<build, client>>
radio == <<ifs, multi, concurrent>>
p2p   == <<op, channels, use_mcc, dev_capab, scc>>
lists == <<country, cfg, doubt>>
errs  == <<drv_errors, fails>>
timer == <<timeouts, scan, quiet>>
block == <<blocked, believed, unsure>>
power == <<up, announced>>
drv   == <<sw, block, lists, power>>
vars  == <<fixed, radio, p2p, errs, timer, drv, report>>

-----------------------------------------------------------------------------

\* An interface: its mode, "none" without current_ssid, its assoc_freq and
\* whether the driver tells its BSSID.  The frequency of a group or of an
\* access point is the one it was started on.
NoLink == [mode |-> "none", freq |-> 0, bssid |-> FALSE]
Links  == {NoLink} \cup [mode : {"infra"}, freq : ApFreqs, bssid : BOOLEAN]
                   \cup [mode : {"ap", "go"}, freq : ApFreqs, bssid : {TRUE}]

\* "Get back to MCC": the channels P2P operates on by itself.
Social == {<<81, 1>>, <<81, 6>>, <<81, 11>>}
Home   == IF OperChannel # {} THEN OperChannel ELSE Social

NoReport == [kind |-> "none", size |-> 0, len |-> 0]

TypeOK ==
    /\ build \in Builds /\ client \in Clients
    /\ ifs \in [Iface -> Links] /\ multi \in [Iface -> {0, 2}]
    /\ concurrent \in BOOLEAN
    /\ op \in Channel /\ channels \subseteq Channel /\ use_mcc \in BOOLEAN
    /\ dev_capab \in 0..255
    /\ scc \in Freqs \cup {0}
    /\ drv_errors \in 0..DRV_NUMBER_SEQUENTIAL_ERRORS /\ fails \in 0..MaxFails
    /\ timeouts \in Seq(0..ScanTimeout) /\ quiet \in 0..ScanTimeout
    /\ scan \in {"none", "pending", "done", "lost"}
    /\ sw \in {"none", "rxfilter", "smt", "band", "wapi", "sigma", "wfd",
               "beamplus", "suspend", "resume", "scan"}
    /\ blocked \subseteq Stations /\ believed \subseteq Stations
    /\ unsure \subseteq Stations
    /\ country \in Countries /\ cfg \subseteq Channel /\ doubt \in BOOLEAN
    /\ up \in BOOLEAN /\ announced \in BOOLEAN
    /\ report \in [kind : {"none", "statistics", "link"}, size : 0..MaxBuf,
                   len : Int]

Init ==
    /\ build \in Builds /\ client \in Clients /\ country \in Countries
    /\ ifs = [i \in Iface |-> NoLink] /\ multi = [i \in Iface |-> 0]
    /\ concurrent = FALSE
    /\ op \in Home /\ channels = Lists[country] /\ use_mcc = FALSE /\ scc = 0
    /\ dev_capab = 37
    /\ drv_errors = 0 /\ fails = 0
    /\ timeouts = <<>> /\ scan = "none" /\ quiet = 0
    /\ sw = "none" /\ blocked = {} /\ believed = {} /\ unsure = {}
    /\ cfg = Lists[country] /\ doubt = FALSE
    /\ up = TRUE /\ announced = TRUE /\ report = NoReport

Uses(f)    == f \in client
BuiltIn(o) == o \in build

-----------------------------------------------------------------------------
(* Private commands: ioctl SIOCDEVPRIVATE + 1. *)

\* Mutation: the count is not reset at its limit.
send_hang_msg_no_reset == drv_errors' = drv_errors + 1

wpa_driver_send_hang_msg ==
    drv_errors' = IF drv_errors + 1 > DRV_NUMBER_SEQUENTIAL_ERRORS
                  THEN 0 ELSE drv_errors + 1

\* Mutation: a command that succeeds does not clear the count.
PrivateCmdKeepsCount ==
    \/ /\ fails < MaxFails /\ fails' = fails + 1
       /\ wpa_driver_send_hang_msg
    \/ fails' = 0 /\ UNCHANGED drv_errors

\* handled == 0: the command goes to the driver, which takes it or not.
PrivateCmd ==
    \/ /\ fails < MaxFails /\ fails' = fails + 1
       /\ wpa_driver_send_hang_msg
    \/ fails' = 0 /\ drv_errors' = 0

\* A command no option is built in for, or an unknown one.
Unsupported ==
    /\ PrivateCmd
    /\ UNCHANGED <<fixed, radio, p2p, timer, drv, report>>

-----------------------------------------------------------------------------
(* Test mode messages to the driver. *)

\* wpa_driver_nl80211_testmode: without CONFIG_MTK_TURNKEY_WLAN it reports
\* success and sends nothing; otherwise success means that the driver took the
\* message, an error that it was lost, or refused, or taken before the error.
Testmode(ok, taken) == IF BuiltIn("TURNKEY_WLAN") THEN ok => taken
                                                  ELSE ok /\ ~taken

\* The option each command that only sends such a message belongs to;
\* rxfilter-* and smt-* are always there.
SwitchOption == [c \in {"band", "wapi", "sigma", "wfd", "beamplus"} |->
                    CASE c = "band" -> "STAGE_SCAN" [] c = "wapi" -> "WAPI"
                      [] c = "sigma" -> "P2P_SIGMA" [] c = "wfd" -> "P2P"
                      [] OTHER -> "WIFI_BEAM"]

\* The switch commands, whatever becomes of the message: rxfilter-*, smt-*,
\* set_band_*, set-wapi-key, p2p_set_opps, _power_save and _sleep,
\* wfd_data_update, set_beamplus.
SwitchCmd(c) ==
    /\ Uses("switch")
    /\ c \in DOMAIN SwitchOption => BuiltIn(SwitchOption[c])
    /\ \E ok, taken \in BOOLEAN :
          Testmode(ok, taken) /\ sw' = IF taken THEN c ELSE sw
    /\ UNCHANGED <<fixed, radio, p2p, errs, timer, block, lists, power, report>>

\* SETSUSPENDMODE, which the driver then gets as a private command, too.
SetSuspendMode(c) ==
    /\ Uses("switch")
    /\ \E ok, taken \in BOOLEAN :
          Testmode(ok, taken) /\ sw' = IF taken THEN c ELSE sw
    /\ PrivateCmd
    /\ UNCHANGED <<fixed, radio, p2p, timer, block, lists, power, report>>

\* Mutation: the answer does not depend on what the driver did.
BlockStationUnchecked(a, on) ==
    /\ Uses("hotspot") /\ BuiltIn("HOTSPOT_MGR")
    /\ \E ok, taken \in BOOLEAN :
          /\ Testmode(ok, taken)
          /\ blocked' = IF ~taken THEN blocked
                        ELSE IF on THEN blocked \cup {a} ELSE blocked \ {a}
          /\ believed' = IF on THEN believed \cup {a} ELSE believed \ {a}
          /\ unsure' = unsure \ {a}
    /\ UNCHANGED <<fixed, radio, p2p, errs, timer, sw, lists, power, report>>

\* STA-BLOCK and STA-UNBLOCK; an address that cannot be read changes nothing.
BlockStation(a, on) ==
    /\ Uses("hotspot") /\ BuiltIn("HOTSPOT_MGR")
    /\ \E ok, taken \in BOOLEAN :
          /\ Testmode(ok, taken)
          /\ blocked' = IF ~taken THEN blocked
                        ELSE IF on THEN blocked \cup {a} ELSE blocked \ {a}
          /\ believed' = IF ~ok THEN believed
                         ELSE IF on THEN believed \cup {a} ELSE believed \ {a}
          /\ unsure' = IF ok THEN unsure \ {a} ELSE unsure \cup {a}
    /\ UNCHANGED <<fixed, radio, p2p, errs, timer, sw, lists, power, report>>

-----------------------------------------------------------------------------
(* The operating channel of P2P. *)

Chan(class, ch) == {<<class, ch>>}

\* Mutation: channel 14 is taken for one more channel of the 2.4 GHz class.
FreqWithoutChannel14(freq) ==
    CASE freq \in 2412..2484 -> Chan(81, (freq - 2407) \div 5)
      [] freq \in 5180..5240 /\ freq % 5 = 0 -> Chan(115, (freq - 5000) \div 5)
      [] BuiltIn("P2P_5G") /\ freq \in 5260..5320 ->
            Chan(118, (freq - 5000) \div 5)
      [] OTHER -> Garbage

\* priv_p2p_freq_to_channel; its caller does not look at the result, so that
\* an unknown frequency leaves op_reg_class and op_channel uninitialised.
priv_p2p_freq_to_channel(freq) ==
    CASE freq \in 2412..2472 /\ (freq - 2407) % 5 = 0 ->
            Chan(81, (freq - 2407) \div 5)
      [] freq = 2484 -> Chan(82, 14)
      [] freq \in 5180..5240 /\ freq % 5 = 0 -> Chan(115, (freq - 5000) \div 5)
      [] BuiltIn("P2P_5G") /\ freq \in 5260..5320 ->
            Chan(118, (freq - 5000) \div 5)
      [] BuiltIn("P2P_5G") /\ freq \in 5500..5700 ->
            Chan(121, (freq - 5000) \div 5)
      [] freq \in 5745..5805 /\ freq % 5 = 0 -> Chan(124, (freq - 5000) \div 5)
      [] BuiltIn("P2P_5G") /\ freq \in 5825..5845 ->
            Chan(125, (freq - 5000) \div 5)
      [] OTHER -> Garbage

\* mtk_get_shared_radio_freqs for one frequency: that of the first interface
\* that uses one, in the order of the radio's list; 0 if none does or the
\* memory for the answer is not there.
InUse(i)    == ifs[i].mode # "none" /\ (ifs[i].mode = "infra" => ifs[i].bssid)
SharedFreqs == {0} \cup {ifs[i].freq : i \in {j \in Iface : InUse(j)}}

\* p2p_wfd_sink_config_scc: SCC on freq, or back to MCC if there is none.
p2p_wfd_sink_config_scc(freq) ==
    /\ scc' = freq
    /\ IF freq # 0
       THEN /\ op' \in priv_p2p_freq_to_channel(freq)
            /\ channels' = {op'}
       ELSE op' \in Home /\ channels' = cfg

\* MIRACAST 0, 1, 2 and 2 freq=..., then sent on as a private command; with
\* another number, or without P2P, it is only that.
Miracast ==
    /\ Uses("p2p") /\ BuiltIn("WFD_SINK")
    /\ \E freq \in SharedFreqs \cup Freqs : p2p_wfd_sink_config_scc(freq)
    /\ PrivateCmd
    /\ UNCHANGED <<fixed, radio, use_mcc, dev_capab, timer, drv, report>>

\* p2p_use_mcc=
UseMcc(mcc) ==
    /\ Uses("p2p") /\ BuiltIn("WFD_SINK") /\ BuiltIn("SCC_MCC")
    /\ use_mcc' = mcc
    /\ \E freq \in IF mcc THEN {0} ELSE SharedFreqs :
          p2p_wfd_sink_config_scc(freq)
    /\ UNCHANGED <<fixed, radio, dev_capab, errs, timer, drv, report>>

\* p2p_set_cap p2p_dev_capa
SetCapability(n) ==
    /\ Uses("capability") /\ BuiltIn("WFD_SINK")
    /\ dev_capab' = n % 256
    /\ UNCHANGED <<fixed, radio, op, channels, use_mcc, scc, errs, timer, drv,
                   report>>

\* mcc 1 and mcc 0, for all interfaces.
Mcc(mcc) ==
    /\ Uses("concurrency") /\ BuiltIn("P2P_SIGMA")
    /\ multi' = [i \in Iface |-> IF mcc THEN 2 ELSE 0]
    /\ concurrent' = mcc
    /\ UNCHANGED <<fixed, ifs, p2p, errs, timer, drv, report>>

-----------------------------------------------------------------------------
(* Scan loading. *)

\* Mutation: the running timeout is not cancelled.
ScanLoadingAgain ==
    /\ Uses("scan") /\ BuiltIn("STAGE_SCAN") /\ Len(timeouts) < 2
    /\ \E ok, taken \in BOOLEAN :
          Testmode(ok, taken) /\ sw' = IF taken THEN "scan" ELSE sw
    /\ timeouts' = Append(timeouts, ScanTimeout)
    /\ scan' = "pending" /\ quiet' = 0
    /\ UNCHANGED <<fixed, radio, p2p, errs, block, lists, power, report>>

\* set_scan_loading: eloop_cancel_timeout, eloop_register_timeout.  That the
\* latter may fail is not looked at.
SetScanLoading ==
    /\ Uses("scan") /\ BuiltIn("STAGE_SCAN")
    /\ \E ok, taken \in BOOLEAN :
          Testmode(ok, taken) /\ sw' = IF taken THEN "scan" ELSE sw
    /\ \/ timeouts' = <<ScanTimeout>> /\ scan' = "pending"
       \/ timeouts' = <<>> /\ scan' = "lost"
    /\ quiet' = 0
    /\ UNCHANGED <<fixed, radio, p2p, errs, block, lists, power, report>>

\* EVENT_CHANNEL_LIST_CHANGED: the supplicant asks the driver for the channels
\* of its country (external).
ChannelListChanged == cfg' = Lists[country'] /\ doubt' = FALSE

\* A second passes; what is due fires first.
Second ==
    /\ scan # "none" /\ \A i \in DOMAIN timeouts : timeouts[i] > 0
    /\ timeouts # <<>> \/ quiet < ScanTimeout
    /\ timeouts' = [i \in DOMAIN timeouts |-> timeouts[i] - 1]
    /\ quiet' = IF quiet < ScanTimeout THEN quiet + 1 ELSE quiet
    /\ UNCHANGED <<fixed, radio, p2p, errs, scan, drv, report>>

\* Mutation: the update is held back while the driver reports errors.
ScanLoadingHeldBack ==
    /\ timeouts # <<>> /\ Head(timeouts) = 0 /\ drv_errors = 0
    /\ timeouts' = Tail(timeouts) /\ scan' = "done"
    /\ UNCHANGED country /\ ChannelListChanged
    /\ UNCHANGED <<fixed, radio, p2p, errs, quiet, sw, block, power, report>>

\* wpa_driver_nl80211_scan_loading_timeout updates the channel list.
ScanLoadingTimeout ==
    /\ timeouts # <<>> /\ Head(timeouts) = 0
    /\ timeouts' = Tail(timeouts) /\ scan' = "done"
    /\ UNCHANGED country /\ ChannelListChanged
    /\ UNCHANGED <<fixed, radio, p2p, errs, quiet, sw, block, power, report>>

-----------------------------------------------------------------------------
(* Country, start and stop. *)

\* Mutation: the supplicant is told before the driver is.
CountryToldFirst(c) ==
    /\ Uses("country")
    /\ country' = c /\ cfg' = Lists[country] /\ doubt' = FALSE
    /\ UNCHANGED <<fixed, radio, p2p, errs, timer, sw, block, power, report>>

\* COUNTRY: wpa_driver_mediatek_set_country, then, if that answers 0,
\* wpa_driver_notify_country_change.  The driver may report an error though
\* it took the country.
Country(c) ==
    /\ Uses("country")
    /\ \/ country' = c /\ ChannelListChanged
       \/ country' \in {c, country} /\ doubt' = TRUE /\ UNCHANGED cfg
    /\ UNCHANGED <<fixed, radio, p2p, errs, timer, sw, block, power, report>>

\* start and stop: linux_set_iface_flags, and the event if it answers 0.
\* stop leaves the access point first.
StartStop(on) ==
    /\ Uses("power")
    /\ \/ up' = on /\ announced' = on
       \/ up' \in {on, up} /\ UNCHANGED announced
    /\ ifs' \in IF on THEN {ifs} ELSE {ifs, [ifs EXCEPT !["wlan0"] = NoLink]}
    /\ UNCHANGED <<fixed, multi, concurrent, p2p, errs, timer, sw, block, lists,
                   report>>

-----------------------------------------------------------------------------
(* Reports. *)

\* Mutation: a line may fill the buffer to the last byte.
PrintedTight(lines, size) ==
    LET p[i \in 0..Len(lines)] ==
          IF i = 0 THEN [pos |-> 0, full |-> FALSE]
          ELSE IF p[i - 1].full \/ lines[i] > size - p[i - 1].pos
               THEN [p[i - 1] EXCEPT !.full = TRUE]
               ELSE [p[i - 1] EXCEPT !.pos = @ + lines[i]]
    IN  p[Len(lines)]

\* How far os_snprintf gets line by line in a buffer of the given size: the
\* bytes written and whether a line did not fit, its end included.
Printed(lines, size) ==
    LET p[i \in 0..Len(lines)] ==
          IF i = 0 THEN [pos |-> 0, full |-> FALSE]
          ELSE IF p[i - 1].full \/ lines[i] >= size - p[i - 1].pos
               THEN [p[i - 1] EXCEPT !.full = TRUE]
               ELSE [p[i - 1] EXCEPT !.pos = @ + lines[i]]
    IN  p[Len(lines)]

\* print_sta_statistics: everything or nothing.
print_sta_statistics(size) ==
    LET p == Printed(StatsLines, size) IN IF p.full THEN 0 ELSE p.pos

\* wpa_driver_get_sta_link_detect: the lines that fit.
print_sta_link_detect(size) == Printed(LinkLines, size).pos

\* GET_STA_STATISTICS and GET_STA_LINK_DETECT: -1 if the driver refuses.
Report(kind, size) ==
    /\ Uses("report")
    /\ kind = "link" => BuiltIn("POOR_LINK_DETECT")
    /\ \E ok, taken \in BOOLEAN :
          /\ Testmode(ok, taken)
          /\ report' = [kind |-> kind, size |-> size,
                        len |-> CASE ~ok -> -1
                                  [] ok /\ kind = "link" ->
                                        print_sta_link_detect(size)
                                  [] OTHER -> print_sta_statistics(size)]
    /\ UNCHANGED <<fixed, radio, p2p, errs, timer, drv>>

-----------------------------------------------------------------------------
(* The interfaces (external). *)

Connect ==
    /\ Uses("p2p")
    /\ \E i \in Iface, link \in Links :
          link # ifs[i] /\ ifs' = [ifs EXCEPT ![i] = link]
    /\ UNCHANGED <<fixed, multi, concurrent, p2p, errs, timer, drv, report>>

-----------------------------------------------------------------------------

driver_cmd ==
    \/ Unsupported \/ Miracast \/ SetScanLoading
    \/ \E c \in DOMAIN SwitchOption \cup {"rxfilter", "smt"} : SwitchCmd(c)
    \/ \E c \in {"suspend", "resume"} : SetSuspendMode(c)
    \/ \E a \in Stations, on \in BOOLEAN : BlockStation(a, on)
    \/ \E b \in BOOLEAN : UseMcc(b) \/ Mcc(b) \/ StartStop(b)
    \/ \E c \in Countries : Country(c)
    \/ \E n \in Capabilities : SetCapability(n)
    \/ \E kind \in {"statistics", "link"}, n \in 0..MaxBuf : Report(kind, n)

Next == driver_cmd \/ Second \/ ScanLoadingTimeout \/ Connect

Spec == Init /\ [][Next]_vars

\* Time passes, and eloop_run calls what is due.
FairSpec == Spec /\ WF_vars(Second) /\ WF_vars(ScanLoadingTimeout)

-----------------------------------------------------------------------------
(* Properties. *)

\* The supplicant's channel list is that of the driver's country, whatever
\* COUNTRY and set_scan_loading commands came in between, unless the driver
\* reported an error for a country after the last update; the next update
\* repairs it (wpa_driver_notify_country_change,
\* wpa_driver_nl80211_scan_loading_timeout).
ChannelListCurrent == doubt \/ cfg = Lists[country]

\* The centre frequency of a channel in the classes of 20 MHz channels.
ChannelFreq(c) == CASE c[1] = 81 -> 2407 + 5 * c[2]
                    [] c[1] = 82 -> 2484
                    [] OTHER -> 5000 + 5 * c[2]

\* The frequencies the conversion knows in the current build.
Known(freq) ==
    \/ freq \in {2407 + 5 * n : n \in 1..13} \cup {2484}
    \/ freq \in {5000 + 20 * n : n \in 9..12} \cup {5005 + 20 * n : n \in 37..40}
    \/ /\ BuiltIn("P2P_5G")
       /\ freq \in {5000 + 20 * n : n \in 13..16} \cup {5000 + 20 * n : n \in 25..35}
                   \cup {5825, 5845}

\* Tied to the channel of a station or an access point, P2P operates on just
\* that frequency, whichever class it lies in; only a frequency the table
\* does not know gives a channel nobody chose
\* (priv_p2p_freq_to_channel, whose result the caller ignores).
OnSharedChannel == Known(scc) => ChannelFreq(op) = scc

\* However failures and successes of private commands alternate, drv_errors
\* is the number of failures since the last success, less whole rounds of
\* one more than DRV_NUMBER_SEQUENTIAL_ERRORS (wpa_driver_send_hang_msg).
ErrorsCounted ==
    /\ drv_errors <= DRV_NUMBER_SEQUENTIAL_ERRORS
    /\ \E rounds \in 0..fails :
          fails = rounds * (DRV_NUMBER_SEQUENTIAL_ERRORS + 1) + drv_errors

\* The channel list is updated once for a burst of set_scan_loading, and
\* ScanTimeout seconds after the last of them: an earlier request's timeout
\* never ends a later one's wait (eloop_cancel_timeout).
ScanLoading ==
    /\ scan = "pending" => Len(timeouts) = 1 /\ timeouts[1] + quiet = ScanTimeout
    /\ scan = "done" => timeouts = <<>> /\ quiet = ScanTimeout
    /\ scan \in {"none", "lost"} => timeouts = <<>>

\* The update comes once the timeout is registered, unless set_scan_loading is
\* sent again and again.
ScanAnnounced ==
    []<>(scan # "pending") \/ []<><<SetScanLoading>>_vars

\* With test mode messages built in, the framework's block list is the
\* driver's, except for stations whose last command was answered with an
\* error: whatever was lost before is made good by the next success
\* (STA-BLOCK, STA-UNBLOCK).
BlockListAgrees ==
    BuiltIn("TURNKEY_WLAN") => believed \ unsure = blocked \ unsure

\* The bytes of the first n lines.
Bytes(lines, n) == LET sum[i \in 0..Len(lines)] ==
                         IF i = 0 THEN 0 ELSE sum[i - 1] + lines[i]
                   IN  sum[n]

\* The most lines that fit in a buffer with the end of the string.
Fits(lines, size)    == {n \in 0..Len(lines) : n = 0 \/ Bytes(lines, n) < size}
LastFit(lines, size) ==
    CHOOSE n \in Fits(lines, size) : \A k \in Fits(lines, size) : k <= n

\* A statistics report is complete or empty, a link report ends after its
\* last line that fits, and either leaves room for the end of the string
\* (print_sta_statistics, wpa_driver_get_sta_link_detect).
ReportsWhole ==
    report.kind # "none" /\ report.len # -1 =>
      LET lines == IF report.kind = "link" THEN LinkLines ELSE StatsLines
          last  == LastFit(lines, report.size)
      IN  report.len = IF report.kind = "link" \/ last = Len(lines)
                       THEN Bytes(lines, last) ELSE 0
=============================================================================
