---------------------------- MODULE MCWpaDriver ----------------------------
(* WpaDriver with the values of the Wpa run. *)
EXTENDS WpaDriver

\* All options with and without test mode messages and the 5 GHz channels,
\* and none.
MCBuilds  == {Option, Option \ {"TURNKEY_WLAN"}, Option \ {"P2P_5G"}, {}}

\* Families whose commands share no state are checked apart.
MCClients == {{"p2p", "country"}, {"scan", "country", "concurrency"},
              {"capability"}, {"switch", "power"}, {"hotspot"}, {"report"}}

\* One frequency of each class, the channel without a multiple of 5 MHz and
\* one the conversion does not know.
MCFreqs   == {2412, 2472, 2484, 5180, 5320, 5700, 5745, 5845, 4920}

MCApFreqs == {2472, 5745}

MCOperChannel == {}
MCCountries   == {"US", "JP"}
MCLists       == [c \in MCCountries |->
                    IF c = "JP" THEN {<<81, 1>>, <<81, 6>>, <<82, 14>>}
                                ELSE {<<81, 1>>, <<81, 6>>, <<115, 36>>}]
MCGarbage     == {<<0, 0>>, <<255, 7>>}
MCStatsLines  == <<3, 1, 4>>
MCLinkLines   == <<2, 2, 3>>
MCCapabilities == {32, 255, 256, -1}
=============================================================================
