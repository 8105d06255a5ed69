# TLA+ verification of the MT6582 device tree

The repository is the Android device tree of phones built on the MediaTek
MT6582.  Most of it is configuration; its own logic is the GPS HAL
(`src/mtk/gps/hal/gps_mtk_aosp.c`), a handful of smaller native libraries, the
MediaTek RIL class and the YGPS test application.  This directory holds TLA+
models of that logic, the TLC runs that check them on small instances and the
proofs TLAPS checks for every instance.

## 1. Inventory

| Component | State | Operations | Interacts with | Hard parts |
|---|---|---|---|---|
| GPS HAL lifecycle (`gps_mtk_aosp.c`) | `GpsState` (`init`, `start_flag`, descriptors), `started`, `flag_unlock`, the global `sta`, `lock_for_sync[]` | `mtk_gps_init/start/stop/cleanup`, `gps_state_thread`, `mnld_to_gps_handler` | framework (calls in, callbacks out), `mnld` daemon (two datagram sockets), MNL (`/dev/gps`), EPO thread | three threads and a daemon; handshakes by condition flags, polled flags and a socket pair; failures of init; MNL dying |
| EPO download (`gps_mtk_aosp.c`) | `gps_epo_file_count`, `epo_data_updated`, `epo_download_failed`, `epo_download_retry`, retry counters; the files `EPOHAL.DAT`, `EPO.DAT` and one file per piece | `thread_epo_file_update`, `mtk_gps_epo_file_update`, EPO part of `mtk_gps_start`, `HAL_CMD_UPDATE_EPO_FILE_DONE`, retry timer | EPO server (curl), `mnld`, framework (network state) | unlocked variables shared by four threads; partial downloads; data changing on the server; retries |
| NMEA reader (`gps_mtk_aosp.c`) | `NmeaReader`: line buffer, `fix`, `sv_status`, GSV/GSA accumulation | `nmea_reader_addc`, `nmea_reader_parse`, updates | `gps_state_thread`, framework callbacks | overflow of the line buffer; sentences that arrive incomplete or out of order; satellite tables at their limit |
| GPS time arithmetic (`gps_mtk_aosp.c`) | none | `GpsToUtcTime`, begin and end of a piece and of a file, age of the data, `nmea_reader_update_time` | EPO download, NMEA reader, `mktime` and the time zone | calendar edge cases, UTC handed to `mktime`, summer time, the end of a 32-bit `time_t` |
| AT command test mode (`gps_mtk_aosp.c`) | `test_mode_flag`, `test_started`, counters, timers | `gps_at_command_*`, `CMD_TEST_*` | `gps_state_thread` | timers against results |
| AGPS, measurement, injection interfaces (`gps_mtk_aosp.c`) | none of their own | marshal arguments into datagrams | `mnld` | - |
| Lights HAL (`src/liblights/lights.c`) | `g_notification`, `g_battery`, `g_attention`, `g_backlight`, LED files | `set_light_*` | framework threads, kernel LED files | several sources share one LED |
| Bluetooth vendor library (`src/libbt-vendor-mtk`) | `bt_vendor_cbacks`, `mtklib_handle`, `mtk_bt_enable`, `mtk_bt_disable`, `hci_tty_fd` | `mtk_init`, `mtk_op`, `mtk_cleanup` | Bluetooth stack, `libbluetoothdrv.so` through the dynamic linker | failing loads and opens that the stack is not told of; state left over from the cycle before |
| MediaTek RIL (`src/ril/.../MediaTekRIL.java`) | pending requests, network lock and voice-setup state | `processUnsolicited`, `processSolicited`, `setPreferredNetworkType`, ... | Android telephony, rild | responses and unsolicited events in any order |
| wpa_supplicant driver commands (`mediatek_driver_cmd_nl80211.c`) | `drv_errors`; P2P's operating channel, channel list, `p2p_use_mcc` and `dev_capab`; `num_multichan_concurrent`; the scan loading timeout | `wpa_driver_nl80211_driver_cmd` and the commands behind it | supplicant's event loop, kernel driver, framework | commands in any order while interfaces come and go; a driver that refuses or loses messages; answers the framework believes; timeouts |
| YGPS application (`src/YGPS`) | socket client queue, test counters, satellite tables | UI handlers, `ClientSocket`, automatic TTFF test, `NmeaParser` | location service, `mnld` socket | UI thread against worker threads |
| xlog and audio shims, `libmt6582` | none | forward or ignore calls | vendor blobs | - |
| Boot scripts, SELinux policy, overlays, build files | none | - | init, build | - |

What makes the modelled components correct:

* Lifecycle: descriptors outlive the thread that polls them; cleanup joins both
  threads; no start misses the one announcement of the first sentence; the
  framework sees sessions as ENGINE_ON, SESSION_BEGIN, SESSION_END, ENGINE_OFF
  with the wake lock around them, although two threads report them; calls
  return.
* EPO download: whatever fails, `EPOHAL.DAT` and what `mnld` takes over hold
  consecutive pieces of one day's data; a completed download is complete; a
  failed one does not stay failed for ever.
* NMEA reader: a line is never put together from two sentences; a reported
  location is of one epoch, with the right date; every epoch's location and
  satellites are reported, each satellite once and with its use in the fix.
* Lights: when no call is under way, the shared LED shows the battery light if it
  is lit and the notification otherwise, with that state's delays; the trackball
  light follows attention and backlight.  A failed write costs its own light only.
* WPA driver commands: the supplicant's channel list is the one of the driver's
  country; in SCC P2P operates on the shared frequency; errors are counted since the
  last success; the channel list is updated once, in time, after a burst of
  `set_scan_loading`; what the framework believes of the driver's block list is
  repaired by the next command that succeeds.
* Bluetooth: in every cycle, calls go into the library as it is loaded now, and the
  library is released.
* Time: dates are right over leap years and centuries; and as long as the 32-bit
  `time_t` of this target lasts, until January 2038, that UTC is taken for local time
  cancels out, but for the hour named.

The hazards of the code, each at its line and with the properties that cover
it, are listed in `PROJECT.json`.

## 2. Plan

Done:

1. `GpsHal`, `GpsSession`, `GpsHalProofs`: the lifecycle.
2. `EpoDownload`, `EpoDownloadProofs`: the download thread, the requests of start,
   short answers of the server.
3. `NmeaReader`, `NmeaReaderProofs`: read loop, line buffer, GSV/GSA accumulation,
   reports.
4. `Lights`, `LightsProofs`: the `set_light_*` functions with their lock and with
   failing writes.
5. `WpaDriver`, `WpaDriverProofs`: the driver commands.
6. `BtVendor`, `BtVendorProofs`: the Bluetooth vendor library.
7. `GpsTime`, `GpsTimeProofs`: the time arithmetic against a reference calendar.
8. `Induction`: what the proofs about recursive functions share.

Every invariant a run checks is also proved, but for the ones that are violated.

To follow, in this order:

1. A composition of `GpsHal` with the state of the EPO thread (`started`,
   `thread_epo_exit_flag`), so that a cleanup during a download is covered.
2. The command socket of YGPS (`ClientSocket`), whose threads share streams and the
   last response without a lock, and its automatic TTFF test.
3. The MediaTek RIL, as far as the state of the framework's class can be modelled
   from its use.

## 3. Modules and the code

### GpsHal

One action is the code between two accesses to state that another thread uses.
`pc` is the framework's thread (the framework calls the HAL from one thread, and
alternates start and stop), `gpc` is `gps_state_thread`, `epc` the EPO thread as
far as its creation and exit go.  The other variables carry the names of the C
variables; `cond[l]` is `lock_for_sync[l].condtion`, `control` the bytes in the
socket pair, `cmdq` and `msgq` the two datagram sockets.  `get_condition` and
`release_condition` hold a mutex and are single steps; the test-and-clear of
`M_STOP` in start and cleanup does not, and is a step of its own.  `sta` is
global: an assignment to it and the callback that passes it on are different
steps, except where only one thread can be between them (GPS_ICON).

`mnld` and MNL are external and modelled from what the HAL relies on: START runs
MNL, STOP and CLEANUP end it, the end of MNL is reported by MNL_DIE, and a
running MNL writes sentences to `/dev/gps`.  `nmea` tells whether unread data
there is of a dead or of the running MNL.

The constant `Env` switches the faults on: every failing call of
`gps_state_init`, of the boot of the thread and of the EPO thread, a failing
send, EPOLLHUP, MNL dying on its own, and network-initiated sessions (GPS_ICON).

Left out: messages that change none of this state, the EPO decisions of start
(in `EpoDownload`), the AT test mode (off in this build).

### GpsSession

What the framework may rely on: the order of statuses and of the wake lock.
Its state is the last status `reported` and whether the wake lock is `held`.
`GpsHal` implements it: `Session == INSTANCE GpsSession WITH reported <- status,
held <- wakelock`, and `SessionProtocol` is `Session!Spec`.

### EpoDownload

Time is in days, a piece covers three days, and a file is the sequence of its
pieces, each with its number `p` and the day `g` of the server's data.  That is
all the code looks at: start and end of a file, and the distance from the end of
one piece to the start of the next.  `tpc` follows `thread_epo_file_update`
through `mtk_gps_epo_file_update`; `caller` tells whether the main path or the
retry path called it.  `fw` is the framework's thread in the EPO part of start,
and the state of `started` that follows.

`Envs` is a set of environments, sets of events that may happen; `ev` is the one of
the behaviour.  An answer of the server that is too short to hold a record (the event
"short") is a piece of day `Short`: it is merged like any other, and the times of a
file that begins with it cannot be read; those of a file that ends with it may tell
anything (`FileDays`).

Nothing here is locked.  With "preempt" in `ev` threads are switched anywhere;
without it only where a thread waits (a transfer, its 100 ms or 2 s sleep, a
timer, `mnld`).  Sessions are checked without it: the windows between such points
are a few instructions long, transfers take seconds.  What breaks when a switch
does fall into such a window is said in section 7.

A merge may fail ("merge_fails"): EPOHAL.DAT or the piece cannot be opened, or the write
comes up short.  `AppendPiece` then adds nothing, or a piece of day `Short`, and the
piece is counted as if nothing had happened.

`Undisturbed` is the condition of the safety properties.  Merges work, as nothing in the
code makes up for one that fails (section 7).  And no session starts, or sessions find one day's
data, which is not short and cannot expire meanwhile, and threads are switched where
they wait, so that a start does not restart the download; what happens otherwise is the
`epo_overlap` run.  So `DatWellFormed` is about sessions that ask for updates during a
download of one day's data; it says nothing about the windows of section 7.

`WellFormed` looks at whole pieces: which of them, in which order.  It does not see that
the fragment of a short answer stays inside the file and that the records behind it are
no longer aligned.

Left out: the configuration file (its values are the constants), a write that is cut
after a whole record (told apart from the one that is cut before it by nothing but the
time the file seems to begin), the counter in the URL.

### NmeaReader

A sentence is a record of the fields the code looks at: the identifier and talker,
which location fields are not empty (`has`), the mode (for RMC, 1 is the status V),
the counts of a GSV and the satellite numbers.  Values are represented by the epoch
`e` they belong to, so that mixtures of epochs show.  A character is a sentence and
a position; the first is `$`, the last `\n`.  `rpc` is where `gps_state_thread` is:
waiting for events, before a read, in the loop over the chunk, in
`nmea_reader_parse`, in its loop over the satellites of a GSV (`sv`), or at its end
where reports are made (`report`).  `mtk` tells the two callback structures apart,
which have different satellite tables; `sv_list` and `used` stand for the table and
the set of used satellites of whichever is in use.  A line that lacks more than the
`$` at its beginning is not recognised; the code then either drops it as too short
or treats it as an unknown sentence, which may still report.

MNL is external.  `link`, one of `Links`, says how MNL and the reader work together: the
size of a read, the epochs, and the following.  An epoch is written sentence by
sentence; with `Burst` the reader sees only whole epochs, and with `Prompt` an epoch is
read before the next one is written.  `Interval` is `report_time_interval`, of which the
skipped reads follow.  A valid RMC has a date, as MNL's has.

What is reported depends on the sentences and on how reads cut them, so the properties
say which epochs they are about.  `OneRead`: epochs are written at once, fit a chunk
and are read in time.  `RegularFix`: where there is a position, there are a valid RMC
with the time and a GSA of GP, no GSA denies the fix, and each comes before an ACCURACY
sentence, which is only looked at once there is a fix.  `RegularSats`: the GSV of a
talker are one complete set, in order and not mixed with another talker's; each has the
satellites its counts announce, none comes twice; a GSA comes before the GSV, as a
satellite is marked when it is entered, and names some only where some are in view, as
the marks are only cleared with a report.  These are the sentences MNL writes and
nothing in the code makes sure of; the order of the sentences is free otherwise, and so
are the constellations and the number of satellites.  What happens to some of the
others is said in section 7.

Left out: the AT test within `nmea_reader_parse`, `nmea_cb`, the forwarding of
locations to `mtk_gps_update_location` and MNLD, the checksum (which the code drops
unread).

### Lights

Each device has a thread, and `pc` says where it is between taking and releasing
`g_lock`.  Taking the lock and assigning the global are one step, as nobody else
looks at the global without the lock.  `calls` holds the
`set_speaker_light_locked` calls a function has still to make; each is two steps,
all colours off and then those of the state on, through the caches `preStatus` of
`blink_red`, `blink_green` and `blink_blue`.  `led` and `trackball` are what the
kernel shows.  The delay files may appear too late, in which case a blinking LED
keeps the default delays.

The writes to the colours in `Faulty`, and to the trackball light if it is there, may
fail.  `blink_*` ignores their results and
remembers the new status in `preStatus` all the same.  The writes of one update fail
or work together, and a colour whose update failed stays as it was; `failed` is
the set of these colours.  `missed` says that the last write to the trackball light
failed, of which nobody is told.

Left out: the logging, `g_buttons` (never read), `open_lights`.

### WpaDriver

The supplicant has one thread, its event loop: a command is one step, and timeouts
fire between commands.  `build` is the set of options the file was compiled with and
`client` the families of commands in use; families share no state unless they are in
one set of `Clients`, so that they can be checked apart.  Private commands (`ioctl`)
may fail and are counted in `drv_errors`; a command whose option is not built in is
one of these.  Test mode messages may be lost or refused, or be taken by the driver and
answered with an error all the same (`Testmode`); without `CONFIG_MTK_TURNKEY_WLAN` they
are reported as sent and are not.

`ifs` holds mode and frequency of the interfaces of the radio, which change on their
own (`Connect`).  `MIRACAST` and `p2p_use_mcc` read the frequency in use and set
`op`, `channels` and the history variable `scc`, the frequency P2P was tied to.
`priv_p2p_freq_to_channel` gives the channel; for a frequency it does not know, the
channel is whatever the stack held (`Garbage`), as the caller does not look at the
result.  On the return to MCC P2P gets `cfg`, the supplicant's channel list.

`country` is the driver's, and `Lists` its channels in each.  COUNTRY sets it, and if
that succeeds makes the supplicant ask for the list (`ChannelListChanged`), as the end of
scan loading does.  The driver may report an error though it has taken the country;
`doubt` remembers that it reported one since the list was last updated.  A COUNTRY
command of the wrong length answers 0 and changes nothing.

`timeouts` are the registered scan loading timeouts with their seconds left, `scan` and
`quiet` the history the properties compare them with.  The result of
`eloop_register_timeout` is ignored; when it fails the request is "lost".  `blocked` and
`up` are the driver's side, `believed` and `announced` what framework and supplicant were
told, and `unsure` the stations whose last command was answered with an error.  A report
is the lengths of its lines and how far they fit into the caller's buffer.
`dev_capab`, `multi`, `concurrent`, `sw`, `up` and `announced` are there because commands
set them; only `TypeOK` is about them.

Left out: commands that only read (MACADDR, getpower, p2p_get_cap,
get_beamplus_go_ready) or do nothing (POWERMODE, btcoex*, rts), the content of
test mode answers, and the length of private commands: a longer one is cut to
`PRIV_CMD_SIZE`, after which the copy with its terminating byte is one longer than the
buffer (1841-1847).  The handler of the scan loading timeout is compiled under
`CONFIG_MTK_LTE_COEX`; the model takes builds with `set_scan_loading` to have it, as they
do not compile otherwise.  What the supplicant itself does to `p2p->channels` is not in the
tree and not modelled.

### BtVendor

`mtk_init`, `mtk_open` and `mtk_close` (the cases USERIAL_OPEN and _CLOSE of
`mtk_op`), the other operations of `mtk_op`, and `mtk_cleanup`, over any number of cycles
of one process.  `stage` is the order in which the stack initialises, opens, closes and
cleans up; FW_CFG and EPILOG may come at any time, and end the process when
`bt_vendor_cbacks` is not set.  A pointer is null,
into the library as it is loaded now ("mapped") or into one that has been unloaded;
`refs` counts its references.  A call through a pointer that is not mapped ends the
process, `fault` says what went wrong, and `NewProcess` is the restart by the system.
`resolved` remembers whether this cycle's load worked.

### GpsTime

Operators for `GpsToUtcTime` and for what is computed with its result; the loop over the
years is a recursive function of the number of passes (`years`).  The only state is the
zone (`scan`) and the record looked at (`hour`).  Time is in hours, the unit of the
records, so that zones are of whole hours.  `mktime` is external: where the clocks go back
or forward it may give either answer, and past `TimeEnd`, the last hour of the 32-bit
`time_t` of this target (`BoardConfig.mk` builds for 32-bit ARM), it gives -1, which lies in the
hour `Failed`.  The code goes on with it (1581, 4224, 5061), and so does the model; a sum
that exceeds `TimeEnd` wraps (`Overflow`).  `AgeWithinHour`, `ChangeNoticed` and
`FixTimeRight` are about the times that have an answer (`InTime`).  The reference for `CalendarRight` is a closed formula for the number of a day,
which shares nothing with the loops.

### MC modules

`MCGpsHal` and `MCEpoDownload` name the environments the configurations choose,
`MCLights` the light states, `MCNmeaReader` the links and the epochs MNL writes,
`MCWpaDriver` the builds, clients and frequencies, `MCBtVendor` the descriptors and
`MCGpsTime` the zones and records.

## 4. Runs

| Run | Shows |
|---|---|
| `hal_faults` | All faults on.  Types and capacities; `FdsOpenWhileThreadRuns`; `NoLostStart`; `CleanupJoinsThreads`. |
| `hal_normal` | No faults, fair scheduling: every call returns, over any number of sessions; `GpsSession` is implemented; cleanup never overtakes ENGINE_OFF. |
| `hal_first_nmea` | *Violated.* Data of the previous MNL, read after MNL_DIE, is taken for the first sentence of the next session; start reports ENGINE_ON too early. |
| `hal_stop_hang` | *Violated.* After a spontaneous death of MNL, `mtk_gps_stop` polls `start_flag` for ever. |
| `epo` | Three environments: the thread by itself, preempted anywhere, with failing transfers, short answers, network changes, a late or changing server and a failing timer; sessions during downloads; a server and a disk that fail while the rest can be relied upon.  `HalWellFormed`, `DatWellFormed`, `CompletedHasAll`; and with fairness, a failed download is completed, restarted or given up (`RetryEnds`). |
| `epo_overlap` | *Violated.* A start that finds `EPOHAL.DAT` expired resets `gps_epo_file_count` while a later piece is being fetched; the piece is then merged and counted as the first. |
| `nmea` | Two links.  Regular epochs, read whole and in time: `LocationWhole` (also over midnight), `LocationReported`, `SatellitesReported`, with start, stop and restart in between.  Reads of four characters, thrown-away reads, sentences that overflow the line by one and by two: `LineIntact`. |
| `lights` | Six threads setting seven states in any order, with failing writes of one colour and of the trackball light: `OwnerShown`, `TrackballFollows`. |
| `lights_restart` | *Violated.* `g_trackball` is never assigned, so the mode the trackball light already has is written again. |
| `wpa` | Commands in any order, a driver that refuses or loses any of them, or takes them and reports an error, and interfaces that come and go, in four builds: `ChannelListCurrent`, `OnSharedChannel`, `ErrorsCounted`, `ScanLoading`, `BlockListAgrees`, `ReportsWhole`; with fairness, `ScanAnnounced`. |
| `bt` | Cycles of initialisation, operations and cleanup with failing loads and opens: `CallsReachLibrary`, `LibraryReleased`. |
| `gps_time` | `CalendarRight` up to 2116; `AgeWithinHour`, `ChangeNoticed`, `FixTimeRight` up to January 2038; record by record. |

Deadlock is not checked in `hal_faults` and `hal_stop_hang`: with
failing initialisations or a dead MNL the HAL really does wait for ever.

### Bounds

`CmdCap`, `MsgCap` and `CtrlCap` bound the sockets.  The framework's thread waits
between commands, so at most STOP and CLEANUP are outstanding towards `mnld`, and
CMD_STOP, CMD_QUIT and a CMD_START in the socket pair; 2, 2 and 3 hold these, and
the smaller `CmdCap = 1` and `CtrlCap = 2` of `hal_faults` make every sender block.
The theorems hold for all capacities.

`MaxDay` is 3 (5 in `epo_overlap`): data expires and is replaced within the horizon for
the chosen periods.  `DwDays` is 8 (three pieces of which the last is partly used; two
full ones in `epo_overlap`) instead of 30; `RetryLimit` is 2 instead of 10: one retry
that is counted and one that gives up.  `UpdCap = 1` keeps one update request under way;
the server's ten pieces are kept.

For the reader the sizes are scaled down so that each limit is met: lines of three
characters and sentences of three to five; a chunk that holds an epoch (40) or
little more than a sentence (4); GSV sentences of two satellites, so that sets have
one or two; tables of 3 and 4 satellites, which the fifth epoch of `WholeEpochs`
overfills.  `MaxEpoch` is 3 or 2;
midnight is before the second epoch.  In every epoch of `WholeEpochs` with a GSA
there is a GSV, as MNL writes both.

The seven states of `MCLights` are off, steady, blinking with two different pairs of
delays, a colour without alpha that is a hardware mode, a timed state that does not
blink, with a blue too faint to count as backlight, and hardware mode 7 (breathing).
`HaveTrackball` is true, which adds calls, and `Faulty` is the green LED and the
trackball light; the theorems cover every choice.

For the driver commands, the frequencies are one or two of each class the conversion
tells apart, channel 14 and one it does not know; `DRV_NUMBER_SEQUENTIAL_ERRORS` is 1
and `MaxFails` 3, so that the counter wraps and goes on; `ScanTimeout` is 3 instead of
10 seconds, enough for a request before, at and after every second of another; buffers
of 0 to `MaxBuf` = 10 bytes cover every place where a report of 8 or 7 bytes can be cut.
The frequencies of interfaces are two, so that they agree and differ; so are the
countries, with different lists.  Two descriptors
are enough for `bt` to tell a stale one from the open one.

`gps_time` looks at four records a day in the years around the rules for leap years
(1980, 1981, 1999, 2000, 2099, 2100, 2104) and in 2038, at one in 31 up to the year 2116,
where `u4GpsSecs` overflows, at every hour of January 2038 west of Greenwich, where local
and universal time reach the end of `time_t` at different hours, and at every hour of 2015 in a zone of the northern and one of
the southern hemisphere.

### Fairness

`GpsHal!FairSpec`: threads are scheduled, epoll is level-triggered and serves each
ready descriptor, `mnld` serves its socket and a running MNL keeps writing
sentences.  No call of the framework and no fault is fair.
`EpoDownload!FairSpec`: the EPO thread polls, and an armed timer expires.  The
network, the framework and the server need not do anything.
`WpaDriver!FairSpec`: time passes, and the event loop calls what is due.  No command
is fair.

## 5. Proofs

`GpsHalProofs` proves, for every `Env` and every capacity allowed by
`EnvAssumption` and `CapAssumption`:

* `TypeCorrect`: `TypeOK`.
* `FdsOpenTheorem` and `CleanupJoinsTheorem`.  Neither property is inductive.
  The strengthening `ThreadInv` says for each position of the framework's thread
  where the other threads can be, and that `M_INIT`, `M_CLEANUP` and
  `M_THREAD_EXIT` are set exactly when their thread has announced something
  nobody has consumed: a flag left from an earlier incarnation would satisfy the
  next join, and that is what the invariant excludes.
* `NoLostStartTheorem`, from `StartInv`: `flag_unlock` without `M_START` means
  that start has consumed it or that no start can be waiting.

and, assuming that MNL ends only on request and no network-initiated session
reports (`QuietEnv`), whatever else fails:

* `CleanupAfterEngineOffTheorem` and `SessionTheorem`: the HAL implements
  `GpsSession`.  `SessionInv` has three parts.  `TokenInv`: at most one MNL_DIE is
  on its way, from the STOP that causes it to the handler that ends it, and only
  in a session whose start has returned.  `ReportInv`: from that, the two
  threads are never both between an assignment to `sta` and its callback, and
  `status` and `wakelock` are those of the position of the reporter.  `StopInv`:
  `M_STOP` is set only once ENGINE_OFF has been delivered.

`EpoDownloadProofs` proves, for every configuration and every environment, with
answers that fail or are short:

* `TypeCorrect`.  `TypeInv` adds what keeps the variables in range: the count is 10 only
  when a download has just been finished, and the update requests and their answers
  share `UpdCap`.
* `HalAlwaysWellFormed`, `DatAlwaysWellFormed` and `CompletedAlwaysHasAll`, each under
  `Undisturbed` (section 3).
  `WellFormed` says nothing of what the thread does next, so `EpoInv` ties the file to
  the count.  `Counted`: with a count of n the whole pieces of `EPOHAL.DAT` are pieces 0
  to n - 1 of one day, the day of piece file n - 1.  `FileInv`: so it is before, during
  and after the merge of a piece, at each step of the thread with its own n.
  `FetchInv`: the piece that is fetched is the one that will be counted, and no older
  than the one before, as the server's data never becomes older; that is why looking at
  two neighbouring pieces is enough to notice new data.  `SessionsInv`: under
  `Undisturbed` a session finds one day's data and asks for a download only where
  nothing is counted; `AloneInv`: without sessions `mnld` is not asked for anything.

`LightsProofs` proves `LightsTypeCorrect`, `OwnerShownTheorem` and `TrackballTheorem`
for every set of light states, with and without a trackball light and whichever colours
and lights may fail.  `OwnerShown` speaks of a free lock only; `LedInv` adds what holds while a
function runs: only the holder of the lock is inside one (`LockInv`), the caches agree
with the LED, except for a colour whose last update failed (`CacheInv`), the last
pending call is the one for the owner, all colours are off before the second half of a
call, and when no call is left the LED shows the owner (`CallInv`).  `TrackInv` and
`LightInv` say that a stale trackball light is about to be handled by the holder.

`NmeaReaderProofs` has two parts.  The first proves `NmeaTypeCorrect` and
`LineIntactTheorem` for all sizes and all epochs, whether or not they are written at
once.  `RpcInv` (a chunk that is being fed is not empty, a line that is being parsed is
not) makes `TypeOK` inductive.  `StreamInv` follows the characters: within `/dev/gps`
and the chunk each character is followed by its successor, or the end of a sentence by
the beginning of another (`Chain`); the chunk continues in `/dev/gps`, and an unfinished
line in the chunk or, when that is used up, in `/dev/gps` (`InInv`); and an event finds
no line begun, so that a thrown-away read never separates the halves of one.  That the
reader drains `/dev/gps` before it waits again is what the last point rests on.

The second part proves `LocationAlwaysWhole`, `LocationAlwaysReported` and
`SatellitesAlwaysReported` for all sizes and all sets of epochs that are regular in the
sense of section 3: any number of sentences, constellations and satellites, in a table
of any size.  Three invariants are about `OneRead`.  `ReadInv`: a chunk is what is left
of one epoch, and the last line is ended by the last character of it, so that `end_tag`
is set for that line only.  `OrderInv`: sentences come in the epoch's order.  `TurnInv`:
those that are no longer `Pending` precede those that are.

* Locations: `GatherInv`, every sentence is pending or what it gives is in `fix`;
  `FlagInv`, the flags of `fix` are of this epoch, and clear between chunks, which is
  what keeps two epochs apart; `DoneInv`, when all is read the fields are in the report.
* Satellites: `Rules` restates `RegularSats` for sentences instead of places.
  `TableInv`: the first `Filled` entries of the table are the satellites `Found` so far,
  each once and all of them if they fit, where `Filled` is `num_svs`, and `sv_count` in
  addition while a set is open: between the sets `sv_count` is stale.  `CountInv`:
  `sv_count` is never more than the sentences of the set so far can hold, so that the
  test against the announced number never rejects a complete set.  `UsedInv`: the marks
  are those of the GSA sentences that were parsed, and clear between chunks.
  `RightInv`: the last report is of everything in view, once all is read.

`WpaDriverProofs` proves, for all builds, clients, frequencies and limits,
`ChannelListAlwaysCurrent`, `AlwaysOnSharedChannel`, `ErrorsAlwaysCounted`,
`ScanLoadingAlways` and `BlockListAlwaysAgrees`.  Most
commands touch one group of variables: `StepEffects` says once, for every command,
what a step may do to each group, and each theorem uses the part it needs.
`AlwaysOnSharedChannel` rests on `FreqToChannel`, which says that the conversion and
the centre frequencies of the channels are inverse to each other on all known
frequencies, not only those of the run.  `ErrorsInv` and `ScanInv` add types.
`TypeCorrect` puts the types together.  `ReportsAlwaysWhole` is about reports of lines of
any length in a buffer of any size up to any `MaxBuf`: by induction over the lines
(`PrintedDef`), printing stops after the last line or before one that does not fit, and
as every line adds to the length (`BytesGrow`) these are the most that fit (`MostLines`).

`GpsTimeProofs` proves, for all zones of whole hours, all summer times and all hours up to
`LastHour`, `CalendarAlwaysRight`, by induction over the passes of the loop, each of which keeps the
days before the year plus the days left (`YearsRight`), and from the table of months
(`MonthRight`); and, for the hours up to `TimeEnd`, from which answers `mktime` can give
there (`MktimeAnswers`), `AgeAlwaysWithinHour`, `ChangeAlwaysNoticed` and `FixTimeAlwaysRight`.

`Induction` holds what both rest on: a set of natural numbers with 0 and successors
contains all (`UpTo`), stated with a set because the library's rule has an operator as
parameter, and the existence of a function defined by iteration (`Iteration`), from
which the recursive functions get their equations.

`BtVendorProofs` proves `BtTypeCorrect`, `CallsAlwaysReachLibrary` and
`LibraryAlwaysReleased` for every set of descriptors.  The properties look at what just
went wrong; `LibInv` (the library is held exactly while it runs and its symbols were
found, and then the pointers are mapped) says why it cannot.

Each is proved by one step per action; the invariants were model-checked first, where
TLC can evaluate them (`FileInv` quantifies over all files).

With TLC only: `CallsReturn`, `RetryEnds`, `ScanAnnounced` and the fair violations, as
liveness under fairness is out of the prover's reach.  The invariants of section 4 that
hold are all proved, and so is the refinement of `GpsSession`.

## 6. Not modelled

* The AT command test mode: `MTK_TC1_FEATURE` is not set in this build and nothing in
  the tree sends its commands.
* The AGPS, measurement and injection interfaces, which marshal arguments into
  datagrams and keep no state.
* The MediaTek RIL overrides methods of the class `RIL` of the Android framework, which
  keeps the request table, the radio state and the wake lock and is not in the tree.
* The YGPS application, so far (section 2).
* The audio and xlog shims and `libmt6582`, which forward or ignore calls.
* Boot scripts, policies, overlays and build files, which are configuration.

What modelled components leave out is said in section 3.

## 7. What the models show about the code

* The four violated runs of section 4, recorded as findings.
* Init does not return when `/dev/gps` cannot be opened, when the socket of the
  codec cannot be set up or when a step before the thread's creation fails: it
  waits for flags nobody will set.
* `start_flag` is set at the very end of start.  If MNL dies on its own between
  the first sentence and that assignment, the session is over and marked as
  running; `SessionProtocol` therefore needs `QuietEnv`.
* With a thread switch between the merge of the first piece and the increment of
  `gps_epo_file_count`, UPDATE_EPO_FILE_DONE of an earlier update removes the
  piece; `DatWellFormed` does not hold with "preempt".
* A merge that fails is only logged (5347, 5352) and the transfer counts as successful:
  the piece is counted, and "download epo file completed!" said of a file without it.
* A short answer of the server is merged before it is found to be short, and the retry
  appends the piece behind the fragment: the records after it are no longer where the
  readers of the file look for them.
* Sentences that are not written at once: a location reported before the RMC of
  its epoch carries the date of the previous one just after midnight, and
  satellites are reported in parts; `LocationWhole` and `SatellitesReported` are
  therefore about epochs that are read whole.
* The log line "GPGSV incomplete (%d/%d), ignored!" is written only when a set has
  more satellites than announced; an incomplete set (`sv_count < cnt`) is counted.
* When the first GSV sentence of a set is lost, `sv_count` still has the count of the
  previous set, which is added to `num_svs` again; the report then repeats or
  misses satellites.
* An empty satellite number in a BDGSV becomes 200, which is accepted.
* The log line of `set_scan_loading` says "timeout= 1 second"; the timeout is 10 seconds.
  The comment at `mediatek_driver_cmd_nl80211.c:1751` has STAGE_SCAN "enabled only if no
  force band is selected", but SETBAND, which sets `user_force_band`, is compiled out.
* `MIRACAST` and `p2p_use_mcc` ignore that a frequency is unknown, and P2P then operates
  on an uninitialised channel (line 1269).  The classes 118, 121 and 125 accept
  frequencies between two channels.
* `MIRACAST` does not look at `p2p_use_mcc`, and neither command is repeated when
  interfaces connect or disconnect: SCC outlives the station it was chosen for.
  Interfaces created after "mcc 1" have the default.
* `p2p_use_mcc` answers -1 also when it succeeds, and looks into `global->p2p` before it
  tests it; `set-wapi-key` answers 0 whatever the driver says; test mode messages are
  reported as sent in a build without them.
* The statistics are filled in from the attributes the driver sends; the others are
  uninitialised.  So is `wpa_s` in the command handler on `ap0` (1395-1404).
* A driver that takes a country, or blocks a station, and then reports an error leaves the
  supplicant or the framework with the old state until the next command succeeds; and when
  `eloop_register_timeout` fails, the update of the channel list after scan loading is lost.
* P2P gets a new channel list only when it returns to MCC by `MIRACAST` or `p2p_use_mcc`.
* The HANGED message that `drv_errors` is counted for is commented out (43-52).
* `mtk_init` returns 0 when the library cannot be loaded, and when a symbol is missing:
  the next open then calls through a null or stale pointer, or, if there is none, cleanup
  closes the library a second time.  FW_CFG is answered with success after a failed open.
* `hci_tty_fd` is never reset: after an open that failed, close disables the descriptor of
  an earlier cycle.  FW_CFG and EPILOG before init and after cleanup call through a null
  pointer (149, 152).
* From January 2038 on `mktime` answers -1, which nothing but a log line looks at: begin and
  end of all data are then the same and no change on the server is noticed, and the age of
  the data and the time of a fix are wrong.
* EPO data of the summer seems an hour older than it is; new data of the server is not
  noticed when the clocks go forward within the day between; a fix in the skipped hour
  may be an hour off.
* A colour of the LED whose update failed stays wrong until it is next written, as
  `preStatus` already has the new value.  A failed write to the trackball light goes
  unnoticed, too.
