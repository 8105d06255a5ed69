---------------------------- MODULE EpoDownload ----------------------------
(***************************************************************************)
(* EPO (predicted orbit) download of src/mtk/gps/hal/gps_mtk_aosp.c: the   *)
(* thread thread_epo_file_update fetches the pieces of the server's data   *)
(* one by one and appends them to EPOHAL.DAT, while mtk_gps_start requests *)
(* downloads and updates, gps_state_thread handles mnld's answers and a    *)
(* timer allows retries.  None of the shared variables has a lock.         *)
(*                                                                         *)
(* Time is counted in days.  The server's data of day g covers three days  *)
(* per piece: piece p is valid from g + 3p to g + 3(p + 1).                *)
(***************************************************************************)
EXTENDS Integers, Sequences

CONSTANTS
    DwDays,        \* gps_epo_download_days, 0..30
    GpsPeriod,     \* gps_epo_period
    WifiPeriod,    \* wifi_epo_period
    WifiTrigger,   \* gps_epo_wifi_trigger
    Enabled,       \* gps_epo_enable
    RetryLimit,    \* retries of one piece (10 in the code)
    MaxDay,        \* bound: the days the model runs through
    UpdCap,        \* bound: update requests mnld has not answered
    Envs           \* environments: sets of events that may happen

\* preempt: threads are switched anywhere.  Without it, the EPO thread and
\* the others take turns only where one of them waits: for the network, for
\* its timer, for mnld.  stale: the server's data may be older than today.
\* short: an answer of the server may be too short to hold one record.
\* merge_fails: EPOHAL.DAT or the piece cannot be opened, or be written.
EpoEvents == {"fails", "network", "timer_fails", "start", "preempt", "day",
              "stale", "short", "merge_fails"}

ASSUME EpoAssumption ==
    /\ DwDays \in 0..30 /\ GpsPeriod \in {3, 15, 30}
    /\ WifiPeriod \in {1, 3, 15, 30}
    /\ WifiTrigger \in BOOLEAN /\ Enabled \in BOOLEAN
    /\ RetryLimit \in Nat \ {0} /\ MaxDay \in Nat \ {0} /\ UpdCap \in Nat
    /\ Envs \subseteq SUBSET EpoEvents

VARIABLES
    tpc,            \* where thread_epo_file_update is
    caller,         \* who called mtk_gps_epo_file_update: main or retry
    count,          \* gps_epo_file_count
    updated,        \* s->epo_data_updated: a download is requested
    failed,         \* epo_download_failed
    retry,          \* epo_download_retry
    name,           \* the piece gps_epo_file_name names
    piece,          \* day of the data in each piece file, 0 if there is none
    hal,            \* EPOHAL.DAT: its pieces, empty if there is no file
    dat,            \* EPO.DAT, likewise
    file_retrying,  \* the piece being retried
    retry_time,     \* how often it has been retried
    file_count_temp,\* gps_epo_file_count before the retry
    timer,          \* is the retry timer armed?
    fw,             \* where mtk_gps_start is, or the state it led to
    conn, net,      \* nw_connected, nw_type
    upd, done,      \* MNL_CMD_UPDATE_EPO_FILE and ..._DONE under way
    day, srv,       \* today; the day of the server's data (external)
    ev              \* fixed: the environment

thread == <<tpc, caller, file_retrying, retry_time, file_count_temp>>
flags  == <<count, updated, failed, retry>>
files  == <<name, piece, hal, dat>>
env    == <<timer, fw, conn, net, upd, done, day, srv, ev>>
vars   == <<thread, flags, files, env>>

-----------------------------------------------------------------------------

\* count_temp: the pieces that cover DwDays.
CountTemp == DwDays \div 3 + (IF DwDays % 3 > 0 THEN 1 ELSE 0)

\* The server has ten pieces; gps_download_epo_file_name names one of them.
Piece     == 0..9
LastPiece == IF CountTemp = 0 THEN 0 ELSE CountTemp - 1

\* file_retrying while no piece is being retried.
FirstRestore == 50

\* The "day" of a piece that is too short to be read.
Short == -1

\* nw_data, nw_wifi and the types the code has no name for.
Network == {"data", "wifi", "other"}

Data == [p : Piece, g : Short..MaxDay]

TypeOK ==
    /\ tpc \in {"loop", "get", "append", "check", "count", "finish",
                "main", "retry", "retried", "wifi"}
    /\ caller \in {"main", "retried"}
    /\ count \in 0..10 /\ updated \in BOOLEAN /\ failed \in BOOLEAN
    /\ retry \in BOOLEAN /\ name \in Piece
    /\ piece \in [Piece -> Short..MaxDay]
    /\ hal \in Seq(Data) /\ dat \in Seq(Data)
    /\ file_retrying \in Piece \cup {FirstRestore}
    /\ retry_time \in 0..RetryLimit /\ file_count_temp \in Piece
    /\ timer \in BOOLEAN
    /\ fw \in {"stopped", "download", "renew", "update", "starting", "on"}
    /\ conn \in BOOLEAN /\ net \in Network
    /\ upd \in 0..UpdCap /\ done \in 0..UpdCap
    /\ day \in 1..MaxDay /\ srv \in 1..MaxDay /\ ev \in Envs

Init ==
    /\ tpc = "loop" /\ caller = "main" /\ count = 0
    /\ updated = FALSE /\ failed = FALSE /\ retry = TRUE
    /\ name = 0 /\ piece = [p \in Piece |-> 0] /\ hal = <<>>
    /\ dat \in {<<>>, <<[p |-> 0, g |-> 1]>>}  \* left by an earlier process
    /\ file_retrying = FirstRestore /\ retry_time = 0 /\ file_count_temp = 0
    /\ timer = FALSE /\ fw = "stopped"
    /\ conn = TRUE /\ net \in Network  \* the framework has reported these
    /\ upd = 0 /\ done = 0 /\ day \in 1..MaxDay /\ ev \in Envs
    /\ srv \in IF "stale" \in ev THEN 1..day ELSE {day}

\* Where the threads may be switched.
EpoThreadWaits == "preempt" \in ev \/ tpc \in {"loop", "get"}
StartWaits     == \/ "preempt" \in ev
                  \/ fw \notin {"download", "renew", "update"}

-----------------------------------------------------------------------------
(* The age of the data. *)

\* mtk_gps_epo_file_time_hal looks at EPOHAL.DAT first.
TimedFile == IF hal # <<>> THEN hal ELSE dat

Readable(f)  == f # <<>> /\ f[1].g # Short
FileStart(f) == f[1].g + 3 * f[1].p

\* The days a file covers.  The last record of a file that ends with a short
\* piece begins in the piece before it, and may tell any time.
FileDays(f) ==
    LET last == f[Len(f)]
    IN  IF last.g = Short THEN {0, 3, 6, 9, 30}
        ELSE {last.g + 3 * (last.p + 1) - FileStart(f)}

\* The age, in days, from which a file of that many days counts as expired.
expired_set(download_day, wifi_tragger) ==
    CASE wifi_tragger -> WifiPeriod
      [] ~wifi_tragger /\ download_day >= GpsPeriod -> GpsPeriod
      [] OTHER -> CASE download_day < 3 -> 0
                    [] download_day \in 3..5 -> 2
                    [] download_day \in 6..8 -> 5
                    [] OTHER -> 7

\* What the function may answer.  Without a file that can be read the times
\* are zero and the data has expired long ago.
mtk_epo_is_expired(wifi_tragger) ==
    IF ~Readable(TimedFile) THEN {TRUE}
    ELSE {day >= FileStart(TimedFile) + expired_set(n, wifi_tragger) :
             n \in FileDays(TimedFile)}

-----------------------------------------------------------------------------
(* thread_epo_file_update and mtk_gps_epo_file_update. *)

LoopHead ==
    /\ tpc = "loop"
    /\ IF updated
       THEN /\ failed' = FALSE /\ name' = count
            /\ caller' = "main" /\ tpc' = "get"
       ELSE tpc' = "retry" /\ UNCHANGED <<failed, name, caller>>
    /\ UNCHANGED <<file_retrying, retry_time, file_count_temp, count, updated,
                   retry, piece, hal, dat, env>>

\* curl_easy_download_epo has fetched the piece gps_epo_file_name names.
GetPiece ==
    /\ tpc = "get" /\ tpc' = "append"
    /\ \/ piece' = [piece EXCEPT ![name] = srv]
       \/ "short" \in ev /\ piece' = [piece EXCEPT ![name] = Short]
    /\ UNCHANGED <<caller, file_retrying, retry_time, file_count_temp, flags,
                   name, hal, dat, env>>

\* No URL, or a failed transfer, whose piece file is removed.
GetFails ==
    /\ "fails" \in ev
    /\ tpc = "get" /\ tpc' = caller
    /\ piece' \in {piece, [piece EXCEPT ![name] = 0]}
    /\ failed' = TRUE
    /\ UNCHANGED <<caller, file_retrying, retry_time, file_count_temp, count,
                   updated, retry, name, hal, dat, env>>

\* mtk_daemon_send(MNL_CMD_UPDATE_EPO_FILE); a request mnld has no room for
\* is lost.
RequestUpdate == upd' = IF upd + done < UpdCap THEN upd + 1 ELSE upd

\* Mutation: mnld is told of a piece before it has been checked.
AppendPieceTold ==
    /\ tpc = "append" /\ tpc' = "check"
    /\ hal' = Append(IF count = 0 THEN <<>> ELSE hal,
                     [p |-> name, g |-> piece[name]])
    /\ RequestUpdate
    /\ UNCHANGED <<caller, file_retrying, retry_time, file_count_temp, flags,
                   name, piece, dat, timer, fw, conn, net, done, day, srv, ev>>

\* The piece is merged into EPOHAL.DAT, which the first one starts anew.  That
\* the merge fails, adds nothing or too little for a record, is only logged.
AppendPiece ==
    /\ tpc = "append" /\ tpc' = "check"
    /\ LET f == IF count = 0 THEN <<>> ELSE hal
       IN  \/ hal' = Append(f, [p |-> name, g |-> piece[name]])
           \/ /\ "merge_fails" \in ev
              /\ hal' \in {f, Append(f, [p |-> name, g |-> Short])}
    /\ UNCHANGED <<caller, file_retrying, retry_time, file_count_temp, flags,
                   name, piece, dat, env>>

\* mtk_gps_epo_server_data_is_changed: does the piece begin a day or more
\* after the end of the one before?  An end that cannot be read is zero.
uTime_start == piece[name] + 3 * name
uTime_end   == CASE count = 0 -> uTime_start
                 [] count > 0 /\ piece[count - 1] \in {0, Short} -> 0
                 [] OTHER -> piece[count - 1] + 3 * count

\* Mutation: a piece whose start cannot be read is counted like any other.
PieceShortCounted ==
    /\ tpc = "check" /\ piece[name] = Short
    /\ tpc' = "count" /\ failed' = TRUE
    /\ name' = IF count > 0 THEN count - 1 ELSE name
    /\ UNCHANGED <<caller, file_retrying, retry_time, file_count_temp, count,
                   updated, retry, piece, hal, dat, env>>

\* The start of the piece cannot be read: the download has failed, but what
\* was merged stays in EPOHAL.DAT.
PieceShort ==
    /\ tpc = "check" /\ piece[name] = Short
    /\ tpc' = caller /\ failed' = TRUE
    /\ name' = IF count > 0 THEN count - 1 ELSE name
    /\ UNCHANGED <<caller, file_retrying, retry_time, file_count_temp, count,
                   updated, retry, piece, hal, dat, env>>

\* Mutation: after a change EPOHAL.DAT is not removed.
DataChangedKeepsFile ==
    /\ tpc = "check" /\ tpc' = caller
    /\ piece[name] # Short /\ uTime_start - uTime_end >= 1
    /\ piece' = [p \in Piece |-> IF p <= count THEN 0 ELSE piece[p]]
    /\ count' = 0 /\ name' = 0
    /\ UNCHANGED <<caller, file_retrying, retry_time, file_count_temp, updated,
                   failed, retry, hal, dat, env>>

DataChanged ==
    /\ tpc = "check" /\ tpc' = caller
    /\ piece[name] # Short /\ uTime_start - uTime_end >= 1
    /\ piece' = [p \in Piece |-> IF p <= count THEN 0 ELSE piece[p]]
    /\ hal' = <<>> /\ count' = 0 /\ name' = 0
    /\ failed' = (failed \/ (count > 0 /\ piece[count - 1] = Short))
    /\ UNCHANGED <<caller, file_retrying, retry_time, file_count_temp, updated,
                   retry, dat, env>>

DataSame ==
    /\ tpc = "check" /\ tpc' = "count"
    /\ piece[name] # Short /\ uTime_start - uTime_end < 1
    /\ name' = IF count > 0 THEN count - 1 ELSE name
    /\ UNCHANGED <<caller, file_retrying, retry_time, file_count_temp, flags,
                   piece, hal, dat, env>>

CountPiece ==
    /\ tpc = "count"
    /\ count' = count + 1
    /\ tpc' = IF count + 1 < 10 /\ count + 1 < CountTemp
              THEN caller ELSE "finish"
    /\ UNCHANGED <<caller, file_retrying, retry_time, file_count_temp, updated,
                   failed, retry, files, env>>

\* All the pieces are there: forget them, and hand EPOHAL.DAT to a running
\* engine.
Finish ==
    /\ tpc = "finish" /\ tpc' = caller
    /\ piece' = [p \in Piece |-> IF p < CountTemp THEN 0 ELSE piece[p]]
    /\ name' = IF CountTemp = 0 THEN name ELSE LastPiece
    /\ updated' = FALSE /\ count' = 0 /\ failed' = FALSE
    /\ IF fw = "on" THEN dat' = <<>> /\ RequestUpdate
                    ELSE UNCHANGED <<dat, upd>>
    /\ UNCHANGED <<caller, file_retrying, retry_time, file_count_temp, retry,
                   hal, timer, fw, conn, net, done, day, srv, ev>>

MainReturn ==
    /\ tpc = "main" /\ tpc' = "retry"
    /\ updated' = (updated /\ ~failed)
    /\ UNCHANGED <<caller, file_retrying, retry_time, file_count_temp, count,
                   failed, retry, files, env>>

\* "if download has failed last time, we should complete downloading"
MayRetry == (fw = "on" \/ net = "wifi") /\ conn /\ failed /\ retry

SkipRetry ==
    /\ tpc = "retry" /\ ~MayRetry /\ tpc' = "wifi"
    /\ UNCHANGED <<caller, file_retrying, retry_time, file_count_temp, flags,
                   files, env>>

\* Data older than a day is downloaded from the first piece, otherwise the
\* piece that failed is fetched again.
Retry ==
    /\ tpc = "retry" /\ MayRetry
    /\ file_retrying' = IF file_retrying = FirstRestore THEN count
                                                        ELSE file_retrying
    /\ file_count_temp' = count
    /\ IF ~Readable(TimedFile) \/ day >= FileStart(TimedFile) + 1
       THEN /\ failed' = FALSE /\ count' = 0 /\ updated' = TRUE
            /\ hal' = <<>> /\ tpc' = "retried"
            /\ UNCHANGED <<name, caller>>
       ELSE /\ name' = count /\ caller' = "retried" /\ tpc' = "get"
            /\ UNCHANGED <<failed, count, updated, hal>>
    /\ UNCHANGED <<retry_time, retry, piece, dat, env>>

\* Mutation: the retries of a piece are not counted.
RetriedNotCounted ==
    /\ tpc = "retried" /\ tpc' = "wifi"
    /\ IF file_count_temp = count
       THEN retry' = FALSE /\ timer' = TRUE
       ELSE UNCHANGED <<retry, timer>>
    /\ UNCHANGED <<caller, file_retrying, retry_time, file_count_temp, count,
                   updated, failed, files, fw, conn, net, upd, done, day,
                   srv, ev>>

\* Mutation: there is no limit to the retries.
RetriedUnlimited ==
    /\ tpc = "retried" /\ tpc' = "wifi"
    /\ IF file_count_temp = count
       THEN /\ file_retrying' = count
            /\ retry_time' = IF file_retrying = count THEN retry_time + 1 ELSE 0
            /\ retry' = FALSE /\ timer' = TRUE
       ELSE UNCHANGED <<file_retrying, retry_time, retry, timer>>
    /\ UNCHANGED <<caller, file_count_temp, count, updated, failed, files, fw,
                   conn, net, upd, done, day, srv, ev>>

\* No progress: wait for the retry timer, or give up after RetryLimit times.
Retried ==
    /\ tpc = "retried" /\ tpc' = "wifi"
    /\ LET times == IF file_retrying = count THEN retry_time + 1 ELSE 0
       IN  \/ /\ file_count_temp # count
              /\ UNCHANGED <<file_retrying, retry_time, failed, retry, timer>>
           \/ /\ file_count_temp = count /\ times < RetryLimit
              /\ file_retrying' = count /\ retry_time' = times
              /\ retry' = FALSE
              /\ \/ timer' = TRUE
                 \/ "timer_fails" \in ev /\ timer' = FALSE
              /\ UNCHANGED failed
           \/ /\ file_count_temp = count /\ times >= RetryLimit
              /\ file_retrying' = FirstRestore /\ retry_time' = 0
              /\ failed' = FALSE
              /\ UNCHANGED <<retry, timer>>
    /\ UNCHANGED <<caller, file_count_temp, count, updated, files, fw, conn,
                   net, upd, done, day, srv, ev>>

\* A WiFi connection triggers the download of expired data.
WifiTragger ==
    /\ tpc = "wifi" /\ tpc' = "loop"
    /\ LET asked == /\ ~updated /\ WifiTrigger /\ Enabled /\ ~failed
                    /\ conn /\ net = "wifi"
       IN  \/ /\ asked /\ TRUE \in mtk_epo_is_expired(TRUE)
              /\ updated' = TRUE /\ count' = 0 /\ hal' = <<>>
           \/ /\ asked => FALSE \in mtk_epo_is_expired(TRUE)
              /\ UNCHANGED <<updated, count, hal>>
    /\ UNCHANGED <<caller, file_retrying, retry_time, file_count_temp, failed,
                   retry, name, piece, dat, env>>

\* retry_alarm_handler
TimerExpires ==
    /\ timer /\ timer' = FALSE
    /\ retry' = TRUE
    /\ UNCHANGED <<thread, count, updated, failed, files, fw, conn, net, upd,
                   done, day, srv, ev>>

-----------------------------------------------------------------------------
(* mtk_gps_start's part, on the framework's thread. *)

\* Is there anything to download or to hand over?  mtk_epo_is_expired resets
\* the count when it says yes.
StartCheck ==
    /\ "start" \in ev /\ fw = "stopped" /\ EpoThreadWaits
    /\ \/ /\ ~Enabled \/ (hal # <<>> /\ failed /\ conn /\ net # "data")
          /\ fw' = "starting" /\ UNCHANGED count
       \/ /\ Enabled /\ hal = <<>> /\ dat = <<>>
          /\ fw' = "download" /\ UNCHANGED count
       \/ /\ Enabled /\ (hal # <<>> \/ dat # <<>>)
          /\ hal # <<>> => ~(failed /\ conn /\ net # "data")
          /\ \/ /\ TRUE \in mtk_epo_is_expired(FALSE) /\ count' = 0
                /\ fw' = IF hal = <<>> THEN "download" ELSE "renew"
             \/ /\ FALSE \in mtk_epo_is_expired(FALSE) /\ UNCHANGED count
                /\ fw' = IF hal = <<>> THEN "starting" ELSE "update"
    /\ UNCHANGED <<thread, updated, failed, retry, files, timer, conn, net,
                   upd, done, day, srv, ev>>

\* gps_download_epo, after an expired EPOHAL.DAT has been removed.
StartDownload ==
    /\ fw \in {"download", "renew"} /\ fw' = "starting"
    /\ hal' = IF fw = "renew" THEN <<>> ELSE hal
    /\ updated' = TRUE /\ count' = 0
    /\ UNCHANGED <<thread, failed, retry, name, piece, dat, timer, conn, net,
                   upd, done, day, srv, ev>>

\* "EPOHAL is existed and no expired, tell agent to update"
StartUpdate ==
    /\ fw = "update" /\ fw' = "starting"
    /\ dat' = <<>> /\ RequestUpdate
    /\ UNCHANGED <<thread, flags, name, piece, hal, timer, conn, net, done,
                   day, srv, ev>>

\* gps_state_thread sets and clears started.
StartStop ==
    /\ \/ fw = "starting" /\ fw' = "on"
       \/ fw = "on" /\ fw' = "stopped"
    /\ UNCHANGED <<thread, flags, files, timer, conn, net, upd, done, day,
                   srv, ev>>

\* HAL_CMD_UPDATE_EPO_FILE_DONE
UpdateDone ==
    /\ done > 0 /\ done' = done - 1 /\ EpoThreadWaits
    /\ hal' = IF ~failed /\ count = 0 THEN <<>> ELSE hal
    /\ UNCHANGED <<thread, flags, name, piece, dat, timer, fw, conn, net, upd,
                   day, srv, ev>>

\* agps_ril_update_network_state
NetworkState ==
    /\ "network" \in ev
    /\ conn' \in BOOLEAN /\ net' \in Network
    /\ <<conn', net'>> # <<conn, net>>
    /\ UNCHANGED <<thread, flags, files, timer, fw, upd, done, day, srv, ev>>

-----------------------------------------------------------------------------
(* mnld, the calendar and the server (external). *)

\* mnld takes EPOHAL.DAT over as EPO.DAT and answers, or reports a failure.
MnldUpdate ==
    /\ upd > 0 /\ upd' = upd - 1
    /\ IF hal # <<>> THEN dat' = hal /\ done' = done + 1
                     ELSE UNCHANGED <<dat, done>>
    /\ UNCHANGED <<thread, flags, name, piece, hal, timer, fw, conn, net, day,
                   srv, ev>>

\* A day passes, and at some time the server publishes new data.
DayPasses ==
    /\ "day" \in ev
    /\ \/ day < MaxDay /\ day' = day + 1 /\ UNCHANGED srv
       \/ srv < day /\ srv' = day /\ UNCHANGED day
    /\ UNCHANGED <<thread, flags, files, timer, fw, conn, net, upd, done, ev>>

-----------------------------------------------------------------------------

EpoThread ==
    /\ StartWaits
    /\ \/ LoopHead \/ GetPiece \/ GetFails \/ AppendPiece \/ PieceShort
       \/ DataChanged \/ DataSame \/ CountPiece \/ Finish \/ MainReturn
       \/ SkipRetry \/ Retry \/ Retried \/ WifiTragger

Framework == StartCheck \/ StartDownload \/ StartUpdate \/ StartStop

Next == \/ EpoThread \/ TimerExpires \/ Framework \/ UpdateDone
        \/ NetworkState \/ MnldUpdate \/ DayPasses

Spec == Init /\ [][Next]_vars

\* The thread runs (it polls every 100 ms or 2 s) and an armed timer expires.
FairSpec == Spec /\ WF_vars(EpoThread) /\ WF_vars(TimerExpires)

-----------------------------------------------------------------------------
(* Properties. *)

\* The places of the whole pieces of a file.
Whole(f) == {i \in DOMAIN f : f[i].g # Short}

\* The whole pieces are consecutive from the first one on and all of the same
\* server data, and nothing comes before the first, so that the file tells
\* when its data begins.
WellFormed(f) ==
    /\ \A i, j \in Whole(f) : f[i].g = f[j].g /\ (i < j => f[i].p < f[j].p)
    /\ \A j \in Whole(f) : f[j].p # 0 => \E i \in Whole(f) : f[i].p = f[j].p - 1
    /\ Len(f) > 1 => 1 \in Whole(f)

\* Merges work, as nothing makes up for one that fails, and no session starts,
\* or only such that find one day's data, which cannot expire while a download
\* goes on, so that they do not restart it (see the epo_overlap run).
Undisturbed ==
    /\ "merge_fails" \notin ev
    /\ "start" \in ev => ev \cap {"day", "stale", "short", "preempt"} = {}

\* EPOHAL.DAT never mixes data of two days and never skips, repeats or
\* reorders a piece, through failures, short answers, retries, resumed
\* downloads and changes on the server in the middle of a download (which
\* are found out right after a piece has been added).
HalWellFormed == Undisturbed /\ tpc # "check" => WellFormed(hal)

\* What mnld has taken over as EPO.DAT is such a file, too, where sessions ask
\* for updates while a download of the same day's data goes on and threads are
\* switched where they wait.
DatWellFormed == Undisturbed => WellFormed(dat)

\* "download epo file completed!": EPOHAL.DAT has every piece then, through
\* failures, retries and restarts (mtk_gps_epo_file_update).
CompletedHasAll ==
    Undisturbed /\ tpc = "finish" =>
      \A q \in 0..LastPiece : \E i \in Whole(hal) : hal[i].p = q

\* Where the network and the timer can be relied upon, a download that failed
\* and could be resumed is completed, started anew or given up: it does not
\* stay failed while there is a WiFi connection.
RetryEnds ==
    (ev \cap {"network", "timer_fails"} = {} /\ failed /\ conn
        /\ net = "wifi")
        ~> ~failed

\* "download piece file%d done": the piece that was fetched is the one
\* gps_epo_file_count stands for.
PieceDone == tpc = "append" => name = count
=============================================================================
