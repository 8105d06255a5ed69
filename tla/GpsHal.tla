------------------------------- MODULE GpsHal -------------------------------
(***************************************************************************)
(* Lifecycle of the GPS HAL of src/mtk/gps/hal/gps_mtk_aosp.c: the thread  *)
(* of the location framework inside mtk_gps_init / start / stop / cleanup, *)
(* the thread gps_state_thread that serves the control socket, /dev/gps    *)
(* and the datagrams of the mnld daemon, the exit handshake of the EPO     *)
(* thread, and mnld itself (external).  A step is the code between two     *)
(* accesses to state the other threads use.                                *)
(***************************************************************************)
EXTENDS Naturals, Sequences

CONSTANTS
    Env,       \* which faults and network-initiated events may happen
    CmdCap,    \* datagrams the hal2mnld socket holds
    MsgCap,    \* datagrams the mnld2hal socket holds
    CtrlCap    \* bytes the control socket pair holds

EnvEvents == {"open_fails", "mtk_init_fails", "socketpair_fails",
              "thread_create_fails", "codec_socket_fails", "bind_fails",
              "epo_create_fails", "send_fails", "hup", "mnl_death", "ni_icon"}

ASSUME EnvAssumption == Env \subseteq EnvEvents
ASSUME CapAssumption ==
    CmdCap \in Nat \ {0} /\ MsgCap \in Nat \ {0} /\ CtrlCap \in Nat \ {0}

VARIABLES
    pc,           \* where the framework thread is inside a HAL function
    gpc,          \* where gps_state_thread is
    epc,          \* where thread_epo_file_update is
    init,         \* s->init
    start_flag,   \* s->start_flag
    started,      \* the file-level started, written by gps_state_thread only
    flag_unlock,  \* the first sentence since the last MNL_DIE has been seen
    cond,         \* lock_for_sync[i].condtion
    epo_exit,     \* s->thread_epo_exit_flag
    open,         \* are /dev/gps, the epoll fd and the control pair open?
    bound,        \* is the mnld2hal datagram socket bound?
    control,      \* bytes in the control socket pair, oldest first
    sta,          \* the global GpsStatus both threads write before status_cb
    status,       \* the last status delivered to the framework
    wakelock,     \* between acquire_wakelock_cb and release_wakelock_cb
    cmdq,         \* datagrams from the HAL to mnld
    msgq,         \* datagrams from mnld to the HAL
    mnl,          \* is the MNL positioning process running?  (external)
    nmea,         \* unread data on /dev/gps: none, of a dead or of this MNL
    fresh,        \* has a sentence of the running MNL been read? (history)
    navigating    \* the framework has an unstopped start (external)

hal  == <<init, start_flag, started, flag_unlock, epo_exit, open, bound>>
cbs  == <<sta, status, wakelock>>
mnld == <<mnl, nmea, fresh>>
vars == <<pc, gpc, epc, hal, cond, control, cbs, cmdq, msgq, mnld, navigating>>

-----------------------------------------------------------------------------
(* The values of the variables. *)

SyncLock == {"M_START", "M_STOP", "M_CLEANUP", "M_INIT", "M_THREAD_EXIT"}
Status   == {"NONE", "ENGINE_ON", "SESSION_BEGIN", "SESSION_END", "ENGINE_OFF"}
Control  == {"CMD_START", "CMD_STOP", "CMD_QUIT"}
MnlCmd   == {"START", "STOP", "CLEANUP"}
HalCmd   == {"MNL_DIE", "ICON_ON", "ICON_OFF"}

FwPc == {"idle", "init_wait", "epo_create", "epo_flag",
         "start_spin", "start_wait", "start_cmd", "start_on", "start_on_cb",
         "start_begin", "start_begin_cb", "start_lock", "start_chk",
         "start_flag",
         "stop_spin", "stop_cmd",
         "cleanup_flag", "cleanup_wait", "cleanup_chk", "cleanup_done",
         "done_wait", "fail_wait", "cleanup_epo", "cleanup_join"}

GpsPc == {"none", "boot", "poll",
          "die_end", "die_end_cb", "die_off", "die_off_cb", "die_release",
          "die_unlock", "die_flag",
          "icon_on", "icon_on_cb", "icon_begin_cb",
          "icon_off", "icon_off_cb", "icon_end_cb",
          "exit", "gone"}

EpoPc == {"none", "run", "gone"}
Nmea  == {"none", "old", "new"}

\* gps_state_thread is inside its body and may touch the file descriptors.
ThreadRuns == gpc \notin {"none", "gone"}

PcTypes == pc \in FwPc /\ gpc \in GpsPc /\ epc \in EpoPc

FlagTypes ==
    /\ init \in BOOLEAN /\ start_flag \in BOOLEAN /\ started \in BOOLEAN
    /\ flag_unlock \in BOOLEAN /\ epo_exit \in BOOLEAN
    /\ open \in BOOLEAN /\ bound \in BOOLEAN /\ wakelock \in BOOLEAN
    /\ mnl \in BOOLEAN /\ fresh \in BOOLEAN /\ navigating \in BOOLEAN

ValueTypes ==
    /\ cond \in [SyncLock -> BOOLEAN]
    /\ sta \in Status /\ status \in Status /\ nmea \in Nmea

QueueTypes ==
    /\ control \in Seq(Control) /\ Len(control) <= CtrlCap
    /\ cmdq \in Seq(MnlCmd) /\ Len(cmdq) <= CmdCap
    /\ msgq \in Seq(HalCmd) /\ Len(msgq) <= MsgCap

TypeOK == PcTypes /\ FlagTypes /\ ValueTypes /\ QueueTypes

Init ==
    /\ pc = "idle" /\ gpc = "none" /\ epc = "none"
    /\ init = FALSE /\ start_flag = FALSE /\ started = FALSE
    /\ flag_unlock = FALSE /\ epo_exit = FALSE
    /\ open = FALSE /\ bound = FALSE
    /\ cond = [l \in SyncLock |-> FALSE]
    /\ control = <<>>
    /\ sta = "NONE" /\ status = "NONE" /\ wakelock = FALSE
    /\ cmdq = <<>> /\ msgq = <<>>
    /\ mnl = FALSE /\ nmea = "none" /\ fresh = FALSE
    /\ navigating = FALSE

-----------------------------------------------------------------------------
(* Primitives. *)

FwGoto(from, to)  == pc = from /\ pc' = to
GpsGoto(from, to) == gpc = from /\ gpc' = to

\* get_condition: wait until the flag is set, then reset it.
get_condition(l) == cond[l] /\ cond' = [cond EXCEPT ![l] = FALSE]

\* release_condition: set the flag (and signal the waiter).
release_condition(l) == cond' = [cond EXCEPT ![l] = TRUE]

\* mtk_daemon_send waits (10 retries, 100 ms apart) for room in the socket of
\* mnld and then succeeds.
mtk_daemon_send(c) == Len(cmdq) < CmdCap /\ cmdq' = Append(cmdq, c)

\* It fails when mnld is not there or its socket outlasts the retries.
mtk_daemon_send_fails == "send_fails" \in Env /\ UNCHANGED cmdq

\* Mutation: the write never blocks.
write_control_unbounded(c) == control' = Append(control, c)

\* A one-byte write to the control socket pair blocks while it is full.
write_control(c) ==
    Len(control) < CtrlCap /\ control' = Append(control, c)

\* status_cb(&sta) hands over whatever the shared sta holds by then.
status_cb == status' = sta

-----------------------------------------------------------------------------
(* mtk_gps_init, followed by the XTRA init the framework always makes. *)

\* gps_state_init gets as far as creating gps_state_thread.
InitCreatesThread ==
    /\ ~init
    /\ FwGoto("idle", "init_wait")
    /\ gpc' = "boot" /\ open' = TRUE /\ control' = <<>>
    /\ UNCHANGED <<epc, init, start_flag, started, flag_unlock, epo_exit,
                   bound, cond, cbs, cmdq, msgq, mnld, navigating>>

\* /dev/gps cannot be opened: gps_state_init returns, nobody is created.
InitOpenFails ==
    /\ "open_fails" \in Env /\ ~init
    /\ FwGoto("idle", "init_wait")
    /\ UNCHANGED <<gpc, epc, hal, cond, control, cbs, cmdq, msgq, mnld,
                   navigating>>

\* goto Fail: gps_state_done waits for a thread that does not exist.  Without
\* a control pair its CMD_QUIT goes to descriptor -1.
InitFails ==
    /\ Env \cap {"mtk_init_fails", "socketpair_fails"} # {} /\ ~init
    /\ FwGoto("idle", "fail_wait")
    /\ control' = <<>>
    /\ open' = TRUE
    /\ UNCHANGED <<gpc, epc, init, start_flag, started, flag_unlock, epo_exit,
                   bound, cond, cbs, cmdq, msgq, mnld, navigating>>

InitThreadFails ==
    /\ "thread_create_fails" \in Env /\ ~init
    /\ FwGoto("idle", "fail_wait")
    /\ control' = <<"CMD_QUIT">>
    /\ open' = TRUE
    /\ UNCHANGED <<gpc, epc, init, start_flag, started, flag_unlock, epo_exit,
                   bound, cond, cbs, cmdq, msgq, mnld, navigating>>

\* get_condition(M_INIT), then s->init = 1 and the capabilities callback.
InitWait ==
    /\ FwGoto("init_wait", "epo_create")
    /\ get_condition("M_INIT")
    /\ init' = TRUE
    /\ UNCHANGED <<gpc, epc, start_flag, started, flag_unlock, epo_exit, open,
                   bound, control, cbs, cmdq, msgq, mnld, navigating>>

\* mtk_gps_epo_interface_init creates the EPO thread ...
EpoCreate ==
    /\ FwGoto("epo_create", "epo_flag")
    /\ epc' = "run"
    /\ UNCHANGED <<gpc, hal, cond, control, cbs, cmdq, msgq, mnld, navigating>>

EpoCreateFails ==
    /\ "epo_create_fails" \in Env
    /\ FwGoto("epo_create", "idle")
    /\ UNCHANGED <<gpc, epc, hal, cond, control, cbs, cmdq, msgq, mnld,
                   navigating>>

\* ... and only then clears the exit flag the thread polls.
EpoFlag ==
    /\ FwGoto("epo_flag", "idle")
    /\ epo_exit' = FALSE
    /\ UNCHANGED <<gpc, epc, init, start_flag, started, flag_unlock, open,
                   bound, cond, control, cbs, cmdq, msgq, mnld, navigating>>

-----------------------------------------------------------------------------
(* mtk_gps_start. *)

StartCall ==
    /\ init /\ ~navigating
    /\ FwGoto("idle", "start_spin")
    /\ UNCHANGED <<gpc, epc, hal, cond, control, cbs, cmdq, msgq, mnld,
                   navigating>>

\* The polling loop ends once the previous session is over; then mtk_start().
StartSend ==
    /\ ~start_flag
    /\ \/ FwGoto("start_spin", "start_wait") /\ mtk_daemon_send("START")
       \/ FwGoto("start_spin", "idle") /\ mtk_daemon_send_fails
    /\ UNCHANGED <<gpc, epc, hal, cond, control, cbs, msgq, mnld, navigating>>

StartWait ==
    /\ FwGoto("start_wait", "start_cmd")
    /\ get_condition("M_START")
    /\ UNCHANGED <<gpc, epc, hal, control, cbs, cmdq, msgq, mnld, navigating>>

gps_state_start ==
    /\ FwGoto("start_cmd", "start_on")
    /\ write_control("CMD_START")
    /\ UNCHANGED <<gpc, epc, hal, cond, cbs, cmdq, msgq, mnld, navigating>>

\* The two status reports: assign the shared sta, then call back with it.
StartStatus ==
    /\ \/ FwGoto("start_on", "start_on_cb")
          /\ sta' = "ENGINE_ON" /\ UNCHANGED status
       \/ FwGoto("start_on_cb", "start_begin") /\ status_cb /\ UNCHANGED sta
       \/ FwGoto("start_begin", "start_begin_cb")
          /\ sta' = "SESSION_BEGIN" /\ UNCHANGED status
       \/ FwGoto("start_begin_cb", "start_lock") /\ status_cb /\ UNCHANGED sta
    /\ UNCHANGED <<gpc, epc, hal, cond, control, wakelock, cmdq, msgq, mnld,
                   navigating>>

StartWakelock ==
    /\ FwGoto("start_lock", "start_chk")
    /\ wakelock' = TRUE
    /\ UNCHANGED <<gpc, epc, hal, cond, control, sta, status, cmdq, msgq, mnld,
                   navigating>>

\* The unlocked test-and-clear of M_STOP, then s->start_flag = 1.
StartClearStop ==
    /\ FwGoto("start_chk", "start_flag")
    /\ cond' = [cond EXCEPT !["M_STOP"] = FALSE]
    /\ UNCHANGED <<gpc, epc, hal, control, cbs, cmdq, msgq, mnld, navigating>>

StartReturn ==
    /\ FwGoto("start_flag", "idle")
    /\ start_flag' = TRUE /\ navigating' = TRUE
    /\ UNCHANGED <<gpc, epc, init, started, flag_unlock, epo_exit, open, bound,
                   cond, control, cbs, cmdq, msgq, mnld>>

-----------------------------------------------------------------------------
(* mtk_gps_stop.  The framework counts itself stopped whatever it returns. *)

StopCall ==
    /\ init /\ navigating
    /\ FwGoto("idle", "stop_spin")
    /\ UNCHANGED <<gpc, epc, hal, cond, control, cbs, cmdq, msgq, mnld,
                   navigating>>

StopSend ==
    /\ start_flag
    /\ \/ FwGoto("stop_spin", "stop_cmd") /\ mtk_daemon_send("STOP")
          /\ UNCHANGED navigating
       \/ FwGoto("stop_spin", "idle") /\ mtk_daemon_send_fails
          /\ navigating' = FALSE
    /\ UNCHANGED <<gpc, epc, hal, cond, control, cbs, msgq, mnld>>

gps_state_stop ==
    /\ FwGoto("stop_cmd", "idle")
    /\ write_control("CMD_STOP")
    /\ navigating' = FALSE
    /\ UNCHANGED <<gpc, epc, hal, cond, cbs, cmdq, msgq, mnld>>

-----------------------------------------------------------------------------
(* mtk_gps_cleanup. *)

\* mtk_cleanup ignores the outcome of its send.
CleanupSend ==
    /\ init /\ ~navigating
    /\ FwGoto("idle", "cleanup_flag")
    /\ mtk_daemon_send("CLEANUP") \/ mtk_daemon_send_fails
    /\ UNCHANGED <<gpc, epc, hal, cond, control, cbs, msgq, mnld, navigating>>

\* Mutation: cleanup never waits for the end of the session.
CleanupFlagNoWait ==
    /\ FwGoto("cleanup_flag", "cleanup_chk")
    /\ UNCHANGED <<gpc, epc, hal, cond, control, cbs, cmdq, msgq, mnld,
                   navigating>>

\* if (s->start_flag) get_condition(M_STOP)
CleanupFlag ==
    /\ pc = "cleanup_flag"
    /\ pc' = IF start_flag THEN "cleanup_wait" ELSE "cleanup_chk"
    /\ UNCHANGED <<gpc, epc, hal, cond, control, cbs, cmdq, msgq, mnld,
                   navigating>>

CleanupWait ==
    /\ FwGoto("cleanup_wait", "cleanup_chk")
    /\ get_condition("M_STOP")
    /\ UNCHANGED <<gpc, epc, hal, control, cbs, cmdq, msgq, mnld, navigating>>

CleanupClearStop ==
    /\ FwGoto("cleanup_chk", "cleanup_done")
    /\ cond' = [cond EXCEPT !["M_STOP"] = FALSE]
    /\ UNCHANGED <<gpc, epc, hal, control, cbs, cmdq, msgq, mnld, navigating>>

\* gps_state_done: ask the thread to quit, wait for it, close everything.
DoneQuit ==
    /\ FwGoto("cleanup_done", "done_wait")
    /\ write_control("CMD_QUIT")
    /\ UNCHANGED <<gpc, epc, hal, cond, cbs, cmdq, msgq, mnld, navigating>>

\* Mutation: the descriptors are closed right after CMD_QUIT was written.
DoneCloseNoWait ==
    /\ FwGoto("done_wait", "cleanup_epo")
    /\ open' = FALSE /\ control' = <<>> /\ init' = FALSE
    /\ UNCHANGED <<gpc, epc, start_flag, started, flag_unlock, epo_exit, bound,
                   cond, cbs, cmdq, msgq, mnld, navigating>>

DoneClose ==
    /\ FwGoto("done_wait", "cleanup_epo") \/ FwGoto("fail_wait", "init_wait")
    /\ get_condition("M_CLEANUP")
    /\ open' = FALSE /\ control' = <<>> /\ init' = FALSE
    /\ UNCHANGED <<gpc, epc, start_flag, started, flag_unlock, epo_exit, bound,
                   cbs, cmdq, msgq, mnld, navigating>>

CleanupEpo ==
    /\ FwGoto("cleanup_epo", "cleanup_join")
    /\ epo_exit' = TRUE
    /\ UNCHANGED <<gpc, epc, init, start_flag, started, flag_unlock, open,
                   bound, cond, control, cbs, cmdq, msgq, mnld, navigating>>

\* Mutation: cleanup does not wait for the EPO thread.
CleanupNoJoin ==
    /\ FwGoto("cleanup_join", "idle")
    /\ UNCHANGED <<gpc, epc, hal, cond, control, cbs, cmdq, msgq, mnld,
                   navigating>>

CleanupJoin ==
    /\ FwGoto("cleanup_join", "idle")
    /\ get_condition("M_THREAD_EXIT")
    /\ UNCHANGED <<gpc, epc, hal, control, cbs, cmdq, msgq, mnld, navigating>>

-----------------------------------------------------------------------------
(* gps_state_thread. *)

\* Bind mnld2hal (a failure is only logged), listen for the codec, register
\* the descriptors and release M_INIT.
ThreadBoot ==
    /\ GpsGoto("boot", "poll")
    /\ \/ bound' = TRUE
       \/ "bind_fails" \in Env /\ bound' = FALSE
    /\ msgq' = <<>>
    /\ release_condition("M_INIT")
    /\ UNCHANGED <<pc, epc, init, start_flag, started, flag_unlock, epo_exit,
                   open, control, cbs, cmdq, mnld, navigating>>

\* The codec socket cannot be set up: the thread returns, M_INIT stays unset.
ThreadBootFails ==
    /\ "codec_socket_fails" \in Env
    /\ GpsGoto("boot", "gone")
    /\ UNCHANGED <<pc, epc, hal, cond, control, cbs, cmdq, msgq, mnld,
                   navigating>>

\* EPOLLIN on the control socket: one command byte.
ControlEvent ==
    /\ gpc = "poll" /\ control # <<>>
    /\ control' = Tail(control)
    /\ gpc' = IF Head(control) = "CMD_QUIT" THEN "exit" ELSE "poll"
    /\ started' = CASE Head(control) = "CMD_START" -> TRUE
                    [] Head(control) = "CMD_STOP"  -> FALSE
                    [] OTHER -> started
    /\ UNCHANGED <<pc, epc, init, start_flag, flag_unlock, epo_exit, open,
                   bound, cond, cbs, cmdq, msgq, mnld, navigating>>

\* EPOLLIN on /dev/gps: the first sentence since MNL died lets start go on.
GpsEvent ==
    /\ gpc = "poll" /\ nmea # "none"
    /\ nmea' = "none"
    /\ fresh' = (fresh \/ nmea = "new")
    /\ flag_unlock' = TRUE
    /\ IF flag_unlock THEN UNCHANGED cond ELSE release_condition("M_START")
    /\ UNCHANGED <<pc, gpc, epc, init, start_flag, started, epo_exit, open,
                   bound, control, cbs, cmdq, msgq, mnl, navigating>>

\* Mutation: flag_unlock is not reset when MNL dies.
MnldEventKeepsUnlock ==
    /\ gpc = "poll" /\ bound /\ msgq # <<>>
    /\ msgq' = Tail(msgq)
    /\ gpc' = IF Head(msgq) = "MNL_DIE" THEN "die_end" ELSE "poll"
    /\ UNCHANGED <<pc, epc, hal, cond, control, cbs, cmdq, mnld, navigating>>

\* EPOLLIN on mnld2hal: mnld_to_gps_handler.
MnldEvent ==
    /\ gpc = "poll" /\ bound /\ msgq # <<>>
    /\ msgq' = Tail(msgq)
    /\ gpc' = CASE Head(msgq) = "MNL_DIE" -> "die_end"
                [] Head(msgq) = "ICON_ON"  /\ ~started -> "icon_on"
                [] Head(msgq) = "ICON_OFF" /\ ~started -> "icon_off"
                [] OTHER -> "poll"
    /\ flag_unlock' = (flag_unlock /\ Head(msgq) # "MNL_DIE")
    /\ UNCHANGED <<pc, epc, init, start_flag, started, epo_exit, open, bound,
                   cond, control, cbs, cmdq, mnld, navigating>>

\* The status reports of HAL_CMD_MNL_DIE and HAL_CMD_GPS_ICON.
SetSta(from, s, to) == GpsGoto(from, to) /\ sta' = s /\ UNCHANGED status
CallBack(from, to)  == GpsGoto(from, to) /\ status_cb /\ UNCHANGED sta

\* A callback and the assignment for the next one, by the same thread.
CallBackThenSet(from, s, to) == GpsGoto(from, to) /\ status_cb /\ sta' = s

\* Mutation: the engine is reported off before the session has ended.
HandlerStatusSwapped ==
    /\ \/ SetSta("die_end", "ENGINE_OFF", "die_end_cb")
       \/ CallBack("die_end_cb", "die_off")
       \/ SetSta("die_off", "SESSION_END", "die_off_cb")
       \/ CallBack("die_off_cb", "die_release")
    /\ UNCHANGED <<pc, epc, hal, cond, control, wakelock, cmdq, msgq, mnld,
                   navigating>>

HandlerStatus ==
    /\ \/ SetSta("die_end", "SESSION_END", "die_end_cb")
       \/ CallBack("die_end_cb", "die_off")
       \/ SetSta("die_off", "ENGINE_OFF", "die_off_cb")
       \/ CallBack("die_off_cb", "die_release")
       \/ SetSta("icon_on", "ENGINE_ON", "icon_on_cb")
       \/ CallBackThenSet("icon_on_cb", "SESSION_BEGIN", "icon_begin_cb")
       \/ CallBack("icon_begin_cb", "poll")
       \/ SetSta("icon_off", "ENGINE_OFF", "icon_off_cb")
       \/ CallBackThenSet("icon_off_cb", "SESSION_END", "icon_end_cb")
       \/ CallBack("icon_end_cb", "poll")
    /\ UNCHANGED <<pc, epc, hal, cond, control, wakelock, cmdq, msgq, mnld,
                   navigating>>

\* Mutation: the handler forgets to release M_STOP.
DieNoRelease ==
    /\ GpsGoto("die_release", "die_unlock")
    /\ UNCHANGED <<pc, epc, hal, cond, control, cbs, cmdq, msgq, mnld,
                   navigating>>

DieRelease ==
    /\ GpsGoto("die_release", "die_unlock")
    /\ release_condition("M_STOP")
    /\ UNCHANGED <<pc, epc, hal, control, cbs, cmdq, msgq, mnld, navigating>>

DieWakelock ==
    /\ GpsGoto("die_unlock", "die_flag")
    /\ wakelock' = FALSE
    /\ UNCHANGED <<pc, epc, hal, cond, control, sta, status, cmdq, msgq, mnld,
                   navigating>>

DieFlag ==
    /\ GpsGoto("die_flag", "poll")
    /\ start_flag' = FALSE
    /\ UNCHANGED <<pc, epc, init, started, flag_unlock, epo_exit, open, bound,
                   cond, control, cbs, cmdq, msgq, mnld, navigating>>

\* EPOLLERR or EPOLLHUP on any descriptor ends the thread.
Hup ==
    /\ "hup" \in Env
    /\ GpsGoto("poll", "exit")
    /\ UNCHANGED <<pc, epc, hal, cond, control, cbs, cmdq, msgq, mnld,
                   navigating>>

\* Exit: close mnld2hal (its datagrams are lost), release M_CLEANUP.
ThreadExit ==
    /\ GpsGoto("exit", "gone")
    /\ bound' = FALSE /\ msgq' = <<>>
    /\ release_condition("M_CLEANUP")
    /\ UNCHANGED <<pc, epc, init, start_flag, started, flag_unlock, epo_exit,
                   open, control, cbs, cmdq, mnld, navigating>>

\* thread_epo_file_update sees its exit flag at the head of its loop.
EpoExit ==
    /\ epc = "run" /\ epo_exit
    /\ epc' = "gone"
    /\ release_condition("M_THREAD_EXIT")
    /\ UNCHANGED <<pc, gpc, hal, control, cbs, cmdq, msgq, mnld, navigating>>

-----------------------------------------------------------------------------
(* mnld and the MNL process it runs (external). *)

\* A datagram to the HAL is lost when nobody has bound the socket.
Notify(m) ==
    IF bound THEN Len(msgq) < MsgCap /\ msgq' = Append(msgq, m)
             ELSE UNCHANGED msgq

MnldStart ==
    /\ cmdq # <<>> /\ Head(cmdq) = "START"
    /\ cmdq' = Tail(cmdq)
    /\ mnl' = TRUE
    /\ fresh' = (fresh /\ mnl)
    /\ UNCHANGED <<pc, gpc, epc, hal, cond, control, cbs, msgq, nmea,
                   navigating>>

\* MNL is gone; what it wrote to /dev/gps is still there to be read.
MnlEnds ==
    /\ mnl' = FALSE /\ fresh' = FALSE
    /\ nmea' = IF nmea = "new" THEN "old" ELSE nmea

\* STOP and CLEANUP end MNL, and the end of MNL is reported with MNL_DIE.
MnldStop ==
    /\ cmdq # <<>> /\ Head(cmdq) \in {"STOP", "CLEANUP"}
    /\ cmdq' = Tail(cmdq)
    /\ IF mnl THEN Notify("MNL_DIE") ELSE UNCHANGED msgq
    /\ MnlEnds
    /\ UNCHANGED <<pc, gpc, epc, hal, cond, control, cbs, navigating>>

\* MNL dies on its own.
MnlDeath ==
    /\ "mnl_death" \in Env /\ mnl
    /\ MnlEnds
    /\ Notify("MNL_DIE")
    /\ UNCHANGED <<pc, gpc, epc, hal, cond, control, cbs, cmdq, navigating>>

\* A running MNL writes sentences to /dev/gps.
MnlNmea ==
    /\ mnl /\ nmea # "new"
    /\ nmea' = "new"
    /\ UNCHANGED <<pc, gpc, epc, hal, cond, control, cbs, cmdq, msgq, mnl,
                   fresh, navigating>>

\* A network-initiated session turns the status icon on or off.
NiIcon ==
    /\ "ni_icon" \in Env /\ bound
    /\ \E m \in {"ICON_ON", "ICON_OFF"} : Notify(m)
    /\ UNCHANGED <<pc, gpc, epc, hal, cond, control, cbs, cmdq, mnld,
                   navigating>>

-----------------------------------------------------------------------------
(* The specification. *)

FrameworkCall == \/ InitCreatesThread \/ InitOpenFails \/ InitFails
                 \/ InitThreadFails \/ StartCall \/ StopCall \/ CleanupSend

FrameworkStep ==
    \/ InitWait \/ EpoCreate \/ EpoCreateFails \/ EpoFlag
    \/ StartSend \/ StartWait \/ gps_state_start \/ StartStatus
    \/ StartWakelock \/ StartClearStop \/ StartReturn
    \/ StopSend \/ gps_state_stop
    \/ CleanupFlag \/ CleanupWait \/ CleanupClearStop
    \/ DoneQuit \/ DoneClose \/ CleanupEpo \/ CleanupJoin

Handler == HandlerStatus \/ DieRelease \/ DieWakelock \/ DieFlag

GpsThread == \/ ThreadBoot \/ ThreadBootFails \/ ThreadExit \/ Hup
             \/ ControlEvent \/ GpsEvent \/ MnldEvent \/ Handler

Mnld == MnldStart \/ MnldStop \/ MnlDeath \/ MnlNmea \/ NiIcon

Next == FrameworkCall \/ FrameworkStep \/ GpsThread \/ EpoExit \/ Mnld

Spec == Init /\ [][Next]_vars

\* Every thread runs, each ready descriptor is served (level-triggered epoll
\* rotates its ready list), mnld serves its socket and a running MNL keeps
\* writing.  Nobody has to call into the HAL and nothing has to fail.
Fairness ==
    /\ WF_vars(FrameworkStep)
    /\ WF_vars(ThreadBoot \/ ThreadExit \/ Handler)
    /\ WF_vars(ControlEvent) /\ WF_vars(GpsEvent) /\ WF_vars(MnldEvent)
    /\ WF_vars(EpoExit)
    /\ WF_vars(MnldStart \/ MnldStop) /\ WF_vars(MnlNmea)

FairSpec == Spec /\ Fairness

-----------------------------------------------------------------------------
(* Properties. *)

\* gps_state_done closes /dev/gps, the epoll fd and the control pair only
\* after gps_state_thread has left its loop, and init never starts a second
\* thread: as long as the thread runs, its descriptors are open.
FdsOpenWhileThreadRuns == ThreadRuns => open

\* A start that waits for the first sentence cannot have missed it: when the
\* thread has used up flag_unlock since the last MNL_DIE, M_START is set.
NoLostStart == pc = "start_wait" /\ flag_unlock => cond["M_START"]

\* When mtk_gps_cleanup has returned, both threads of the HAL have ended, so
\* the next mtk_gps_init cannot meet one of the previous incarnation.
CleanupJoinsThreads ==
    pc = "idle" /\ ~init => ~ThreadRuns /\ epc # "run"

\* "make sure gps_stop has set state to GPS_STATUS_ENGINE_OFF": once cleanup
\* is past its M_STOP wait, ENGINE_OFF has been delivered for every session.
CleanupAfterEngineOff ==
    pc \in {"cleanup_chk", "cleanup_done", "done_wait", "cleanup_epo",
            "cleanup_join"} => status \in {"NONE", "ENGINE_OFF"}

\* The statuses and the wake lock the framework sees follow the protocol of
\* GpsSession, although two threads report them through the shared sta.
Session == INSTANCE GpsSession WITH reported <- status, held <- wakelock
SessionProtocol == Session!Spec

\* "got first NMEA sentence, release lock to set state ENGINE ON, SESSION
\* BEGIN": start reports ENGINE_ON only after a sentence of the running MNL.
EngineOnAfterFirstNmea == pc = "start_on_cb" => fresh

\* Every call of the framework into the HAL returns.
CallsReturn == (pc # "idle") ~> (pc = "idle")

\* "HAL_CMD_MNL_DIE has been receiving from MNLD, release lock let stop done":
\* a call to mtk_gps_stop comes to its end.
StopReturns == (pc = "stop_spin") ~> (pc = "idle")
=============================================================================
