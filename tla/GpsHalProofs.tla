---------------------------- MODULE GpsHalProofs ----------------------------
(***************************************************************************)
(* Proofs about GpsHal.  They hold for every set Env of faults and events  *)
(* and every capacity of the sockets; the ones about the session protocol  *)
(* take the assumption QuietEnv as a hypothesis.                           *)
(***************************************************************************)
EXTENDS GpsHal, TLAPS

-----------------------------------------------------------------------------
(* Type correctness. *)

LEMMA InitType == Init => TypeOK
  <1> SUFFICES ASSUME Init PROVE TypeOK
    OBVIOUS
  <1>1. PcTypes BY DEF Init, PcTypes, FwPc, GpsPc, EpoPc
  <1>2. FlagTypes BY DEF Init, FlagTypes
  <1>3. ValueTypes BY DEF Init, ValueTypes, SyncLock, Status, Nmea
  <1>4. QueueTypes
    BY CapAssumption DEF CapAssumption, Init, QueueTypes, Control, MnlCmd,
       HalCmd
  <1> QED BY <1>1, <1>2, <1>3, <1>4 DEF TypeOK

LEMMA PcStep == PcTypes /\ [Next]_vars => PcTypes'
  <1> SUFFICES ASSUME PcTypes, [Next]_vars PROVE PcTypes'
    OBVIOUS
  <1> USE DEF PcTypes, FwPc, GpsPc, EpoPc, FwGoto, GpsGoto, get_condition,
      release_condition, hal, cbs, mnld
  <1>1. CASE FrameworkCall
    BY <1>1 DEF FrameworkCall, InitCreatesThread, InitOpenFails, InitFails,
        InitThreadFails, StartCall, StopCall, CleanupSend, mtk_daemon_send,
        mtk_daemon_send_fails
  <1>2. CASE FrameworkStep
    BY <1>2 DEF FrameworkStep, InitWait, EpoCreate, EpoCreateFails, EpoFlag,
        StartSend, StartWait, gps_state_start, StartStatus, StartWakelock,
        StartClearStop, StartReturn, StopSend, gps_state_stop, CleanupFlag,
        CleanupWait, CleanupClearStop, DoneQuit, DoneClose, CleanupEpo,
        CleanupJoin, mtk_daemon_send, mtk_daemon_send_fails, write_control,
        status_cb
  <1>3. CASE GpsThread
    BY <1>3 DEF GpsThread, Handler, ThreadBoot, ThreadBootFails, ThreadExit,
        Hup, ControlEvent, GpsEvent, MnldEvent, HandlerStatus, DieRelease,
        DieWakelock, DieFlag, SetSta, CallBack, CallBackThenSet, status_cb
  <1>4. CASE EpoExit BY <1>4 DEF EpoExit
  <1>5. CASE Mnld
    BY <1>5 DEF Mnld, MnldStart, MnldStop, MnlDeath, MnlNmea, NiIcon, Notify,
        MnlEnds
  <1>6. CASE UNCHANGED vars BY <1>6 DEF vars
  <1> QED BY <1>1, <1>2, <1>3, <1>4, <1>5, <1>6 DEF Next

LEMMA FlagStep == FlagTypes /\ [Next]_vars => FlagTypes'
  <1> SUFFICES ASSUME FlagTypes, [Next]_vars PROVE FlagTypes'
    OBVIOUS
  <1> USE DEF FlagTypes, FwGoto, GpsGoto, get_condition, release_condition,
      hal, cbs, mnld
  <1>1. CASE InitCreatesThread BY <1>1, Zenon DEF InitCreatesThread
  <1>2. CASE InitOpenFails BY <1>2, Zenon DEF InitOpenFails
  <1>3. CASE InitFails BY <1>3, Zenon DEF InitFails
  <1>4. CASE InitThreadFails BY <1>4, Zenon DEF InitThreadFails
  <1>5. CASE StartCall BY <1>5, Zenon DEF StartCall
  <1>6. CASE StopCall BY <1>6, Zenon DEF StopCall
  <1>7. CASE CleanupSend BY <1>7, Zenon DEF CleanupSend, mtk_daemon_send,
      mtk_daemon_send_fails
  <1>8. CASE InitWait BY <1>8, Zenon DEF InitWait
  <1>9. CASE EpoCreate BY <1>9, Zenon DEF EpoCreate
  <1>10. CASE EpoCreateFails BY <1>10, Zenon DEF EpoCreateFails
  <1>11. CASE EpoFlag BY <1>11, Zenon DEF EpoFlag
  <1>12. CASE StartSend BY <1>12, Zenon DEF StartSend, mtk_daemon_send,
      mtk_daemon_send_fails
  <1>13. CASE StartWait BY <1>13, Zenon DEF StartWait
  <1>14. CASE gps_state_start BY <1>14, Zenon DEF gps_state_start,
      write_control
  <1>15. CASE StartStatus BY <1>15, Zenon DEF StartStatus, status_cb
  <1>16. CASE StartWakelock BY <1>16, Zenon DEF StartWakelock
  <1>17. CASE StartClearStop BY <1>17, Zenon DEF StartClearStop
  <1>18. CASE StartReturn BY <1>18, Zenon DEF StartReturn
  <1>19. CASE StopSend BY <1>19, Zenon DEF StopSend, mtk_daemon_send,
      mtk_daemon_send_fails
  <1>20. CASE gps_state_stop BY <1>20, Zenon DEF gps_state_stop,
      write_control
  <1>21. CASE CleanupFlag BY <1>21, Zenon DEF CleanupFlag
  <1>22. CASE CleanupWait BY <1>22, Zenon DEF CleanupWait
  <1>23. CASE CleanupClearStop BY <1>23, Zenon DEF CleanupClearStop
  <1>24. CASE DoneQuit BY <1>24, Zenon DEF DoneQuit, write_control
  <1>25. CASE DoneClose BY <1>25, Zenon DEF DoneClose
  <1>26. CASE CleanupEpo BY <1>26, Zenon DEF CleanupEpo
  <1>27. CASE CleanupJoin BY <1>27, Zenon DEF CleanupJoin
  <1>28. CASE ThreadBoot BY <1>28, Zenon DEF ThreadBoot
  <1>29. CASE ThreadBootFails BY <1>29, Zenon DEF ThreadBootFails
  <1>30. CASE ThreadExit BY <1>30, Zenon DEF ThreadExit
  <1>31. CASE Hup BY <1>31, Zenon DEF Hup
  <1>32. CASE ControlEvent BY <1>32, Zenon DEF ControlEvent
  <1>33. CASE GpsEvent BY <1>33, Zenon DEF GpsEvent
  <1>34. CASE MnldEvent BY <1>34, Zenon DEF MnldEvent
  <1>35. CASE HandlerStatus BY <1>35, Zenon DEF HandlerStatus, SetSta,
      CallBack, CallBackThenSet, status_cb
  <1>36. CASE DieRelease BY <1>36, Zenon DEF DieRelease
  <1>37. CASE DieWakelock BY <1>37, Zenon DEF DieWakelock
  <1>38. CASE DieFlag BY <1>38, Zenon DEF DieFlag
  <1>39. CASE EpoExit BY <1>39, Zenon DEF EpoExit
  <1>40. CASE MnldStart BY <1>40, Zenon DEF MnldStart
  <1>41. CASE MnldStop BY <1>41, Zenon DEF MnldStop, Notify, MnlEnds
  <1>42. CASE MnlDeath BY <1>42, Zenon DEF MnlDeath, Notify, MnlEnds
  <1>43. CASE MnlNmea BY <1>43, Zenon DEF MnlNmea
  <1>44. CASE NiIcon BY <1>44, Zenon DEF NiIcon, Notify
  <1>45. CASE UNCHANGED vars BY <1>45, Zenon DEF vars
  <1> QED BY <1>1, <1>2, <1>3, <1>4, <1>5, <1>6, <1>7, <1>8, <1>9, <1>10,
      <1>11, <1>12, <1>13, <1>14, <1>15, <1>16, <1>17, <1>18, <1>19, <1>20,
      <1>21, <1>22, <1>23, <1>24, <1>25, <1>26, <1>27, <1>28, <1>29, <1>30,
      <1>31, <1>32, <1>33, <1>34, <1>35, <1>36, <1>37, <1>38, <1>39, <1>40,
      <1>41, <1>42, <1>43, <1>44, <1>45 DEF Next, FrameworkCall,
      FrameworkStep, GpsThread, Handler, Mnld

LEMMA ValueStep == ValueTypes /\ [Next]_vars => ValueTypes'
  <1> SUFFICES ASSUME ValueTypes, [Next]_vars PROVE ValueTypes'
    OBVIOUS
  <1> USE DEF ValueTypes, SyncLock, Status, Nmea, FwGoto, GpsGoto,
      get_condition, release_condition, hal, cbs, mnld
  <1>1. CASE FrameworkCall
    BY <1>1 DEF FrameworkCall, InitCreatesThread, InitOpenFails, InitFails,
        InitThreadFails, StartCall, StopCall, CleanupSend, mtk_daemon_send,
        mtk_daemon_send_fails
  <1>2. CASE FrameworkStep
    BY <1>2 DEF FrameworkStep, InitWait, EpoCreate, EpoCreateFails, EpoFlag,
        StartSend, StartWait, gps_state_start, StartStatus, StartWakelock,
        StartClearStop, StartReturn, StopSend, gps_state_stop, CleanupFlag,
        CleanupWait, CleanupClearStop, DoneQuit, DoneClose, CleanupEpo,
        CleanupJoin, mtk_daemon_send, mtk_daemon_send_fails, write_control,
        status_cb
  <1>3. CASE GpsThread
    BY <1>3 DEF GpsThread, Handler, ThreadBoot, ThreadBootFails, ThreadExit,
        Hup, ControlEvent, GpsEvent, MnldEvent, HandlerStatus, DieRelease,
        DieWakelock, DieFlag, SetSta, CallBack, CallBackThenSet, status_cb
  <1>4. CASE EpoExit BY <1>4 DEF EpoExit
  <1>5. CASE Mnld
    BY <1>5 DEF Mnld, MnldStart, MnldStop, MnlDeath, MnlNmea, NiIcon, Notify,
        MnlEnds
  <1>6. CASE UNCHANGED vars BY <1>6 DEF vars
  <1> QED BY <1>1, <1>2, <1>3, <1>4, <1>5, <1>6 DEF Next

LEMMA AppendType ==
  ASSUME NEW S, NEW q \in Seq(S), NEW e \in S, NEW n \in Nat, Len(q) < n
  PROVE  Append(q, e) \in Seq(S) /\ Len(Append(q, e)) <= n
  OBVIOUS

\* mnld never overfills the socket to the HAL.
LEMMA NotifyType ==
  ASSUME QueueTypes, bound \in BOOLEAN, NEW m \in HalCmd, Notify(m)
  PROVE  msgq' \in Seq(HalCmd) /\ Len(msgq') <= MsgCap
  <1>1. CASE bound
    <2>1. Len(msgq) < MsgCap /\ msgq' = Append(msgq, m)
      BY <1>1 DEF Notify
    <2> QED BY <2>1, CapAssumption, AppendType DEF QueueTypes, CapAssumption
  <1>2. CASE ~bound BY <1>2 DEF Notify, QueueTypes
  <1> QED BY <1>1, <1>2

LEMMA QueueStep == QueueTypes /\ FlagTypes /\ [Next]_vars => QueueTypes'
  <1> SUFFICES ASSUME QueueTypes /\ FlagTypes, [Next]_vars PROVE QueueTypes'
    OBVIOUS
  <1> USE CapAssumption DEF CapAssumption, QueueTypes, Control, MnlCmd,
      HalCmd, FwGoto, GpsGoto, get_condition, release_condition, hal, cbs,
      mnld
  <1>1. CASE InitCreatesThread BY <1>1 DEF InitCreatesThread
  <1>2. CASE InitOpenFails BY <1>2 DEF InitOpenFails
  <1>3. CASE InitFails BY <1>3 DEF InitFails
  <1>4. CASE InitThreadFails BY <1>4 DEF InitThreadFails
  <1>5. CASE StartCall BY <1>5 DEF StartCall
  <1>6. CASE StopCall BY <1>6 DEF StopCall
  <1>7. CASE CleanupSend BY <1>7 DEF CleanupSend, mtk_daemon_send,
      mtk_daemon_send_fails
  <1>8. CASE InitWait BY <1>8 DEF InitWait
  <1>9. CASE EpoCreate BY <1>9 DEF EpoCreate
  <1>10. CASE EpoCreateFails BY <1>10 DEF EpoCreateFails
  <1>11. CASE EpoFlag BY <1>11 DEF EpoFlag
  <1>12. CASE StartSend BY <1>12 DEF StartSend, mtk_daemon_send,
      mtk_daemon_send_fails
  <1>13. CASE StartWait BY <1>13 DEF StartWait
  <1>14. CASE gps_state_start BY <1>14 DEF gps_state_start, write_control
  <1>15. CASE StartStatus BY <1>15 DEF StartStatus, status_cb
  <1>16. CASE StartWakelock BY <1>16 DEF StartWakelock
  <1>17. CASE StartClearStop BY <1>17 DEF StartClearStop
  <1>18. CASE StartReturn BY <1>18 DEF StartReturn
  <1>19. CASE StopSend BY <1>19 DEF StopSend, mtk_daemon_send,
      mtk_daemon_send_fails
  <1>20. CASE gps_state_stop BY <1>20 DEF gps_state_stop, write_control
  <1>21. CASE CleanupFlag BY <1>21 DEF CleanupFlag
  <1>22. CASE CleanupWait BY <1>22 DEF CleanupWait
  <1>23. CASE CleanupClearStop BY <1>23 DEF CleanupClearStop
  <1>24. CASE DoneQuit BY <1>24 DEF DoneQuit, write_control
  <1>25. CASE DoneClose BY <1>25 DEF DoneClose
  <1>26. CASE CleanupEpo BY <1>26 DEF CleanupEpo
  <1>27. CASE CleanupJoin BY <1>27 DEF CleanupJoin
  <1>28. CASE ThreadBoot BY <1>28 DEF ThreadBoot
  <1>29. CASE ThreadBootFails BY <1>29 DEF ThreadBootFails
  <1>30. CASE ThreadExit BY <1>30 DEF ThreadExit
  <1>31. CASE Hup BY <1>31 DEF Hup
  <1>32. CASE ControlEvent BY <1>32 DEF ControlEvent
  <1>33. CASE GpsEvent BY <1>33 DEF GpsEvent
  <1>34. CASE MnldEvent BY <1>34 DEF MnldEvent
  <1>35. CASE HandlerStatus BY <1>35 DEF HandlerStatus, SetSta, CallBack,
      CallBackThenSet, status_cb
  <1>36. CASE DieRelease BY <1>36 DEF DieRelease
  <1>37. CASE DieWakelock BY <1>37 DEF DieWakelock
  <1>38. CASE DieFlag BY <1>38 DEF DieFlag
  <1>39. CASE EpoExit BY <1>39 DEF EpoExit
  <1>40. CASE MnldStart BY <1>40 DEF MnldStart
  <1>41. CASE MnldStop
    <2>1. msgq' \in Seq(HalCmd) /\ Len(msgq') <= MsgCap
      <3>1. CASE mnl BY <1>41, <3>1, NotifyType DEF MnldStop, FlagTypes
      <3>2. CASE ~mnl BY <1>41, <3>2 DEF MnldStop
      <3> QED BY <3>1, <3>2
    <2> QED BY <1>41, <2>1 DEF MnldStop
  <1>42. CASE MnlDeath BY <1>42, NotifyType DEF MnlDeath, FlagTypes
  <1>43. CASE MnlNmea BY <1>43 DEF MnlNmea
  <1>44. CASE NiIcon BY <1>44, NotifyType DEF NiIcon, FlagTypes
  <1>45. CASE UNCHANGED vars BY <1>45 DEF vars
  <1> QED BY <1>1, <1>2, <1>3, <1>4, <1>5, <1>6, <1>7, <1>8, <1>9, <1>10,
      <1>11, <1>12, <1>13, <1>14, <1>15, <1>16, <1>17, <1>18, <1>19, <1>20,
      <1>21, <1>22, <1>23, <1>24, <1>25, <1>26, <1>27, <1>28, <1>29, <1>30,
      <1>31, <1>32, <1>33, <1>34, <1>35, <1>36, <1>37, <1>38, <1>39, <1>40,
      <1>41, <1>42, <1>43, <1>44, <1>45 DEF Next, FrameworkCall,
      FrameworkStep, GpsThread, Handler, Mnld

LEMMA TypeStep == TypeOK /\ [Next]_vars => TypeOK'
  BY PcStep, FlagStep, ValueStep, QueueStep DEF TypeOK

\* Every variable keeps its type and no socket holds more than its capacity,
\* whatever fails and however the threads interleave.
THEOREM TypeCorrect == Spec => []TypeOK
  BY InitType, TypeStep, PTL DEF Spec

-----------------------------------------------------------------------------
(* Threads and descriptors.  gps_state_thread and the EPO thread live from  *)
(* init to the end of cleanup, and the two flags cleanup joins them with    *)
(* are set only by a thread that has ended in this incarnation.             *)

GpsThreadInv ==
    /\ ThreadRuns => open
    /\ cond["M_CLEANUP"] => gpc = "gone"
    /\ ~init /\ pc # "init_wait" => ~ThreadRuns /\ ~cond["M_CLEANUP"]
    /\ pc \in {"init_wait", "fail_wait", "cleanup_epo", "cleanup_join"}
          => ~init
    /\ pc = "epo_create" => init

EpoThreadInv ==
    /\ cond["M_THREAD_EXIT"] => epc = "gone"
    /\ ~init /\ pc \notin {"cleanup_epo", "cleanup_join"}
          => epc # "run" /\ ~cond["M_THREAD_EXIT"]
    /\ pc = "epo_create" => epc # "run" /\ ~cond["M_THREAD_EXIT"]

ThreadInv == GpsThreadInv /\ EpoThreadInv

LEMMA ThreadInit == Init => ThreadInv
  BY DEF Init, ThreadInv, GpsThreadInv, EpoThreadInv, ThreadRuns, SyncLock

LEMMA ThreadStep == TypeOK /\ ThreadInv /\ [Next]_vars => ThreadInv'
  <1> SUFFICES ASSUME TypeOK /\ ThreadInv, [Next]_vars PROVE ThreadInv'
    OBVIOUS
  <1> USE DEF TypeOK, ThreadInv, GpsThreadInv, EpoThreadInv, ThreadRuns,
      FlagTypes, ValueTypes, SyncLock, FwGoto, GpsGoto, get_condition,
      release_condition, hal, cbs, mnld
  <1>1. CASE FrameworkCall
    BY <1>1 DEF FrameworkCall, InitCreatesThread, InitOpenFails, InitFails,
        InitThreadFails, StartCall, StopCall, CleanupSend, mtk_daemon_send,
        mtk_daemon_send_fails
  <1>2. CASE FrameworkStep
    BY <1>2 DEF FrameworkStep, InitWait, EpoCreate, EpoCreateFails, EpoFlag,
        StartSend, StartWait, gps_state_start, StartStatus, StartWakelock,
        StartClearStop, StartReturn, StopSend, gps_state_stop, CleanupFlag,
        CleanupWait, CleanupClearStop, DoneQuit, DoneClose, CleanupEpo,
        CleanupJoin, mtk_daemon_send, mtk_daemon_send_fails, write_control,
        status_cb
  <1>3. CASE GpsThread
    <2>1. CASE ThreadBoot BY <2>1 DEF ThreadBoot
    <2>2. CASE ThreadBootFails BY <2>2 DEF ThreadBootFails
    <2>3. CASE ThreadExit BY <2>3 DEF ThreadExit
    <2>4. CASE Hup BY <2>4 DEF Hup
    <2>5. CASE ControlEvent BY <2>5 DEF ControlEvent
    <2>6. CASE GpsEvent BY <2>6 DEF GpsEvent
    <2>7. CASE MnldEvent BY <2>7 DEF MnldEvent
    <2>8. CASE HandlerStatus BY <2>8 DEF HandlerStatus, SetSta, CallBack,
        CallBackThenSet, status_cb
    <2>9. CASE DieRelease BY <2>9 DEF DieRelease
    <2>10. CASE DieWakelock BY <2>10 DEF DieWakelock
    <2>11. CASE DieFlag BY <2>11 DEF DieFlag
    <2> QED BY <1>3, <2>1, <2>2, <2>3, <2>4, <2>5, <2>6, <2>7, <2>8, <2>9,
        <2>10, <2>11 DEF GpsThread, Handler
  <1>4. CASE EpoExit BY <1>4 DEF EpoExit
  <1>5. CASE Mnld
    BY <1>5 DEF Mnld, MnldStart, MnldStop, MnlDeath, MnlNmea, NiIcon, Notify,
        MnlEnds
  <1>6. CASE UNCHANGED vars BY <1>6 DEF vars
  <1> QED BY <1>1, <1>2, <1>3, <1>4, <1>5, <1>6 DEF Next

\* gps_state_thread never runs on closed descriptors: gps_state_done closes
\* them only after the M_CLEANUP handshake, whatever fails during init.
THEOREM FdsOpenTheorem == Spec => []FdsOpenWhileThreadRuns
  <1>1. ThreadInv => FdsOpenWhileThreadRuns
    BY DEF ThreadInv, GpsThreadInv, FdsOpenWhileThreadRuns
  <1> QED BY <1>1, InitType, TypeStep, ThreadInit, ThreadStep, PTL DEF Spec

\* When mtk_gps_cleanup has returned, gps_state_thread and the EPO thread have
\* ended; the M_CLEANUP and M_THREAD_EXIT handshakes are not satisfied by a
\* flag an earlier incarnation left behind.
THEOREM CleanupJoinsTheorem == Spec => []CleanupJoinsThreads
  <1>1. ThreadInv => CleanupJoinsThreads
    BY DEF ThreadInv, GpsThreadInv, EpoThreadInv, CleanupJoinsThreads
  <1> QED BY <1>1, InitType, TypeStep, ThreadInit, ThreadStep, PTL DEF Spec

-----------------------------------------------------------------------------
(* The first-sentence handshake.  A set flag_unlock means that M_START has  *)
(* been released since the last MNL_DIE; if a start has consumed it, that   *)
(* start is under way or its session is on, so no other start waits.        *)

DiePcs == {"die_end", "die_end_cb", "die_off", "die_off_cb", "die_release",
           "die_unlock", "die_flag"}

\* start has the first sentence and has not yet set start_flag.
Unlocked == {"start_cmd", "start_on", "start_on_cb", "start_begin",
             "start_begin_cb", "start_lock", "start_chk", "start_flag"}

StartInv ==
    /\ flag_unlock /\ ~cond["M_START"] => start_flag \/ pc \in Unlocked
    /\ gpc \in DiePcs => ~flag_unlock
    /\ pc \in Unlocked \cup {"start_wait"} => ~start_flag

LEMMA StartInit == Init => StartInv
  BY DEF Init, StartInv, Unlocked, DiePcs

LEMMA StartStep == TypeOK /\ StartInv /\ [Next]_vars => StartInv'
  <1> SUFFICES ASSUME TypeOK /\ StartInv, [Next]_vars PROVE StartInv'
    OBVIOUS
  <1> USE DEF TypeOK, StartInv, Unlocked, DiePcs, FlagTypes, ValueTypes,
      SyncLock, FwGoto, GpsGoto, get_condition, release_condition, hal, cbs,
      mnld
  <1>1. CASE FrameworkCall
    BY <1>1 DEF FrameworkCall, InitCreatesThread, InitOpenFails, InitFails,
        InitThreadFails, StartCall, StopCall, CleanupSend, mtk_daemon_send,
        mtk_daemon_send_fails
  <1>2. CASE FrameworkStep
    BY <1>2 DEF FrameworkStep, InitWait, EpoCreate, EpoCreateFails, EpoFlag,
        StartSend, StartWait, gps_state_start, StartStatus, StartWakelock,
        StartClearStop, StartReturn, StopSend, gps_state_stop, CleanupFlag,
        CleanupWait, CleanupClearStop, DoneQuit, DoneClose, CleanupEpo,
        CleanupJoin, mtk_daemon_send, mtk_daemon_send_fails, write_control,
        status_cb
  <1>3. CASE GpsThread
    <2>1. CASE ThreadBoot BY <2>1 DEF ThreadBoot
    <2>2. CASE ThreadBootFails BY <2>2 DEF ThreadBootFails
    <2>3. CASE ThreadExit BY <2>3 DEF ThreadExit
    <2>4. CASE Hup BY <2>4 DEF Hup
    <2>5. CASE ControlEvent BY <2>5 DEF ControlEvent
    <2>6. CASE GpsEvent BY <2>6 DEF GpsEvent
    <2>7. CASE MnldEvent
      <3>1. CASE Head(msgq) = "MNL_DIE" BY <2>7, <3>1 DEF MnldEvent
      <3>2. CASE Head(msgq) # "MNL_DIE"
        <4>1. gpc' \notin DiePcs BY <2>7, <3>2 DEF MnldEvent
        <4>2. flag_unlock' = flag_unlock BY <2>7, <3>2, Zenon DEF MnldEvent
        <4> QED BY <2>7, <4>1, <4>2 DEF MnldEvent
      <3> QED BY <3>1, <3>2
    <2>8. CASE HandlerStatus BY <2>8 DEF HandlerStatus, SetSta, CallBack,
        CallBackThenSet, status_cb
    <2>9. CASE DieRelease BY <2>9 DEF DieRelease
    <2>10. CASE DieWakelock BY <2>10 DEF DieWakelock
    <2>11. CASE DieFlag BY <2>11 DEF DieFlag
    <2> QED BY <1>3, <2>1, <2>2, <2>3, <2>4, <2>5, <2>6, <2>7, <2>8, <2>9,
        <2>10, <2>11 DEF GpsThread, Handler
  <1>4. CASE EpoExit BY <1>4 DEF EpoExit
  <1>5. CASE Mnld
    BY <1>5 DEF Mnld, MnldStart, MnldStop, MnlDeath, MnlNmea, NiIcon, Notify,
        MnlEnds
  <1>6. CASE UNCHANGED vars BY <1>6 DEF vars
  <1> QED BY <1>1, <1>2, <1>3, <1>4, <1>5, <1>6 DEF Next

\* A start waiting for the first sentence has not missed it, although the
\* thread releases M_START only once between two MNL_DIE reports.
THEOREM NoLostStartTheorem == Spec => []NoLostStart
  <1>1. StartInv => NoLostStart
    BY DEF StartInv, NoLostStart, Unlocked
  <1> QED BY <1>1, InitType, TypeStep, StartInit, StartStep, PTL DEF Spec

-----------------------------------------------------------------------------
(* Sessions.  When MNL ends only on request and no network-initiated        *)
(* session reports on its own, the life of one session is a token: a START  *)
(* datagram, then a running MNL, then an MNL_DIE datagram, then the         *)
(* handler of MNL_DIE.  There is never more than one token.                 *)

QuietEnv == Env \cap {"mnl_death", "ni_icon"} = {}

IconPcs == {"icon_on", "icon_on_cb", "icon_begin_cb",
            "icon_off", "icon_off_cb", "icon_end_cb"}

Starting == Unlocked \cup {"start_wait"}

NoStart(q)  == \A i \in 1..Len(q) : q[i] # "START"
OneStart(q) == \A i, j \in 1..Len(q) :
                  q[i] = "START" /\ q[j] = "START" => i = j

TokenInv ==
    /\ OneStart(cmdq)
    /\ mnl => NoStart(cmdq)
    /\ msgq \in {<<>>, <<"MNL_DIE">>}
    /\ msgq # <<>> \/ gpc \in DiePcs => ~mnl /\ NoStart(cmdq) /\ start_flag
    /\ gpc \in DiePcs => msgq = <<>>
    /\ ~start_flag /\ pc \notin Starting => ~mnl /\ NoStart(cmdq)
    /\ pc \in Starting /\ cmdq # <<>> => ~mnl /\ cmdq[Len(cmdq)] = "START"
    /\ gpc \notin IconPcs

\* What has been reported, by where the two reporting threads are.
ReportInv ==
    /\ ~start_flag /\ pc \notin Unlocked \ {"start_cmd", "start_on",
                                            "start_on_cb"}
          => status \in {"NONE", "ENGINE_OFF"} /\ ~wakelock
    /\ pc = "start_on_cb" => sta = "ENGINE_ON"
    /\ pc \in {"start_begin", "start_begin_cb"}
          => status = "ENGINE_ON" /\ ~wakelock
    /\ pc = "start_begin_cb" => sta = "SESSION_BEGIN"
    /\ pc = "start_lock" => status = "SESSION_BEGIN" /\ ~wakelock
    /\ pc \in {"start_chk", "start_flag"}
          => status = "SESSION_BEGIN" /\ wakelock
    /\ start_flag /\ gpc \notin DiePcs \ {"die_end", "die_end_cb"}
          => status = "SESSION_BEGIN" /\ wakelock
    /\ gpc = "die_end_cb" => sta = "SESSION_END"
    /\ gpc \in {"die_off", "die_off_cb"} => status = "SESSION_END" /\ wakelock
    /\ gpc = "die_off_cb" => sta = "ENGINE_OFF"
    /\ gpc \in {"die_release", "die_unlock"}
          => status = "ENGINE_OFF" /\ wakelock
    /\ gpc = "die_flag" => status = "ENGINE_OFF" /\ ~wakelock

\* M_STOP is set only at the end of the current session, not by an old one.
StopInv ==
    /\ cond["M_STOP"] /\ start_flag => gpc \in {"die_unlock", "die_flag"}
    /\ pc = "start_flag" => ~cond["M_STOP"]
    /\ pc \in {"cleanup_chk", "cleanup_done", "done_wait", "cleanup_epo",
               "cleanup_join"} /\ start_flag
          => gpc \in {"die_unlock", "die_flag"}

SessionInv == TokenInv /\ ReportInv /\ StopInv

LEMMA SessionInit == Init => SessionInv
  <1> SUFFICES ASSUME Init PROVE SessionInv
    OBVIOUS
  <1>1. TokenInv
    BY DEF Init, TokenInv, OneStart, NoStart, DiePcs, Starting, Unlocked,
       IconPcs
  <1>2. ReportInv BY DEF Init, ReportInv, Unlocked, DiePcs
  <1>3. StopInv BY DEF Init, StopInv, SyncLock
  <1> QED BY <1>1, <1>2, <1>3 DEF SessionInv

\* Adding another command keeps the STARTs as they are ...
LEMMA AppendOther ==
  ASSUME NEW q \in Seq(MnlCmd), NEW c \in MnlCmd, c # "START"
  PROVE  /\ NoStart(q) => NoStart(Append(q, c))
         /\ OneStart(q) => OneStart(Append(q, c))
  BY DEF NoStart, OneStart

\* ... and a START may be added when there is none.
LEMMA AppendStart ==
  ASSUME NEW q \in Seq(MnlCmd), NoStart(q)
  PROVE  LET r == Append(q, "START") IN
         OneStart(r) /\ r # <<>> /\ r[Len(r)] = "START"
  BY DEF NoStart, OneStart, MnlCmd

LEMMA TailStart ==
  ASSUME NEW q \in Seq(MnlCmd), q # <<>>, OneStart(q)
  PROVE  /\ OneStart(Tail(q))
         /\ NoStart(q) => NoStart(Tail(q))
         /\ Head(q) = "START" => NoStart(Tail(q)) /\ ~NoStart(q)
         /\ Tail(q) # <<>> => Tail(q)[Len(Tail(q))] = q[Len(q)]
         /\ Head(q) = "START" /\ q[Len(q)] = "START" => Tail(q) = <<>>
         /\ NoStart(q) => q[Len(q)] # "START"
  <1> DEFINE t == Tail(q)
  <1>1. /\ Len(q) \in Nat \ {0} /\ Len(t) = Len(q) - 1
        /\ Head(q) = q[1] /\ \A i \in 1..Len(t) : t[i] = q[i + 1]
        /\ t \in Seq(MnlCmd) /\ (Len(t) = 0 => t = <<>>)
    OBVIOUS
  <1> HIDE DEF t
  <1>2. \A i \in 1..Len(t) : i + 1 \in 1..Len(q)
    BY <1>1
  <1>3. OneStart(t) BY <1>1, <1>2 DEF OneStart
  <1>4. NoStart(q) => NoStart(t) BY <1>1, <1>2 DEF NoStart
  <1>5. Head(q) = "START" => NoStart(t) /\ ~NoStart(q)
    BY <1>1, <1>2 DEF NoStart, OneStart
  <1>6. t # <<>> => t[Len(t)] = q[Len(q)] BY <1>1
  <1>7. Head(q) = "START" /\ q[Len(q)] = "START" => t = <<>>
    BY <1>1 DEF OneStart
  <1>8. NoStart(q) => q[Len(q)] # "START" BY <1>1 DEF NoStart
  <1> QED BY <1>3, <1>4, <1>5, <1>6, <1>7, <1>8 DEF t

LEMMA TokenStep ==
  TypeOK /\ ThreadInv /\ StartInv /\ QuietEnv /\ TokenInv /\ [Next]_vars
    => TokenInv'
  <1> SUFFICES ASSUME TypeOK /\ ThreadInv /\ StartInv /\ QuietEnv /\ TokenInv,
                      [Next]_vars
               PROVE  TokenInv'
    OBVIOUS
  <1> USE DEF TypeOK, StartInv, TokenInv, QuietEnv, Unlocked, Starting,
      DiePcs, IconPcs, QueueTypes, MnlCmd, HalCmd, FlagTypes, ValueTypes,
      SyncLock, FwGoto, GpsGoto, get_condition, release_condition, hal, cbs,
      mnld
  <1>1. CASE InitCreatesThread BY <1>1 DEF InitCreatesThread
  <1>2. CASE InitOpenFails BY <1>2 DEF InitOpenFails
  <1>3. CASE InitFails BY <1>3 DEF InitFails
  <1>4. CASE InitThreadFails BY <1>4 DEF InitThreadFails
  <1>5. CASE StartCall BY <1>5 DEF StartCall
  <1>6. CASE StopCall BY <1>6 DEF StopCall
  <1>7. CASE CleanupSend
    <2>1. CASE mtk_daemon_send("CLEANUP")
      BY <1>7, <2>1, AppendOther DEF CleanupSend, mtk_daemon_send
    <2>2. CASE mtk_daemon_send_fails
      BY <1>7, <2>2 DEF CleanupSend, mtk_daemon_send_fails
    <2> QED BY <1>7, <2>1, <2>2 DEF CleanupSend
  <1>8. CASE InitWait BY <1>8 DEF InitWait
  <1>9. CASE EpoCreate BY <1>9 DEF EpoCreate
  <1>10. CASE EpoCreateFails BY <1>10 DEF EpoCreateFails
  <1>11. CASE EpoFlag BY <1>11 DEF EpoFlag
  <1>12. CASE StartSend
    <2>1. CASE mtk_daemon_send("START") /\ pc' = "start_wait"
      BY <1>12, <2>1, AppendStart DEF StartSend, mtk_daemon_send
    <2>2. CASE mtk_daemon_send_fails /\ pc' = "idle"
      BY <1>12, <2>2 DEF StartSend, mtk_daemon_send_fails
    <2> QED BY <1>12, <2>1, <2>2 DEF StartSend
  <1>13. CASE StartWait BY <1>13 DEF StartWait
  <1>14. CASE gps_state_start BY <1>14 DEF gps_state_start, write_control
  <1>15. CASE StartStatus BY <1>15 DEF StartStatus, status_cb
  <1>16. CASE StartWakelock BY <1>16 DEF StartWakelock
  <1>17. CASE StartClearStop BY <1>17 DEF StartClearStop
  <1>18. CASE StartReturn BY <1>18 DEF StartReturn
  <1>19. CASE StopSend
    <2>1. CASE mtk_daemon_send("STOP") /\ pc' = "stop_cmd"
      BY <1>19, <2>1, AppendOther DEF StopSend, mtk_daemon_send
    <2>2. CASE mtk_daemon_send_fails /\ pc' = "idle"
      BY <1>19, <2>2 DEF StopSend, mtk_daemon_send_fails
    <2> QED BY <1>19, <2>1, <2>2 DEF StopSend
  <1>20. CASE gps_state_stop BY <1>20 DEF gps_state_stop, write_control
  <1>21. CASE CleanupFlag BY <1>21 DEF CleanupFlag
  <1>22. CASE CleanupWait BY <1>22 DEF CleanupWait
  <1>23. CASE CleanupClearStop BY <1>23 DEF CleanupClearStop
  <1>24. CASE DoneQuit BY <1>24 DEF DoneQuit, write_control
  <1>25. CASE DoneClose BY <1>25 DEF DoneClose
  <1>26. CASE CleanupEpo BY <1>26 DEF CleanupEpo
  <1>27. CASE CleanupJoin BY <1>27 DEF CleanupJoin
  <1>28. CASE ThreadBoot BY <1>28 DEF ThreadBoot
  <1>29. CASE ThreadBootFails BY <1>29 DEF ThreadBootFails
  <1>30. CASE ThreadExit BY <1>30 DEF ThreadExit
  <1>31. CASE Hup BY <1>31 DEF Hup
  <1>32. CASE ControlEvent BY <1>32 DEF ControlEvent
  <1>33. CASE GpsEvent BY <1>33 DEF GpsEvent
  <1>34. CASE MnldEvent BY <1>34 DEF MnldEvent
  <1>35. CASE HandlerStatus BY <1>35 DEF HandlerStatus, SetSta, CallBack,
      CallBackThenSet, status_cb
  <1>36. CASE DieRelease BY <1>36 DEF DieRelease
  <1>37. CASE DieWakelock BY <1>37 DEF DieWakelock
  <1>38. CASE DieFlag BY <1>38 DEF DieFlag
  <1>39. CASE EpoExit BY <1>39 DEF EpoExit
  <1>40. CASE MnldStart
    BY <1>40, TailStart DEF MnldStart
  <1>41. CASE MnldStop
    <2>1. msgq' \in {<<>>, <<"MNL_DIE">>}
      <3>1. CASE mnl /\ bound
        BY <1>41, <3>1 DEF MnldStop, Notify
      <3>2. CASE mnl /\ ~bound
        BY <1>41, <3>2 DEF MnldStop, Notify
      <3>3. CASE ~mnl BY <1>41, <3>3 DEF MnldStop
      <3> QED BY <3>1, <3>2, <3>3
    <2>2. msgq' # <<>> => mnl \/ msgq # <<>>
      BY <1>41 DEF MnldStop, Notify
    <2> QED BY <1>41, <2>1, <2>2, TailStart DEF MnldStop, MnlEnds
  <1>42. CASE MnlDeath BY <1>42 DEF MnlDeath, Notify, MnlEnds
  <1>43. CASE MnlNmea BY <1>43 DEF MnlNmea
  <1>44. CASE NiIcon BY <1>44 DEF NiIcon, Notify
  <1>45. CASE UNCHANGED vars BY <1>45 DEF vars
  <1> QED BY <1>1, <1>2, <1>3, <1>4, <1>5, <1>6, <1>7, <1>8, <1>9, <1>10,
      <1>11, <1>12, <1>13, <1>14, <1>15, <1>16, <1>17, <1>18, <1>19, <1>20,
      <1>21, <1>22, <1>23, <1>24, <1>25, <1>26, <1>27, <1>28, <1>29, <1>30,
      <1>31, <1>32, <1>33, <1>34, <1>35, <1>36, <1>37, <1>38, <1>39, <1>40,
      <1>41, <1>42, <1>43, <1>44, <1>45 DEF Next, FrameworkCall,
      FrameworkStep, GpsThread, Handler, Mnld

LEMMA ReportStep ==
  TypeOK /\ ThreadInv /\ StartInv /\ TokenInv /\ ReportInv /\ [Next]_vars
    => ReportInv'
  <1> SUFFICES ASSUME TypeOK /\ ThreadInv /\ StartInv /\ TokenInv /\ ReportInv,
                      [Next]_vars
               PROVE  ReportInv'
    OBVIOUS
  <1> USE DEF TypeOK, ThreadInv, GpsThreadInv, ThreadRuns, StartInv,
      TokenInv, ReportInv, Unlocked, Starting, DiePcs, IconPcs, Status,
      FlagTypes, ValueTypes, SyncLock, FwGoto, GpsGoto, get_condition,
      release_condition, hal, cbs, mnld
  <1>1. CASE FrameworkCall
    BY <1>1 DEF FrameworkCall, InitCreatesThread, InitOpenFails, InitFails,
        InitThreadFails, StartCall, StopCall, CleanupSend, mtk_daemon_send,
        mtk_daemon_send_fails
  <1>2. CASE FrameworkStep
    BY <1>2 DEF FrameworkStep, InitWait, EpoCreate, EpoCreateFails, EpoFlag,
        StartSend, StartWait, gps_state_start, StartStatus, StartWakelock,
        StartClearStop, StartReturn, StopSend, gps_state_stop, CleanupFlag,
        CleanupWait, CleanupClearStop, DoneQuit, DoneClose, CleanupEpo,
        CleanupJoin, mtk_daemon_send, mtk_daemon_send_fails, write_control,
        status_cb
  <1>3. CASE GpsThread
    <2>1. CASE ThreadBoot BY <2>1 DEF ThreadBoot
    <2>2. CASE ThreadBootFails BY <2>2 DEF ThreadBootFails
    <2>3. CASE ThreadExit BY <2>3 DEF ThreadExit
    <2>4. CASE Hup BY <2>4 DEF Hup
    <2>5. CASE ControlEvent BY <2>5 DEF ControlEvent
    <2>6. CASE GpsEvent BY <2>6 DEF GpsEvent
    <2>7. CASE MnldEvent BY <2>7 DEF MnldEvent
    <2>8. CASE HandlerStatus BY <2>8 DEF HandlerStatus, SetSta, CallBack,
        CallBackThenSet, status_cb
    <2>9. CASE DieRelease BY <2>9 DEF DieRelease
    <2>10. CASE DieWakelock BY <2>10 DEF DieWakelock
    <2>11. CASE DieFlag BY <2>11 DEF DieFlag
    <2> QED BY <1>3, <2>1, <2>2, <2>3, <2>4, <2>5, <2>6, <2>7, <2>8, <2>9,
        <2>10, <2>11 DEF GpsThread, Handler
  <1>4. CASE EpoExit BY <1>4 DEF EpoExit
  <1>5. CASE Mnld
    BY <1>5 DEF Mnld, MnldStart, MnldStop, MnlDeath, MnlNmea, NiIcon, Notify,
        MnlEnds
  <1>6. CASE UNCHANGED vars BY <1>6 DEF vars
  <1> QED BY <1>1, <1>2, <1>3, <1>4, <1>5, <1>6 DEF Next

LEMMA StopStep ==
  TypeOK /\ ThreadInv /\ StartInv /\ TokenInv /\ StopInv /\ [Next]_vars
    => StopInv'
  <1> SUFFICES ASSUME TypeOK /\ ThreadInv /\ StartInv /\ TokenInv /\ StopInv,
                      [Next]_vars
               PROVE  StopInv'
    OBVIOUS
  <1> USE DEF TypeOK, ThreadInv, GpsThreadInv, ThreadRuns, StartInv,
      TokenInv, StopInv, Unlocked, Starting, DiePcs, FlagTypes, ValueTypes,
      SyncLock, FwGoto, GpsGoto, get_condition, release_condition, hal, cbs,
      mnld
  <1>1. CASE FrameworkCall
    BY <1>1 DEF FrameworkCall, InitCreatesThread, InitOpenFails, InitFails,
        InitThreadFails, StartCall, StopCall, CleanupSend, mtk_daemon_send,
        mtk_daemon_send_fails
  <1>2. CASE FrameworkStep
    BY <1>2 DEF FrameworkStep, InitWait, EpoCreate, EpoCreateFails, EpoFlag,
        StartSend, StartWait, gps_state_start, StartStatus, StartWakelock,
        StartClearStop, StartReturn, StopSend, gps_state_stop, CleanupFlag,
        CleanupWait, CleanupClearStop, DoneQuit, DoneClose, CleanupEpo,
        CleanupJoin, mtk_daemon_send, mtk_daemon_send_fails, write_control,
        status_cb
  <1>3. CASE GpsThread
    <2>1. CASE ThreadBoot BY <2>1 DEF ThreadBoot
    <2>2. CASE ThreadBootFails BY <2>2 DEF ThreadBootFails
    <2>3. CASE ThreadExit BY <2>3 DEF ThreadExit
    <2>4. CASE Hup BY <2>4 DEF Hup
    <2>5. CASE ControlEvent BY <2>5 DEF ControlEvent
    <2>6. CASE GpsEvent BY <2>6 DEF GpsEvent
    <2>7. CASE MnldEvent BY <2>7 DEF MnldEvent
    <2>8. CASE HandlerStatus BY <2>8 DEF HandlerStatus, SetSta, CallBack,
        CallBackThenSet, status_cb
    <2>9. CASE DieRelease BY <2>9 DEF DieRelease
    <2>10. CASE DieWakelock BY <2>10 DEF DieWakelock
    <2>11. CASE DieFlag BY <2>11 DEF DieFlag
    <2> QED BY <1>3, <2>1, <2>2, <2>3, <2>4, <2>5, <2>6, <2>7, <2>8, <2>9,
        <2>10, <2>11 DEF GpsThread, Handler
  <1>4. CASE EpoExit BY <1>4 DEF EpoExit
  <1>5. CASE Mnld
    BY <1>5 DEF Mnld, MnldStart, MnldStop, MnlDeath, MnlNmea, NiIcon, Notify,
        MnlEnds
  <1>6. CASE UNCHANGED vars BY <1>6 DEF vars
  <1> QED BY <1>1, <1>2, <1>3, <1>4, <1>5, <1>6 DEF Next

IInv == TypeOK /\ ThreadInv /\ StartInv /\ SessionInv

LEMMA InvariantInit == Init => IInv
  BY InitType, ThreadInit, StartInit, SessionInit DEF IInv

LEMMA InvariantStep ==
  ASSUME QuietEnv
  PROVE  IInv /\ [Next]_vars => IInv'
  <1> SUFFICES ASSUME IInv, [Next]_vars PROVE IInv'
    OBVIOUS
  <1>1. TypeOK' /\ ThreadInv' /\ StartInv'
    BY TypeStep, ThreadStep, StartStep DEF IInv
  <1>2. TokenInv' BY TokenStep, QuietEnv DEF IInv, SessionInv
  <1>3. ReportInv' BY ReportStep DEF IInv, SessionInv
  <1>4. StopInv' BY StopStep DEF IInv, SessionInv
  <1> QED BY <1>1, <1>2, <1>3, <1>4 DEF IInv, SessionInv

\* mtk_gps_cleanup goes past its M_STOP wait only when ENGINE_OFF has been
\* delivered for every session, as its comment asks: a stale M_STOP never
\* lets it through.
THEOREM CleanupAfterEngineOffTheorem ==
  ASSUME QuietEnv
  PROVE  Spec => []CleanupAfterEngineOff
  <1>1. IInv => CleanupAfterEngineOff
    BY DEF IInv, SessionInv, StopInv, ReportInv, CleanupAfterEngineOff,
       TypeOK, FlagTypes, DiePcs, Unlocked
  <1>2. IInv /\ [Next]_vars => IInv'
    BY InvariantStep, QuietEnv
  <1> QED BY <1>1, <1>2, InvariantInit, PTL DEF Spec

-----------------------------------------------------------------------------
(* The HAL implements GpsSession: its status and wakelock variables move as *)
(* the abstract specification allows, or stutter.                           *)

LEMMA SessionStep ==
  IInv /\ [Next]_vars => [Session!Next]_<<status, wakelock>>
  <1> SUFFICES ASSUME IInv, [Next]_vars
               PROVE  Session!Next \/ UNCHANGED <<status, wakelock>>
    OBVIOUS
  <1> USE DEF hal, cbs, mnld, FwGoto, GpsGoto, status_cb
  <1>0. TokenInv /\ ReportInv /\ FlagTypes
    BY DEF IInv, SessionInv, TypeOK
  <1>1. CASE FrameworkCall
    BY <1>1 DEF FrameworkCall, InitCreatesThread, InitOpenFails, InitFails,
       InitThreadFails, StartCall, StopCall, CleanupSend
  <1>2. CASE FrameworkStep
    <2>1. CASE StartStatus
      BY <1>0, <2>1 DEF StartStatus, ReportInv, StartInv, IInv, Unlocked,
         Session!Next, Session!EngineOn, Session!SessionBegin
    <2>2. CASE StartWakelock
      BY <1>0, <2>2 DEF StartWakelock, ReportInv, Session!Next,
         Session!AcquireWakelock
    <2>3. CASE ~(StartStatus \/ StartWakelock)
      BY <1>2, <2>3 DEF FrameworkStep, InitWait, EpoCreate, EpoCreateFails,
         EpoFlag, StartSend, StartWait, gps_state_start, StartClearStop,
         StartReturn, StopSend, gps_state_stop, CleanupFlag, CleanupWait,
         CleanupClearStop, DoneQuit, DoneClose, CleanupEpo, CleanupJoin
    <2> QED BY <2>1, <2>2, <2>3
  <1>3. CASE GpsThread
    <2>1. CASE HandlerStatus
      BY <1>0, <2>1 DEF HandlerStatus, SetSta, CallBack, CallBackThenSet,
         TokenInv, ReportInv, DiePcs, IconPcs, Session!Next,
         Session!SessionEnd, Session!EngineOff
    <2>2. CASE DieWakelock
      BY <1>0, <2>2 DEF DieWakelock, ReportInv, Session!Next,
         Session!ReleaseWakelock
    <2>3. CASE ~(HandlerStatus \/ DieWakelock)
      BY <1>3, <2>3 DEF GpsThread, Handler, ThreadBoot, ThreadBootFails,
         ThreadExit, Hup, ControlEvent, GpsEvent, MnldEvent, DieRelease,
         DieFlag
    <2> QED BY <2>1, <2>2, <2>3
  <1>4. CASE EpoExit BY <1>4 DEF EpoExit
  <1>5. CASE Mnld
    BY <1>5 DEF Mnld, MnldStart, MnldStop, MnlDeath, MnlNmea, NiIcon
  <1>6. CASE UNCHANGED vars BY <1>6 DEF vars
  <1> QED BY <1>1, <1>2, <1>3, <1>4, <1>5, <1>6 DEF Next

\* The callbacks mtk_gps_start and mnld_to_gps_handler make from two threads
\* through one shared variable follow the protocol of GpsSession.
THEOREM SessionTheorem ==
  ASSUME QuietEnv
  PROVE  Spec => SessionProtocol
  <1>1. Init => Session!Init
    BY DEF Init, Session!Init
  <1>2. IInv /\ [Next]_vars => IInv'
    BY InvariantStep, QuietEnv
  <1> QED
    BY <1>1, <1>2, InvariantInit, SessionStep, PTL
    DEF Spec, SessionProtocol, Session!Spec
=============================================================================
