----------------------------- MODULE GpsSession -----------------------------
(***************************************************************************)
(* What the GPS HAL promises the location framework through its callbacks: *)
(* a positioning session is ENGINE_ON, SESSION_BEGIN, then SESSION_END,    *)
(* ENGINE_OFF, in that order, and the wake lock is taken once the session  *)
(* has begun and given back once the engine is off, before the next        *)
(* session.                                                                *)
(***************************************************************************)
VARIABLES reported, held

Init == reported = "NONE" /\ held = FALSE

EngineOn ==
    /\ reported \in {"NONE", "ENGINE_OFF"} /\ ~held
    /\ reported' = "ENGINE_ON" /\ UNCHANGED held

SessionBegin ==
    /\ reported = "ENGINE_ON"
    /\ reported' = "SESSION_BEGIN" /\ UNCHANGED held

AcquireWakelock ==
    /\ reported = "SESSION_BEGIN" /\ ~held
    /\ held' = TRUE /\ UNCHANGED reported

SessionEnd ==
    /\ reported = "SESSION_BEGIN" /\ held
    /\ reported' = "SESSION_END" /\ UNCHANGED held

EngineOff ==
    /\ reported = "SESSION_END"
    /\ reported' = "ENGINE_OFF" /\ UNCHANGED held

ReleaseWakelock ==
    /\ reported = "ENGINE_OFF" /\ held
    /\ held' = FALSE /\ UNCHANGED reported

Next == \/ EngineOn \/ SessionBegin \/ AcquireWakelock
        \/ SessionEnd \/ EngineOff \/ ReleaseWakelock

Spec == Init /\ [][Next]_<<reported, held>>
=============================================================================
