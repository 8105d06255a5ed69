---------------------------- MODULE LightsProofs ----------------------------
(***************************************************************************)
(* Proofs about Lights, for every set LightState of light_state_t values.  *)
(***************************************************************************)
EXTENDS Lights, SequenceTheorems, TLAPS

Call == {"battery", "notification"}

OwnerCall == IF is_lit(g_battery) THEN "battery" ELSE "notification"

\* The last element of a sequence.
Final(c) == c[Len(c)]

\* Only the holder of g_lock is inside a set_light function.
LockInv == \A d \in Device : pc[d] # "idle" => lock = d

\* The cache of blink_* agrees with the LED where the last update worked.
CacheInv == \A l \in Led \ failed : led[l].status = preStatus[l]

\* The last call of the holder is the one for the owner of the LED; when no
\* call is left, the LED shows it.
CallInv(d) ==
    /\ pc[d] = "on" => \A l \in Led : preStatus[l] = 0
    /\ pc[d] \in {"off", "on"} => calls[d] # <<>>
    /\ pc[d] \in {"trackball", "off", "on"} /\ calls[d] # <<>>
          => Final(calls[d]) = OwnerCall
    /\ pc[d] = "trackball" /\ calls[d] = <<>> => Shows(Owner)
    /\ pc[d] = "unlock" => Shows(Owner)

LedInv == /\ LockInv /\ CacheInv
          /\ \A d \in Device : CallInv(d)
          /\ OwnerShown

-----------------------------------------------------------------------------
(* Types. *)

LEMMA BlackType == Black \in LightStates
  BY DEF Black, LightStates, Led

LEMMA StatesType == LightState \cup {Black} \subseteq LightStates
  BY BlackType, LightsAssumption DEF LightsAssumption

LEMMA BrightnessType ==
  ASSUME NEW s \in LightStates
  PROVE  rgb_to_brightness(s) \in 0..255
  <1> DEFINE r == s.rgb["red"]  g == s.rgb["green"]  b == s.rgb["blue"]
  <1>1. r \in 0..255 /\ g \in 0..255 /\ b \in 0..255
    BY DEF LightStates, Led
  <1> HIDE DEF r, g, b
  <1>2. (77 * r + 150 * g + 29 * b) \div 256 \in 0..255
    BY <1>1
  <1> QED BY <1>2 DEF rgb_to_brightness, r, g, b

\* The calls handle_speaker_battery_locked leads to.
LEMMA HandleAlone ==
  ASSUME NEW s
  PROVE  /\ handle_speaker_battery_locked(s) \in Seq(Call)
         /\ 0 < Len(handle_speaker_battery_locked(s))
         /\ Len(handle_speaker_battery_locked(s)) <= 2
         /\ Final(handle_speaker_battery_locked(s))
               = IF is_lit(s) THEN "battery" ELSE "notification"
  <1>1. CASE is_lit(s)
    <2>1. handle_speaker_battery_locked(s) = <<"battery">>
      BY <1>1 DEF handle_speaker_battery_locked
    <2> QED BY <1>1, <2>1 DEF Final, Call
  <1>2. CASE ~is_lit(s)
    <2>1. handle_speaker_battery_locked(s) = <<"battery", "notification">>
      BY <1>2 DEF handle_speaker_battery_locked
    <2> QED BY <1>2, <2>1 DEF Final, Call
  <1> QED BY <1>1, <1>2

LEMMA ConcatCalls ==
  ASSUME NEW c \in Seq(Call), 0 < Len(c), Len(c) <= 2,
         NEW pre \in Seq(Call), Len(pre) <= 1
  PROVE  /\ pre \o c \in Seq(Call) /\ 0 < Len(pre \o c) /\ Len(pre \o c) <= 3
         /\ Final(pre \o c) = Final(c)
  <1>1. pre \o c \in Seq(Call) /\ Len(pre \o c) = Len(pre) + Len(c)
    BY ConcatProperties
  <1>2. (pre \o c)[Len(pre) + Len(c)] = c[Len(c)]
    <2>1. \A i \in 1..Len(pre) + Len(c) :
             (pre \o c)[i] = IF i <= Len(pre) THEN pre[i] ELSE c[i - Len(pre)]
      BY ConcatProperties
    <2>2. /\ Len(pre) + Len(c) \in 1..Len(pre) + Len(c)
          /\ ~(Len(pre) + Len(c) <= Len(pre))
          /\ Len(pre) + Len(c) - Len(pre) = Len(c)
      OBVIOUS
    <2> QED BY <2>1, <2>2
  <1> QED BY <1>1, <1>2 DEF Final

LEMMA TailCalls ==
  ASSUME NEW c \in Seq(Call), c # <<>>
  PROVE  /\ Tail(c) \in Seq(Call) /\ Len(Tail(c)) = Len(c) - 1
         /\ Len(c) > 1 => Tail(c) # <<>> /\ Final(Tail(c)) = Final(c)
         /\ Len(c) <= 1 => Tail(c) = <<>> /\ Head(c) = Final(c)
         /\ Len(c) \in Nat \ {0}
  BY DEF Final

LEMMA BatteryCalls ==
  ASSUME NEW s
  PROVE  LET c == (IF HaveTrackball THEN <<"battery">> ELSE <<>>)
                     \o handle_speaker_battery_locked(s)
         IN  /\ c \in Seq(Call) /\ 0 < Len(c) /\ Len(c) <= 3
             /\ Final(c) = IF is_lit(s) THEN "battery" ELSE "notification"
  <1> DEFINE pre == IF HaveTrackball THEN <<"battery">> ELSE <<>>
  <1>1. pre \in Seq(Call) /\ Len(pre) <= 1
    <2>1. CASE HaveTrackball
      <3>1. pre = <<"battery">> BY <2>1
      <3> HIDE DEF pre
      <3> QED BY <3>1 DEF Call
    <2>2. CASE ~HaveTrackball
      <3>1. pre = <<>> BY <2>2
      <3> HIDE DEF pre
      <3> QED BY <3>1 DEF Call
    <2> QED BY <2>1, <2>2
  <1> HIDE DEF pre
  <1>2. /\ pre \o handle_speaker_battery_locked(s) \in Seq(Call)
        /\ 0 < Len(pre \o handle_speaker_battery_locked(s))
        /\ Len(pre \o handle_speaker_battery_locked(s)) <= 3
        /\ Final(pre \o handle_speaker_battery_locked(s))
              = IF is_lit(s) THEN "battery" ELSE "notification"
    BY <1>1, HandleAlone, ConcatCalls
  <1> QED BY <1>2 DEF pre

-----------------------------------------------------------------------------
(* Type correctness. *)

LEMMA TypeInit == Init => TypeOK
  <1> SUFFICES ASSUME Init PROVE TypeOK
    OBVIOUS
  <1>1. calls \in [Device -> Seq({"battery", "notification"})]
    BY DEF Init
  <1>2. \A d \in Device : Len(calls[d]) <= 3
    BY DEF Init
  <1>3. led \in [Led -> [status : 0..2, delay : Nat \X Nat]]
    BY DEF Init, LedOff, NoDelay
  <1>4. /\ lock \in Device \cup {"none"}
        /\ pc \in [Device -> {"idle", "trackball", "off", "on", "unlock"}]
        /\ g_battery \in LightState \cup {Black}
        /\ g_notification \in LightState \cup {Black}
        /\ g_backlight \in 0..255 /\ g_attention \in Nat
        /\ preStatus \in [Led -> 0..2]
        /\ trackball \in Nat \cup {-1} /\ failed \subseteq Led
        /\ file \in [{"lcd", "keyboard", "buttons"} -> 0..255]
    BY DEF Init
  <1>5. missed \in BOOLEAN /\ restarted \in BOOLEAN
    BY DEF Init
  <1> QED BY <1>1, <1>2, <1>3, <1>4, <1>5 DEF TypeOK

\* The type of pc and calls after a set_light function has taken the lock.
LEMMA AfterType ==
  ASSUME TypeOK, NEW d \in Device, NEW c \in Seq(Call), Len(c) <= 3,
         NEW t \in BOOLEAN, After(d, c, t)
  PROVE  /\ pc' \in [Device -> {"idle", "trackball", "off", "on", "unlock"}]
         /\ calls' \in [Device -> Seq({"battery", "notification"})]
         /\ \A e \in Device : Len(calls'[e]) <= 3
  <1>1. pc' \in [Device -> {"idle", "trackball", "off", "on", "unlock"}]
    <2> DEFINE to == CASE t -> "trackball" [] ~t /\ c # <<>> -> "off"
                       [] OTHER -> "unlock"
    <2>1. to \in {"idle", "trackball", "off", "on", "unlock"}
      OBVIOUS
    <2>2. pc' = [pc EXCEPT ![d] = to]
      BY Zenon DEF After
    <2> HIDE DEF to
    <2> QED BY <2>1, <2>2 DEF TypeOK
  <1>2. calls' = [calls EXCEPT ![d] = c]
    BY DEF After
  <1> QED BY <1>1, <1>2 DEF TypeOK, Call

LEMMA WrittenType ==
  ASSUME NEW level \in Nat, NEW onMS \in Nat, NEW offMS \in Nat
  PROVE  /\ nowStatus(level, onMS, offMS) \in 0..2
         /\ \A w \in written(level, onMS, offMS) :
               /\ w \in [status : 0..2, delay : Nat \X Nat]
               /\ w.status = nowStatus(level, onMS, offMS)
               /\ w.status = 1 => w.delay \in {<<onMS, offMS>>, DefaultDelay}
  <1>1. nowStatus(level, onMS, offMS) \in 0..2
    BY DEF nowStatus
  <1>2. ASSUME NEW w \in written(level, onMS, offMS)
        PROVE  /\ w \in [status : 0..2, delay : Nat \X Nat]
               /\ w.status = nowStatus(level, onMS, offMS)
               /\ w.status = 1 => w.delay \in {<<onMS, offMS>>, DefaultDelay}
    BY <1>1, <1>2 DEF written, NoDelay, DefaultDelay
  <1> QED BY <1>1, <1>2

\* The LED after an update of the colours ls to w.
LEMMA UpdateType ==
  ASSUME TypeOK, NEW ls \in SUBSET Led,
         NEW w, \A l \in ls : w[l] \in [status : 0..2, delay : Nat \X Nat],
         Update(ls, w)
  PROVE  /\ led' \in [Led -> [status : 0..2, delay : Nat \X Nat]]
         /\ failed' \subseteq Led
         /\ \A l \in Led \ failed' :
               IF l \in ls THEN led'[l] = w[l]
                           ELSE led'[l] = led[l] /\ l \notin failed
  <1>1. PICK bad \in SUBSET (ls \cap Faulty) :
           /\ led' = [l \in Led |-> IF l \in ls \ bad THEN w[l] ELSE led[l]]
           /\ failed' = (failed \ ls) \cup bad
    BY DEF Update
  <1> QED BY <1>1 DEF TypeOK

LEMMA TypeStep ==
  TypeOK /\ (\A d \in Device : CallInv(d)) /\ [Next]_vars => TypeOK'
  <1> SUFFICES ASSUME TypeOK, \A d \in Device : CallInv(d), [Next]_vars
               PROVE  TypeOK'
    OBVIOUS
  <1> USE StatesType DEF globals, leds, tracks
  <1>1. ASSUME NEW s \in LightState, set_light_backlight(s) PROVE TypeOK'
    <2>1. rgb_to_brightness(s) \in 0..255 BY BrightnessType
    <2>2. "backlight" \in Device /\ <<>> \in Seq(Call) /\ Len(<<>>) <= 3
      BY DEF Device
    <2>3. /\ pc' \in [Device -> {"idle", "trackball", "off", "on", "unlock"}]
          /\ calls' \in [Device -> Seq({"battery", "notification"})]
          /\ \A e \in Device : Len(calls'[e]) <= 3
      BY <1>1, <2>2, AfterType, LightsAssumption
      DEF set_light_backlight, LightsAssumption
    <2> QED BY <1>1, <2>1, <2>2, <2>3 DEF set_light_backlight, Lock, TypeOK
  <1>2. ASSUME NEW s \in LightState, set_light_battery(s) PROVE TypeOK'
    <2>1. "battery" \in Device BY DEF Device
    <2>2. /\ pc' \in [Device -> {"idle", "trackball", "off", "on", "unlock"}]
          /\ calls' \in [Device -> Seq({"battery", "notification"})]
          /\ \A e \in Device : Len(calls'[e]) <= 3
      <3> DEFINE c == (IF HaveTrackball THEN <<"battery">> ELSE <<>>)
                         \o handle_speaker_battery_locked(s)
      <3>1. c \in Seq(Call) /\ Len(c) <= 3 BY BatteryCalls
      <3>2. After("battery", c, FALSE) BY <1>2 DEF set_light_battery
      <3> HIDE DEF c
      <3> QED BY <2>1, <3>1, <3>2, AfterType
    <2> QED BY <1>2, <2>1, <2>2 DEF set_light_battery, Lock, TypeOK
  <1>3. ASSUME NEW s \in LightState, set_light_notifications(s) PROVE TypeOK'
    <2>1. "notifications" \in Device BY DEF Device
    <2>2. /\ pc' \in [Device -> {"idle", "trackball", "off", "on", "unlock"}]
          /\ calls' \in [Device -> Seq({"battery", "notification"})]
          /\ \A e \in Device : Len(calls'[e]) <= 3
      <3> DEFINE c == handle_speaker_battery_locked(g_battery)
      <3>1. c \in Seq(Call) /\ Len(c) <= 2 BY HandleAlone
      <3>3. Len(c) <= 3 BY <3>1
      <3>2. After("notifications", c, HaveTrackball)
        BY <1>3 DEF set_light_notifications
      <3> HIDE DEF c
      <3> QED BY <2>1, <3>1, <3>2, <3>3, AfterType, LightsAssumption
              DEF LightsAssumption
    <2> QED BY <1>3, <2>1, <2>2 DEF set_light_notifications, Lock, TypeOK
  <1>4. ASSUME NEW s \in LightState, set_light_attention(s) PROVE TypeOK'
    <2>1. "attention" \in Device /\ <<>> \in Seq(Call) /\ Len(<<>>) <= 3
      BY DEF Device
    <2>2. /\ pc' \in [Device -> {"idle", "trackball", "off", "on", "unlock"}]
          /\ calls' \in [Device -> Seq({"battery", "notification"})]
          /\ \A e \in Device : Len(calls'[e]) <= 3
      BY <1>4, <2>1, AfterType, LightsAssumption
      DEF set_light_attention, LightsAssumption
    <2>3. g_attention' \in Nat
      BY <1>4 DEF set_light_attention, TypeOK, LightStates
    <2> QED BY <1>4, <2>1, <2>2, <2>3 DEF set_light_attention, Lock, TypeOK
  <1>5. ASSUME NEW s \in LightState, NEW d \in {"keyboard", "buttons"},
               set_light_keys(d, s)
        PROVE  TypeOK'
    <2>1. d \in Device /\ <<>> \in Seq(Call) /\ Len(<<>>) <= 3
      BY DEF Device
    <2>2. /\ pc' \in [Device -> {"idle", "trackball", "off", "on", "unlock"}]
          /\ calls' \in [Device -> Seq({"battery", "notification"})]
          /\ \A e \in Device : Len(calls'[e]) <= 3
      BY <1>5, <2>1, AfterType DEF set_light_keys
    <2>3. file' \in [{"lcd", "keyboard", "buttons"} -> 0..255]
      <3> DEFINE v == IF is_lit(s) THEN 255 ELSE 0
      <3>1. v \in 0..255 OBVIOUS
      <3>2. file' = [file EXCEPT ![d] = v] BY <1>5 DEF set_light_keys
      <3> HIDE DEF v
      <3> QED BY <3>1, <3>2 DEF TypeOK
    <2> QED BY <1>5, <2>1, <2>2, <2>3 DEF set_light_keys, Lock, TypeOK
  <1>6. ASSUME NEW d \in Device, handle_trackball_light_locked(d)
        PROVE  TypeOK'
    <2>1. mode \in Nat BY DEF mode, TypeOK
    <2>2. missed' \in BOOLEAN /\ restarted' \in BOOLEAN
      BY <1>6, Zenon DEF handle_trackball_light_locked, TypeOK, tracks
    <2> QED BY <1>6, <2>1, <2>2 DEF handle_trackball_light_locked, TypeOK
  <1>7. ASSUME NEW d \in Device, SpeakerOff(d) PROVE TypeOK'
    <2>0. /\ Update(TurnedOff, [l \in Led |-> LedOff]) /\ TurnedOff \subseteq Led
          /\ \A l \in Led : [k \in Led |-> LedOff][l]
                              \in [status : 0..2, delay : Nat \X Nat]
      BY <1>7 DEF SpeakerOff, TurnedOff, LedOff, NoDelay
    <2>1. /\ led' \in [Led -> [status : 0..2, delay : Nat \X Nat]]
          /\ failed' \subseteq Led
      BY <2>0, UpdateType
    <2>2. preStatus' \in [Led -> 0..2]
      BY <1>7 DEF SpeakerOff
    <2> QED BY <1>7, <2>1, <2>2 DEF SpeakerOff, TypeOK
  <1>8. ASSUME NEW d \in Device, SpeakerOn(d) PROVE TypeOK'
    <2> calls[d] # <<>> BY <1>8 DEF SpeakerOn, CallInv
    <2> DEFINE s == SpeakerState(d)
    <2>1. s \in LightStates BY DEF SpeakerState, TypeOK
    <2>2. OnMS(s) \in Nat /\ OffMS(s) \in Nat
      BY <2>1 DEF OnMS, OffMS, LightStates
    <2>3. PICK w \in [TurnedOn(s) -> written(1, OnMS(s), OffMS(s))] :
             Update(TurnedOn(s), w)
      BY <1>8 DEF SpeakerOn
    <2>4. preStatus' = [l \in Led |-> IF l \in TurnedOn(s)
                                      THEN nowStatus(1, OnMS(s), OffMS(s))
                                      ELSE preStatus[l]]
      BY <1>8 DEF SpeakerOn
    <2> HIDE DEF s
    <2>5. /\ led' \in [Led -> [status : 0..2, delay : Nat \X Nat]]
          /\ failed' \subseteq Led
      <3>1. TurnedOn(s) \subseteq Led BY DEF TurnedOn
      <3>2. \A l \in TurnedOn(s) : w[l] \in [status : 0..2, delay : Nat \X Nat]
        BY <2>2, WrittenType
      <3> QED BY <2>3, <3>1, <3>2, UpdateType
    <2>6. preStatus' \in [Led -> 0..2]
      BY <2>2, <2>4, WrittenType DEF TypeOK
    <2>7. /\ calls' \in [Device -> Seq({"battery", "notification"})]
          /\ \A e \in Device : Len(calls'[e]) <= 3
      <3>1. /\ Tail(calls[d]) \in Seq({"battery", "notification"})
            /\ Len(Tail(calls[d])) <= 3
        BY <1>8, TailCalls DEF TypeOK, Call
      <3> QED BY <1>8, <3>1 DEF SpeakerOn, TypeOK
    <2> QED BY <1>8, <2>5, <2>6, <2>7 DEF SpeakerOn, TypeOK
  <1>9. ASSUME NEW d \in Device, Unlock(d) PROVE TypeOK'
    BY <1>9 DEF Unlock, TypeOK
  <1>10. CASE UNCHANGED vars
    BY <1>10 DEF vars, TypeOK
  <1> QED BY <1>1, <1>2, <1>3, <1>4, <1>5, <1>6, <1>7, <1>8, <1>9, <1>10
          DEF Next, SetLight, Step

-----------------------------------------------------------------------------
(* The LED shows its owner. *)

LEMMA LedInit == Init => LedInv
  <1> SUFFICES ASSUME Init PROVE LedInv
    OBVIOUS
  <1>1. LockInv BY DEF Init, LockInv
  <1>2. CacheInv BY DEF Init, CacheInv, LedOff
  <1>3. \A d \in Device : CallInv(d) BY DEF Init, CallInv
  <1>4. OwnerShown
    <2>1. Owner = Black BY DEF Init, Owner
    <2>2. \A l \in Led : led[l].status = 0 BY DEF Init, LedOff
    <2> QED BY <2>1, <2>2 DEF OwnerShown, Shows, Wanted, Black
  <1> QED BY <1>1, <1>2, <1>3, <1>4 DEF LedInv

\* Steps that leave the LED and the two lights that compete for it alone.
LEMMA ShowsUnchanged ==
  ASSUME UNCHANGED <<led, failed, g_battery, g_notification>>
  PROVE  OwnerCall' = OwnerCall /\ (Shows(Owner)' <=> Shows(Owner))
  <1>1. Owner' = Owner /\ OwnerCall' = OwnerCall
    BY DEF Owner, OwnerCall
  <1> QED BY <1>1 DEF Shows

\* A set_light function has taken the lock.
LEMMA LockStep ==
  ASSUME TypeOK, LedInv, NEW d \in Device, NEW c \in Seq(Call),
         NEW t \in BOOLEAN, Lock(d), After(d, c, t), UNCHANGED leds,
         c # <<>> => Final(c) = OwnerCall', c = <<>> => Shows(Owner)'
  PROVE  LedInv'
  <1>1. \A e \in Device : pc[e] = "idle"
    BY DEF LedInv, LockInv, Lock, Device
  <1>2. /\ calls' = [calls EXCEPT ![d] = c]
        /\ \A e \in Device \ {d} : pc'[e] = "idle"
    BY <1>1 DEF After, TypeOK
  <1>3. \/ pc'[d] = "trackball"
        \/ pc'[d] = "off" /\ c # <<>>
        \/ pc'[d] = "unlock" /\ c = <<>>
    BY DEF After, TypeOK
  <1>4. calls'[d] = c BY <1>2 DEF TypeOK
  <1>5. lock' = d /\ d # "none" BY DEF Lock, Device
  <1>6. LockInv' BY <1>2, <1>5 DEF LockInv
  <1>7. CacheInv' BY DEF LedInv, CacheInv, leds
  <1>8. ASSUME NEW e \in Device PROVE CallInv(e)'
    <2>1. CASE e = d BY <1>3, <1>4, <2>1 DEF CallInv
    <2>2. CASE e # d BY <1>2, <2>2 DEF CallInv
    <2> QED BY <2>1, <2>2
  <1>9. OwnerShown' BY <1>5 DEF OwnerShown
  <1> QED BY <1>6, <1>7, <1>8, <1>9 DEF LedInv

\* The same for a light that has no part in the LED.
LEMMA OtherStep ==
  ASSUME TypeOK, LedInv, NEW d \in Device, NEW t \in BOOLEAN, Lock(d),
         After(d, <<>>, t), UNCHANGED <<leds, g_battery, g_notification>>
  PROVE  LedInv'
  <1>1. Shows(Owner) BY DEF Lock, LedInv, OwnerShown
  <1>2. Shows(Owner)' BY <1>1, ShowsUnchanged DEF leds
  <1>3. <<>> \in Seq(Call) OBVIOUS
  <1> QED BY <1>2, <1>3, LockStep DEF leds

\* All the colours are off, then some are turned on for state s.
LEMMA TurnOn ==
  ASSUME NEW s \in LightStates, TypeOK, CacheInv,
         \A l \in Led : preStatus[l] = 0,
         NEW w \in [TurnedOn(s) -> written(1, OnMS(s), OffMS(s))],
         Update(TurnedOn(s), w),
         preStatus' = [l \in Led |-> IF l \in TurnedOn(s)
                                     THEN nowStatus(1, OnMS(s), OffMS(s))
                                     ELSE preStatus[l]]
  PROVE  /\ CacheInv'
         /\ \A l \in Led \ failed' :
               /\ led'[l].status = Wanted(s, l)
               /\ led'[l].status = 1
                     => led'[l].delay \in {<<s.onMS, s.offMS>>, DefaultDelay}
  <1>1. OnMS(s) \in Nat /\ OffMS(s) \in Nat
    BY DEF OnMS, OffMS, LightStates
  <1>2. \A v \in written(1, OnMS(s), OffMS(s)) :
           /\ v.status = nowStatus(1, OnMS(s), OffMS(s))
           /\ v.status = 1 => v.delay \in {<<OnMS(s), OffMS(s)>>, DefaultDelay}
    BY <1>1, WrittenType
  <1>u. \A l \in Led \ failed' :
           IF l \in TurnedOn(s) THEN led'[l] = w[l]
                                ELSE led'[l] = led[l] /\ l \notin failed
    <2>1. TurnedOn(s) \subseteq Led BY DEF TurnedOn
    <2>2. \A l \in TurnedOn(s) : w[l] \in [status : 0..2, delay : Nat \X Nat]
      BY <1>1, WrittenType
    <2> QED BY <2>1, <2>2, UpdateType
  <1>3. CacheInv'
    BY <1>2, <1>u DEF CacheInv
  <1>4. ASSUME NEW l \in Led \ failed'
        PROVE  /\ led'[l].status = Wanted(s, l)
               /\ led'[l].status = 1
                     => led'[l].delay \in {<<s.onMS, s.offMS>>, DefaultDelay}
    <2> s.alpha \in Nat /\ s.rgb[l] \in Nat BY DEF LightStates
    <2>1. CASE s.alpha # 0 /\ s.rgb[l] > 0
      <3>1. l \in TurnedOn(s)
        BY <2>1, <1>1 DEF TurnedOn, blinks, nowStatus
      <3>2. led'[l] \in written(1, OnMS(s), OffMS(s)) BY <1>u, <3>1
      <3>3. nowStatus(1, OnMS(s), OffMS(s)) = Wanted(s, l)
        BY <2>1, <1>1 DEF nowStatus, Wanted, OnMS, OffMS
      <3>4. Wanted(s, l) = 1 => OnMS(s) = s.onMS /\ OffMS(s) = s.offMS
        BY DEF Wanted, OnMS, OffMS
      <3> QED BY <1>2, <3>2, <3>3, <3>4
    <2>2. CASE s.alpha = 0 \/ s.rgb[l] = 0
      <3>1. l \notin TurnedOn(s) BY <2>2 DEF TurnedOn
      <3>2. led'[l] = led[l] /\ led[l].status = 0
        BY <1>u, <3>1 DEF CacheInv
      <3> QED BY <2>2, <3>2 DEF Wanted
    <2> QED BY <2>1, <2>2
  <1> QED BY <1>3, <1>4

\* Every step keeps the lock, the cache, the pending calls and the LED
\* consistent.
LEMMA LedStep == TypeOK /\ LedInv /\ [Next]_vars => LedInv'
  <1> SUFFICES ASSUME TypeOK, LedInv, [Next]_vars PROVE LedInv'
    OBVIOUS
  <1> HaveTrackball \in BOOLEAN
    BY LightsAssumption DEF LightsAssumption
  <1>1. ASSUME NEW s \in LightState, set_light_backlight(s) PROVE LedInv'
    <2>1. "backlight" \in Device BY DEF Device
    <2> QED BY <1>1, <2>1, OtherStep DEF set_light_backlight
  <1>2. ASSUME NEW s \in LightState, set_light_battery(s) PROVE LedInv'
    <2>1. "battery" \in Device BY DEF Device
    <2> DEFINE c == (IF HaveTrackball THEN <<"battery">> ELSE <<>>)
                       \o handle_speaker_battery_locked(s)
    <2>2. c \in Seq(Call) /\ 0 < Len(c) BY BatteryCalls
    <2>3. Final(c) = OwnerCall'
      <3>1. g_battery' = s BY <1>2 DEF set_light_battery
      <3>2. OwnerCall' = IF is_lit(s) THEN "battery" ELSE "notification"
        BY <3>1 DEF OwnerCall
      <3>3. Final(c) = IF is_lit(s) THEN "battery" ELSE "notification"
        BY BatteryCalls
      <3> QED BY <3>2, <3>3
    <2>4. Lock("battery") /\ After("battery", c, FALSE) /\ UNCHANGED leds
      BY <1>2 DEF set_light_battery
    <2> HIDE DEF c
    <2>5. c # <<>> BY <2>2
    <2> QED BY <2>1, <2>2, <2>3, <2>4, <2>5, LockStep
  <1>3. ASSUME NEW s \in LightState, set_light_notifications(s) PROVE LedInv'
    <2>1. "notifications" \in Device BY DEF Device
    <2> DEFINE c == handle_speaker_battery_locked(g_battery)
    <2>2. c \in Seq(Call) /\ 0 < Len(c) BY HandleAlone
    <2>3. Final(c) = OwnerCall'
      <3>1. g_battery' = g_battery BY <1>3 DEF set_light_notifications
      <3>2. OwnerCall' = OwnerCall BY <3>1 DEF OwnerCall
      <3>3. Final(c) = OwnerCall BY HandleAlone DEF OwnerCall
      <3> QED BY <3>2, <3>3
    <2>4. /\ Lock("notifications") /\ After("notifications", c, HaveTrackball)
          /\ UNCHANGED leds
      BY <1>3 DEF set_light_notifications
    <2> HIDE DEF c
    <2>5. c # <<>> BY <2>2
    <2> QED BY <2>1, <2>2, <2>3, <2>4, <2>5, LockStep
  <1>4. ASSUME NEW s \in LightState, set_light_attention(s) PROVE LedInv'
    <2>1. "attention" \in Device BY DEF Device
    <2> QED BY <1>4, <2>1, OtherStep DEF set_light_attention
  <1>5. ASSUME NEW s \in LightState, NEW d \in {"keyboard", "buttons"},
               set_light_keys(d, s)
        PROVE  LedInv'
    <2>1. d \in Device BY DEF Device
    <2> QED BY <1>5, <2>1, OtherStep DEF set_light_keys, globals
  <1>6. ASSUME NEW d \in Device, handle_trackball_light_locked(d)
        PROVE  LedInv'
    <2>1. /\ UNCHANGED <<lock, calls, globals, leds>> /\ pc[d] = "trackball"
          /\ pc' = [pc EXCEPT ![d] = IF calls[d] = <<>> THEN "unlock"
                                                       ELSE "off"]
      BY <1>6 DEF handle_trackball_light_locked
    <2>2. lock = d /\ d # "none" /\ \A e \in Device \ {d} : pc[e] = "idle"
      BY <2>1 DEF LedInv, LockInv, Device
    <2>3. OwnerCall' = OwnerCall /\ (Shows(Owner)' <=> Shows(Owner))
      BY <2>1, ShowsUnchanged DEF globals, leds
    <2>4. LockInv' BY <2>1, <2>2 DEF LockInv, TypeOK
    <2>5. CacheInv' BY <2>1 DEF LedInv, CacheInv, leds
    <2>6. ASSUME NEW e \in Device PROVE CallInv(e)'
      <3>1. CASE e = d
        <4>1. CallInv(d) BY DEF LedInv
        <4>2. calls'[d] = calls[d] /\ \/ pc'[d] = "unlock" /\ calls[d] = <<>>
                                      \/ pc'[d] = "off" /\ calls[d] # <<>>
          BY <2>1 DEF TypeOK
        <4> QED BY <2>1, <2>3, <3>1, <4>1, <4>2 DEF CallInv
      <3>2. CASE e # d BY <2>1, <2>2, <3>2 DEF CallInv, TypeOK
      <3> QED BY <3>1, <3>2
    <2>7. OwnerShown' BY <2>1, <2>2 DEF OwnerShown
    <2> QED BY <2>4, <2>5, <2>6, <2>7 DEF LedInv
  <1>7. ASSUME NEW d \in Device, SpeakerOff(d) PROVE LedInv'
    <2>1. /\ UNCHANGED <<lock, calls, globals>> /\ pc[d] = "off"
          /\ pc' = [pc EXCEPT ![d] = "on"]
          /\ preStatus' = [l \in Led |-> 0]
          /\ Update(TurnedOff, [l \in Led |-> LedOff])
      BY <1>7 DEF SpeakerOff
    <2>2. lock = d /\ d # "none" /\ \A e \in Device \ {d} : pc[e] = "idle"
      BY <2>1 DEF LedInv, LockInv, Device
    <2>3. OwnerCall' = OwnerCall BY <2>1 DEF OwnerCall, globals
    <2>4. LockInv' BY <2>1, <2>2 DEF LockInv, TypeOK
    <2>5. CacheInv'
      <3>1. /\ TurnedOff \subseteq Led
            /\ \A l \in Led : [k \in Led |-> LedOff][l]
                                \in [status : 0..2, delay : Nat \X Nat]
        BY DEF TurnedOff, LedOff, NoDelay
      <3>2. \A l \in Led \ failed' :
               IF l \in TurnedOff THEN led'[l] = [k \in Led |-> LedOff][l]
                                  ELSE led'[l] = led[l] /\ l \notin failed
        BY <2>1, <3>1, UpdateType
      <3> QED BY <2>1, <3>2
              DEF LedInv, CacheInv, TurnedOff, blinks, nowStatus, LedOff
    <2>6. ASSUME NEW e \in Device PROVE CallInv(e)'
      <3>1. CASE e = d
        <4>1. CallInv(d) BY DEF LedInv
        <4>2. calls'[d] = calls[d] /\ pc'[d] = "on" BY <2>1 DEF TypeOK
        <4>3. \A l \in Led : preStatus'[l] = 0 BY <2>1
        <4> QED BY <2>1, <2>3, <3>1, <4>1, <4>2, <4>3 DEF CallInv
      <3>2. CASE e # d BY <2>1, <2>2, <3>2 DEF CallInv, TypeOK
      <3> QED BY <3>1, <3>2
    <2>7. OwnerShown' BY <2>1, <2>2 DEF OwnerShown
    <2> QED BY <2>4, <2>5, <2>6, <2>7 DEF LedInv
  <1>8. ASSUME NEW d \in Device, SpeakerOn(d) PROVE LedInv'
    <2> DEFINE s == SpeakerState(d)
    <2>1. /\ UNCHANGED <<lock, globals>> /\ pc[d] = "on"
          /\ pc' = [pc EXCEPT ![d] = IF Len(calls[d]) > 1 THEN "off"
                                                         ELSE "unlock"]
          /\ calls' = [calls EXCEPT ![d] = Tail(calls[d])]
          /\ preStatus' = [l \in Led |-> IF l \in TurnedOn(s)
                                         THEN nowStatus(1, OnMS(s), OffMS(s))
                                         ELSE preStatus[l]]
      BY <1>8 DEF SpeakerOn
    <2>2. PICK w \in [TurnedOn(s) -> written(1, OnMS(s), OffMS(s))] :
             Update(TurnedOn(s), w)
      BY <1>8 DEF SpeakerOn
    <2>3. s \in LightStates BY StatesType DEF SpeakerState, TypeOK
    <2>4. CallInv(d) /\ CacheInv BY DEF LedInv
    <2>5. \A l \in Led : preStatus[l] = 0 BY <2>1, <2>4 DEF CallInv
    <2>s. Head(calls[d]) = OwnerCall => s = Owner
      BY DEF OwnerCall, Owner, SpeakerState
    <2> HIDE DEF s
    <2>6. /\ CacheInv'
          /\ \A l \in Led \ failed' :
                /\ led'[l].status = Wanted(s, l)
                /\ led'[l].status = 1
                      => led'[l].delay \in {<<s.onMS, s.offMS>>, DefaultDelay}
      BY <2>1, <2>2, <2>3, <2>4, <2>5, TurnOn
    <2>7. lock = d /\ d # "none" /\ \A e \in Device \ {d} : pc[e] = "idle"
      BY <2>1 DEF LedInv, LockInv, Device
    <2>8. OwnerCall' = OwnerCall /\ Owner' = Owner
      BY <2>1 DEF OwnerCall, Owner, globals
    <2>9. LockInv' BY <2>1, <2>7 DEF LockInv, TypeOK
    <2>10. ASSUME NEW e \in Device PROVE CallInv(e)'
      <3>1. CASE e = d
        <4> DEFINE c == calls[d]
        <4>1. c \in Seq(Call) BY DEF TypeOK, Call
        <4>2. c # <<>> /\ Final(c) = OwnerCall BY <2>1, <2>4 DEF CallInv
        <4>3. calls'[d] = Tail(c) BY <2>1 DEF TypeOK
        <4>4. CASE Len(c) > 1
          <5>1. pc'[d] = "off" BY <2>1, <4>4 DEF TypeOK
          <5>2. Tail(c) # <<>> /\ Final(Tail(c)) = Final(c)
            BY <4>1, <4>2, <4>4, TailCalls
          <5> HIDE DEF c
          <5> QED BY <2>8, <3>1, <4>2, <4>3, <5>1, <5>2 DEF CallInv
        <4>5. CASE ~(Len(c) > 1)
          <5>1. pc'[d] = "unlock" BY <2>1, <4>5 DEF TypeOK
          <5>2. Head(c) = Final(c) BY <4>1, <4>2, <4>5, TailCalls
          <5>3. s = Owner BY <2>s, <4>2, <5>2
          <5>4. Shows(Owner)' BY <2>6, <2>8, <5>3 DEF Shows, Wanted
          <5> QED BY <3>1, <5>1, <5>4 DEF CallInv
        <4> QED BY <4>4, <4>5
      <3>2. CASE e # d BY <2>1, <2>7, <3>2 DEF CallInv, TypeOK
      <3> QED BY <3>1, <3>2
    <2>11. OwnerShown' BY <2>1, <2>7 DEF OwnerShown
    <2> QED BY <2>6, <2>9, <2>10, <2>11 DEF LedInv
  <1>9. ASSUME NEW d \in Device, Unlock(d) PROVE LedInv'
    <2>1. /\ UNCHANGED <<calls, globals, leds>> /\ pc[d] = "unlock"
          /\ pc' = [pc EXCEPT ![d] = "idle"]
      BY <1>9 DEF Unlock
    <2>2. \A e \in Device : pc'[e] = "idle"
      BY <2>1 DEF LedInv, LockInv, TypeOK
    <2>3. Shows(Owner) BY <2>1 DEF LedInv, CallInv
    <2>4. Shows(Owner)' BY <2>1, <2>3, ShowsUnchanged DEF globals, leds
    <2>5. CacheInv' BY <2>1 DEF LedInv, CacheInv, leds
    <2>6. \A e \in Device : CallInv(e)' BY <2>2 DEF CallInv
    <2>7. LockInv' BY <2>2 DEF LockInv
    <2> QED BY <2>4, <2>5, <2>6, <2>7 DEF LedInv, OwnerShown
  <1>10. CASE UNCHANGED vars
    <2>1. UNCHANGED <<lock, pc, calls, g_battery, g_notification, led,
                      failed, preStatus>>
      BY <1>10 DEF vars, globals, leds
    <2>2. OwnerCall' = OwnerCall /\ (Shows(Owner)' <=> Shows(Owner))
      BY <2>1, ShowsUnchanged
    <2> QED BY <2>1, <2>2
            DEF LedInv, LockInv, CacheInv, CallInv, OwnerShown
  <1> QED BY <1>1, <1>2, <1>3, <1>4, <1>5, <1>6, <1>7, <1>8, <1>9, <1>10
          DEF Next, SetLight, Step

-----------------------------------------------------------------------------
(* The trackball light. *)

\* A stale trackball light is about to be handled by the holder of the lock.
TrackInv ==
    (\A d \in Device : pc[d] # "trackball") /\ trackball # -1 /\ ~missed
        => trackball = mode

\* The light is never written where there is none.
LightInv ==
    ~HaveTrackball
        => trackball = -1 /\ \A d \in Device : pc[d] # "trackball"

\* A set_light function that changes what mode depends on goes on to the
\* trackball light, when there is one.
LEMMA TrackLock ==
  ASSUME TypeOK, NEW d \in Device, NEW c, NEW t \in BOOLEAN, Lock(d),
         After(d, c, t), UNCHANGED <<trackball, missed>>,
         \/ t = HaveTrackball
         \/ t = FALSE /\ UNCHANGED <<g_attention, g_backlight>>,
         LockInv, TrackInv, LightInv
  PROVE  TrackInv' /\ LightInv'
  <1>1. \A e \in Device : pc[e] = "idle"
    BY DEF LockInv, Lock, Device
  <1>2. /\ \A e \in Device \ {d} : pc'[e] = "idle"
        /\ t => pc'[d] = "trackball"
        /\ ~t => pc'[d] # "trackball"
    BY <1>1 DEF After, TypeOK
  <1>3. HaveTrackball \in BOOLEAN BY LightsAssumption DEF LightsAssumption
  <1>4. LightInv' BY <1>2, <1>3 DEF LightInv
  <1>5. TrackInv'
    <2>1. CASE t BY <1>2, <2>1 DEF TrackInv
    <2>2. CASE ~HaveTrackball BY <2>2 DEF LightInv, TrackInv
    <2>3. CASE UNCHANGED <<g_attention, g_backlight>>
      <3>1. mode' = mode BY <2>3 DEF mode
      <3>2. trackball # -1 /\ ~missed => trackball = mode BY <1>1 DEF TrackInv
      <3> QED BY <3>1, <3>2 DEF TrackInv
    <2> QED BY <1>3, <2>1, <2>2, <2>3
  <1> QED BY <1>4, <1>5

LEMMA TrackStep ==
  TypeOK /\ LockInv /\ TrackInv /\ LightInv /\ [Next]_vars
      => TrackInv' /\ LightInv'
  <1> SUFFICES ASSUME TypeOK, LockInv, TrackInv, LightInv, [Next]_vars
               PROVE  TrackInv' /\ LightInv'
    OBVIOUS
  <1> HaveTrackball \in BOOLEAN
    BY LightsAssumption DEF LightsAssumption
  <1> /\ \A d \in {"backlight", "battery", "notifications", "attention",
                   "keyboard", "buttons"} : d \in Device
    BY DEF Device
  <1>1. ASSUME NEW s \in LightState, set_light_backlight(s)
        PROVE  TrackInv' /\ LightInv'
    BY <1>1, TrackLock DEF set_light_backlight, tracks
  <1>2. ASSUME NEW s \in LightState, set_light_battery(s)
        PROVE  TrackInv' /\ LightInv'
    BY <1>2, TrackLock DEF set_light_battery, tracks
  <1>3. ASSUME NEW s \in LightState, set_light_notifications(s)
        PROVE  TrackInv' /\ LightInv'
    BY <1>3, TrackLock DEF set_light_notifications, tracks
  <1>4. ASSUME NEW s \in LightState, set_light_attention(s)
        PROVE  TrackInv' /\ LightInv'
    BY <1>4, TrackLock DEF set_light_attention, tracks
  <1>5. ASSUME NEW s \in LightState, NEW d \in {"keyboard", "buttons"},
               set_light_keys(d, s)
        PROVE  TrackInv' /\ LightInv'
    BY <1>5, TrackLock DEF set_light_keys, tracks, globals
  <1>6. ASSUME NEW d \in Device, handle_trackball_light_locked(d)
        PROVE  TrackInv' /\ LightInv'
    <2>1. pc[d] = "trackball" /\ UNCHANGED globals
      BY <1>6 DEF handle_trackball_light_locked
    <2>2. HaveTrackball BY <2>1 DEF LightInv
    <2>3. mode' = mode /\ mode \in Nat
      BY <2>1 DEF mode, globals, TypeOK
    <2>4. trackball' = mode \/ missed'
      BY <1>6, <2>3 DEF handle_trackball_light_locked, g_trackball
    <2> QED BY <2>2, <2>3, <2>4 DEF TrackInv, LightInv
  <1>7. ASSUME NEW d \in Device, SpeakerOff(d) \/ SpeakerOn(d) \/ Unlock(d)
        PROVE  TrackInv' /\ LightInv'
    <2>1. /\ UNCHANGED <<trackball, missed, g_attention, g_backlight>>
          /\ pc[d] # "trackball" /\ pc'[d] # "trackball"
          /\ \A e \in Device \ {d} : pc'[e] = pc[e]
      BY <1>7 DEF SpeakerOff, SpeakerOn, Unlock, globals, tracks, TypeOK
    <2>2. mode' = mode BY <2>1 DEF mode
    <2> QED BY <2>1, <2>2 DEF TrackInv, LightInv
  <1>8. CASE UNCHANGED vars
    BY <1>8 DEF vars, globals, tracks, TrackInv, LightInv, mode
  <1> QED BY <1>1, <1>2, <1>3, <1>4, <1>5, <1>6, <1>7, <1>8
          DEF Next, SetLight, Step

-----------------------------------------------------------------------------
(* The theorems. *)

IInv == TypeOK /\ LedInv /\ TrackInv /\ LightInv

LEMMA Inductive == Spec => []IInv
  <1>1. Init => IInv
    <2>1. Init => TrackInv /\ LightInv BY DEF Init, TrackInv, LightInv
    <2> QED BY <2>1, TypeInit, LedInit DEF IInv
  <1>2. IInv /\ [Next]_vars => IInv'
    BY TypeStep, LedStep, TrackStep DEF IInv, LedInv
  <1> QED BY <1>1, <1>2, PTL DEF Spec

\* The variables keep their types: in particular rgb_to_brightness gives a
\* byte and no set_light function has more than three calls to make.
THEOREM LightsTypeCorrect == Spec => []TypeOK
  <1>1. IInv => TypeOK BY DEF IInv
  <1> QED BY <1>1, Inductive, PTL

\* When g_lock is free the LED shows the battery light if it is lit and the
\* notification otherwise, whatever states the framework passes and in
\* whatever order set_light_battery and set_light_notifications are called.
THEOREM OwnerShownTheorem == Spec => []OwnerShown
  <1>1. IInv => OwnerShown BY DEF IInv, LedInv
  <1> QED BY <1>1, Inductive, PTL

\* When g_lock is free the trackball light shows what attention and backlight
\* ask for, whichever of the two was set last, unless its last write failed.
THEOREM TrackballTheorem == Spec => []TrackballFollows
  <1>1. IInv => TrackballFollows
    <2> SUFFICES ASSUME IInv, lock = "none", trackball # -1, ~missed
                 PROVE  trackball = mode
      BY DEF TrackballFollows
    <2>1. \A d \in Device : pc[d] = "idle"
      BY DEF IInv, LedInv, LockInv, Device
    <2> QED BY <2>1 DEF IInv, TrackInv
  <1> QED BY <1>1, Inductive, PTL
=============================================================================
