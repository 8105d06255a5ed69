------------------------------- MODULE Lights -------------------------------
(***************************************************************************)
(* The lights HAL of src/liblights/lights.c.  Each light of the framework  *)
(* has its own device and is set by its own thread; the devices share the  *)
(* three colours of one notification LED, which battery and notifications  *)
(* compete for, and the trackball light, which depends on attention and    *)
(* backlight.  g_lock orders them.  A step is one write to the LED class   *)
(* files or one update of the globals; the kernel behind the files is      *)
(* external.                                                               *)
(***************************************************************************)
EXTENDS Integers, Sequences

CONSTANTS
    LightState,      \* the light_state_t values the framework passes
    HaveTrackball,   \* g_haveTrackballLight
    Faulty           \* the colours and lights whose files may fail

Device == {"backlight", "keyboard", "buttons", "battery", "notifications",
           "attention"}
Led    == {"red", "green", "blue"}

\* color and flash parameters of a light_state_t.
LightStates == [alpha : 0..255, rgb : [Led -> 0..255],
                flash : {"NONE", "TIMED", "HARDWARE"}, onMS : Nat, offMS : Nat]

ASSUME LightsAssumption ==
    /\ LightState \subseteq LightStates /\ HaveTrackball \in BOOLEAN
    /\ Faulty \subseteq Led \cup {"trackball"}

VARIABLES
    lock,            \* who holds g_lock, or "none"
    pc,              \* where the thread of each device is
    calls,           \* set_speaker_light_locked calls it has still to make
    g_battery, g_notification, g_backlight, g_attention,
    preStatus,       \* the static preStatus of blink_red, _green and _blue
    led,             \* what each colour of the LED shows (external)
    failed,          \* colours whose last update failed (history)
    trackball,       \* what the trackball light shows, -1 at first
    missed,          \* the last write to the trackball light failed (history)
    restarted,       \* the last write restarted an unchanged mode (history)
    file             \* brightness of LCD, keyboard and buttons

globals == <<g_battery, g_notification, g_backlight, g_attention>>
leds    == <<preStatus, led, failed>>
tracks  == <<trackball, missed, restarted>>
vars    == <<lock, pc, calls, globals, leds, tracks, file>>

-----------------------------------------------------------------------------

Black == [alpha |-> 0, rgb |-> [l \in Led |-> 0], flash |-> "NONE",
          onMS |-> 0, offMS |-> 0]

\* Delays of a LED that does not blink, and those the kernel starts with.
NoDelay      == <<0, 0>>
DefaultDelay == <<500, 500>>
LedOff       == [status |-> 0, delay |-> NoDelay]

TypeOK ==
    /\ lock \in Device \cup {"none"}
    /\ pc \in [Device -> {"idle", "trackball", "off", "on", "unlock"}]
    /\ calls \in [Device -> Seq({"battery", "notification"})]
    /\ \A d \in Device : Len(calls[d]) <= 3
    /\ g_battery \in LightState \cup {Black}
    /\ g_notification \in LightState \cup {Black}
    /\ g_backlight \in 0..255 /\ g_attention \in Nat
    /\ preStatus \in [Led -> 0..2]
    /\ led \in [Led -> [status : 0..2, delay : Nat \X Nat]]
    /\ failed \subseteq Led
    /\ trackball \in Nat \cup {-1}
    /\ missed \in BOOLEAN /\ restarted \in BOOLEAN
    /\ file \in [{"lcd", "keyboard", "buttons"} -> 0..255]

Init ==
    /\ lock = "none" /\ pc = [d \in Device |-> "idle"]
    /\ calls = [d \in Device |-> <<>>]
    /\ g_battery = Black /\ g_notification = Black
    /\ g_backlight = 255 /\ g_attention = 0
    /\ preStatus = [l \in Led |-> 0]
    /\ led = [l \in Led |-> LedOff] /\ failed = {}
    /\ trackball = -1 /\ missed = FALSE /\ restarted = FALSE
    /\ file = [f \in {"lcd", "keyboard", "buttons"} |-> 0]

-----------------------------------------------------------------------------
(* Helpers. *)

is_lit(s) == \E l \in Led : s.rgb[l] > 0

\* Mutation: the weighted sum is not scaled back to a byte.
rgb_to_brightness_unscaled(s) ==
    77 * s.rgb["red"] + 150 * s.rgb["green"] + 29 * s.rgb["blue"]

rgb_to_brightness(s) ==
    (77 * s.rgb["red"] + 150 * s.rgb["green"] + 29 * s.rgb["blue"]) \div 256

\* g_trackball is never assigned after its initialisation.
g_trackball == -1

mode == IF g_attention = 7 /\ g_backlight # 0 THEN 0 ELSE g_attention

\* blink_red, blink_green, blink_blue: 0 is off, 1 blinking, 2 steady.
nowStatus(level, onMS, offMS) ==
    CASE level = 0 -> 0
      [] level > 0 /\ onMS # 0 /\ offMS # 0 -> 1
      [] OTHER -> 2

\* Is there something to write?
blinks(l, level, onMS, offMS) == preStatus[l] # nowStatus(level, onMS, offMS)

\* What the writes make of a colour.  The kernel creates the delay files
\* after the trigger has been set; when they do not appear within ten tries
\* the default delays stay.
written(level, onMS, offMS) ==
    LET n == nowStatus(level, onMS, offMS)
    IN  {[status |-> n, delay |-> d] :
            d \in IF n = 1 THEN {<<onMS, offMS>>, DefaultDelay} ELSE {NoDelay}}

-----------------------------------------------------------------------------
(* set_light_*: take the lock, update the global, then the lights. *)

After(d, next_calls, has_trackball) ==
    /\ calls' = [calls EXCEPT ![d] = next_calls]
    /\ pc' = [pc EXCEPT ![d] = CASE has_trackball -> "trackball"
                                 [] ~has_trackball /\ next_calls # <<>> -> "off"
                                 [] OTHER -> "unlock"]

\* Mutation: the thread does not wait for g_lock.
LockNoWait(d) == pc[d] = "idle" /\ lock' = d

Lock(d) == pc[d] = "idle" /\ lock = "none" /\ lock' = d

\* handle_speaker_battery_locked: a lit battery light wins; an unlit one is
\* shown, too, before the notification.
handle_speaker_battery_locked(battery) ==
    IF is_lit(battery) THEN <<"battery">> ELSE <<"battery", "notification">>

set_light_backlight(s) ==
    /\ Lock("backlight")
    /\ g_backlight' = rgb_to_brightness(s)
    /\ file' = [file EXCEPT !["lcd"] = rgb_to_brightness(s)]
    /\ After("backlight", <<>>, HaveTrackball)
    /\ UNCHANGED <<g_battery, g_notification, g_attention, leds, tracks>>

\* set_light_keyboard and set_light_buttons (g_buttons is never read).
set_light_keys(d, s) ==
    /\ Lock(d)
    /\ file' = [file EXCEPT ![d] = IF is_lit(s) THEN 255 ELSE 0]
    /\ After(d, <<>>, FALSE)
    /\ UNCHANGED <<globals, leds, tracks>>

set_light_battery(s) ==
    /\ Lock("battery")
    /\ g_battery' = s
    /\ After("battery", (IF HaveTrackball THEN <<"battery">> ELSE <<>>)
                            \o handle_speaker_battery_locked(s), FALSE)
    /\ UNCHANGED <<g_notification, g_backlight, g_attention, leds, tracks, file>>

set_light_notifications(s) ==
    /\ Lock("notifications")
    /\ g_notification' = s
    /\ After("notifications", handle_speaker_battery_locked(g_battery),
             HaveTrackball)
    /\ UNCHANGED <<g_battery, g_backlight, g_attention, leds, tracks, file>>

set_light_attention(s) ==
    /\ Lock("attention")
    /\ g_attention' = CASE s.flash = "HARDWARE" -> s.onMS
                        [] s.flash = "NONE" -> 0
                        [] OTHER -> g_attention
    /\ After("attention", <<>>, HaveTrackball)
    /\ UNCHANGED <<g_battery, g_notification, g_backlight, leds, tracks, file>>

\* Mutation: the trackball light does not look at the backlight.
handle_trackball_light_attention(d) ==
    /\ pc[d] = "trackball"
    /\ trackball' = g_attention /\ missed' = FALSE
    /\ restarted' = (trackball = g_attention)
    /\ pc' = [pc EXCEPT ![d] = IF calls[d] = <<>> THEN "unlock" ELSE "off"]
    /\ UNCHANGED <<lock, calls, globals, leds, file>>

handle_trackball_light_locked(d) ==
    /\ pc[d] = "trackball"
    /\ \/ g_trackball = mode /\ UNCHANGED tracks
       \/ /\ g_trackball # mode
          /\ trackball' = mode /\ missed' = FALSE
          /\ restarted' = (trackball = mode)
       \/ /\ g_trackball # mode /\ "trackball" \in Faulty
          /\ missed' = TRUE /\ restarted' = FALSE /\ UNCHANGED trackball
    /\ pc' = [pc EXCEPT ![d] = IF calls[d] = <<>> THEN "unlock" ELSE "off"]
    /\ UNCHANGED <<lock, calls, globals, leds, file>>

\* The writes to a colour may fail; blink_* ignores their results and the
\* colour stays as it was.
Update(ls, w) ==
    \E bad \in SUBSET (ls \cap Faulty) :
        /\ led' = [l \in Led |-> IF l \in ls \ bad THEN w[l] ELSE led[l]]
        /\ failed' = (failed \ ls) \cup bad

\* set_speaker_light_locked turns all three colours off ...
TurnedOff == {l \in Led : blinks(l, 0, 0, 0)}

SpeakerOff(d) ==
    /\ pc[d] = "off"
    /\ Update(TurnedOff, [l \in Led |-> LedOff])
    /\ preStatus' = [l \in Led |-> 0]
    /\ pc' = [pc EXCEPT ![d] = "on"]
    /\ UNCHANGED <<lock, calls, globals, tracks, file>>

\* ... and then those of the colour on.  No alpha turns the LED off.
SpeakerState(d) == IF Head(calls[d]) = "battery" THEN g_battery
                                                 ELSE g_notification
OnMS(s)  == IF s.flash = "TIMED" THEN s.onMS ELSE 0
OffMS(s) == IF s.flash = "TIMED" THEN s.offMS ELSE 0

TurnedOn(s) == {l \in Led : /\ s.alpha # 0 /\ s.rgb[l] > 0
                            /\ blinks(l, s.rgb[l], OnMS(s), OffMS(s))}

SpeakerOn(d) ==
    /\ pc[d] = "on"
    /\ LET s == SpeakerState(d)
       IN  /\ \E w \in [TurnedOn(s) -> written(1, OnMS(s), OffMS(s))] :
                 Update(TurnedOn(s), w)
           /\ preStatus' = [l \in Led |-> IF l \in TurnedOn(s)
                                          THEN nowStatus(1, OnMS(s), OffMS(s))
                                          ELSE preStatus[l]]
    /\ calls' = [calls EXCEPT ![d] = Tail(calls[d])]
    /\ pc' = [pc EXCEPT ![d] = IF Len(calls[d]) > 1 THEN "off" ELSE "unlock"]
    /\ UNCHANGED <<lock, globals, tracks, file>>

Unlock(d) ==
    /\ pc[d] = "unlock" /\ pc' = [pc EXCEPT ![d] = "idle"]
    /\ lock' = "none"
    /\ UNCHANGED <<calls, globals, leds, tracks, file>>

-----------------------------------------------------------------------------

SetLight == \E s \in LightState :
    \/ set_light_backlight(s) \/ set_light_battery(s)
    \/ set_light_notifications(s) \/ set_light_attention(s)
    \/ \E d \in {"keyboard", "buttons"} : set_light_keys(d, s)

Step(d) == \/ handle_trackball_light_locked(d)
           \/ SpeakerOff(d) \/ SpeakerOn(d) \/ Unlock(d)

Next == SetLight \/ \E d \in Device : Step(d)

Spec == Init /\ [][Next]_vars

-----------------------------------------------------------------------------
(* Properties. *)

\* What a state asks of one colour.
Wanted(s, l) ==
    IF s.alpha = 0 \/ s.rgb[l] = 0 THEN 0
    ELSE IF s.flash = "TIMED" /\ s.onMS # 0 /\ s.offMS # 0 THEN 1 ELSE 2

Shows(s) == \A l \in Led \ failed :
    /\ led[l].status = Wanted(s, l)
    /\ led[l].status = 1 => led[l].delay \in {<<s.onMS, s.offMS>>, DefaultDelay}

Owner == IF is_lit(g_battery) THEN g_battery ELSE g_notification

\* Whenever nobody holds g_lock the LED shows the battery light if it is lit
\* and the notification otherwise, with the delays of that state, in spite of
\* the preStatus cache that skips writes and of calls in any order.  A failed
\* write, which blink_* does not notice, costs its own colour only, and only
\* until that colour is next written.
OwnerShown == lock = "none" => Shows(Owner)

\* The trackball light follows attention, but does not breathe (mode 7)
\* while the backlight is on, whichever of the two was set last; after a
\* write that failed only until the next one (handle_trackball_light_locked).
TrackballFollows ==
    lock = "none" /\ trackball # -1 /\ ~missed => trackball = mode

\* "If the value isn't changing, don't set it, because this can reset the
\* timer on the breathing mode, which looks bad."
NotRestarted == ~restarted
=============================================================================
