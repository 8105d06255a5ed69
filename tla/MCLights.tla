------------------------------ MODULE MCLights ------------------------------
(* Model checking Lights: the states the framework passes. *)
EXTENDS Lights

Rgb(r, g, b) == [l \in Led |-> CASE l = "red" -> r [] l = "green" -> g
                                 [] OTHER -> b]

\* Off, steady, blinking twice with different delays, a colour without alpha
\* that is a mode of the trackball, a timed state that does not blink, with a
\* blue too faint for the backlight, and the breathing mode.
States ==
    {Black,
     [alpha |-> 255, rgb |-> Rgb(255, 0, 255), flash |-> "NONE", onMS |-> 0,
      offMS |-> 0],
     [alpha |-> 255, rgb |-> Rgb(255, 255, 0), flash |-> "TIMED", onMS |-> 1,
      offMS |-> 2],
     [alpha |-> 255, rgb |-> Rgb(0, 255, 8), flash |-> "TIMED", onMS |-> 2,
      offMS |-> 1],
     [alpha |-> 0, rgb |-> Rgb(255, 255, 255), flash |-> "HARDWARE", onMS |-> 3,
      offMS |-> 0],
     [alpha |-> 255, rgb |-> Rgb(0, 0, 8), flash |-> "TIMED", onMS |-> 1,
      offMS |-> 0],
     [alpha |-> 0, rgb |-> Rgb(0, 0, 0), flash |-> "HARDWARE", onMS |-> 7,
      offMS |-> 0]}
=============================================================================
