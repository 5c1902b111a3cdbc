------------------------------ MODULE MCEngine ------------------------------
(* Small instances of the game loop.                                       *)
EXTENDS Engine

CONSTANTS a, b, c

EveryPulse == <<1>>

\* An entry that never runs, and two that fall due together every six pulses.
EveryZeroTwoThree == <<0, 2, 3>>
=============================================================================
