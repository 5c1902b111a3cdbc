----------------------------- MODULE PlayerStay -----------------------------
(***************************************************************************)
(* What a player is promised, whatever the connections do: one stay in the *)
(* world at a time, begun with the record and the belongings the last one  *)
(* ended with, unless the belongings were left behind in the world.        *)
(***************************************************************************)
EXTENDS Naturals

VARIABLES
  here,           \* is the player in the world?
  belongings,     \* where the belongings are: "stored", "carried" or "left"
  record,         \* how far play has taken the record
  kept            \* the record as it is on file

vars == <<here, belongings, record, kept>>

Init == here = FALSE /\ belongings = "stored" /\ record = 0 /\ kept = 0

\* A stay begins with the record as the last one left it, and with what was stored.
Arrive ==
  /\ ~here /\ here'
  /\ record = kept
  /\ belongings' = IF belongings = "stored" THEN "carried" ELSE belongings
  /\ UNCHANGED <<record, kept>>

\* Only play takes the record further.
Play == here /\ record' = record + 1 /\ UNCHANGED <<here, belongings, kept>>

PutDown == here /\ belongings = "carried" /\ belongings' = "left" /\ UNCHANGED <<here, record, kept>>
PickUp  == here /\ belongings = "left" /\ belongings' = "carried" /\ UNCHANGED <<here, record, kept>>

\* The file may hold an earlier record while the stay lasts.
Keep == here /\ kept' \in 0..record /\ UNCHANGED <<here, belongings, record>>

\* The belongings are stored for the next stay.
Store ==
  /\ here /\ belongings = "carried" /\ belongings' = "stored"
  /\ UNCHANGED <<here, record, kept>>

\* A stay ends with the record kept; what is still carried stays behind.
Depart ==
  /\ here /\ ~here'
  /\ belongings' = IF belongings = "carried" THEN "left" ELSE belongings
  /\ kept' = record
  /\ UNCHANGED record

Next == Arrive \/ Play \/ PutDown \/ PickUp \/ Keep \/ Store \/ Depart

Spec == Init /\ [][Next]_vars
=============================================================================
