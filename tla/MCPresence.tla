----------------------------- MODULE MCPresence ------------------------------
(* Small instances of a player's presence.  Connections are numbers, the   *)
(* order they are accepted in matters to the model, and every other        *)
(* constant is a set of words or a bound: the .cfg files say all there is. *)
EXTENDS Presence
=============================================================================
