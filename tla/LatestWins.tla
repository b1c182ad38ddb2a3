------------------------------ MODULE LatestWins ------------------------------
(***************************************************************************)
(* What the playback coordinator of one config entry promises: of all      *)
(* choices of the user only the newest one is ever handed to the player,   *)
(* older ones may be skipped but never come back, and only a choice that   *)
(* is still the newest and was handed to the player is answered, once.     *)
(* Choices are named by their generation.                                  *)
(***************************************************************************)
EXTENDS Integers

VARIABLES
  wanted,    \* the newest choice, 0 before the first
  playing,   \* the choice the player was last asked for
  answered   \* choices the Bridge has received a final result for

vars == <<wanted, playing, answered>>

Init == wanted = 0 /\ playing = 0 /\ answered = {}

(* A new choice; it may reach the player at once. *)
Choose ==
  /\ wanted' = wanted + 1
  /\ playing' \in {playing, wanted + 1}
  /\ UNCHANGED answered

(* The player is asked for the newest choice, whatever was skipped. *)
Play ==
  /\ playing < wanted
  /\ playing' = wanted
  /\ UNCHANGED <<wanted, answered>>

Answer ==
  /\ playing = wanted /\ playing \notin answered
  /\ answered' = answered \cup {playing}
  /\ UNCHANGED <<wanted, playing>>

Next == Choose \/ Play \/ Answer

Spec == Init /\ [][Next]_vars

=============================================================================
