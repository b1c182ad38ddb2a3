----------------------------- MODULE TrackDisplay -----------------------------
(***************************************************************************)
(* What the display of the S3 promises: it shows tracks as a whole and     *)
(* never goes back to an earlier one.  The tracks are 1, 2, ... in the     *)
(* order they were pushed.  What was not shown by a commit may be torn,    *)
(* until the next commit; its texts do not go back either.                 *)
(***************************************************************************)
EXTENDS Naturals

CONSTANT Covered   \* the tracks that have a cover

VARIABLES
  pushed,   \* tracks pushed so far
  shown,    \* title, artist and cover on the display: track numbers, 0 = none
  torn      \* they may belong to different tracks

Whole(n) == [title |-> n, artist |-> n, cover |-> IF n \in Covered THEN n ELSE 0]

Init == pushed = 0 /\ shown = Whole(0) /\ torn = FALSE

Push == pushed' = pushed + 1 /\ UNCHANGED <<shown, torn>>

(* A commit shows a later track, or the same again.                         *)
Show ==
  /\ \E n \in shown.title..pushed : n >= shown.artist /\ shown' = Whole(n)
  /\ torn' = FALSE /\ UNCHANGED pushed

Tear ==
  /\ shown' \in [title : shown.title..pushed, artist : shown.artist..pushed,
                 cover : 0..pushed]
  /\ torn' = TRUE /\ UNCHANGED pushed

(* A restart of the S3 clears the display.                                  *)
Clear == shown' = Whole(0) /\ torn' = FALSE /\ UNCHANGED pushed

Next == Push \/ Show \/ Tear \/ Clear

Spec == Init /\ [][Next]_<<pushed, shown, torn>>

=============================================================================
