------------------------------- MODULE FrameQueue -------------------------------
(***************************************************************************)
(* What the receive queue of a Link promises its loop: frames come out in  *)
(* the order in which they came in, except that the oldest control frame   *)
(* overtakes the bulk frames before it.  A frame for a full queue is       *)
(* dropped.                                                                *)
(***************************************************************************)
EXTENDS Integers, Sequences

CONSTANTS
  Frames,      \* what may arrive
  Control,     \* the control frames among them
  Capacity     \* FRAME_QUEUE_SIZE

VARIABLES
  queue,       \* frames received, oldest first
  given        \* the frame pop_priority returned last

vars == <<queue, given>>

Init == queue = <<>> /\ given \in Frames

Arrive(f) ==
  /\ Len(queue) < Capacity
  /\ queue' = Append(queue, f) /\ UNCHANGED given

Without(s, i) == [j \in 1..(Len(s) - 1) |-> IF j < i THEN s[j] ELSE s[j + 1]]

(* The place pop_priority takes: the first control frame, or else the head. *)
Chosen(i) ==
  \/ queue[i] \in Control /\ \A j \in 1..(i - 1) : queue[j] \notin Control
  \/ i = 1 /\ \A j \in 1..Len(queue) : queue[j] \notin Control

Give ==
  \E i \in 1..Len(queue) :
    Chosen(i) /\ given' = queue[i] /\ queue' = Without(queue, i)

(* A restart of this side forgets what it had not looked at.                *)
Forget == queue' = <<>> /\ UNCHANGED given

Next == (\E f \in Frames : Arrive(f)) \/ Give \/ Forget

Spec == Init /\ [][Next]_vars
=============================================================================
