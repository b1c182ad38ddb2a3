------------------------------- MODULE FrameRing -------------------------------
(***************************************************************************)
(* The receive queue of a Link as the code keeps it: a ring of Capacity    *)
(* slots with head, tail and count.  pop_priority takes a frame out of the *)
(* middle and closes the gap by moving the later frames down, across the   *)
(* end of the array if it must.                                            *)
(***************************************************************************)
EXTENDS Integers, Sequences

CONSTANTS Frames, Control, Capacity

ASSUME RingConstants ==
  /\ Control \subseteq Frames /\ Frames # {}
  /\ Capacity \in Nat \ {0}

VARIABLES
  slots,              \* queue_
  head, tail, count,  \* queue_head_, queue_tail_, queue_count_
  given               \* the frame pop_priority returned last

ringVars == <<slots, head, tail, count, given>>

Indices == 0..(Capacity - 1)
Index(offset) == (head + offset) % Capacity

Blank == CHOOSE f \in Frames : TRUE       \* a frame nobody looks at

RingInit ==
  /\ slots = [i \in Indices |-> Blank]
  /\ head = 0 /\ tail = 0 /\ count = 0 /\ given = Blank

(* The end of decode_received_frame_; a full ring counts an overflow.       *)
Full == count >= Capacity
PushUnchecked(f) ==
  /\ slots' = [slots EXCEPT ![tail] = f]
  /\ tail' = (tail + 1) % Capacity /\ count' = count + 1
  /\ UNCHANGED <<head, given>>
Push(f) ==
  /\ ~ Full
  /\ slots' = [slots EXCEPT ![tail] = f]
  /\ tail' = (tail + 1) % Capacity /\ count' = count + 1
  /\ UNCHANGED <<head, given>>

IsControl(offset) == slots[Index(offset)] \in Control
Selected(offset) ==
  \/ IsControl(offset) /\ \A k \in 0..(offset - 1) : ~ IsControl(k)
  \/ offset = 0 /\ \A k \in 0..(count - 1) : ~ IsControl(k)

(* pop, which pop_priority uses when the head is the frame to take.         *)
Pop ==
  /\ given' = slots[head]
  /\ head' = (head + 1) % Capacity /\ count' = count - 1
  /\ UNCHANGED <<slots, tail>>

(* The frames at offset + 1 .. count - 1 move down by one place.            *)
MovedFromNext(offset) ==
  [i \in Indices |->
     LET k == (i + Capacity - head) % Capacity IN
     IF offset < k /\ k + 1 < count THEN slots[Index(k + 1)] ELSE slots[i]]
Moved(offset) ==
  [i \in Indices |->
     LET k == (i + Capacity - head) % Capacity IN
     IF offset <= k /\ k + 1 < count THEN slots[Index(k + 1)] ELSE slots[i]]

PopAt(offset) ==
  /\ given' = slots[Index(offset)]
  /\ slots' = Moved(offset)
  /\ tail' = (tail + Capacity - 1) % Capacity /\ count' = count - 1
  /\ UNCHANGED head

PopPriority ==
  \E offset \in 0..(count - 1) :
    /\ Selected(offset)
    /\ IF offset = 0 THEN Pop ELSE PopAt(offset)

(* A restart of this side: default values again.                            *)
RingReset ==
  /\ head' = 0 /\ tail' = 0 /\ count' = 0
  /\ UNCHANGED <<slots, given>>

RingNext == (\E f \in Frames : Push(f)) \/ PopPriority \/ RingReset
RingSpec == RingInit /\ [][RingNext]_ringVars

------------------------------------------------------------------------------
(* The indices agree: tail is where the next frame goes.                    *)
RingOK ==
  /\ slots \in [Indices -> Frames] /\ given \in Frames
  /\ head \in Indices /\ count \in 0..Capacity
  /\ tail = Index(count)

(* The frames of the ring in order: what FrameQueue calls the queue.        *)
Contents == [j \in 1..count |-> slots[Index(j - 1)]]

Queue == INSTANCE FrameQueue WITH queue <- Contents

(* The ring is the queue it promises: nothing is given twice, skipped or    *)
(* reordered, wherever in the array it wraps.                               *)
RingImplementsQueue == Queue!Spec
=============================================================================
