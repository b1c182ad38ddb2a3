---------------------------- MODULE FrameRingProofs ----------------------------
(***************************************************************************)
(* For every capacity and every set of frames: the indices of the ring     *)
(* agree, and the ring is the queue of FrameQueue.                         *)
(***************************************************************************)
EXTENDS FrameRing, SequenceTheorems, TLAPS

(* What % does within one turn around the ring.                             *)
LEMMA Modulo ==
  ASSUME NEW N \in Nat \ {0}, NEW a \in 0..(N - 1), NEW b \in 0..N
  PROVE  /\ (a + b) % N = IF a + b < N THEN a + b ELSE a + b - N
         /\ (a + b) % N \in 0..(N - 1)
OBVIOUS

(* One place back, and the distance of a place from another.                *)
LEMMA ModuloBack ==
  ASSUME NEW N \in Nat \ {0}, NEW a \in 0..(N - 1), NEW b \in 0..N
  PROVE  (a + N - b) % N = IF a < b THEN a + N - b ELSE a - b
OBVIOUS

(* The same for Index: the place at an offset, written without %.           *)
LEMMA IndexIs ==
  ASSUME RingOK, NEW offset \in 0..Capacity
  PROVE  /\ Index(offset) = IF head + offset < Capacity THEN head + offset
                                                        ELSE head + offset - Capacity
         /\ Index(offset) \in Indices
  BY Modulo, RingConstants DEF RingOK, Index, Indices

(* The indices agree after every step.                                      *)
LEMMA InitRingOK == RingInit => RingOK
<1> SUFFICES ASSUME RingInit PROVE RingOK
  OBVIOUS
<1>1. Blank \in Frames
  BY RingConstants DEF Blank
<1>2. 0 % Capacity = 0
  BY Modulo, RingConstants
<1> QED
  BY <1>1, <1>2, RingConstants DEF RingInit, RingOK, Indices, Index

(* A push leaves the indices and the slots consistent.                      *)
LEMMA PushRingOK ==
  ASSUME RingOK, NEW f \in Frames, Push(f)
  PROVE  RingOK'
<1>1. count < Capacity /\ count \in Nat /\ head \in 0..(Capacity - 1)
  BY RingConstants DEF RingOK, Push, Full, Indices
<1>2. tail = IF head + count < Capacity THEN head + count ELSE head + count - Capacity
  BY <1>1, IndexIs DEF RingOK
<1>3. tail \in Indices
  BY <1>1, <1>2, RingConstants DEF Indices
<1>4. slots' \in [Indices -> Frames]
  BY DEF RingOK, Push
<1>5. tail' = (head + (count + 1)) % Capacity
  <2>1. tail' = IF tail + 1 < Capacity THEN tail + 1 ELSE tail + 1 - Capacity
    BY <1>3, RingConstants DEF Push, Indices
  <2>2. (head + (count + 1)) % Capacity =
          IF head + (count + 1) < Capacity THEN head + (count + 1)
                                           ELSE head + (count + 1) - Capacity
    BY <1>1, RingConstants
  <2> QED
    BY <1>1, <1>2, <2>1, <2>2, RingConstants
<1> QED
  BY <1>1, <1>4, <1>5, RingConstants DEF RingOK, Push, Index, Indices

(* So does taking the head.                                                 *)
LEMMA PopRingOK ==
  ASSUME RingOK, count # 0, Pop
  PROVE  RingOK'
<1>1. count \in 1..Capacity /\ head \in 0..(Capacity - 1)
  BY DEF RingOK, Indices
<1>2. tail = IF head + count < Capacity THEN head + count ELSE head + count - Capacity
  BY <1>1, IndexIs DEF RingOK
<1>3. head' = IF head + 1 < Capacity THEN head + 1 ELSE head + 1 - Capacity
  BY <1>1, RingConstants DEF Pop
<1>4. count' = count - 1 /\ tail' = tail /\ slots' = slots /\ given' = slots[head]
  BY DEF Pop
<1>5. (head' + count') % Capacity =
        IF head' + count' < Capacity THEN head' + count' ELSE head' + count' - Capacity
  <2>1. head' \in 0..(Capacity - 1) /\ count' \in 0..Capacity
    BY <1>1, <1>3, <1>4, RingConstants
  <2> QED
    BY <2>1, Modulo, RingConstants
<1>6. tail' = (head' + count') % Capacity
  BY <1>1, <1>2, <1>3, <1>4, <1>5, RingConstants
<1> QED
  BY <1>1, <1>3, <1>4, <1>6, RingConstants DEF RingOK, Index, Indices

(* So does taking a frame out of the middle: the slots still hold frames.   *)
LEMMA PopAtRingOK ==
  ASSUME RingOK, NEW offset \in 1..(count - 1), PopAt(offset)
  PROVE  RingOK'
<1>1. count \in 1..Capacity /\ head \in 0..(Capacity - 1) /\ offset \in 0..Capacity
  BY RingConstants DEF RingOK, Indices
<1>2. tail = IF head + count < Capacity THEN head + count ELSE head + count - Capacity
  BY <1>1, IndexIs DEF RingOK
<1>3. /\ head' = head /\ count' = count - 1 /\ slots' = Moved(offset)
      /\ given' = slots[Index(offset)]
      /\ tail' = (tail + Capacity - 1) % Capacity
  BY DEF PopAt
<1>4. tail' = IF tail < 1 THEN tail + Capacity - 1 ELSE tail - 1
  BY <1>1, <1>2, <1>3, ModuloBack, RingConstants
<1>5. (head + (count - 1)) % Capacity =
        IF head + (count - 1) < Capacity THEN head + (count - 1)
                                         ELSE head + (count - 1) - Capacity
  BY <1>1, RingConstants
<1>6. tail' = (head' + count') % Capacity
  BY <1>1, <1>2, <1>3, <1>4, <1>5, RingConstants
<1>7. slots' \in [Indices -> Frames]
  <2> SUFFICES ASSUME NEW i \in Indices PROVE Moved(offset)[i] \in Frames
    BY <1>3 DEF Moved
  <2> DEFINE k == (i + Capacity - head) % Capacity
  <2>1. k \in Nat
    BY <1>1, RingConstants DEF Indices
  <2>2. k + 1 < count => slots[Index(k + 1)] \in Frames
    BY <1>1, <2>1, IndexIs, RingConstants DEF RingOK
  <2>3. slots[i] \in Frames
    BY DEF RingOK
  <2> QED
    BY <2>2, <2>3 DEF Moved
<1>8. given' \in Frames
  BY <1>1, <1>3, IndexIs DEF RingOK
<1> QED
  BY <1>1, <1>3, <1>6, <1>7, <1>8, RingConstants DEF RingOK, Index, Indices

(* So does a restart.                                                       *)
LEMMA ResetRingOK ==
  ASSUME RingOK, RingReset
  PROVE  RingOK'
<1>1. 0 % Capacity = 0
  BY Modulo, RingConstants
<1> QED
  BY <1>1, RingConstants DEF RingOK, RingReset, Index, Indices

(* RingOK is inductive.                                                     *)
LEMMA StepRingOK == RingOK /\ [RingNext]_ringVars => RingOK'
<1> SUFFICES ASSUME RingOK, [RingNext]_ringVars PROVE RingOK'
  OBVIOUS
<1>1. ASSUME NEW f \in Frames, Push(f) PROVE RingOK'
  BY <1>1, PushRingOK
<1>2. CASE PopPriority
  <2>1. PICK offset \in 0..(count - 1) : IF offset = 0 THEN Pop ELSE PopAt(offset)
    BY <1>2 DEF PopPriority
  <2>2. count # 0
    BY <2>1 DEF RingOK
  <2>3. CASE offset = 0
    BY <2>1, <2>2, <2>3, PopRingOK
  <2>4. CASE offset # 0
    BY <2>1, <2>4, PopAtRingOK DEF RingOK
  <2> QED
    BY <2>3, <2>4
<1>3. CASE RingReset
  BY <1>3, ResetRingOK
<1>4. CASE UNCHANGED ringVars
  BY <1>4 DEF ringVars, RingOK, Index
<1> QED
  BY <1>1, <1>2, <1>3, <1>4 DEF RingNext

(* Whatever arrives and is taken: head, tail and count describe the same    *)
(* stretch of the array, for every capacity.                                *)
THEOREM RingSound == RingSpec => []RingOK
  BY InitRingOK, StepRingOK, PTL DEF RingSpec

------------------------------------------------------------------------------
(* The ring as a queue.                                                     *)

(* The sequence read from the ring, place by place.                         *)
LEMMA ContentsIs ==
  ASSUME RingOK
  PROVE  /\ Contents \in Seq(Frames) /\ Len(Contents) = count
         /\ \A j \in 1..count : Contents[j] = slots[Index(j - 1)]
<1>1. \A j \in 1..count : slots[Index(j - 1)] \in Frames
  BY IndexIs, RingConstants DEF RingOK
<1>2. count \in Nat
  BY DEF RingOK
<1> QED
  BY <1>1, <1>2 DEF Contents

(* A pushed frame is the last of the queue and no other changes place.      *)
LEMMA PushArrives ==
  ASSUME RingOK, NEW f \in Frames, Push(f)
  PROVE  Queue!Arrive(f)
<1>1. count \in Nat /\ count < Capacity /\ head \in 0..(Capacity - 1)
  BY RingConstants DEF RingOK, Push, Full, Indices
<1>2. Len(Contents) < Capacity
  BY <1>1, ContentsIs
<1>3. RingOK'
  BY PushRingOK
<1>4. head' = head /\ count' = count + 1 /\ given' = given /\ slots' = [slots EXCEPT ![tail] = f]
  BY DEF Push
<1>5. \A j \in 1..(count + 1) :
        slots'[(head + (j - 1)) % Capacity] = IF j <= count THEN slots[Index(j - 1)] ELSE f
  <2> TAKE j \in 1..(count + 1)
  <2>1. Index(j - 1) \in Indices /\ tail \in Indices /\ tail = Index(count)
    BY <1>1, IndexIs, RingConstants DEF RingOK
  <2>2. j <= count => Index(j - 1) # Index(count)
    BY <1>1, IndexIs, RingConstants
  <2>3. j > count => Index(j - 1) = tail
    BY <1>1, <2>1
  <2> QED
    BY <1>1, <1>4, <2>1, <2>2, <2>3 DEF RingOK, Index
<1>6. Contents' = [j \in 1..(count + 1) |-> slots'[(head + (j - 1)) % Capacity]]
  BY <1>4 DEF Contents, Index
<1>7. Contents' = Append(Contents, f)
  <2>1. Contents \in Seq(Frames) /\ Len(Contents) = count
    BY ContentsIs
  <2>2. /\ Append(Contents, f) \in Seq(Frames) /\ Len(Append(Contents, f)) = count + 1
        /\ \A j \in 1..count : Append(Contents, f)[j] = Contents[j]
        /\ Append(Contents, f)[count + 1] = f
    BY <2>1, AppendProperties
  <2>3. \A j \in 1..count : Contents[j] = slots[Index(j - 1)]
    BY ContentsIs
  <2>4. \A j \in 1..(count + 1) : Contents'[j] = IF j <= count THEN Contents[j] ELSE f
    <3> TAKE j \in 1..(count + 1)
    <3>1. Contents'[j] = slots'[(head + (j - 1)) % Capacity]
      BY <1>6
    <3>2. slots'[(head + (j - 1)) % Capacity] = IF j <= count THEN slots[Index(j - 1)] ELSE f
      BY <1>5
    <3>3. j <= count => Contents[j] = slots[Index(j - 1)]
      BY <1>1, <2>3
    <3> QED
      BY <3>1, <3>2, <3>3
  <2>5. Contents' \in Seq(Frames) /\ Len(Contents') = count + 1
    <3>1. \A j \in 1..(count + 1) : Contents'[j] \in Frames
      BY <1>1, <2>1, <2>4, ElementOfSeq
    <3>2. count + 1 \in Nat /\ DOMAIN Contents' = 1..(count + 1)
      BY <1>1, <1>6
    <3>3. Contents' = [j \in 1..(count + 1) |-> Contents'[j]]
      BY <1>6
    <3> QED
      BY <3>1, <3>2, <3>3
  <2>6. \A j \in 1..(count + 1) : Contents'[j] = Append(Contents, f)[j]
    <3> TAKE j \in 1..(count + 1)
    <3>1. CASE j <= count
      BY <1>1, <2>2, <2>4, <3>1
    <3>2. CASE ~ (j <= count)
      <4>1. j = count + 1
        BY <1>1, <3>2
      <4>2. Contents'[j] = f
        BY <2>4, <3>2
      <4> QED
        BY <2>2, <4>1, <4>2
    <3> QED
      BY <3>1, <3>2
  <2> QED
    BY <2>2, <2>5, <2>6, SeqEqual
<1> QED
  BY <1>2, <1>4, <1>7 DEF Queue!Arrive

(* What pop_priority selects is what the queue would choose.                *)
LEMMA SelectedIsChosen ==
  ASSUME RingOK, NEW offset \in 0..(count - 1), Selected(offset)
  PROVE  Queue!Chosen(offset + 1)
<1>1. count \in Nat
  BY DEF RingOK
<1>2. \A k \in 0..(count - 1) : IsControl(k) <=> Contents[k + 1] \in Control
  BY <1>1, ContentsIs DEF IsControl
<1>3. \A j \in 1..count : IsControl(j - 1) <=> Contents[j] \in Control
  BY <1>1, <1>2
<1> QED
  BY <1>1, <1>2, <1>3, ContentsIs DEF Selected, Queue!Chosen

(* Taking the head removes the first element of that sequence.              *)
LEMMA PopGives ==
  ASSUME RingOK, count # 0, Selected(0), Pop
  PROVE  Queue!Give
<1>1. count \in 1..Capacity /\ head \in 0..(Capacity - 1)
  BY DEF RingOK, Indices
<1>2. head' = (head + 1) % Capacity /\ count' = count - 1 /\ slots' = slots
  BY DEF Pop
<1>3. given' = Contents[1]
  <2>1. Index(0) = head
    BY <1>1, IndexIs, RingConstants
  <2> QED
    BY <1>1, <2>1, ContentsIs DEF Pop
<1>4. \A j \in 1..(count - 1) : slots[(((head + 1) % Capacity) + (j - 1)) % Capacity] = Contents[j + 1]
  <2> TAKE j \in 1..(count - 1)
  <2>1. (head + 1) % Capacity = IF head + 1 < Capacity THEN head + 1 ELSE head + 1 - Capacity
    BY <1>1, RingConstants
  <2> DEFINE h == (head + 1) % Capacity
             k == j - 1
  <2>2. h \in 0..(Capacity - 1) /\ k \in 0..Capacity
    BY <1>1, <2>1, RingConstants
  <2>3. (h + k) % Capacity = IF h + k < Capacity THEN h + k ELSE h + k - Capacity
    <3> HIDE DEF h, k
    <3> QED
      BY <2>2, Modulo, RingConstants
  <2>4. (((head + 1) % Capacity) + (j - 1)) % Capacity = Index(j)
    BY <1>1, <2>1, <2>3, IndexIs, RingConstants
  <2> QED
    BY <1>1, <2>4, ContentsIs
<1>5. Contents' = [j \in 1..(count - 1) |-> slots[(((head + 1) % Capacity) + (j - 1)) % Capacity]]
  BY <1>2 DEF Contents, Index
<1>6. Contents' = Queue!Without(Contents, 1)
  BY <1>1, <1>4, <1>5, ContentsIs DEF Queue!Without
<1>7. Queue!Chosen(1)
  BY <1>1, SelectedIsChosen
<1> QED
  BY <1>1, <1>3, <1>6, <1>7, ContentsIs DEF Queue!Give

(* Moving the later frames down closes exactly the gap of the frame taken,  *)
(* also where the array wraps.                                              *)
LEMMA PopAtGives ==
  ASSUME RingOK, NEW offset \in 1..(count - 1), Selected(offset), PopAt(offset)
  PROVE  Queue!Give
<1>1. count \in 1..Capacity /\ head \in 0..(Capacity - 1) /\ offset \in 0..(count - 1)
  BY DEF RingOK, Indices
<1>2. head' = head /\ count' = count - 1 /\ slots' = Moved(offset)
  BY DEF PopAt
<1>3. given' = Contents[offset + 1]
  BY <1>1, ContentsIs DEF PopAt
<1>4. \A j \in 1..(count - 1) :
        Moved(offset)[Index(j - 1)] = IF j < offset + 1 THEN Contents[j] ELSE Contents[j + 1]
  <2> TAKE j \in 1..(count - 1)
  <2> DEFINE i == Index(j - 1)
  <2>1. /\ i = IF head + (j - 1) < Capacity THEN head + (j - 1) ELSE head + (j - 1) - Capacity
        /\ i \in Indices
    BY <1>1, IndexIs, RingConstants
  <2>2. (i + Capacity - head) % Capacity = IF i < head THEN i + Capacity - head ELSE i - head
    BY <1>1, <2>1, RingConstants DEF Indices
  <2>3. (i + Capacity - head) % Capacity = j - 1
    BY <1>1, <2>1, <2>2, RingConstants
  <2>4. Moved(offset)[i] = IF offset <= j - 1 /\ j < count THEN slots[Index(j)] ELSE slots[i]
    BY <1>1, <2>1, <2>3 DEF Moved
  <2>5. Contents[j] = slots[i] /\ Contents[j + 1] = slots[Index(j)]
    BY <1>1, ContentsIs
  <2> QED
    BY <1>1, <2>4, <2>5
<1>5. Contents' = [j \in 1..(count - 1) |-> Moved(offset)[Index(j - 1)]]
  BY <1>2 DEF Contents, Index
<1>6. Contents' = Queue!Without(Contents, offset + 1)
  BY <1>1, <1>4, <1>5, ContentsIs DEF Queue!Without
<1>7. Queue!Chosen(offset + 1)
  BY <1>1, SelectedIsChosen
<1> QED
  BY <1>1, <1>3, <1>6, <1>7, ContentsIs DEF Queue!Give

(* Every step of the ring is a step of the queue, or none.                  *)
LEMMA StepIsQueueStep ==
  RingOK /\ [RingNext]_ringVars => [Queue!Next]_(Queue!vars)
<1> SUFFICES ASSUME RingOK, [RingNext]_ringVars PROVE [Queue!Next]_(Queue!vars)
  OBVIOUS
<1>1. ASSUME NEW f \in Frames, Push(f) PROVE Queue!Next
  BY <1>1, PushArrives DEF Queue!Next
<1>2. CASE PopPriority
  <2>1. PICK offset \in 0..(count - 1) :
          Selected(offset) /\ IF offset = 0 THEN Pop ELSE PopAt(offset)
    BY <1>2 DEF PopPriority
  <2>2. CASE offset = 0
    BY <2>1, <2>2, PopGives DEF RingOK, Queue!Next
  <2>3. CASE offset # 0
    BY <2>1, <2>3, PopAtGives DEF RingOK, Queue!Next
  <2> QED
    BY <2>2, <2>3
<1>3. CASE RingReset
  <2>1. Contents' = << >> /\ given' = given
    BY <1>3 DEF RingReset, Contents
  <2> QED
    BY <2>1 DEF Queue!Next, Queue!Forget
<1>4. CASE UNCHANGED ringVars
  BY <1>4 DEF ringVars, Queue!vars, Contents, Index
<1> QED
  BY <1>1, <1>2, <1>3, <1>4 DEF RingNext

(* An empty ring is an empty queue.                                         *)
LEMMA InitIsQueueInit == RingInit => Queue!Init
<1> SUFFICES ASSUME RingInit PROVE Queue!Init
  OBVIOUS
<1>1. Blank \in Frames
  BY RingConstants DEF Blank
<1>2. Contents = << >>
  BY DEF RingInit, Contents
<1> QED
  BY <1>1, <1>2 DEF RingInit, Queue!Init

(* The ring gives out the frames of the queue it promises, for every        *)
(* capacity and wherever it wraps.                                          *)
THEOREM RingRefinesQueue == RingSpec => RingImplementsQueue
<1>1. RingSpec => []RingOK
  BY RingSound
<1> QED
  BY <1>1, InitIsQueueInit, StepIsQueueStep, PTL DEF RingSpec, RingImplementsQueue, Queue!Spec
=============================================================================
