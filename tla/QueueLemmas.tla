----------------------------- MODULE QueueLemmas -----------------------------
(***************************************************************************)
(* What taking, losing and appending a frame does to a receive queue.  The *)
(* proofs about both transfer protocols rest on these facts.               *)
(***************************************************************************)
EXTENDS Integers, Sequences, SequencesExt, SequenceTheorems, TLAPS

(* Taking one frame out of a queue closes the gap.                          *)
LEMMA RemoveAtElements ==
  ASSUME NEW S, NEW q \in Seq(S), NEW i \in 1..Len(q)
  PROVE  /\ RemoveAt(q, i) \in Seq(S)
         /\ Len(RemoveAt(q, i)) = Len(q) - 1
         /\ \A j \in 1..(Len(q) - 1) :
              RemoveAt(q, i)[j] = IF j < i THEN q[j] ELSE q[j + 1]
<1> DEFINE a == SubSeq(q, 1, i - 1)
           b == SubSeq(q, i + 1, Len(q))
<1>1. /\ a \in Seq(S) /\ Len(a) = i - 1
      /\ \A j \in 1..(i - 1) : a[j] = q[j]
  OBVIOUS
<1>2. /\ b \in Seq(S) /\ Len(b) = Len(q) - i
      /\ \A j \in 1..(Len(q) - i) : b[j] = q[i + j]
  OBVIOUS
<1> HIDE DEF a, b
<1>3. /\ a \o b \in Seq(S)
      /\ Len(a \o b) = Len(a) + Len(b)
      /\ \A j \in 1..Len(a) + Len(b) :
           (a \o b)[j] = IF j <= Len(a) THEN a[j] ELSE b[j - Len(a)]
  BY <1>1, <1>2, ConcatProperties, Zenon
<1>4. ASSUME NEW j \in 1..(Len(q) - 1), j < i
      PROVE  (a \o b)[j] = q[j]
  BY <1>1, <1>2, <1>3, <1>4
<1>5. ASSUME NEW j \in 1..(Len(q) - 1), ~ (j < i)
      PROVE  (a \o b)[j] = q[j + 1]
  <2>1. (a \o b)[j] = b[j - (i - 1)]
    BY <1>1, <1>2, <1>3, <1>5
  <2>2. j - (i - 1) \in 1..(Len(q) - i) /\ i + (j - (i - 1)) = j + 1
    BY <1>5
  <2> QED
    BY <1>2, <2>1, <2>2
<1>6. /\ a \o b \in Seq(S) /\ Len(a \o b) = Len(q) - 1
      /\ \A j \in 1..(Len(q) - 1) : (a \o b)[j] = IF j < i THEN q[j] ELSE q[j + 1]
  <2>1. Len(a) + Len(b) = Len(q) - 1
    BY <1>1, <1>2
  <2> QED
    BY <1>3, <1>4, <1>5, <2>1
<1>7. RemoveAt(q, i) = a \o b
  BY DEF RemoveAt, a, b
<1> QED
  BY <1>6, <1>7, Zenon

(* It leaves a queue of the other frames.                                   *)
LEMMA RemoveAtSeq ==
  ASSUME NEW S, NEW q \in Seq(S), NEW i \in 1..Len(q)
  PROVE  /\ RemoveAt(q, i) \in Seq(S)
         /\ Len(RemoveAt(q, i)) = Len(q) - 1
         /\ ToSet(RemoveAt(q, i)) \subseteq ToSet(q)
<1> DEFINE r == RemoveAt(q, i)
<1>1. /\ r \in Seq(S) /\ Len(r) = Len(q) - 1
      /\ \A j \in 1..(Len(q) - 1) : r[j] = IF j < i THEN q[j] ELSE q[j + 1]
  BY RemoveAtElements, Zenon
<1> HIDE DEF r
<1>2. ASSUME NEW j \in 1..Len(r)
      PROVE  r[j] \in ToSet(q)
  <2>1. j \in 1..(Len(q) - 1) /\ j \in 1..Len(q) /\ j + 1 \in 1..Len(q)
    BY <1>1
  <2>2. r[j] = q[j] \/ r[j] = q[j + 1]
    BY <1>1, <2>1
  <2> QED
    BY <2>1, <2>2 DEF ToSet
<1>3. ToSet(r) \subseteq ToSet(q)
  BY <1>1, <1>2 DEF ToSet
<1> QED
  BY <1>1, <1>3 DEF r

(* A larger set of elements has all the sequences of the smaller one.       *)
LEMMA SeqGrows ==
  ASSUME NEW S, NEW T, S \subseteq T, NEW q \in Seq(S)
  PROVE  q \in Seq(T)
<1>1. q = [i \in 1..Len(q) |-> q[i]] /\ Len(q) \in Nat /\ \A i \in 1..Len(q) : q[i] \in T
  OBVIOUS
<1> QED
  BY <1>1

(* r holds frames of q, in their order.                                     *)
Thinned(r, q) ==
  \A i, j \in 1..Len(r) : \E m, n \in 1..Len(q) :
     r[i] = q[m] /\ r[j] = q[n] /\ (j < i <=> n < m)

(* A queue that stands still, is emptied or loses a frame is thinned.       *)
LEMMA ThinnedBy ==
  ASSUME NEW S, NEW q \in Seq(S), NEW r,
         r = q \/ r = <<>> \/ \E i \in 1..Len(q) : r = RemoveAt(q, i)
  PROVE  r \in Seq(S) /\ Thinned(r, q) /\ ToSet(r) \subseteq ToSet(q)
<1>1. CASE r = q
  BY <1>1 DEF Thinned
<1>2. CASE r = <<>>
  BY <1>2 DEF Thinned, ToSet
<1>3. ASSUME NEW i \in 1..Len(q), r = RemoveAt(q, i)
      PROVE  r \in Seq(S) /\ Thinned(r, q) /\ ToSet(r) \subseteq ToSet(q)
  <2>1. /\ r \in Seq(S) /\ Len(r) = Len(q) - 1 /\ ToSet(r) \subseteq ToSet(q)
        /\ \A j \in 1..(Len(q) - 1) : r[j] = IF j < i THEN q[j] ELSE q[j + 1]
    BY <1>3, RemoveAtElements, RemoveAtSeq, Zenon
  <2>2. ASSUME NEW j \in 1..Len(r), NEW k \in 1..Len(r)
        PROVE  \E m, n \in 1..Len(q) : r[j] = q[m] /\ r[k] = q[n] /\ (k < j <=> n < m)
    <3> DEFINE m == IF j < i THEN j ELSE j + 1
               n == IF k < i THEN k ELSE k + 1
    <3>1. m \in 1..Len(q) /\ n \in 1..Len(q) /\ (k < j <=> n < m)
      BY <2>1
    <3>2. r[j] = q[m] /\ r[k] = q[n]
      BY <2>1
    <3> QED
      BY <3>1, <3>2
  <2> QED
    BY <2>1, <2>2 DEF Thinned
<1> QED
  BY <1>1, <1>2, <1>3

(* A queue with one more frame at its end.                                  *)
LEMMA Appended ==
  ASSUME NEW S, NEW q \in Seq(S), NEW f
  PROVE  /\ Len(Append(q, f)) = Len(q) + 1 /\ Append(q, f)[Len(q) + 1] = f
         /\ \A i \in 1..Len(q) : Append(q, f)[i] = q[i]
         /\ ToSet(Append(q, f)) = ToSet(q) \cup {f}
<1> DEFINE r == Append(q, f)
<1>1. /\ Len(r) = Len(q) + 1 /\ r[Len(q) + 1] = f /\ DOMAIN r = 1..(Len(q) + 1)
      /\ \A i \in 1..Len(q) : r[i] = q[i]
  OBVIOUS
<1> HIDE DEF r
<1>2. 1..(Len(q) + 1) = 1..Len(q) \cup {Len(q) + 1} /\ DOMAIN q = 1..Len(q)
  OBVIOUS
<1>3. ToSet(r) = ToSet(q) \cup {f}
  BY <1>1, <1>2 DEF ToSet
<1> QED
  BY <1>1, <1>3 DEF r

(* What remains of a queue without its oldest frame stood behind it.        *)
LEMMA Behind ==
  ASSUME NEW S, NEW q \in Seq(S), 1 \in 1..Len(q)
  PROVE  \A f \in ToSet(RemoveAt(q, 1)) : \E j \in 1..Len(q) : f = q[j] /\ ~ (j < 1) /\ j # 1
<1> DEFINE r == RemoveAt(q, 1)
<1>1. /\ r \in Seq(S) /\ Len(r) = Len(q) - 1
      /\ \A j \in 1..(Len(q) - 1) : r[j] = IF j < 1 THEN q[j] ELSE q[j + 1]
  BY RemoveAtElements, Zenon
<1> HIDE DEF r
<1>2. ASSUME NEW f \in ToSet(r)
      PROVE  \E j \in 1..Len(q) : f = q[j] /\ ~ (j < 1) /\ j # 1
  <2>1. PICK j \in 1..Len(r) : f = r[j]
    BY <1>1 DEF ToSet
  <2>2. j + 1 \in 1..Len(q) /\ f = q[j + 1] /\ ~ (j + 1 < 1) /\ j + 1 # 1
    BY <1>1, <2>1
  <2> QED
    BY <2>2
<1> QED
  BY <1>2 DEF r

=============================================================================
