--------------------------- MODULE LinkFramingProofs ---------------------------
(***************************************************************************)
(* For every set of frames, every size and whatever the wire damages: COBS *)
(* gives back what it was given, only frames that were sent are handed     *)
(* out, a clean link counts no error and damage stays local.               *)
(***************************************************************************)
EXTENDS LinkFraming, FrameRingProofs, QueueLemmas, FiniteSetTheorems, WellFoundedInduction

------------------------------------------------------------------------------
(* COBS                                                                     *)

(* The induction of this module: a set of numbers has a least one.          *)
LEMMA LeastElement ==
  ASSUME NEW T, T \subseteq Nat, T # {}
  PROVE  \E x \in T : \A y \in T : x <= y
<1> DEFINE R == OpToRel(<, Nat)
<1>1. \A x, y \in Nat : x < y => <<x, y>> \in R
  BY DEF OpToRel
<1>2. IsWellFoundedOn(R, Nat)
  BY NatLessThanWellFounded
<1> HIDE DEF R
<1>3. \E x \in T : \A y \in T : ~ (<<y, x>> \in R)
  BY <1>2, WFMin
<1>4. PICK x \in T : \A y \in T : ~ (<<y, x>> \in R)
  BY <1>3
<1>5. \A y \in T : ~ (y < x)
  BY <1>1, <1>4
<1>6. \A y \in T : x <= y
  BY <1>5
<1> QED
  BY <1>6

(* The places of the codes in the encoding of a raw frame.                  *)
Codes(raw) == {j \in 1..(Len(raw) + 1) : j = 1 \/ raw[j - 1] = 0}

(* What cobs_encode_ writes: a code leads to the next one or to the end,    *)
(* and every other byte is copied.                                          *)
LEMMA EncodeIs ==
  ASSUME NEW raw \in Seq(Nat)
  PROVE  /\ CobsEncode(raw) \in Seq(Nat \ {0}) /\ Len(CobsEncode(raw)) = Len(raw) + 1
         /\ \A j \in Codes(raw) :
              /\ j + CobsEncode(raw)[j] \in Codes(raw) \cup {Len(raw) + 2}
              /\ \A l \in (j + 1)..(j + CobsEncode(raw)[j] - 1) : l \notin Codes(raw)
         /\ \A j \in 1..(Len(raw) + 1) :
              j \notin Codes(raw) => CobsEncode(raw)[j] = raw[j - 1]
<1> DEFINE IsCode(j) == j = 1 \/ raw[j - 1] = 0
           end == Len(raw) + 2
           Ends(j, k) == /\ k = end \/ IsCode(k)
                         /\ \A l \in (j + 1)..(k - 1) : ~ IsCode(l)
           Following(j) == CHOOSE k \in (j + 1)..end : Ends(j, k)
           E == [j \in 1..(Len(raw) + 1) |-> IF IsCode(j) THEN Following(j) - j ELSE raw[j - 1]]
<1>1. CobsEncode(raw) = E
  BY DEF CobsEncode
<1>2. Len(raw) \in Nat /\ end \in Nat /\ Len(raw) + 1 \in Nat
  OBVIOUS
<1>3. ASSUME NEW j \in 1..(Len(raw) + 1)
      PROVE  Following(j) \in (j + 1)..end /\ Ends(j, Following(j))
  <2> DEFINE T == {k \in (j + 1)..end : k = end \/ IsCode(k)}
  <2>1. T \subseteq Nat /\ end \in T
    BY <1>2
  <2>2. PICK k \in T : \A y \in T : k <= y
    <3> HIDE DEF T
    <3> QED
      BY <2>1, LeastElement
  <2>3. k \in (j + 1)..end /\ (k = end \/ IsCode(k))
    BY <2>2
  <2>4. ASSUME NEW l \in (j + 1)..(k - 1), IsCode(l)
        PROVE  FALSE
    <3>1. l \in (j + 1)..end
      BY <1>2, <2>3
    <3>2. l \in T
      BY <2>4, <3>1
    <3> QED
      BY <1>2, <2>2, <2>3, <3>1, <3>2
  <2>5. \E x \in (j + 1)..end : Ends(j, x)
    BY <2>3, <2>4
  <2> HIDE DEF Ends
  <2> QED
    BY <2>5
<1>4. \A j \in 1..(Len(raw) + 1) : IsCode(j) <=> j \in Codes(raw)
  BY DEF Codes
<1>5. \A j \in Codes(raw) : j \in 1..(Len(raw) + 1) /\ E[j] = Following(j) - j
  BY <1>4 DEF Codes
<1>6. \A j \in 1..(Len(raw) + 1) : j \notin Codes(raw) => E[j] = raw[j - 1]
  BY <1>4
<1>7. ASSUME NEW j \in Codes(raw)
      PROVE  /\ E[j] \in Nat \ {0}
             /\ j + E[j] \in Codes(raw) \cup {Len(raw) + 2}
             /\ \A l \in (j + 1)..(j + E[j] - 1) : l \notin Codes(raw)
  <2> DEFINE k == Following(j)
  <2>1. j \in 1..(Len(raw) + 1) /\ E[j] = k - j
    BY <1>5
  <2>2. k \in (j + 1)..end /\ Ends(j, k)
    BY <1>3, <2>1
  <2> HIDE DEF k, E
  <2>3. k \in Nat /\ j \in Nat /\ j + E[j] = k /\ E[j] \in Nat \ {0}
    BY <1>2, <2>1, <2>2
  <2>4. k \in Codes(raw) \cup {Len(raw) + 2}
    BY <1>2, <2>1, <2>2 DEF Codes
  <2>5. ASSUME NEW l \in (j + 1)..(k - 1) PROVE l \notin Codes(raw)
    <3>1. l \in 1..(Len(raw) + 1) /\ ~ IsCode(l)
      BY <1>2, <2>1, <2>2
    <3> QED
      BY <1>4, <3>1
  <2> QED
    BY <2>3, <2>4, <2>5
<1>8. ASSUME NEW j \in 1..(Len(raw) + 1) PROVE E[j] \in Nat \ {0}
  <2>1. CASE j \in Codes(raw)
    BY <1>7, <2>1
  <2>2. CASE j \notin Codes(raw)
    <3>1. j # 1 /\ raw[j - 1] # 0
      BY <1>4, <2>2
    <3>2. j - 1 \in 1..Len(raw)
      BY <1>2, <3>1
    <3>3. raw[j - 1] \in Nat
      BY <3>2
    <3> QED
      BY <1>6, <2>2, <3>1, <3>3
  <2> QED
    BY <2>1, <2>2
<1>9. E \in Seq(Nat \ {0}) /\ Len(E) = Len(raw) + 1
  <2>1. E = [j \in 1..(Len(raw) + 1) |-> E[j]]
    OBVIOUS
  <2> HIDE DEF E
  <2> QED
    BY <1>2, <1>8, <2>1
<1> HIDE DEF E
<1> QED
  BY <1>1, <1>6, <1>7, <1>9

(* The codes of the encoding are a chain the decoder can follow.            *)
LEMMA CodesAreChain ==
  ASSUME NEW raw \in Seq(Nat)
  PROVE  Codes(raw) \in Chains(CobsEncode(raw))
<1> DEFINE E == CobsEncode(raw)
           Z == Codes(raw)
<1>1. /\ E \in Seq(Nat \ {0}) /\ Len(E) = Len(raw) + 1
      /\ \A j \in Z : /\ j + E[j] \in Z \cup {Len(raw) + 2}
                      /\ \A l \in (j + 1)..(j + E[j] - 1) : l \notin Z
  BY EncodeIs
<1>2. Z \subseteq 1..(Len(raw) + 1) /\ 1 \in Z /\ Len(raw) \in Nat
  BY DEF Codes
<1> HIDE DEF E, Z
<1>3. ASSUME NEW q \in Z \ {1}
      PROVE  \E p \in Z : q = p + E[p]
  <2> DEFINE T == {q - p : p \in {x \in Z : x < q}}
  <2>1. T \subseteq Nat /\ q - 1 \in T
    BY <1>2, <1>3
  <2>2. PICK d \in T : \A y \in T : d <= y
    <3> HIDE DEF T
    <3> QED
      BY <2>1, LeastElement
  <2>3. PICK p \in Z : p < q /\ d = q - p
    BY <2>2
  <2>4. ASSUME NEW x \in Z, p < x, x < q PROVE FALSE
    <3>1. q - x \in T
      BY <2>4
    <3>2. d <= q - x
      <4> HIDE DEF T
      <4> QED
        BY <2>2, <3>1
    <3>3. p \in Nat /\ q \in Nat /\ x \in Nat
      BY <1>2, <1>3, <2>3
    <3> QED
      BY <2>3, <2>4, <3>2, <3>3
  <2>5. p \in 1..(Len(raw) + 1) /\ q \in 1..(Len(raw) + 1) /\ E[p] \in Nat \ {0}
    BY <1>1, <1>2, <1>3, <2>3
  <2>6. p + E[p] \in Z \cup {Len(raw) + 2} /\ \A l \in (p + 1)..(p + E[p] - 1) : l \notin Z
    BY <1>1, <2>3
  <2>7. ~ (p + E[p] < q)
    BY <1>2, <2>4, <2>5, <2>6
  <2>8. ASSUME q < p + E[p] PROVE FALSE
    <3>1. q \in (p + 1)..(p + E[p] - 1)
      BY <2>3, <2>5, <2>8
    <3> QED
      BY <1>3, <2>6, <3>1
  <2> QED
    <3>1. p + E[p] \in Int /\ q \in Int
      BY <2>5
    <3> QED
      BY <2>7, <2>8, <3>1
<1>4. IsChain(E, Z)
  BY <1>1, <1>2, <1>3 DEF IsChain
<1>5. Z \in SUBSET (1..Len(E))
  BY <1>1, <1>2
<1>6. Z \in Chains(E)
  BY <1>4, <1>5 DEF Chains
<1> QED
  BY <1>6 DEF E, Z

(* The decoder has no choice: a chain is determined by what was received.   *)
LEMMA ChainUnique ==
  ASSUME NEW s \in Seq(Nat \ {0}), NEW c \in Chains(s), NEW d \in Chains(s)
  PROVE  c = d
<1>1. c \subseteq 1..Len(s) /\ d \subseteq 1..Len(s) /\ IsChain(s, c) /\ IsChain(s, d)
  BY DEF Chains
<1>2. ASSUME NEW a \in Chains(s), NEW b \in Chains(s), NEW q \in a, q \notin b,
             \A y \in 1..Len(s) : y < q => (y \in a <=> y \in b)
      PROVE  FALSE
  <2>1. a \subseteq 1..Len(s) /\ b \subseteq 1..Len(s) /\ IsChain(s, a) /\ IsChain(s, b)
    BY DEF Chains
  <2>2. q # 1
    BY <1>2, <2>1 DEF IsChain
  <2>3. PICK p \in a : q = p + s[p]
    BY <1>2, <2>1, <2>2 DEF IsChain
  <2>4. p \in 1..Len(s) /\ s[p] \in Nat \ {0} /\ q \in 1..Len(s)
    BY <1>2, <2>1, <2>3
  <2>5. p \in b
    BY <1>2, <2>3, <2>4
  <2>6. q \in b \cup {Len(s) + 1}
    BY <2>1, <2>3, <2>5 DEF IsChain
  <2> QED
    BY <1>2, <2>4, <2>6
<1>3. SUFFICES ASSUME c # d PROVE FALSE
  OBVIOUS
<1> DEFINE T == (c \ d) \cup (d \ c)
<1>4. T \subseteq Nat /\ T # {}
  <2>1. Len(s) \in Nat /\ 1..Len(s) \subseteq Nat
    OBVIOUS
  <2>2. T \subseteq 1..Len(s)
    BY <1>1
  <2>3. T # {}
    BY <1>3
  <2> QED
    BY <2>1, <2>2, <2>3
<1>5. PICK q \in T : \A y \in T : q <= y
  <2> HIDE DEF T
  <2> QED
    BY <1>4, LeastElement
<1>6. \A y \in 1..Len(s) : y < q => (y \in c <=> y \in d)
  BY <1>1, <1>5
<1>7. CASE q \in c
  BY <1>2, <1>5, <1>6, <1>7
<1>8. CASE q \in d
  BY <1>2, <1>5, <1>6, <1>8
<1> QED
  BY <1>5, <1>7, <1>8

(* COBS: what is encoded, with no zero on the wire, is decoded as it was,   *)
(* whatever the frame holds, up to the size of the buffer.                  *)
THEOREM CobsRoundTrip ==
  ASSUME NEW raw \in Seq(Nat), Len(raw) <= MaxRaw
  PROVE  /\ CobsEncode(raw) \in Seq(Nat \ {0})
         /\ CobsDecode(CobsEncode(raw)) = raw
<1> DEFINE E == CobsEncode(raw)
           Z == Codes(raw)
<1>1. /\ E \in Seq(Nat \ {0}) /\ Len(E) = Len(raw) + 1
      /\ \A j \in 1..(Len(raw) + 1) : j \notin Z => E[j] = raw[j - 1]
  BY EncodeIs
<1>2. Z \in Chains(E)
  BY CodesAreChain
<1>3. MaxRaw \in Nat /\ Len(raw) \in Nat
  BY LinkConstants DEF MaxRaw, HeaderLength
<1>4. \A j \in 1..(Len(raw) + 1) : j \in Z <=> (j = 1 \/ raw[j - 1] = 0)
  BY DEF Codes
<1> HIDE DEF E, Z
<1>5. (CHOOSE c \in Chains(E) : TRUE) = Z
  <2> DEFINE w == CHOOSE c \in Chains(E) : TRUE
  <2>1. w \in Chains(E)
    BY <1>2
  <2> QED
    BY <1>1, <1>2, <2>1, ChainUnique
<1>6. CobsDecode(E) = [i \in 1..(Len(E) - 1) |-> IF i + 1 \in Z THEN 0 ELSE E[i + 1]]
  <2>1. ~ (Chains(E) = {} \/ Len(E) - 1 > MaxRaw)
    BY <1>1, <1>2, <1>3
  <2> QED
    BY <1>5, <2>1, Zenon DEF CobsDecode
<1>7. \A i \in 1..Len(raw) : (IF i + 1 \in Z THEN 0 ELSE E[i + 1]) = raw[i]
  <2> TAKE i \in 1..Len(raw)
  <2>1. i + 1 \in 1..(Len(raw) + 1) /\ i + 1 # 1 /\ (i + 1) - 1 = i
    BY <1>3
  <2> QED
    BY <1>1, <1>4, <2>1
<1>8. CobsDecode(E) = [i \in 1..Len(raw) |-> raw[i]]
  <2>1. Len(E) - 1 = Len(raw)
    BY <1>1, <1>3
  <2> QED
    BY <1>6, <1>7, <2>1
<1>9. CobsDecode(E) = raw
  BY <1>8
<1> QED
  BY <1>1, <1>9 DEF E

(* The decoder makes up no byte but zeros.                                  *)
LEMMA DecodedBytes ==
  ASSUME NEW s \in Seq(Nat \ {0}), NEW i \in 1..Len(CobsDecode(s))
  PROVE  CobsDecode(s)[i] = 0 \/ \E j \in 1..Len(s) : CobsDecode(s)[i] = s[j]
<1>1. CASE CobsDecode(s) = <<>>
  BY <1>1
<1>2. CASE CobsDecode(s) # <<>>
  <2> DEFINE codes == CHOOSE c \in Chains(s) : TRUE
  <2>1. CobsDecode(s) = [k \in 1..(Len(s) - 1) |-> IF k + 1 \in codes THEN 0 ELSE s[k + 1]]
    BY <1>2 DEF CobsDecode
  <2> HIDE DEF codes
  <2>2. Len(s) \in Nat
    OBVIOUS
  <2>3. Len(s) # 0
    BY <1>2, <2>1, <2>2
  <2>4. i \in 1..(Len(s) - 1)
    BY <2>1, <2>2, <2>3
  <2>5. i + 1 \in 1..Len(s)
    BY <2>2, <2>4
  <2> QED
    BY <2>1, <2>4, <2>5
<1> QED
  BY <1>1, <1>2

------------------------------------------------------------------------------
(* Frames on the wire                                                       *)

(* What the sizes and symbols of a frame come to.                           *)
FrameSizes(f) ==
  /\ f.type \in Nat /\ f.type <= 255 /\ f.sequence \in Nat /\ f.sequence <= MaxFrames
  /\ f.payload \in Seq(Nat) /\ Len(f.payload) \in Nat /\ Len(f.payload) <= MaxPayload
  /\ \A i \in 1..Len(f.payload) : f.payload[i] \in Nat /\ f.payload[i] <= 255

(* The sizes of dual_mcu_link.h as numbers.                                 *)
LEMMA Sizes ==
  /\ MaxRaw = MaxPayload + 5 /\ MaxWire = MaxPayload + 7 /\ CrcBase = MaxFrames + MaxPayload + 262
  /\ MaxPayload \in Nat /\ MaxFrames \in Nat
  /\ \A f \in Frames :
       /\ FrameSizes(f)
       /\ f = [type |-> f.type, sequence |-> f.sequence, payload |-> f.payload]
<1>1. MaxPayload \in Nat /\ MaxFrames \in Nat
  BY LinkConstants
<1>2. ASSUME NEW f \in Frames
      PROVE  /\ FrameSizes(f)
             /\ f = [type |-> f.type, sequence |-> f.sequence, payload |-> f.payload]
  <2>1. f \in [type : Bytes, sequence : 0..MaxFrames, payload : Payloads]
    BY LinkConstants
  <2>2. \A b \in Bytes : b \in Nat /\ b <= 255
    BY DEF Bytes
  <2>3. f.payload \in Seq(Bytes) /\ Len(f.payload) <= MaxPayload /\ f.type \in Bytes
    BY <2>1 DEF Payloads
  <2>4. f.payload \in Seq(Nat) /\ \A i \in 1..Len(f.payload) : f.payload[i] \in Bytes
    <3>1. Bytes \subseteq Nat
      BY <2>2
    <3>2. f.payload \in Seq(Nat)
      BY <2>3, <3>1, SeqGrows, Zenon
    <3>3. \A i \in 1..Len(f.payload) : f.payload[i] \in Bytes
      BY <2>3, ElementOfSeq, Zenon
    <3> QED
      BY <3>2, <3>3
  <2>5. f.sequence \in Nat /\ f.sequence <= MaxFrames
    BY <1>1, <2>1
  <2>6. f.type \in Nat /\ f.type <= 255
    BY <2>2, <2>3
  <2>7. \A i \in 1..Len(f.payload) : f.payload[i] \in Nat /\ f.payload[i] <= 255
    BY <2>2, <2>4
  <2>8. Len(f.payload) \in Nat
    BY <2>4
  <2>9. f = [type |-> f.type, sequence |-> f.sequence, payload |-> f.payload]
    BY <2>1
  <2> QED
    BY <2>3, <2>4, <2>5, <2>6, <2>7, <2>8, <2>9 DEF FrameSizes
<1> QED
  BY <1>1, <1>2 DEF MaxRaw, MaxWire, HeaderLength, CrcBase

(* A header.                                                                *)
LEMMA FourBytes ==
  ASSUME NEW a \in Nat, NEW b \in Nat, NEW c \in Nat, NEW d \in Nat
  PROVE  /\ <<a, b, c, d>> \in Seq(Nat) /\ Len(<<a, b, c, d>>) = 4
         /\ <<a, b, c, d>>[1] = a /\ <<a, b, c, d>>[2] = b
         /\ <<a, b, c, d>>[3] = c /\ <<a, b, c, d>>[4] = d
OBVIOUS

(* The raw frame, byte by byte.                                             *)
LEMMA RawIs ==
  ASSUME NEW f \in Frames, NEW n \in Nat \ {0}
  PROVE  LET raw == RawOf(f, n) IN
         /\ raw \in Seq(Nat) /\ Len(raw) = 5 + Len(f.payload) /\ Len(raw) <= MaxRaw
         /\ raw[1] = PROTOCOL_VERSION /\ raw[2] = f.type /\ raw[3] = f.sequence
         /\ raw[4] = Len(f.payload)
         /\ \A i \in 1..Len(f.payload) : raw[4 + i] = f.payload[i]
         /\ raw[Len(raw)] = Crc(n)
         /\ \A i \in 1..(Len(raw) - 1) : raw[i] <= CrcBase
<1> DEFINE p == f.payload
           h == <<PROTOCOL_VERSION, f.type, f.sequence, Len(p)>>
           raw == RawOf(f, n)
<1>1. FrameSizes(f) /\ MaxPayload \in Nat /\ MaxFrames \in Nat
  BY Sizes
<1>2. MaxRaw = MaxPayload + 5 /\ CrcBase = MaxFrames + MaxPayload + 262
  BY Sizes
<1>3. /\ p \in Seq(Nat) /\ Len(p) \in Nat /\ Len(p) <= MaxPayload
      /\ \A i \in 1..Len(p) : p[i] \in Nat /\ p[i] <= 255
  BY <1>1 DEF FrameSizes
<1> HIDE DEF p
<1>4. /\ h \in Seq(Nat) /\ Len(h) = 4 /\ h[1] = PROTOCOL_VERSION /\ h[2] = f.type
      /\ h[3] = f.sequence /\ h[4] = Len(p)
  <2>1. PROTOCOL_VERSION \in Nat /\ f.type \in Nat /\ f.sequence \in Nat /\ Len(p) \in Nat
    BY <1>1, <1>3 DEF PROTOCOL_VERSION, FrameSizes
  <2> QED
    BY <2>1, FourBytes
<1> HIDE DEF h
<1>5. /\ h \o p \in Seq(Nat) /\ Len(h \o p) = 4 + Len(p)
      /\ \A i \in 1..(4 + Len(p)) : (h \o p)[i] = IF i <= 4 THEN h[i] ELSE p[i - 4]
  <2>1. h \in Seq(Nat) /\ p \in Seq(Nat)
    BY <1>3, <1>4
  <2>2. /\ h \o p \in Seq(Nat) /\ Len(h \o p) = Len(h) + Len(p)
        /\ \A i \in 1..Len(h) + Len(p) :
             (h \o p)[i] = IF i <= Len(h) THEN h[i] ELSE p[i - Len(h)]
    BY <2>1, ConcatProperties, Zenon
  <2> QED
    BY <1>4, <2>2
<1>6. raw = Append(h \o p, Crc(n)) /\ Crc(n) \in Nat
  BY <1>1, <1>2 DEF RawOf, Content, Crc, p, h
<1>7. /\ raw \in Seq(Nat) /\ Len(raw) = 5 + Len(p)
      /\ \A i \in 1..(4 + Len(p)) : raw[i] = (h \o p)[i]
      /\ raw[5 + Len(p)] = Crc(n)
  <2> HIDE DEF raw
  <2>1. /\ Append(h \o p, Crc(n)) \in Seq(Nat)
        /\ Len(Append(h \o p, Crc(n))) = Len(h \o p) + 1
        /\ \A i \in 1..Len(h \o p) : Append(h \o p, Crc(n))[i] = (h \o p)[i]
        /\ Append(h \o p, Crc(n))[Len(h \o p) + 1] = Crc(n)
    BY <1>5, <1>6, AppendProperties
  <2>2. Len(h \o p) + 1 = 5 + Len(p)
    BY <1>3, <1>5
  <2> QED
    BY <1>5, <1>6, <2>1, <2>2
<1> HIDE DEF raw
<1>8. /\ raw[1] = PROTOCOL_VERSION /\ raw[2] = f.type /\ raw[3] = f.sequence
      /\ raw[4] = Len(p)
  <2>1. 1 \in 1..(4 + Len(p)) /\ 2 \in 1..(4 + Len(p)) /\ 3 \in 1..(4 + Len(p)) /\ 4 \in 1..(4 + Len(p))
    BY <1>3
  <2> QED
    BY <1>4, <1>5, <1>7, <2>1
<1>9. ASSUME NEW i \in 1..Len(p)
      PROVE  raw[4 + i] = p[i]
  <2>1. 4 + i \in 1..(4 + Len(p)) /\ ~ (4 + i <= 4) /\ (4 + i) - 4 = i
    BY <1>3
  <2> QED
    BY <1>5, <1>7, <2>1
<1>10. ASSUME NEW i \in 1..(4 + Len(p))
       PROVE  raw[i] <= CrcBase
  <2>1. CASE i <= 4
    <3>1. i \in {1, 2, 3, 4}
      BY <1>3, <2>1
    <3>2. f.type \in Nat /\ f.type <= 255 /\ f.sequence \in Nat /\ f.sequence <= MaxFrames
      BY <1>1 DEF FrameSizes
    <3> QED
      BY <1>1, <1>2, <1>3, <1>8, <3>1, <3>2, SMTT(20) DEF PROTOCOL_VERSION
  <2>2. CASE ~ (i <= 4)
    <3>1. i - 4 \in 1..Len(p) /\ 4 + (i - 4) = i
      BY <1>3, <2>2
    <3>2. raw[i] = p[i - 4] /\ p[i - 4] \in Nat /\ p[i - 4] <= 255
      BY <1>3, <1>9, <3>1
    <3> QED
      BY <1>1, <1>2, <3>2
  <2> QED
    BY <2>1, <2>2
<1>11. Len(raw) <= MaxRaw /\ Len(raw) - 1 = 4 + Len(p)
  BY <1>1, <1>2, <1>3, <1>7
<1> QED
  BY <1>7, <1>8, <1>9, <1>10, <1>11 DEF p, raw

(* decode_received_frame_ takes it for what was sent.                       *)
LEMMA RawIsAccepted ==
  ASSUME NEW f \in Frames, NEW n \in Nat \ {0}
  PROVE  WellFormed(RawOf(f, n)) /\ FrameOf(RawOf(f, n)) = f
<1> DEFINE raw == RawOf(f, n)
<1>1. /\ raw \in Seq(Nat) /\ Len(raw) = 5 + Len(f.payload)
      /\ raw[1] = PROTOCOL_VERSION /\ raw[2] = f.type /\ raw[3] = f.sequence
      /\ raw[4] = Len(f.payload) /\ \A i \in 1..Len(f.payload) : raw[4 + i] = f.payload[i]
  BY RawIs
<1>2. /\ f.payload \in Seq(Nat) /\ Len(f.payload) \in Nat /\ Len(f.payload) <= MaxPayload
      /\ f = [type |-> f.type, sequence |-> f.sequence, payload |-> f.payload]
  BY Sizes DEF FrameSizes
<1> HIDE DEF raw
<1>3. WellFormed(raw)
  BY <1>1, <1>2 DEF WellFormed, HeaderLength
<1>4. SubSeq(raw, 5, 4 + raw[4]) = f.payload
  <2> DEFINE s == SubSeq(raw, 5, 4 + Len(f.payload))
  <2>1. s = [i \in 1..Len(f.payload) |-> raw[4 + i]]
    <3> DEFINE m == 5
               n1 == 4 + Len(f.payload)
    <3>1. m \in Int /\ n1 \in Int /\ m <= n1 + 1 /\ n1 - m + 1 = Len(f.payload)
      BY <1>2
    <3>2. \A i \in m..n1 : i \in 1..Len(raw)
      <4> DEFINE l == Len(f.payload)
      <4>1. l \in Nat /\ Len(raw) = 5 + l /\ n1 = 4 + l
        BY <1>1, <1>2
      <4> HIDE DEF l, n1
      <4> QED
        BY <4>1
    <3>3. \A i \in m..n1 : raw[i] \in Nat
      BY <1>1, <3>2, ElementOfSeq, Zenon
    <3> HIDE DEF m, n1
    <3>4. /\ SubSeq(raw, m, n1) \in Seq(Nat) /\ Len(SubSeq(raw, m, n1)) = n1 - m + 1
          /\ \A i \in 1..(n1 - m + 1) : SubSeq(raw, m, n1)[i] = raw[m + i - 1]
      BY <3>1, <3>3, SubSeqProperties
    <3>5. \A i \in 1..Len(f.payload) : m + i - 1 = 4 + i
      BY <1>2 DEF m
    <3>6. s \in Seq(Nat) /\ Len(s) = Len(f.payload)
      BY <3>1, <3>4 DEF m, n1
    <3>7. \A i \in 1..Len(f.payload) : s[i] = raw[4 + i]
      BY <3>1, <3>4, <3>5 DEF m, n1
    <3>8. s = [i \in 1..Len(s) |-> s[i]]
      BY <3>6
    <3> HIDE DEF s
    <3> QED
      BY <3>6, <3>7, <3>8
  <2>2. f.payload = [i \in 1..Len(f.payload) |-> f.payload[i]]
    BY <1>2
  <2> HIDE DEF s
  <2>3. s = f.payload
    BY <1>1, <2>1, <2>2
  <2> QED
    BY <1>1, <2>3 DEF s
<1> QED
  BY <1>1, <1>2, <1>3, <1>4 DEF FrameOf, raw

(* The frame on the wire: its CRC comes last and looks like nothing else.   *)
Wired(f, n) == CobsEncode(RawOf(f, n))

(* It is short enough for the receive buffer, and decodes to what was sent. *)
LEMMA WiredIs ==
  ASSUME NEW f \in Frames, NEW n \in Nat \ {0}
  PROVE  LET w == Wired(f, n) IN
         /\ w \in Seq(Nat \ {0}) /\ Len(w) < MaxWire /\ Len(w) > 1
         /\ w[Len(w)] = Crc(n)
         /\ \A i \in 1..(Len(w) - 1) : w[i] <= CrcBase
         /\ CobsDecode(w) = RawOf(f, n)
<1> DEFINE raw == RawOf(f, n)
           w == Wired(f, n)
<1>1. /\ raw \in Seq(Nat) /\ Len(raw) \in 5..MaxRaw /\ raw[Len(raw)] = Crc(n)
      /\ \A i \in 1..(Len(raw) - 1) : raw[i] <= CrcBase
  <2>1. Len(f.payload) \in Nat /\ MaxPayload \in Nat /\ MaxRaw = MaxPayload + 5
    BY Sizes DEF FrameSizes
  <2>2. /\ raw \in Seq(Nat) /\ Len(raw) = 5 + Len(f.payload) /\ Len(raw) <= MaxRaw
        /\ raw[Len(raw)] = Crc(n) /\ \A i \in 1..(Len(raw) - 1) : raw[i] <= CrcBase
    BY RawIs
  <2> QED
    BY <2>1, <2>2
<1>2. /\ w \in Seq(Nat \ {0}) /\ Len(w) = Len(raw) + 1
      /\ \A j \in Codes(raw) : j + w[j] \in Codes(raw) \cup {Len(raw) + 2}
      /\ \A j \in 1..(Len(raw) + 1) : j \notin Codes(raw) => w[j] = raw[j - 1]
  BY <1>1, EncodeIs DEF Wired
<1>3. CobsDecode(w) = raw
  BY <1>1, CobsRoundTrip DEF Wired
<1> HIDE DEF raw, w
<1>4. /\ MaxRaw = MaxPayload + 5 /\ MaxWire = MaxPayload + 7
      /\ CrcBase = MaxFrames + MaxPayload + 262 /\ MaxPayload \in Nat /\ MaxFrames \in Nat
  BY Sizes
<1>5. Len(w) < MaxWire /\ Len(w) > 1
  BY <1>1, <1>2, <1>4
<1>6. w[Len(w)] = Crc(n)
  <2>1. Len(raw) + 1 # 1 /\ (Len(raw) + 1) - 1 = Len(raw) /\ raw[Len(raw)] # 0
    BY <1>1, <1>4 DEF Crc
  <2>2. Len(raw) + 1 \notin Codes(raw)
    BY <2>1 DEF Codes
  <2> QED
    BY <1>1, <1>2, <2>1, <2>2
<1>7. ASSUME NEW i \in 1..(Len(w) - 1)
      PROVE  w[i] <= CrcBase
  <2>1. i \in 1..(Len(raw) + 1) /\ i <= Len(raw) /\ w[i] \in Nat
    BY <1>1, <1>2
  <2>2. CASE i \in Codes(raw)
    <3>1. i + w[i] <= Len(raw) + 2
      <4>1. i + w[i] \in 1..(Len(raw) + 2)
        <5>1. i + w[i] \in Codes(raw) \cup {Len(raw) + 2}
          BY <1>2, <2>2, Zenon
        <5>2. \A j \in Codes(raw) : j \in 1..(Len(raw) + 1)
          BY Zenon DEF Codes
        <5>3. Len(raw) \in Nat
          BY <1>1
        <5> QED
          BY <5>1, <5>2, <5>3
      <4> QED
        BY <1>1, <4>1
    <3> QED
      BY <1>1, <1>4, <2>1, <3>1, SMTT(20)
  <2>3. CASE i \notin Codes(raw)
    <3>1. i # 1 /\ w[i] = raw[i - 1]
      BY <1>2, <2>1, <2>3 DEF Codes
    <3>2. i - 1 \in 1..(Len(raw) - 1)
      BY <1>1, <2>1, <3>1
    <3> QED
      BY <1>1, <3>1, <3>2
  <2> QED
    BY <2>2, <2>3
<1> QED
  BY <1>2, <1>3, <1>5, <1>6, <1>7 DEF raw, w

(* What is accepted is a frame that was sent, and its CRC was received.     *)
LEMMA AcceptedIs ==
  ASSUME sent \in Seq(Frames), NEW s \in Seq(Nat \ {0}), Accepted(CobsDecode(s))
  PROVE  \E n \in 1..Len(sent) :
           FrameOf(CobsDecode(s)) = sent[n] /\ \E j \in 1..Len(s) : s[j] = Crc(n)
<1> DEFINE raw == CobsDecode(s)
<1>1. PICK n \in 1..Len(sent) : raw = RawOf(sent[n], n)
  BY DEF Accepted, CrcFits
<1>2. sent[n] \in Frames /\ n \in Nat \ {0}
  OBVIOUS
<1>3. FrameOf(raw) = sent[n]
  BY <1>1, <1>2, RawIsAccepted
<1>4. /\ raw \in Seq(Nat) /\ Len(raw) = 5 + Len(sent[n].payload) /\ raw[Len(raw)] = Crc(n)
  <2> DEFINE f == sent[n]
             r == RawOf(f, n)
  <2>1. f \in Frames
    BY <1>2
  <2> HIDE DEF f
  <2>2. r \in Seq(Nat) /\ Len(r) = 5 + Len(f.payload) /\ r[Len(r)] = Crc(n)
    BY <1>2, <2>1, RawIs
  <2> QED
    BY <1>1, <2>2 DEF f
<1>5. Crc(n) # 0
  BY <1>2, Sizes DEF Crc
<1>6. Len(sent[n].payload) \in Nat
  BY <1>2, Sizes DEF FrameSizes
<1>7. Len(raw) \in 1..Len(raw)
  BY <1>4, <1>6
<1> QED
  BY <1>3, <1>4, <1>5, <1>7, DecodedBytes

------------------------------------------------------------------------------
(* Types, and the ring inside the link                                      *)

(* The types of all variables, bytes and CRC symbols taken as numbers.      *)
Typed ==
  /\ sent \in Seq(Frames) /\ tx \in Nat /\ tx <= Len(sent)
  /\ wire \in Seq(Nat)
  /\ sync \in BOOLEAN /\ rx \in Seq(Nat \ {0}) /\ Len(rx) <= MaxWire /\ (rx # <<>> => sync)
  /\ errors \in Nat /\ overflows \in Nat /\ arrived \in Nat
  /\ taken \in Seq(Frames) /\ faults \in Nat /\ boots \in Nat /\ excused \in Nat
  /\ RingOK

(* The outcomes of a byte for counters and ring.                            *)
Quiet == UNCHANGED <<errors, overflows, arrived, ringVars>>
Erred == errors' = errors + 1 /\ UNCHANGED <<overflows, arrived, ringVars>>
Arrives(n) ==
  /\ UNCHANGED errors
  /\ \/ overflows' = overflows + 1 /\ UNCHANGED <<arrived, ringVars>>
     \/ arrived' = arrived + 1 /\ UNCHANGED overflows /\ Push(sent[n])

(* The outcomes of a byte b for the receive buffer as well.                 *)
NotYet(b) == ~ sync /\ sync' = (b = 0) /\ rx = <<>> /\ rx' = <<>> /\ Quiet
Idles(b) == sync /\ sync' = sync /\ b = 0 /\ rx = <<>> /\ rx' = <<>> /\ Quiet
Refuses(b) ==
  /\ sync /\ sync' = sync /\ b = 0 /\ rx # <<>> /\ rx' = <<>>
  /\ ~ Accepted(CobsDecode(rx)) /\ Erred
Accepts(b, n) ==
  /\ sync /\ sync' = sync /\ b = 0 /\ rx # <<>> /\ rx' = <<>>
  /\ (\E j \in 1..Len(rx) : rx[j] = Crc(n)) /\ Arrives(n)
Overruns(b) ==
  sync /\ sync' = sync /\ b # 0 /\ Len(rx) = MaxWire /\ rx' = <<>> /\ Erred
Stores(b) ==
  sync /\ sync' = sync /\ b # 0 /\ Len(rx) < MaxWire /\ rx' = Append(rx, b) /\ Quiet

(* What a byte does: exactly one of these.                                  *)
LEMMA ByteIs ==
  ASSUME Typed, NEW b \in Nat, Byte(b)
  PROVE  \/ NotYet(b) \/ Idles(b) \/ Refuses(b) \/ Overruns(b) \/ Stores(b)
         \/ \E n \in 1..Len(sent) : Accepts(b, n)
<1>1. CASE Synchronize(b)
  BY <1>1 DEF Synchronize, Typed, NotYet, Quiet
<1>2. CASE Delimiter(b)
  <2>1. CASE rx = <<>>
    BY <1>2, <2>1 DEF Delimiter, Idles, Quiet
  <2>2. CASE rx # <<>>
    <3>1. sync /\ sync' = sync /\ b = 0 /\ rx' = <<>> /\ DecodeReceivedFrame
      BY <1>2, <2>2 DEF Delimiter
    <3>2. CASE ~ Accepted(CobsDecode(rx))
      BY <2>2, <3>1, <3>2 DEF DecodeReceivedFrame, Refuses, Erred
    <3>3. CASE Accepted(CobsDecode(rx))
      <4>1. PICK n \in 1..Len(sent) :
              FrameOf(CobsDecode(rx)) = sent[n] /\ \E j \in 1..Len(rx) : rx[j] = Crc(n)
        BY <3>3, AcceptedIs DEF Typed
      <4>2. Arrives(n)
        BY <3>1, <3>3, <4>1 DEF DecodeReceivedFrame, Arrives
      <4> QED
        BY <2>2, <3>1, <4>1, <4>2 DEF Accepts
    <3> QED
      BY <3>2, <3>3
  <2> QED
    BY <2>1, <2>2
<1>3. CASE TooLong(b)
  <2>1. MaxWire \in Nat
    BY Sizes
  <2>2. Len(rx) = MaxWire
    <3>1. Len(rx) \in Nat /\ Len(rx) <= MaxWire
      BY DEF Typed
    <3>2. Len(rx) >= MaxWire
      BY <1>3 DEF TooLong
    <3> QED
      BY <2>1, <3>1, <3>2
  <2> QED
    BY <1>3, <2>2 DEF TooLong, Overruns, Erred
<1>4. CASE Store(b)
  BY <1>4 DEF Store, Stores, Quiet
<1> QED
  BY <1>1, <1>2, <1>3, <1>4 DEF Byte

(* A byte keeps the types of the receiver and makes a step of the ring.     *)
LEMMA ByteTyped ==
  ASSUME Typed, NEW b \in Nat, Byte(b)
  PROVE  /\ sync' \in BOOLEAN /\ rx' \in Seq(Nat \ {0}) /\ Len(rx') <= MaxWire
         /\ (rx' # <<>> => sync')
         /\ errors' \in Nat /\ overflows' \in Nat /\ arrived' \in Nat
         /\ RingOK' /\ [RingNext]_ringVars
<1> DEFINE Goal == /\ sync' \in BOOLEAN /\ rx' \in Seq(Nat \ {0}) /\ Len(rx') <= MaxWire
                   /\ (rx' # <<>> => sync')
                   /\ errors' \in Nat /\ overflows' \in Nat /\ arrived' \in Nat
                   /\ [RingNext]_ringVars
<1>1. MaxWire \in Nat
  BY Sizes
<1>2. ASSUME rx' = <<>>, sync' \in BOOLEAN, Quiet \/ Erred
      PROVE  Goal
  <2>1. rx' \in Seq(Nat \ {0}) /\ Len(rx') <= MaxWire
    BY <1>1, <1>2
  <2>2. errors' \in Nat /\ overflows' \in Nat /\ arrived' \in Nat /\ UNCHANGED ringVars
    BY <1>2 DEF Typed, Quiet, Erred
  <2> QED
    BY <1>2, <2>1, <2>2
<1>3. ASSUME NotYet(b) \/ Idles(b) \/ Refuses(b) \/ Overruns(b)
      PROVE  Goal
  <2>1. rx' = <<>>
    BY <1>3 DEF NotYet, Idles, Refuses, Overruns
  <2>2. Quiet \/ Erred
    BY <1>3 DEF NotYet, Idles, Refuses, Overruns
  <2>3. sync \in BOOLEAN
    BY DEF Typed
  <2>4. sync' \in BOOLEAN
    BY <1>3, <2>3 DEF NotYet, Idles, Refuses, Overruns
  <2> HIDE DEF Goal
  <2> QED
    BY <1>2, <2>1, <2>2, <2>4, Zenon
<1>6. ASSUME Stores(b)
      PROVE  Goal
  <2>1. b \in Nat \ {0} /\ rx \in Seq(Nat \ {0}) /\ Len(rx) < MaxWire /\ rx' = Append(rx, b) /\ sync'
    BY <1>6 DEF Stores, Typed
  <2>2. rx' \in Seq(Nat \ {0}) /\ Len(rx') = Len(rx) + 1
    BY <2>1, AppendProperties
  <2>3. Len(rx') <= MaxWire
    BY <1>1, <2>1, <2>2
  <2>4. errors' \in Nat /\ overflows' \in Nat /\ arrived' \in Nat /\ UNCHANGED ringVars
    BY <1>6 DEF Stores, Typed, Quiet
  <2>5. sync' \in BOOLEAN
    BY <1>6 DEF Stores, Typed
  <2> QED
    BY <2>1, <2>2, <2>3, <2>4, <2>5
<1>7. ASSUME NEW n \in 1..Len(sent), Accepts(b, n)
      PROVE  Goal
  <2>1. rx' = <<>> /\ sync' \in BOOLEAN /\ Arrives(n)
    BY <1>7 DEF Accepts, Typed
  <2>2. sent[n] \in Frames
    BY DEF Typed
  <2>3. [RingNext]_ringVars
    BY <2>1, <2>2 DEF Arrives, RingNext
  <2>4. errors' \in Nat /\ overflows' \in Nat /\ arrived' \in Nat
    BY <2>1 DEF Arrives, Typed
  <2>5. rx' \in Seq(Nat \ {0}) /\ Len(rx') <= MaxWire
    BY <1>1, <2>1
  <2> QED
    BY <2>1, <2>3, <2>4, <2>5
<1>8. Goal
  <2> HIDE DEF Goal
  <2> QED
    BY <1>3, <1>6, <1>7, ByteIs
<1>9. RingOK'
  BY <1>8, StepRingOK DEF Typed
<1> QED
  BY <1>8, <1>9

(* Cutting the wire leaves a wire, and a number of delimiters behind.       *)
LEMMA CutTyped ==
  ASSUME Typed, NEW m \in Int, NEW k \in Int, 1 <= m, k <= Len(wire)
  PROVE  /\ SubSeq(wire, m, k) \in Seq(Nat) /\ Delimiters(SubSeq(wire, m, k)) \in Nat
         /\ Len(SubSeq(wire, m, k)) = IF m <= k THEN k - m + 1 ELSE 0
         /\ \A i \in 1..(k - m + 1) : SubSeq(wire, m, k)[i] = wire[m + i - 1]
<1> DEFINE s == SubSeq(wire, m, k)
<1>1. \A i \in m..k : wire[i] \in Nat
  <2>1. wire \in Seq(Nat)
    BY DEF Typed
  <2> QED
    BY <2>1
<1>2. /\ s \in Seq(Nat) /\ Len(s) = IF m <= k THEN k - m + 1 ELSE 0
      /\ \A i \in 1..(k - m + 1) : s[i] = wire[m + i - 1]
  BY <1>1, SubSeqProperties
<1> HIDE DEF s
<1>3. DOMAIN s = 1..Len(s) /\ Len(s) \in Nat
  BY <1>2
<1>4. IsFiniteSet(1..Len(s))
  BY <1>3, FS_Interval
<1>5. Cardinality({i \in DOMAIN s : s[i] = 0}) \in Nat
  BY <1>3, <1>4, FS_Subset, FS_CardinalityType
<1> QED
  BY <1>2, <1>5 DEF s, Delimiters

(* Reading a byte.                                                          *)
LEMMA TailIs ==
  ASSUME NEW q \in Seq(Nat), q # <<>>
  PROVE  /\ Len(q) \in Nat \ {0} /\ Head(q) = q[1] /\ q[1] \in Nat
         /\ Tail(q) \in Seq(Nat) /\ Len(Tail(q)) = Len(q) - 1
         /\ \A i \in 1..(Len(q) - 1) : Tail(q)[i] = q[i + 1]
<1>1. Len(q) \in Nat /\ Len(q) # 0
  OBVIOUS
<1> QED
  BY <1>1, HeadTailProperties

(* A frame more on the wire.                                                *)
LEMMA SendIs ==
  ASSUME Typed, NEW f \in Frames
  PROVE  LET n == Len(sent) + 1
             l == Len(Wired(f, n))
             w == wire \o Append(Wired(f, n), 0)
         IN  /\ n \in Nat \ {0} /\ l \in Nat
             /\ w \in Seq(Nat) /\ Len(w) = Len(wire) + l + 1
             /\ \A i \in 1..Len(wire) : w[i] = wire[i]
             /\ \A i \in 1..l : w[Len(wire) + i] = Wired(f, n)[i]
             /\ w[Len(wire) + l + 1] = 0
<1> DEFINE n == Len(sent) + 1
           e == Wired(f, n)
           l == Len(e)
           a == Append(e, 0)
           w == wire \o a
<1>1. n \in Nat \ {0} /\ wire \in Seq(Nat) /\ Len(wire) \in Nat
  BY DEF Typed
<1> HIDE DEF n
<1>2. e \in Seq(Nat \ {0})
  BY <1>1, WiredIs
<1> HIDE DEF e
<1>3. e \in Seq(Nat) /\ l \in Nat
  <2>1. Nat \ {0} \subseteq Nat
    OBVIOUS
  <2>2. e \in Seq(Nat)
    BY <1>2, <2>1, SeqGrows, Zenon
  <2> QED
    BY <2>2
<1>4. /\ a \in Seq(Nat) /\ Len(a) = l + 1 /\ a[l + 1] = 0
      /\ \A i \in 1..l : a[i] = e[i]
  BY <1>3, AppendProperties
<1> HIDE DEF a
<1>5. /\ w \in Seq(Nat) /\ Len(w) = Len(wire) + Len(a)
      /\ \A i \in 1..Len(wire) + Len(a) :
           w[i] = IF i <= Len(wire) THEN wire[i] ELSE a[i - Len(wire)]
  BY <1>1, <1>4, ConcatProperties, Zenon
<1> HIDE DEF w, l
<1>6. \A i \in 1..(l + 1) : w[Len(wire) + i] = a[i]
  <2> TAKE i \in 1..(l + 1)
  <2>1. Len(wire) + i \in 1..Len(wire) + Len(a) /\ ~ (Len(wire) + i <= Len(wire))
        /\ Len(wire) + i - Len(wire) = i
    BY <1>1, <1>3, <1>4
  <2> QED
    BY <1>5, <2>1
<1>7. \A i \in 1..l : w[Len(wire) + i] = e[i]
  BY <1>3, <1>4, <1>6
<1>8. w[Len(wire) + l + 1] = 0
  <2>1. l + 1 \in 1..(l + 1) /\ Len(wire) + (l + 1) = Len(wire) + l + 1
    BY <1>1, <1>3
  <2> QED
    BY <1>4, <1>6, <2>1
<1>9. Len(w) = Len(wire) + l + 1
  BY <1>1, <1>3, <1>4, <1>5
<1>10. \A i \in 1..Len(wire) : w[i] = wire[i]
  BY <1>1, <1>3, <1>4, <1>5, SMTT(20)
<1> QED
  BY <1>1, <1>3, <1>5, <1>7, <1>8, <1>9, <1>10 DEF n, e, l, a, w

(* The initial state is typed.                                              *)
LEMMA InitTyped == Init => Typed /\ RingInit
<1> SUFFICES ASSUME Init PROVE Typed /\ RingInit
  OBVIOUS
<1>1. RingInit /\ RingOK
  BY InitRingOK DEF Init
<1>2. MaxWire \in Nat
  BY Sizes
<1>3. rx \in Seq(Nat \ {0}) /\ Len(rx) <= MaxWire /\ rx = <<>>
  BY <1>2 DEF Init
<1>4. sent \in Seq(Frames) /\ Len(sent) = 0 /\ wire \in Seq(Nat) /\ taken \in Seq(Frames)
  BY DEF Init
<1>5. tx = 0 /\ sync = FALSE /\ errors = 0 /\ overflows = 0 /\ arrived = 0
      /\ faults = 0 /\ boots = 0 /\ excused = 1
  BY DEF Init
<1>6. sync \in BOOLEAN /\ (rx # <<>> => sync)
  BY <1>3, <1>5
<1>7. /\ tx \in Nat /\ tx <= Len(sent) /\ errors \in Nat /\ overflows \in Nat
      /\ arrived \in Nat /\ faults \in Nat /\ boots \in Nat /\ excused \in Nat
  BY <1>4, <1>5
<1> QED
  BY <1>1, <1>3, <1>4, <1>6, <1>7 DEF Typed

(* Every step keeps the types; the link uses its ring as FrameRing says.    *)
LEMMA StepTyped == Typed /\ [Next]_vars => Typed' /\ [RingNext]_ringVars
<1> SUFFICES ASSUME Typed, [Next]_vars PROVE Typed' /\ [RingNext]_ringVars
  OBVIOUS
<1> DEFINE Rest == /\ sync' \in BOOLEAN /\ rx' \in Seq(Nat \ {0}) /\ Len(rx') <= MaxWire
                   /\ (rx' # <<>> => sync')
                   /\ errors' \in Nat /\ overflows' \in Nat /\ arrived' \in Nat
                   /\ RingOK' /\ [RingNext]_ringVars
<1>1. UNCHANGED <<receiver, ringVars>> => Rest
  BY DEF Typed, receiver, ringVars, RingOK, Index
<1>2. ASSUME NEW b \in Nat, Byte(b) PROVE Rest
  BY <1>2, ByteTyped
<1>3. wire # <<>> => Head(wire) \in Nat /\ Tail(wire) \in Seq(Nat)
  BY TailIs DEF Typed
<1>4. ASSUME Rest, UNCHANGED <<sent, tx, taken, boots, excused>>, wire' \in Seq(Nat),
             faults' \in Nat
      PROVE  Typed' /\ [RingNext]_ringVars
  BY <1>4 DEF Typed
<1>5. CASE Send
  <2>1. PICK f \in Frames :
          sent' = Append(sent, f) /\ wire' = wire \o Append(Wired(f, Len(sent) + 1), 0)
    BY <1>5 DEF Send, Wired
  <2>2. wire' \in Seq(Nat)
    BY <2>1, SendIs
  <2>3. sent' \in Seq(Frames) /\ tx' \in Nat /\ tx' <= Len(sent')
    BY <1>5, <2>1 DEF Send, Typed
  <2>4. Rest /\ UNCHANGED history
    BY <1>1, <1>5 DEF Send
  <2> QED
    BY <2>2, <2>3, <2>4 DEF Typed, history
<1>6. CASE SenderRestarts
  <2>1. PICK k \in 0..(Len(wire) - 1) :
          /\ wire' = SubSeq(wire, 1, k)
          /\ excused' = excused + Delimiters(SubSeq(wire, k + 1, Len(wire)))
    BY <1>6 DEF SenderRestarts
  <2>2. Len(wire) \in Nat
    BY DEF Typed
  <2>3. wire' \in Seq(Nat)
    BY <2>1, <2>2, CutTyped
  <2>4. excused' \in Nat
    <3>1. Delimiters(SubSeq(wire, k + 1, Len(wire))) \in Nat
      BY <2>2, CutTyped
    <3>2. excused \in Nat
      BY DEF Typed
    <3> QED
      BY <2>1, <3>1, <3>2
  <2>5. Rest
    BY <1>1, <1>6 DEF SenderRestarts
  <2>6. tx' \in Nat /\ tx' <= Len(sent') /\ sent' \in Seq(Frames)
    BY <1>6 DEF SenderRestarts, Typed
  <2> QED
    BY <1>6, <2>3, <2>4, <2>5, <2>6, SMTT(20) DEF SenderRestarts, Typed
<1>7. CASE Poll
  <2>1. Rest
    BY <1>2, <1>3, <1>7 DEF Poll
  <2> QED
    BY <1>3, <1>4, <1>7, <2>1 DEF Poll, sender, history, Typed
<1>8. CASE PollDamaged
  <2>1. Damaged \subseteq Nat
    BY LinkConstants DEF Bytes
  <2>2. Rest
    BY <1>1, <1>2, <1>8, <2>1 DEF PollDamaged
  <2>3. wire' \in Seq(Nat)
    BY <1>3, <1>8 DEF PollDamaged, Typed
  <2>4. faults' \in Nat
    BY <1>8 DEF PollDamaged, Typed
  <2> QED
    BY <1>4, <1>8, <2>2, <2>3, <2>4 DEF PollDamaged, sender
<1>9. CASE Take
  <2>1. RingNext /\ taken' = Append(taken, given')
    BY <1>9 DEF Take, RingNext
  <2>2. RingOK'
    BY <2>1, StepRingOK DEF Typed
  <2>3. taken' \in Seq(Frames)
    BY <2>1, <2>2 DEF Typed, RingOK
  <2> QED
    BY <1>9, <2>1, <2>2, <2>3 DEF Take, Typed, sender, receiver
<1>10. CASE ReceiverRestarts
  <2>1. PICK k \in 0..Len(wire) :
          /\ wire' = SubSeq(wire, k + 1, Len(wire))
          /\ excused' = excused + Delimiters(SubSeq(wire, 1, k)) + 1
    BY <1>10 DEF ReceiverRestarts
  <2>2. Len(wire) \in Nat
    BY DEF Typed
  <2>3. wire' \in Seq(Nat)
    BY <2>1, <2>2, CutTyped
  <2>4. excused' \in Nat
    <3>1. Delimiters(SubSeq(wire, 1, k)) \in Nat
      BY <2>2, CutTyped
    <3>2. excused \in Nat
      BY DEF Typed
    <3> QED
      BY <2>1, <3>1, <3>2
  <2>5. RingNext
    BY <1>10 DEF ReceiverRestarts, RingNext
  <2>6. RingOK'
    BY <2>5, StepRingOK DEF Typed
  <2>7. MaxWire \in Nat
    BY Sizes
  <2>8. rx' = <<>> /\ sync' = FALSE
    BY <1>10 DEF ReceiverRestarts, Setup
  <2>9. rx' \in Seq(Nat \ {0}) /\ Len(rx') <= MaxWire
    BY <2>7, <2>8
  <2>10. boots' \in Nat
    BY <1>10 DEF ReceiverRestarts, Typed
  <2> QED
    BY <1>10, <2>3, <2>4, <2>5, <2>6, <2>8, <2>9, <2>10 DEF ReceiverRestarts, Typed, sender
<1>11. CASE UNCHANGED vars
  BY <1>1, <1>11 DEF vars, Typed, sender, history
<1> QED
  BY <1>5, <1>6, <1>7, <1>8, <1>9, <1>10, <1>11 DEF Next

(* The queue of a link, with everything the link does around it, gives the  *)
(* frames of the abstract queue.                                            *)
THEOREM LinkRefinesQueue == Spec => RingImplementsQueue
<1>1. Spec => [][RingNext]_ringVars
  BY InitTyped, StepTyped, PTL DEF Spec
<1>2. Spec => RingSpec
  BY <1>1, InitTyped, PTL DEF Spec, RingSpec
<1> QED
  BY <1>2, RingRefinesQueue, PTL

------------------------------------------------------------------------------
(* Every frame at most once, and in order                                   *)

(* Every CRC is on its way at most once, in the order of sending, and after *)
(* the m-th: r has been received, w is on the wire, N frames were sent.     *)
Rising(q) ==
  \A i, j \in 1..Len(q) : i < j /\ q[i] > CrcBase /\ q[j] > CrcBase => q[i] < q[j]
Within(q, m, N) ==
  \A i \in 1..Len(q) : q[i] <= CrcBase + N /\ (q[i] > CrcBase => q[i] > CrcBase + m)
Ordered(r, w, m, N) ==
  /\ Rising(r) /\ Rising(w) /\ Within(r, m, N) /\ Within(w, m, N)
  /\ \A i \in 1..Len(r), j \in 1..Len(w) : r[i] > CrcBase /\ w[j] > CrcBase => r[i] < w[j]
Underway(m) == Ordered(rx, wire, m, Len(sent))

(* w is what remains of q when its ends are cut off.                        *)
Stretch(w, q) ==
  \E d \in Nat : d + Len(w) <= Len(q) /\ \A i \in 1..Len(w) : w[i] = q[d + i]

(* Cutting the beginning off.                                               *)
LEMMA CutFront ==
  ASSUME Typed, NEW k \in 0..Len(wire)
  PROVE  LET t == SubSeq(wire, k + 1, Len(wire)) IN
         Len(t) = Len(wire) - k /\ \A i \in 1..Len(t) : t[i] = wire[k + i]
<1> DEFINE t == SubSeq(wire, k + 1, Len(wire))
<1>1. wire \in Seq(Nat) /\ Len(wire) \in Nat
  BY DEF Typed
<1>2. /\ Len(t) = IF k + 1 <= Len(wire) THEN Len(wire) - (k + 1) + 1 ELSE 0
      /\ \A i \in 1..(Len(wire) - (k + 1) + 1) : t[i] = wire[(k + 1) + i - 1]
  <2>1. k + 1 \in Int /\ 1 <= k + 1
    BY <1>1
  <2> QED
    BY <1>1, <2>1, CutTyped
<1> HIDE DEF t
<1>3. Len(t) = Len(wire) - k
  BY <1>1, <1>2
<1>4. ASSUME NEW i \in 1..Len(t) PROVE t[i] = wire[k + i]
  <2>1. i \in 1..(Len(wire) - (k + 1) + 1) /\ (k + 1) + i - 1 = k + i
    BY <1>1, <1>3
  <2> QED
    BY <1>2, <2>1
<1> QED
  BY <1>3, <1>4 DEF t

(* Reading, and either restart, leaves such a stretch of the wire.          *)
LEMMA StretchOfWire ==
  ASSUME Typed
  PROVE  /\ Stretch(wire, wire)
         /\ wire # <<>> => Stretch(Tail(wire), wire)
         /\ \A k \in 0..Len(wire) :
              Stretch(SubSeq(wire, 1, k), wire) /\ Stretch(SubSeq(wire, k + 1, Len(wire)), wire)
<1>1. wire \in Seq(Nat) /\ Len(wire) \in Nat
  BY DEF Typed
<1>2. Stretch(wire, wire)
  <2>1. 0 + Len(wire) <= Len(wire) /\ \A i \in 1..Len(wire) : wire[i] = wire[0 + i]
    BY <1>1
  <2> QED
    BY <2>1 DEF Stretch
<1>3. ASSUME wire # <<>> PROVE Stretch(Tail(wire), wire)
  <2>1. /\ Len(Tail(wire)) = Len(wire) - 1
        /\ \A i \in 1..(Len(wire) - 1) : Tail(wire)[i] = wire[i + 1]
    BY <1>1, <1>3, TailIs
  <2>2. 1 + Len(Tail(wire)) <= Len(wire) /\ \A i \in 1..Len(Tail(wire)) : Tail(wire)[i] = wire[1 + i]
    BY <1>1, <2>1
  <2> QED
    BY <2>2 DEF Stretch
<1>4. ASSUME NEW k \in 0..Len(wire)
      PROVE  Stretch(SubSeq(wire, 1, k), wire) /\ Stretch(SubSeq(wire, k + 1, Len(wire)), wire)
  <2> DEFINE s == SubSeq(wire, 1, k)
             t == SubSeq(wire, k + 1, Len(wire))
  <2>1. /\ Len(s) = IF 1 <= k THEN k - 1 + 1 ELSE 0
        /\ \A i \in 1..(k - 1 + 1) : s[i] = wire[1 + i - 1]
    BY <1>1, CutTyped
  <2>2. Len(t) = Len(wire) - k /\ \A i \in 1..Len(t) : t[i] = wire[k + i]
    BY CutFront
  <2> HIDE DEF s, t
  <2>3. 0 + Len(s) <= Len(wire) /\ \A i \in 1..Len(s) : s[i] = wire[0 + i]
    <3>1. Len(s) = k
      BY <1>1, <2>1
    <3>2. ASSUME NEW i \in 1..Len(s) PROVE s[i] = wire[0 + i]
      <4>1. i \in 1..(k - 1 + 1) /\ 1 + i - 1 = 0 + i
        BY <3>1
      <4> QED
        BY <2>1, <4>1
    <3> QED
      BY <1>1, <3>1, <3>2
  <2>4. k + Len(t) <= Len(wire) /\ \A i \in 1..Len(t) : t[i] = wire[k + i]
    BY <1>1, <2>2
  <2>5. Stretch(s, wire)
    BY <2>3 DEF Stretch
  <2>6. Stretch(t, wire)
    <3>1. k \in Nat
      OBVIOUS
    <3> QED
      BY <2>4, <3>1 DEF Stretch
  <2> QED
    BY <2>5, <2>6 DEF s, t
<1> QED
  BY <1>2, <1>3, <1>4

(* What is on its way is two sequences of numbers, before and after a step. *)
LEMMA Numeric ==
  /\ CrcBase \in Nat /\ CrcBase > 0
  /\ Typed => /\ wire \in Seq(Nat) /\ Len(wire) \in Nat /\ Len(sent) \in Nat
              /\ rx \in Seq(Nat \ {0}) /\ Len(rx) \in Nat
  /\ Typed' => /\ wire' \in Seq(Nat) /\ Len(wire') \in Nat /\ Len(sent') \in Nat
               /\ rx' \in Seq(Nat \ {0}) /\ Len(rx') \in Nat
<1>1. CrcBase \in Nat /\ CrcBase > 0
  BY Sizes
<1>2. ASSUME Typed
      PROVE  /\ wire \in Seq(Nat) /\ Len(wire) \in Nat /\ Len(sent) \in Nat
             /\ rx \in Seq(Nat \ {0}) /\ Len(rx) \in Nat
  BY <1>2 DEF Typed
<1>3. ASSUME Typed'
      PROVE  /\ wire' \in Seq(Nat) /\ Len(wire') \in Nat /\ Len(sent') \in Nat
             /\ rx' \in Seq(Nat \ {0}) /\ Len(rx') \in Nat
  <2>1. wire' \in Seq(Nat) /\ rx' \in Seq(Nat \ {0}) /\ sent' \in Seq(Frames)
    BY <1>3, Zenon DEF Typed
  <2> QED
    BY <2>1
<1> QED
  BY <1>1, <1>2, <1>3

(* Cutting the wire and reading it changes nothing of that.                 *)
LEMMA UnderwayCut ==
  ASSUME Typed, Typed', NEW m \in Nat, Underway(m), sent' = sent, Stretch(wire', wire),
         \/ rx' = <<>> \/ rx' = rx
         \/ \E b \in Nat : rx' = Append(rx, b) /\ b <= CrcBase
         \/ wire # <<>> /\ rx' = Append(rx, wire[1]) /\ wire' = Tail(wire)
  PROVE  Underway(m)'
<1>1. /\ wire \in Seq(Nat) /\ Len(wire) \in Nat /\ wire' \in Seq(Nat) /\ Len(wire') \in Nat
      /\ rx \in Seq(Nat \ {0}) /\ Len(rx) \in Nat /\ rx' \in Seq(Nat \ {0}) /\ Len(rx') \in Nat
      /\ CrcBase \in Nat /\ Len(sent) \in Nat
  BY Numeric
<1>2. PICK d \in Nat : d + Len(wire') <= Len(wire)
                       /\ \A i \in 1..Len(wire') : wire'[i] = wire[d + i]
  BY DEF Stretch
<1>3. \A i \in 1..Len(wire') : d + i \in 1..Len(wire) /\ wire'[i] = wire[d + i]
  BY <1>1, <1>2
<1>4. /\ \A i, j \in 1..Len(wire') :
           i < j /\ wire'[i] > CrcBase /\ wire'[j] > CrcBase => wire'[i] < wire'[j]
      /\ \A i \in 1..Len(wire') : wire'[i] <= CrcBase + Len(sent)
      /\ \A i \in 1..Len(wire') : wire'[i] > CrcBase => wire'[i] > CrcBase + m
  <2>1. \A i, j \in 1..Len(wire') : i < j => d + i < d + j
    BY <1>2
  <2> QED
    BY <1>3, <2>1 DEF Underway, Ordered, Rising, Within
<1> DEFINE Fits(r) ==
      /\ \A i, j \in 1..Len(r) : i < j /\ r[i] > CrcBase /\ r[j] > CrcBase => r[i] < r[j]
      /\ \A i \in 1..Len(r), j \in 1..Len(wire') :
           r[i] > CrcBase /\ wire'[j] > CrcBase => r[i] < wire'[j]
      /\ \A i \in 1..Len(r) : r[i] <= CrcBase + Len(sent)
      /\ \A i \in 1..Len(r) : r[i] > CrcBase => r[i] > CrcBase + m
<1>6. Fits(rx)
  BY <1>3 DEF Underway, Ordered, Rising, Within
<1>7. ASSUME NEW b \in Nat, rx' = Append(rx, b),
             \/ b <= CrcBase
             \/ /\ b > CrcBase => \A i \in 1..Len(rx) : rx[i] > CrcBase => rx[i] < b
                /\ b > CrcBase => \A j \in 1..Len(wire') : wire'[j] > CrcBase => b < wire'[j]
                /\ b <= CrcBase + Len(sent) /\ (b > CrcBase => b > CrcBase + m)
      PROVE  Fits(rx')
  <2>1. /\ Len(rx') = Len(rx) + 1 /\ rx'[Len(rx) + 1] = b
        /\ \A i \in 1..Len(rx) : rx'[i] = rx[i]
    <3>1. rx \in Seq(Nat) /\ b \in Nat
      BY <1>1
    <3> QED
      BY <1>7, <3>1, AppendProperties
  <2>2. \A i \in 1..Len(rx') : i \in 1..Len(rx) \/ i = Len(rx) + 1
    BY <1>1, <2>1
  <2>3. CrcBase <= CrcBase + Len(sent)
    BY <1>1
  <2>4. ASSUME NEW i \in 1..Len(rx'), NEW j \in 1..Len(rx'), i < j,
               rx'[i] > CrcBase, rx'[j] > CrcBase
        PROVE  rx'[i] < rx'[j]
    <3>1. i \in 1..Len(rx)
      BY <1>1, <2>1, <2>2, <2>4
    <3>2. CASE j \in 1..Len(rx)
      BY <1>6, <2>1, <2>4, <3>1, <3>2
    <3>3. CASE j = Len(rx) + 1
      <4>1. rx'[j] = b /\ rx'[i] = rx[i] /\ rx[i] > CrcBase /\ b > CrcBase
        BY <2>1, <2>4, <3>1, <3>3
      <4>2. ~ (b <= CrcBase)
        BY <1>1, <4>1
      <4> QED
        BY <1>7, <3>1, <4>1, <4>2
    <3> QED
      BY <2>2, <3>2, <3>3
  <2>5. ASSUME NEW i \in 1..Len(rx'), NEW j \in 1..Len(wire'),
               rx'[i] > CrcBase, wire'[j] > CrcBase
        PROVE  rx'[i] < wire'[j]
    <3>1. CASE i \in 1..Len(rx)
      BY <1>6, <2>1, <2>5, <3>1
    <3>2. CASE i = Len(rx) + 1
      <4>1. rx'[i] = b /\ b > CrcBase
        BY <2>1, <2>5, <3>2
      <4>2. ~ (b <= CrcBase)
        BY <1>1, <4>1
      <4> QED
        BY <1>7, <2>5, <4>1, <4>2
    <3> QED
      BY <2>2, <3>1, <3>2
  <2>6. ASSUME NEW i \in 1..Len(rx')
        PROVE  rx'[i] <= CrcBase + Len(sent) /\ (rx'[i] > CrcBase => rx'[i] > CrcBase + m)
    <3>1. CASE i \in 1..Len(rx)
      BY <1>6, <2>1, <3>1
    <3>2. CASE i = Len(rx) + 1
      <4>1. rx'[i] = b
        BY <2>1, <3>2
      <4>2. CASE b <= CrcBase
        BY <1>1, <2>3, <4>1, <4>2
      <4>3. CASE ~ (b <= CrcBase)
        BY <1>7, <4>1, <4>3
      <4> QED
        BY <4>2, <4>3
    <3> QED
      BY <2>2, <3>1, <3>2
  <2> QED
    BY <2>4, <2>5, <2>6
<1>8. ASSUME wire # <<>>, rx' = Append(rx, wire[1]), wire' = Tail(wire)
      PROVE  Fits(rx')
  <2>1. wire[1] \in Nat /\ 1 \in 1..Len(wire)
    BY <1>1, <1>8, TailIs
  <2>2. /\ \A i \in 1..Len(rx) : rx[i] > CrcBase /\ wire[1] > CrcBase => rx[i] < wire[1]
        /\ wire[1] <= CrcBase + Len(sent) /\ (wire[1] > CrcBase => wire[1] > CrcBase + m)
    BY <2>1 DEF Underway, Ordered, Within
  <2>3. \A j \in 1..Len(wire') : wire[1] > CrcBase /\ wire'[j] > CrcBase => wire[1] < wire'[j]
    <3> TAKE j \in 1..Len(wire')
    <3>1. wire'[j] = wire[j + 1] /\ j + 1 \in 1..Len(wire) /\ 1 < j + 1
      BY <1>1, <1>8, TailIs
    <3> QED
      BY <2>1, <3>1 DEF Underway, Ordered, Rising
  <2> HIDE DEF Fits
  <2> QED
    BY <1>7, <1>8, <2>1, <2>2, <2>3
<1>9. Fits(rx')
  <2> HIDE DEF Fits
  <2>1. CASE rx' = rx
    BY <1>6, <2>1
  <2>2. CASE \E b \in Nat : rx' = Append(rx, b) /\ b <= CrcBase
    BY <1>7, <2>2
  <2>3. Fits(<<>>)
    BY DEF Fits
  <2> QED
    BY <1>8, <2>1, <2>2, <2>3
<1> QED
  BY <1>1, <1>4, <1>9 DEF Underway, Ordered, Rising, Within

(* v is w with a frame behind it, whose CRC stands at k.                    *)
OneMore(v, w, k, N) ==
  \A i \in 1..Len(v) : \/ i \in 1..Len(w) /\ v[i] = w[i]
                       \/ v[i] <= CrcBase
                       \/ i = k /\ v[i] = CrcBase + (N + 1)

(* The CRC of the frame sent last is behind all others.                     *)
LEMMA OrderedSend ==
  ASSUME NEW r \in Seq(Nat), NEW w \in Seq(Nat), NEW v \in Seq(Nat), CrcBase \in Nat,
         NEW m \in Nat, NEW N \in Nat, m <= N, Ordered(r, w, m, N), NEW k \in Nat,
         OneMore(v, w, k, N), k > Len(w)
  PROVE  Ordered(r, v, m, N + 1)
<1>1. \A i \in 1..Len(w) : w[i] \in Nat /\ w[i] <= CrcBase + N /\ (w[i] > CrcBase => w[i] > CrcBase + m)
  BY DEF Ordered, Within
<1>2. \A i \in 1..Len(r) : r[i] \in Nat /\ r[i] <= CrcBase + N /\ (r[i] > CrcBase => r[i] > CrcBase + m)
  BY DEF Ordered, Within
<1>3. \A i \in 1..Len(v) : v[i] \in Nat
  OBVIOUS
<1>4. Len(w) \in Nat /\ Len(v) \in Nat /\ Len(r) \in Nat
  OBVIOUS
<1>5. \A i \in 1..Len(v) : v[i] <= CrcBase + (N + 1) /\ (v[i] > CrcBase => v[i] > CrcBase + m)
  <2> TAKE i \in 1..Len(v)
  <2>1. \/ i \in 1..Len(w) /\ v[i] = w[i]
        \/ v[i] <= CrcBase
        \/ i = k /\ v[i] = CrcBase + (N + 1)
    BY DEF OneMore
  <2>2. v[i] \in Nat
    BY <1>3
  <2> QED
    <3>1. CASE i \in 1..Len(w) /\ v[i] = w[i]
      <4>1. w[i] <= CrcBase + N /\ (w[i] > CrcBase => w[i] > CrcBase + m)
        BY <1>1, <3>1
      <4> QED
        BY <2>2, <3>1, <4>1
    <3>2. CASE v[i] <= CrcBase
      BY <2>2, <3>2
    <3>3. CASE i = k /\ v[i] = CrcBase + (N + 1)
      BY <3>3
    <3> QED
      BY <2>1, <3>1, <3>2, <3>3
<1>6. Within(r, m, N + 1)
  BY <1>2 DEF Within
<1>7. ASSUME NEW i \in 1..Len(v), NEW j \in 1..Len(v), i < j, v[i] > CrcBase, v[j] > CrcBase
      PROVE  v[i] < v[j]
  <2>1. ~ (v[i] <= CrcBase) /\ ~ (v[j] <= CrcBase)
    <3>1. v[i] \in Nat /\ v[j] \in Nat
      BY <1>3
    <3> QED
      <4>1. v[i] > CrcBase /\ v[j] > CrcBase
        BY <1>7, Zenon
      <4> QED
        BY <3>1, <4>1, SMTT(20)
  <2>2. CASE j \in 1..Len(w) /\ v[j] = w[j]
    <3>1. i \in 1..Len(w) /\ i # k
      BY <1>4, <1>7, <2>2
    <3>2. v[i] = w[i]
      BY <2>1, <3>1 DEF OneMore
    <3> QED
      BY <1>7, <2>2, <3>1, <3>2 DEF Ordered, Rising
  <2>3. CASE j = k /\ v[j] = CrcBase + (N + 1)
    <3>1. i \in 1..Len(w) /\ v[i] = w[i]
      <4>1. i # k
        BY <1>7, <2>3
      <4> QED
        BY <2>1, <4>1 DEF OneMore
    <3> QED
      <4>1. w[i] \in Nat /\ w[i] <= CrcBase + N
        BY <1>1, <3>1
      <4> QED
        BY <2>3, <3>1, <4>1
  <2> QED
    BY <2>1, <2>2, <2>3 DEF OneMore
<1>8. ASSUME NEW i \in 1..Len(r), NEW j \in 1..Len(v), r[i] > CrcBase, v[j] > CrcBase
      PROVE  r[i] < v[j]
  <2>1. ~ (v[j] <= CrcBase)
    <3>1. v[j] \in Nat
      BY <1>3
    <3> QED
      BY <1>8, <3>1
  <2>2. CASE j \in 1..Len(w) /\ v[j] = w[j]
    BY <1>8, <2>2 DEF Ordered
  <2>3. CASE v[j] = CrcBase + (N + 1)
    <3>1. r[i] \in Nat /\ r[i] <= CrcBase + N
      BY <1>2
    <3> QED
      BY <2>3, <3>1
  <2> QED
    BY <2>1, <2>2, <2>3 DEF OneMore
<1>9. Rising(v) /\ Rising(r)
  BY <1>7 DEF Rising, Ordered
<1> QED
  BY <1>5, <1>6, <1>8, <1>9 DEF Ordered, Within

(* That is what sending does.                                               *)
LEMMA UnderwaySend ==
  ASSUME Typed, Typed', NEW m \in Nat, Underway(m), m <= Len(sent), NEW f \in Frames,
         sent' = Append(sent, f), rx' = rx,
         wire' = wire \o Append(Wired(f, Len(sent) + 1), 0)
  PROVE  Underway(m)'
<1> DEFINE n == Len(sent) + 1
           l == Len(Wired(f, n))
           v == wire \o Append(Wired(f, n), 0)
<1>1. /\ wire \in Seq(Nat) /\ Len(wire) \in Nat /\ rx \in Seq(Nat \ {0}) /\ Len(rx) \in Nat
      /\ CrcBase \in Nat /\ Len(sent) \in Nat
  BY Numeric
<1>2. Len(sent') = n
  <2>1. sent \in Seq(Frames)
    BY DEF Typed
  <2> QED
    BY <2>1, AppendProperties
<1>3. n \in Nat \ {0} /\ l \in Nat /\ Len(v) = Len(wire) + l + 1 /\ v \in Seq(Nat)
  BY SendIs
<1>4. /\ \A i \in 1..Len(wire) : v[i] = wire[i]
      /\ \A i \in 1..l : v[Len(wire) + i] = Wired(f, n)[i]
      /\ v[Len(wire) + l + 1] = 0
  BY SendIs
<1>5. l > 1 /\ Wired(f, n)[l] = Crc(n) /\ \A i \in 1..(l - 1) : Wired(f, n)[i] <= CrcBase
  BY <1>3, WiredIs
<1>6. n = Len(sent) + 1
  OBVIOUS
<1>7. wire' = v
  OBVIOUS
<1> HIDE DEF n, l, v
<1>8. ASSUME NEW i \in 1..Len(v)
      PROVE  \/ i \in 1..Len(wire) /\ v[i] = wire[i]
             \/ v[i] <= CrcBase
             \/ i = Len(wire) + l /\ v[i] = CrcBase + (Len(sent) + 1)
  <2>1. \/ i \in 1..Len(wire)
        \/ i - Len(wire) \in 1..(l - 1) /\ Len(wire) + (i - Len(wire)) = i
        \/ i = Len(wire) + l
        \/ i = Len(wire) + l + 1
    <3> DEFINE h == Len(wire)
    <3>1. h \in Nat /\ l \in Nat /\ i \in Nat /\ 1 <= i /\ i <= h + l + 1
      BY <1>1, <1>3
    <3> HIDE DEF h
    <3>2. \/ i \in 1..h
          \/ i - h \in 1..(l - 1) /\ h + (i - h) = i
          \/ i = h + l
          \/ i = h + l + 1
      BY <3>1
    <3> QED
      BY <3>2 DEF h
  <2>2. CASE i - Len(wire) \in 1..(l - 1) /\ Len(wire) + (i - Len(wire)) = i
    <3>1. i - Len(wire) \in 1..l
      BY <1>3, <2>2
    <3>2. v[i] = Wired(f, n)[i - Len(wire)]
      BY <1>4, <2>2, <3>1
    <3> QED
      BY <1>5, <2>2, <3>2
  <2>3. CASE i = Len(wire) + l
    <3>1. l \in 1..l
      BY <1>3, <1>5
    <3> QED
      BY <1>4, <1>5, <1>6, <2>3, <3>1 DEF Crc
  <2>4. CASE i = Len(wire) + l + 1
    BY <1>1, <1>4, <2>4
  <2> QED
    BY <1>4, <2>1, <2>2, <2>3, <2>4
<1>9. rx \in Seq(Nat)
  <2>1. Nat \ {0} \subseteq Nat
    OBVIOUS
  <2> QED
    BY <1>1, <2>1, SeqGrows, Zenon
<1>10. Len(wire) + l \in Nat /\ Len(wire) + l > Len(wire)
  BY <1>1, <1>3, <1>5
<1>11. OneMore(v, wire, Len(wire) + l, Len(sent))
  BY <1>8 DEF OneMore
<1>12. Ordered(rx, wire, m, Len(sent))
  BY DEF Underway
<1>13. Ordered(rx, v, m, Len(sent) + 1)
  BY <1>1, <1>3, <1>9, <1>10, <1>11, <1>12, OrderedSend
<1> QED
  BY <1>2, <1>6, <1>7, <1>13 DEF Underway

(* What was taken and what waits are frames that were sent, by the places a *)
(* and c, of the first m: one class in order, and the queue in order.       *)
Agrees(s, t, q, a, c, m) ==
  /\ \A i \in 1..Len(t) : a[i] \in 1..m /\ t[i] = s[a[i]]
  /\ \A j \in 1..Len(q) : c[j] \in 1..m /\ q[j] = s[c[j]]
  /\ \A i, j \in 1..Len(t) : i < j /\ SameClass(t[i], t[j]) => a[i] < a[j]
  /\ \A i, j \in 1..Len(q) : i < j => c[i] < c[j]
  /\ \A i \in 1..Len(t), j \in 1..Len(q) : SameClass(t[i], q[j]) => a[i] < c[j]

(* It stays so when a frame is sent.                                        *)
LEMMA AgreesSend ==
  ASSUME NEW s \in Seq(Frames), NEW t \in Seq(Frames), NEW q \in Seq(Frames), NEW a, NEW c,
         NEW m \in Nat, m <= Len(s), Agrees(s, t, q, a, c, m), NEW f \in Frames
  PROVE  Agrees(Append(s, f), t, q, a, c, m)
<1>1. \A i \in 1..Len(s) : Append(s, f)[i] = s[i]
  BY AppendProperties
<1>2. 1..m \subseteq 1..Len(s)
  OBVIOUS
<1>3. \A i \in 1..Len(t) : a[i] \in 1..m /\ t[i] = Append(s, f)[a[i]]
  BY <1>1, <1>2 DEF Agrees
<1>4. \A j \in 1..Len(q) : c[j] \in 1..m /\ q[j] = Append(s, f)[c[j]]
  BY <1>1, <1>2 DEF Agrees
<1> QED
  BY <1>3, <1>4 DEF Agrees

(* It stays so when a frame is lost, and when the queue is.                 *)
LEMMA AgreesLater ==
  ASSUME NEW s \in Seq(Frames), NEW t \in Seq(Frames), NEW q \in Seq(Frames), NEW a, NEW c,
         NEW m \in Nat, NEW n \in Nat, m <= n, Agrees(s, t, q, a, c, m)
  PROVE  Agrees(s, t, q, a, c, n) /\ Agrees(s, t, <<>>, a, c, n)
<1>1. 1..m \subseteq 1..n
  OBVIOUS
<1> QED
  BY <1>1 DEF Agrees

(* It stays so when a later frame arrives.                                  *)
LEMMA AgreesArrive ==
  ASSUME NEW s \in Seq(Frames), NEW t \in Seq(Frames), NEW q \in Seq(Frames), NEW a, NEW c,
         NEW m \in Nat, NEW n \in 1..Len(s), m < n, Agrees(s, t, q, a, c, m)
  PROVE  \E d : Agrees(s, t, Append(q, s[n]), a, d, n)
<1> DEFINE r == Append(q, s[n])
           l == Len(q)
           d == [j \in 1..(l + 1) |-> IF j <= l THEN c[j] ELSE n]
<1>1. l \in Nat /\ n \in Nat /\ n \in 1..n
  OBVIOUS
<1>2. Len(r) = l + 1 /\ r[l + 1] = s[n] /\ \A j \in 1..l : r[j] = q[j]
  BY AppendProperties
<1>3. d[l + 1] = n /\ \A j \in 1..l : d[j] = c[j]
  BY <1>1
<1> HIDE DEF r, l, d
<1>4. \A j \in 1..(l + 1) : j \in 1..l \/ j = l + 1
  BY <1>1
<1>5. /\ \A i \in 1..Len(t) : a[i] \in 1..m /\ t[i] = s[a[i]]
      /\ \A j \in 1..l : c[j] \in 1..m /\ q[j] = s[c[j]]
      /\ \A i, j \in 1..Len(t) : i < j /\ SameClass(t[i], t[j]) => a[i] < a[j]
      /\ \A i, j \in 1..l : i < j => c[i] < c[j]
      /\ \A i \in 1..Len(t), j \in 1..l : SameClass(t[i], q[j]) => a[i] < c[j]
  BY DEF Agrees, l
<1>6. \A x \in 1..m : x \in 1..n /\ x < n
  BY <1>1
<1>7. \A i \in 1..Len(t) : a[i] \in 1..n /\ t[i] = s[a[i]]
  BY <1>5, <1>6
<1>8. \A j \in 1..(l + 1) : d[j] \in 1..n /\ r[j] = s[d[j]]
  BY <1>1, <1>2, <1>3, <1>4, <1>5, <1>6
<1>9. ASSUME NEW i \in 1..(l + 1), NEW j \in 1..(l + 1), i < j PROVE d[i] < d[j]
  <2>1. i \in 1..l
    BY <1>1, <1>9
  <2>2. CASE j \in 1..l
    BY <1>3, <1>5, <1>9, <2>1, <2>2
  <2>3. CASE j = l + 1
    BY <1>3, <1>5, <1>6, <2>1, <2>3
  <2> QED
    BY <1>4, <2>2, <2>3
<1>10. ASSUME NEW i \in 1..Len(t), NEW j \in 1..(l + 1), SameClass(t[i], r[j]) PROVE a[i] < d[j]
  <2>1. CASE j \in 1..l
    BY <1>2, <1>3, <1>5, <1>10, <2>1
  <2>2. CASE j = l + 1
    BY <1>3, <1>5, <1>6, <2>2
  <2> QED
    BY <1>4, <2>1, <2>2
<1>11. Agrees(s, t, r, a, d, n)
  BY <1>2, <1>5, <1>7, <1>8, <1>9, <1>10 DEF Agrees
<1> QED
  BY <1>11 DEF r

(* It stays so when a frame is taken that none of its class stands before.  *)
LEMMA AgreesTake ==
  ASSUME NEW s \in Seq(Frames), NEW t \in Seq(Frames), NEW q \in Seq(Frames), NEW a, NEW c,
         NEW m \in Nat, Agrees(s, t, q, a, c, m), NEW k \in 1..Len(q),
         \A j \in 1..(k - 1) : ~ SameClass(q[k], q[j])
  PROVE  \E b, d : Agrees(s, Append(t, q[k]), Queue!Without(q, k), b, d, m)
<1> DEFINE u == Append(t, q[k])
           r == Queue!Without(q, k)
           h == Len(t)
           l == Len(q)
           b == [i \in 1..(h + 1) |-> IF i <= h THEN a[i] ELSE c[k]]
           d == [j \in 1..(l - 1) |-> IF j < k THEN c[j] ELSE c[j + 1]]
           Place(j) == IF j < k THEN j ELSE j + 1
<1>1. h \in Nat /\ l \in Nat /\ k \in 1..l
  OBVIOUS
<1>2. Len(u) = h + 1 /\ u[h + 1] = q[k] /\ \A i \in 1..h : u[i] = t[i]
  BY AppendProperties
<1>3. Len(r) = l - 1 /\ \A j \in 1..(l - 1) : r[j] = q[Place(j)]
  <2>1. l - 1 \in Nat /\ r = [j \in 1..(l - 1) |-> IF j < k THEN q[j] ELSE q[j + 1]]
    BY <1>1 DEF Queue!Without
  <2> HIDE DEF r, l
  <2> QED
    BY <2>1
<1>4. b[h + 1] = c[k] /\ \A i \in 1..h : b[i] = a[i]
  BY <1>1
<1>5. \A j \in 1..(l - 1) : d[j] = c[Place(j)]
  OBVIOUS
<1>6. /\ \A j \in 1..(l - 1) : Place(j) \in 1..l /\ (Place(j) < k \/ k < Place(j))
      /\ \A i, j \in 1..(l - 1) : i < j => Place(i) < Place(j)
  BY <1>1
<1>7. /\ \A i \in 1..h : a[i] \in 1..m /\ t[i] = s[a[i]]
      /\ \A j \in 1..l : c[j] \in 1..m /\ q[j] = s[c[j]]
      /\ \A i, j \in 1..h : i < j /\ SameClass(t[i], t[j]) => a[i] < a[j]
      /\ \A i, j \in 1..l : i < j => c[i] < c[j]
      /\ \A i \in 1..h, j \in 1..l : SameClass(t[i], q[j]) => a[i] < c[j]
  BY DEF Agrees, h, l
<1>8. \A j \in 1..l : j < k => ~ SameClass(q[k], q[j])
  BY <1>1
<1> HIDE DEF u, r, h, l, b, d, Place
<1>9. \A i \in 1..(h + 1) : i \in 1..h \/ i = h + 1
  BY <1>1
<1>10. \A i \in 1..(h + 1) : b[i] \in 1..m /\ u[i] = s[b[i]]
  BY <1>1, <1>2, <1>4, <1>7, <1>9
<1>11. ASSUME NEW j \in 1..(l - 1) PROVE d[j] \in 1..m /\ r[j] = s[d[j]]
  <2>1. Place(j) \in 1..l /\ r[j] = q[Place(j)] /\ d[j] = c[Place(j)]
    BY <1>3, <1>5, <1>6
  <2> QED
    BY <1>7, <2>1
<1>12. ASSUME NEW i \in 1..(h + 1), NEW j \in 1..(h + 1), i < j, SameClass(u[i], u[j])
       PROVE  b[i] < b[j]
  <2>1. i \in 1..h
    BY <1>1, <1>12
  <2>2. CASE j \in 1..h
    BY <1>2, <1>4, <1>7, <1>12, <2>1, <2>2
  <2>3. CASE j = h + 1
    BY <1>1, <1>2, <1>4, <1>7, <1>12, <2>1, <2>3
  <2> QED
    BY <1>9, <2>2, <2>3
<1>13. \A i, j \in 1..(l - 1) : i < j => d[i] < d[j]
  BY <1>5, <1>6, <1>7
<1>14. ASSUME NEW i \in 1..(h + 1), NEW j \in 1..(l - 1), SameClass(u[i], r[j])
       PROVE  b[i] < d[j]
  <2>1. Place(j) \in 1..l /\ (Place(j) < k \/ k < Place(j)) /\ r[j] = q[Place(j)] /\ d[j] = c[Place(j)]
    BY <1>3, <1>5, <1>6
  <2>2. CASE i \in 1..h
    BY <1>2, <1>4, <1>7, <1>14, <2>1, <2>2
  <2>3. CASE i = h + 1
    <3>1. SameClass(q[k], q[Place(j)]) /\ b[i] = c[k]
      BY <1>2, <1>4, <1>14, <2>1, <2>3
    <3>2. k < Place(j)
      BY <1>8, <2>1, <3>1
    <3> QED
      BY <1>1, <1>7, <2>1, <3>1, <3>2
  <2> QED
    BY <1>9, <2>2, <2>3
<1>15. Agrees(s, u, r, b, d, m)
  BY <1>2, <1>3, <1>10, <1>11, <1>12, <1>13, <1>14 DEF Agrees
<1> QED
  BY <1>15 DEF u, r

(* All frames counted are among the first m, what is on its way is later,   *)
(* and what was taken or waits was sent.                                    *)
Reached(m) ==
  /\ m <= Len(sent) /\ arrived + overflows <= m /\ Underway(m)
  /\ \E a, c : Agrees(sent, taken, Contents, a, c, m)
Delivery == \E m \in Nat : Reached(m)

(* The queue is a sequence of frames, before and after a step.              *)
LEMMA Lists ==
  /\ Typed => sent \in Seq(Frames) /\ taken \in Seq(Frames) /\ Contents \in Seq(Frames)
              /\ arrived \in Nat /\ overflows \in Nat /\ Len(sent) \in Nat
  /\ UNCHANGED ringVars => Contents' = Contents
<1>1. ASSUME Typed
      PROVE  sent \in Seq(Frames) /\ taken \in Seq(Frames) /\ Contents \in Seq(Frames)
             /\ arrived \in Nat /\ overflows \in Nat /\ Len(sent) \in Nat
  <2>1. sent \in Seq(Frames) /\ taken \in Seq(Frames) /\ RingOK /\ arrived \in Nat /\ overflows \in Nat
    BY <1>1, Zenon DEF Typed
  <2>2. Contents \in Seq(Frames)
    BY <2>1, ContentsIs
  <2> QED
    BY <2>1, <2>2
<1>2. UNCHANGED ringVars => Contents' = Contents
  BY DEF ringVars, Contents, Index
<1> QED
  BY <1>1, <1>2

(* Nothing arrives: what is on its way may get less.                        *)
LEMMA DeliveryQuiet ==
  ASSUME Delivery, sent' = sent, taken' = taken, arrived' = arrived, overflows' = overflows,
         Contents' = Contents, \A m \in Nat : Underway(m) => Underway(m)'
  PROVE  Delivery'
<1>1. PICK m \in Nat : Reached(m)
  BY DEF Delivery
<1>2. PICK a, c : Agrees(sent, taken, Contents, a, c, m)
  BY <1>1 DEF Reached
<1>3. Agrees(sent, taken, Contents, a, c, m)'
  BY <1>2 DEF Agrees
<1>4. Underway(m)'
  BY <1>1 DEF Reached
<1>5. m <= Len(sent') /\ arrived' + overflows' <= m
  BY <1>1 DEF Reached
<1>6. \E x, y : Agrees(sent', taken', Contents', x, y, m)
  BY <1>2
<1>7. Reached(m)'
  BY <1>4, <1>5, <1>6 DEF Reached
<1> QED
  BY <1>7 DEF Delivery

(* A byte, its own or another's: a frame that arrives is later than all     *)
(* before it, and nothing older is on its way any more.                     *)
LEMMA DeliveryByte ==
  ASSUME Typed, Typed', Delivery, NEW b \in Nat, Byte(b), sent' = sent, taken' = taken,
         Stretch(wire', wire),
         b <= CrcBase \/ (wire # <<>> /\ b = wire[1] /\ wire' = Tail(wire))
  PROVE  Delivery'
<1>1. ASSUME rx' = <<>> PROVE \A m \in Nat : Underway(m) => Underway(m)'
  BY <1>1, UnderwayCut
<1>2. ASSUME Stores(b) PROVE \A m \in Nat : Underway(m) => Underway(m)'
  <2>1. rx' = Append(rx, b)
    BY <1>2 DEF Stores
  <2> QED
    BY <2>1, UnderwayCut
<1>3. ASSUME Quiet \/ Erred, rx' = <<>> \/ Stores(b)
      PROVE  Delivery'
  <2>1. \A m \in Nat : Underway(m) => Underway(m)'
    BY <1>1, <1>2, <1>3
  <2>2. Contents' = Contents /\ arrived' = arrived /\ overflows' = overflows
    BY <1>3, Lists DEF Quiet, Erred
  <2> QED
    BY <2>1, <2>2, DeliveryQuiet
<1>4. ASSUME NEW n \in 1..Len(sent), Accepts(b, n)
      PROVE  Delivery'
  <2>1. PICK m \in Nat : Reached(m)
    BY DEF Delivery
  <2>2. PICK a, c : Agrees(sent, taken, Contents, a, c, m)
    BY <2>1 DEF Reached
  <2>3. PICK j \in 1..Len(rx) : rx[j] = CrcBase + n
    BY <1>4 DEF Accepts, Crc
  <2>4. n \in Nat /\ n >= 1 /\ n <= Len(sent) /\ CrcBase \in Nat /\ rx[j] > CrcBase
    BY <2>3, Numeric
  <2>5. m < n
    <3>1. rx[j] > CrcBase + m
      BY <2>1, <2>4 DEF Reached, Underway, Ordered, Within
    <3> QED
      BY <2>3, <2>4, <3>1
  <2>6. rx' = <<>> /\ Arrives(n)
    BY <1>4 DEF Accepts
  <2>7. Underway(n)'
    <3>1. Underway(m)'
      BY <1>1, <2>1, <2>6 DEF Reached
    <3>2. ASSUME NEW i \in 1..Len(wire'), wire'[i] > CrcBase PROVE wire'[i] > CrcBase + n
      <4>1. PICK d \in Nat : d + Len(wire') <= Len(wire)
                             /\ \A k \in 1..Len(wire') : wire'[k] = wire[d + k]
        BY DEF Stretch
      <4>2. Len(wire') \in Nat /\ Len(wire) \in Nat
        BY Numeric
      <4>3. d + i \in 1..Len(wire) /\ wire'[i] = wire[d + i]
        BY <4>1, <4>2
      <4> QED
        BY <2>1, <2>3, <2>4, <3>2, <4>3 DEF Reached, Underway, Ordered
    <3>3. Within(wire', n, Len(sent'))
      BY <3>1, <3>2 DEF Underway, Ordered, Within
    <3>4. Within(rx', n, Len(sent'))
      BY <2>6 DEF Within
    <3> QED
      BY <3>1, <3>3, <3>4 DEF Underway, Ordered
  <2>8. Contents \in Seq(Frames) /\ sent \in Seq(Frames) /\ taken \in Seq(Frames)
        /\ arrived \in Nat /\ overflows \in Nat
    BY Lists
  <2>9. m <= n /\ arrived' + overflows' <= n
    <3>1. arrived' + overflows' = arrived + overflows + 1
      <4>1. \/ arrived' = arrived /\ overflows' = overflows + 1
            \/ arrived' = arrived + 1 /\ overflows' = overflows
        BY <2>6, Zenon DEF Arrives
      <4>2. arrived \in Nat /\ overflows \in Nat
        BY <2>8
      <4> QED
        BY <4>1, <4>2
    <3>2. arrived + overflows <= m
      BY <2>1 DEF Reached
    <3> QED
      BY <2>4, <2>5, <2>8, <3>1, <3>2
  <2>10. \E x, y : Agrees(sent', taken', Contents', x, y, n)
    <3>1. CASE Push(sent[n])
      <4>1. sent[n] \in Frames /\ RingOK
        <5>1. RingOK
          BY Zenon DEF Typed
        <5>2. sent[n] \in Frames
          BY <2>8, ElementOfSeq, Zenon
        <5> QED
          BY <5>1, <5>2
      <4>2. Contents' = Append(Contents, sent[n])
        BY <3>1, <4>1, PushArrives DEF Queue!Arrive
      <4>3. \E d : Agrees(sent, taken, Append(Contents, sent[n]), a, d, n)
        BY <2>2, <2>5, <2>8, AgreesArrive
      <4> QED
        BY <4>2, <4>3
    <3>2. CASE UNCHANGED ringVars
      <4>1. Contents' = Contents
        BY <3>2, Lists
      <4>2. Agrees(sent, taken, Contents, a, c, n)
        BY <2>2, <2>4, <2>8, <2>9, AgreesLater
      <4> QED
        BY <4>1, <4>2
    <3> QED
      BY <2>6, <3>1, <3>2 DEF Arrives
  <2>11. Reached(n)'
    BY <2>4, <2>7, <2>9, <2>10 DEF Reached
  <2> QED
    BY <2>4, <2>11 DEF Delivery
<1>5. ASSUME NotYet(b) \/ Idles(b) \/ Refuses(b) \/ Overruns(b)
      PROVE  Delivery'
  BY <1>3, <1>5 DEF NotYet, Idles, Refuses, Overruns
<1>6. ASSUME Stores(b) PROVE Delivery'
  BY <1>3, <1>6 DEF Stores
<1> QED
  BY <1>4, <1>5, <1>6, ByteIs

(* The loop takes a frame: the control frames before the bulk frames.       *)
LEMMA DeliveryTake ==
  ASSUME Typed, Delivery, Take
  PROVE  Delivery'
<1>1. PICK m \in Nat : Reached(m)
  BY DEF Delivery
<1>2. PICK a, c : Agrees(sent, taken, Contents, a, c, m)
  BY <1>1 DEF Reached
<1>3. PopPriority /\ taken' = Append(taken, given')
      /\ UNCHANGED <<sent, rx, wire, arrived, overflows>>
  BY DEF Take, sender, receiver
<1>4. RingOK
  BY Zenon DEF Typed
<1>5. Queue!Give
  <2>1. PICK offset \in 0..(count - 1) :
          Selected(offset) /\ IF offset = 0 THEN Pop ELSE PopAt(offset)
    BY <1>3 DEF PopPriority
  <2>2. CASE offset = 0
    BY <1>4, <2>1, <2>2, PopGives DEF RingOK
  <2>3. CASE offset # 0
    BY <1>4, <2>1, <2>3, PopAtGives DEF RingOK
  <2> QED
    BY <2>2, <2>3
<1>6. PICK k \in 1..Len(Contents) :
        Queue!Chosen(k) /\ given' = Contents[k] /\ Contents' = Queue!Without(Contents, k)
  BY <1>5 DEF Queue!Give
<1>7. \A j \in 1..(k - 1) : ~ SameClass(Contents[k], Contents[j])
  BY <1>6 DEF Queue!Chosen, SameClass
<1>8. \E x, y : Agrees(sent, Append(taken, Contents[k]), Queue!Without(Contents, k), x, y, m)
  <2>1. sent \in Seq(Frames) /\ taken \in Seq(Frames) /\ Contents \in Seq(Frames)
    BY Lists
  <2> QED
    BY <1>2, <1>7, <2>1, AgreesTake
<1>9. \E x, y : Agrees(sent', taken', Contents', x, y, m)
  BY <1>3, <1>6, <1>8
<1>10. Underway(m)' /\ m <= Len(sent') /\ arrived' + overflows' <= m
  BY <1>1, <1>3 DEF Reached, Underway
<1> QED
  BY <1>9, <1>10 DEF Delivery, Reached

(* Nothing is on its way at first.                                          *)
LEMMA InitDelivery == Init => Delivery
<1> SUFFICES ASSUME Init PROVE Delivery
  OBVIOUS
<1>1. sent = <<>> /\ taken = <<>> /\ wire = <<>> /\ rx = <<>> /\ arrived = 0 /\ overflows = 0
  BY DEF Init
<1>2. Contents = <<>>
  BY DEF Init, RingInit, Contents
<1>3. Underway(0)
  BY <1>1 DEF Underway, Ordered, Rising, Within
<1>4. Agrees(sent, taken, Contents, <<>>, <<>>, 0)
  BY <1>1, <1>2 DEF Agrees
<1>5. 0 <= Len(sent) /\ arrived + overflows <= 0
  BY <1>1
<1>6. Reached(0)
  BY <1>3, <1>4, <1>5 DEF Reached
<1> QED
  BY <1>6 DEF Delivery

(* Every step keeps to it: sending, both restarts, every byte and every     *)
(* frame taken.                                                             *)
LEMMA StepDelivery == Typed /\ Typed' /\ Delivery /\ [Next]_vars => Delivery'
<1> SUFFICES ASSUME Typed, Typed', Delivery, [Next]_vars PROVE Delivery'
  OBVIOUS
<1>1. CASE Send
  <2>1. PICK f \in Frames :
          sent' = Append(sent, f) /\ wire' = wire \o Append(Wired(f, Len(sent) + 1), 0)
    BY <1>1 DEF Send, Wired
  <2>2. UNCHANGED <<rx, arrived, overflows, taken, ringVars>>
    BY <1>1 DEF Send, receiver, history
  <2>3. PICK m \in Nat : Reached(m)
    BY DEF Delivery
  <2>4. PICK a, c : Agrees(sent, taken, Contents, a, c, m)
    BY <2>3 DEF Reached
  <2>5. Underway(m)'
    BY <2>1, <2>2, <2>3, UnderwaySend DEF Reached
  <2>6. sent \in Seq(Frames) /\ taken \in Seq(Frames) /\ Contents \in Seq(Frames) /\ Len(sent) \in Nat
    BY Lists
  <2>7. m <= Len(sent) /\ m <= Len(sent') /\ arrived' + overflows' <= m
    <3>1. Len(sent') = Len(sent) + 1
      BY <2>1, <2>6, AppendProperties
    <3> QED
      BY <2>2, <2>3, <2>6, <3>1 DEF Reached
  <2>8. Agrees(Append(sent, f), taken, Contents, a, c, m)
    BY <2>4, <2>6, <2>7, AgreesSend
  <2>9. \E x, y : Agrees(sent', taken', Contents', x, y, m)
    BY <2>1, <2>2, <2>8, Lists
  <2> QED
    BY <2>5, <2>7, <2>9 DEF Delivery, Reached
<1>2. CASE SenderRestarts
  <2>1. UNCHANGED <<sent, rx, arrived, overflows, taken, ringVars>>
    BY <1>2 DEF SenderRestarts, receiver
  <2>2. PICK k \in 0..(Len(wire) - 1) : wire' = SubSeq(wire, 1, k)
    BY <1>2 DEF SenderRestarts
  <2>3. k \in 0..Len(wire)
    BY Numeric
  <2>4. Stretch(wire', wire)
    BY <2>2, <2>3, StretchOfWire
  <2>5. \A m \in Nat : Underway(m) => Underway(m)'
    BY <2>1, <2>4, UnderwayCut
  <2> QED
    BY <2>1, <2>5, DeliveryQuiet, Lists
<1>3. CASE Poll
  <2>1. wire # <<>> /\ Byte(Head(wire)) /\ wire' = Tail(wire) /\ sent' = sent /\ taken' = taken
    BY <1>3 DEF Poll, sender, history
  <2>2. Head(wire) = wire[1] /\ wire[1] \in Nat
    BY <2>1, Numeric, TailIs
  <2>3. Stretch(wire', wire)
    BY <2>1, StretchOfWire
  <2> QED
    BY <2>1, <2>2, <2>3, DeliveryByte
<1>4. CASE PollDamaged
  <2>1. wire # <<>> /\ sent' = sent /\ taken' = taken
    BY <1>4 DEF PollDamaged, sender
  <2>2. \A b \in Damaged : b \in Nat /\ b <= CrcBase
    BY LinkConstants, Sizes DEF Bytes
  <2>3. Stretch(Tail(wire), wire) /\ Stretch(wire, wire)
    BY <2>1, StretchOfWire
  <2>4. \/ (\E b \in Damaged : Byte(b)) /\ (wire' = Tail(wire) \/ wire' = wire)
        \/ wire' = Tail(wire) /\ UNCHANGED <<receiver, ringVars>>
    BY <1>4 DEF PollDamaged
  <2>5. CASE wire' = Tail(wire) /\ UNCHANGED <<receiver, ringVars>>
    <3>1. UNCHANGED <<rx, arrived, overflows>> /\ Contents' = Contents
      BY <2>5, Lists DEF receiver
    <3>2. \A m \in Nat : Underway(m) => Underway(m)'
      BY <2>1, <2>3, <2>5, <3>1, UnderwayCut
    <3> QED
      BY <2>1, <3>1, <3>2, DeliveryQuiet
  <2>6. ASSUME NEW b \in Damaged, Byte(b), wire' = Tail(wire) \/ wire' = wire
        PROVE  Delivery'
    <3>1. b \in Nat /\ b <= CrcBase
      BY <2>2
    <3>2. Stretch(wire', wire)
      BY <2>3, <2>6
    <3> QED
      BY <2>1, <2>6, <3>1, <3>2, DeliveryByte
  <2> QED
    BY <2>4, <2>5, <2>6
<1>5. CASE Take
  BY <1>5, DeliveryTake
<1>6. CASE ReceiverRestarts
  <2>1. UNCHANGED <<sent, arrived, overflows, taken>> /\ rx' = <<>> /\ RingReset
    BY <1>6 DEF ReceiverRestarts, Setup, sender
  <2>2. PICK k \in 0..Len(wire) : wire' = SubSeq(wire, k + 1, Len(wire))
    BY <1>6 DEF ReceiverRestarts
  <2>3. Stretch(wire', wire)
    BY <2>2, StretchOfWire
  <2>4. Contents' = <<>>
    BY <2>1 DEF RingReset, Contents
  <2>5. PICK m \in Nat : Reached(m)
    BY DEF Delivery
  <2>6. PICK a, c : Agrees(sent, taken, Contents, a, c, m)
    BY <2>5 DEF Reached
  <2>7. Underway(m)'
    BY <2>1, <2>3, <2>5, UnderwayCut DEF Reached
  <2>8. Agrees(sent, taken, <<>>, a, c, m)
    BY <2>6, Lists, AgreesLater
  <2>9. \E x, y : Agrees(sent', taken', Contents', x, y, m)
    BY <2>1, <2>4, <2>8
  <2>10. m <= Len(sent') /\ arrived' + overflows' <= m
    BY <2>1, <2>5 DEF Reached
  <2> QED
    BY <2>7, <2>9, <2>10 DEF Delivery, Reached
<1>7. CASE UNCHANGED vars
  <2>1. UNCHANGED <<sent, rx, wire, arrived, overflows, taken, ringVars>>
    BY <1>7 DEF vars, sender, receiver, history
  <2>2. \A m \in Nat : Underway(m) => Underway(m)'
    BY <2>1 DEF Underway
  <2> QED
    BY <2>1, <2>2, DeliveryQuiet, Lists
<1> QED
  BY <1>1, <1>2, <1>3, <1>4, <1>5, <1>6, <1>7 DEF Next

(* Frames are numbered at most as far as they were sent: the ring is sound  *)
(* and no frame is counted twice, whatever the wire does.                   *)
THEOREM LinkTypeCorrect == Spec => []TypeOK
<1>1. Typed /\ Delivery => TypeOK
  <2> SUFFICES ASSUME Typed, Delivery PROVE TypeOK
    OBVIOUS
  <2>1. arrived + overflows <= Len(sent)
    <3>1. PICK m \in Nat : m <= Len(sent) /\ arrived + overflows <= m
      BY DEF Delivery, Reached
    <3> QED
      BY <3>1, Lists
  <2> QED
    BY <2>1 DEF Typed, TypeOK
<1> QED
  BY <1>1, InitTyped, StepTyped, InitDelivery, StepDelivery, PTL DEF Spec

(* Whatever is lost, damaged or made up on the wire, and whoever restarts:  *)
(* the loop gets frames that were sent, whole, none twice, and those of one *)
(* class in the order of sending.                                           *)
THEOREM HandsOutWhatWasSent == Spec => []TakenAsSent
<1>1. Typed /\ Delivery => TakenAsSent
  <2> SUFFICES ASSUME Typed, Delivery PROVE TakenAsSent
    OBVIOUS
  <2>1. PICK m \in Nat : Reached(m)
    BY DEF Delivery
  <2>2. PICK a, c : Agrees(sent, taken, Contents, a, c, m)
    BY <2>1 DEF Reached
  <2>3. DOMAIN taken = 1..Len(taken) /\ DOMAIN sent = 1..Len(sent)
    BY Lists
  <2>4. 1..m \subseteq 1..Len(sent)
    BY <2>1, Lists DEF Reached
  <2> DEFINE at == [i \in DOMAIN taken |-> a[i]]
  <2>5. at \in [DOMAIN taken -> DOMAIN sent]
    BY <2>2, <2>3, <2>4 DEF Agrees
  <2>6. \A i \in DOMAIN taken : taken[i] = sent[at[i]]
    BY <2>2, <2>3 DEF Agrees
  <2>7. \A i, j \in DOMAIN taken : i < j /\ SameClass(taken[i], taken[j]) => at[i] < at[j]
    BY <2>2, <2>3 DEF Agrees
  <2> HIDE DEF at
  <2> QED
    BY <2>5, <2>6, <2>7 DEF TakenAsSent
<1> QED
  BY <1>1, InitTyped, StepTyped, InitDelivery, StepDelivery, PTL DEF Spec

------------------------------------------------------------------------------
(* A link that damages nothing                                              *)

(* Received and not yet decoded, and behind it what is on its way.          *)
Stream == rx \o wire

(* A frame begins behind every delimiter, and at once for a receiver that   *)
(* is synchronized.                                                         *)
Starts(q, first, i) == i \in 1..Len(q) /\ (i \in first \/ (i > 1 /\ q[i - 1] = 0))
AtOnce == IF sync THEN {1} ELSE {}

(* The frame e stands at i, complete.                                       *)
StandsAt(q, i, e) ==
  /\ i + Len(e) <= Len(q) /\ q[i + Len(e)] = 0
  /\ \A j \in 1..Len(e) : q[i + j - 1] = e[j]

(* At every beginning stands a frame that was sent, and the last byte is a  *)
(* delimiter.                                                               *)
Intact(q, first, s) ==
  /\ q # <<>> => q[Len(q)] = 0
  /\ \A i \in 1..Len(q) : Starts(q, first, i) =>
       \E n \in 1..Len(s) : StandsAt(q, i, Wired(s[n], n))

(* v is w without its first k bytes.                                        *)
Rest(v, w, k) == Len(v) = Len(w) - k /\ \A i \in 1..Len(v) : v[i] = w[k + i]

(* Reading, and a restart of the receiver, cuts the beginning off.          *)
LEMMA IntactSuffix ==
  ASSUME NEW q \in Seq(Nat), NEW v \in Seq(Nat), NEW s \in Seq(Frames), NEW d \in Nat,
         NEW first, NEW later, Intact(q, first, s), Rest(v, q, d),
         \A i \in later : i = 1 /\ ((d = 0 /\ 1 \in first) \/ (d > 0 /\ q[d] = 0))
  PROVE  Intact(v, later, s)
<1>1. Len(q) \in Nat /\ Len(v) \in Nat
  OBVIOUS
<1>4. Len(v) = Len(q) - d /\ \A i \in 1..Len(v) : v[i] = q[d + i]
  BY DEF Rest
<1>2. ASSUME v # <<>> PROVE v[Len(v)] = 0
  <2>1. Len(v) \in 1..Len(v) /\ d + Len(v) = Len(q) /\ q # <<>>
    BY <1>1, <1>2, <1>4
  <2>2. v[Len(v)] = q[Len(q)]
    BY <1>4, <2>1
  <2> QED
    BY <2>1, <2>2 DEF Intact
<1>3. ASSUME NEW i \in 1..Len(v), Starts(v, later, i)
      PROVE  \E n \in 1..Len(s) : StandsAt(v, i, Wired(s[n], n))
  <2>1. d + i \in 1..Len(q) /\ i \in Nat
    BY <1>1, <1>4
  <2>2. Starts(q, first, d + i)
    <3>1. CASE i = 1 /\ i \in later
      <4>1. CASE d = 0 /\ 1 \in first
        BY <2>1, <3>1, <4>1 DEF Starts
      <4>2. CASE d > 0 /\ q[d] = 0
        <5>1. d + i - 1 = d /\ d + i > 1
          BY <3>1, <4>2
        <5> QED
          BY <2>1, <4>2, <5>1 DEF Starts
      <4> QED
        BY <3>1, <4>1, <4>2
    <3>2. CASE i > 1 /\ v[i - 1] = 0
      <4>1. i - 1 \in 1..Len(v) /\ d + (i - 1) = d + i - 1 /\ d + i > 1
        BY <1>1, <2>1, <3>2
      <4>2. v[i - 1] = q[d + i - 1]
        BY <1>4, <4>1
      <4> QED
        BY <2>1, <3>2, <4>1, <4>2, SMTT(20) DEF Starts
    <3> QED
      BY <1>3, <3>1, <3>2 DEF Starts
  <2>3. PICK n \in 1..Len(s) : StandsAt(q, d + i, Wired(s[n], n))
    BY <2>1, <2>2 DEF Intact
  <2> DEFINE e == Wired(s[n], n)
  <2>4. Len(e) \in Nat
    <3>1. s[n] \in Frames /\ n \in Nat \ {0}
      OBVIOUS
    <3> QED
      BY <3>1, WiredIs
  <2> HIDE DEF e
  <2>5. d + i + Len(e) <= Len(q) /\ q[d + i + Len(e)] = 0
        /\ \A j \in 1..Len(e) : q[d + i + j - 1] = e[j]
    BY <2>3 DEF StandsAt, e
  <2>6. i + Len(e) \in 1..Len(v) /\ d + (i + Len(e)) = d + i + Len(e)
    BY <1>1, <1>4, <2>1, <2>4, <2>5
  <2>7. v[i + Len(e)] = 0
    BY <1>4, <2>5, <2>6
  <2>8. ASSUME NEW j \in 1..Len(e) PROVE v[i + j - 1] = e[j]
    <3>1. i + j - 1 \in 1..Len(v) /\ d + (i + j - 1) = d + i + j - 1
      BY <1>1, <2>1, <2>4, <2>6
    <3> QED
      BY <1>4, <2>5, <3>1
  <2>9. StandsAt(v, i, e)
    BY <2>6, <2>7, <2>8 DEF StandsAt
  <2> QED
    BY <2>9 DEF e
<1> QED
  BY <1>2, <1>3 DEF Intact

(* A frame more behind the last delimiter.                                  *)
LEMMA IntactSend ==
  ASSUME NEW q \in Seq(Nat), NEW v \in Seq(Nat), NEW s \in Seq(Frames), NEW f \in Frames,
         NEW first \in SUBSET {1}, Intact(q, first, s),
         StandsAt(v, Len(q) + 1, Wired(f, Len(s) + 1)),
         Len(v) = Len(q) + Len(Wired(f, Len(s) + 1)) + 1,
         \A i \in 1..Len(q) : v[i] = q[i]
  PROVE  Intact(v, first, Append(s, f))
<1> DEFINE t == Append(s, f)
           m == Len(s) + 1
           e == Wired(f, m)
<1>1. Len(q) \in Nat /\ Len(v) \in Nat /\ m \in Nat \ {0}
  OBVIOUS
<1>2. Len(t) = m /\ t[m] = f /\ \A n \in 1..Len(s) : t[n] = s[n] /\ n \in 1..m
  BY AppendProperties
<1>3. e \in Seq(Nat \ {0}) /\ Len(e) \in Nat /\ Len(e) > 1
  BY <1>1, WiredIs
<1>4. StandsAt(v, Len(q) + 1, e) /\ Len(v) = Len(q) + Len(e) + 1
  OBVIOUS
<1> HIDE DEF t, m, e
<1>5. ASSUME NEW i \in 1..Len(v), Starts(v, first, i)
      PROVE  \E n \in 1..m : StandsAt(v, i, Wired(t[n], n))
  <2>1. CASE i = Len(q) + 1
    BY <1>1, <1>2, <1>4, <2>1 DEF e
  <2>2. CASE i \in 1..Len(q)
    <3>1. Starts(q, first, i)
      <4>1. CASE i \in first
        BY <2>2, <4>1 DEF Starts
      <4>2. CASE i > 1 /\ v[i - 1] = 0
        <5>1. i - 1 \in 1..Len(q)
          BY <1>1, <2>2, <4>2
        <5>2. q[i - 1] = 0
          BY <4>2, <5>1
        <5> QED
          BY <2>2, <4>2, <5>2 DEF Starts
      <4> QED
        BY <1>5, <4>1, <4>2 DEF Starts
    <3>2. PICK n \in 1..Len(s) : StandsAt(q, i, Wired(s[n], n))
      BY <2>2, <3>1 DEF Intact
    <3> DEFINE d == Wired(s[n], n)
    <3>3. Len(d) \in Nat
      <4>1. s[n] \in Frames /\ n \in Nat \ {0}
        OBVIOUS
      <4> QED
        BY <4>1, WiredIs
    <3> HIDE DEF d
    <3>4. i + Len(d) <= Len(q) /\ q[i + Len(d)] = 0 /\ \A j \in 1..Len(d) : q[i + j - 1] = d[j]
      BY <3>2 DEF StandsAt, d
    <3>5. i + Len(d) \in 1..Len(q) /\ i + Len(d) <= Len(v)
      BY <1>1, <1>3, <1>4, <2>2, <3>3, <3>4
    <3>6. \A j \in 1..Len(d) : i + j - 1 \in 1..Len(q)
      BY <1>1, <2>2, <3>3, <3>5
    <3>7. StandsAt(v, i, d)
      BY <3>4, <3>5, <3>6 DEF StandsAt
    <3> QED
      BY <1>2, <3>7 DEF d
  <2>3. ASSUME i > Len(q) + 1 PROVE FALSE
    <3>1. v[i - 1] = 0
      <4>1. i # 1
        BY <1>1, <2>3
      <4> QED
        BY <1>5, <4>1 DEF Starts
    <3>2. i - 1 - Len(q) \in 1..Len(e) /\ (Len(q) + 1) + (i - 1 - Len(q)) - 1 = i - 1
      BY <1>1, <1>3, <1>4, <2>3, SMTT(20)
    <3>3. v[i - 1] = e[i - 1 - Len(q)]
      BY <1>4, <3>2 DEF StandsAt
    <3>4. e[i - 1 - Len(q)] \in Nat \ {0}
      <4> DEFINE x == i - 1 - Len(q)
      <4>1. x \in 1..Len(e) /\ e \in Seq(Nat \ {0})
        BY <1>3, <3>2
      <4> HIDE DEF x
      <4>2. e[x] \in Nat \ {0}
        BY <4>1, ElementOfSeq
      <4> QED
        BY <4>2 DEF x
    <3> QED
      BY <3>1, <3>3, <3>4
  <2>4. i = Len(q) + 1 \/ i \in 1..Len(q) \/ i > Len(q) + 1
    BY <1>1
  <2> QED
    BY <2>1, <2>2, <2>3, <2>4
<1>6. v[Len(v)] = 0
  <2>1. Len(q) + 1 + Len(e) = Len(v)
    <3> DEFINE a == Len(q)
               b == Len(e)
               c == Len(v)
    <3>1. a \in Nat /\ b \in Nat /\ c = a + b + 1
      BY <1>1, <1>3, <1>4
    <3> HIDE DEF a, b, c
    <3>2. a + 1 + b = c
      BY <3>1
    <3> QED
      BY <3>2 DEF a, b, c
  <2> QED
    BY <1>4, <2>1 DEF StandsAt
<1> QED
  BY <1>2, <1>5, <1>6 DEF Intact, t

(* The stream, byte by byte.                                                *)
LEMMA Joined ==
  ASSUME NEW r \in Seq(Nat \ {0}), NEW w \in Seq(Nat)
  PROVE  /\ r \o w \in Seq(Nat) /\ Len(r \o w) = Len(r) + Len(w)
         /\ Len(r) \in Nat /\ Len(w) \in Nat
         /\ \A i \in 1..Len(r) : (r \o w)[i] = r[i] /\ r[i] \in Nat \ {0}
         /\ \A i \in 1..Len(w) : (r \o w)[Len(r) + i] = w[i]
<1> DEFINE q == r \o w
           a == Len(r)
           b == Len(w)
<1>1. r \in Seq(Nat)
  <2>1. Nat \ {0} \subseteq Nat
    OBVIOUS
  <2> QED
    BY <2>1, SeqGrows, Zenon
<1>2. a \in Nat /\ b \in Nat /\ \A i \in 1..a : r[i] \in Nat \ {0}
  OBVIOUS
<1>3. /\ q \in Seq(Nat) /\ Len(q) = a + b
      /\ \A i \in 1..(a + b) : q[i] = IF i <= a THEN r[i] ELSE w[i - a]
  BY <1>1, ConcatProperties, Zenon
<1> HIDE DEF q, a, b
<1>4. \A i \in 1..a : i \in 1..(a + b) /\ i <= a
  BY <1>2
<1>5. \A i \in 1..b : a + i \in 1..(a + b) /\ ~ (a + i <= a) /\ (a + i) - a = i
  BY <1>2
<1>6. /\ \A i \in 1..a : q[i] = r[i]
      /\ \A i \in 1..b : q[a + i] = w[i]
  BY <1>3, <1>4, <1>5
<1> QED
  BY <1>2, <1>3, <1>6 DEF q, a, b

(* What is cut off at the beginning of the wire is cut off with everything  *)
(* received before.                                                         *)
LEMMA StreamCut ==
  ASSUME NEW r \in Seq(Nat \ {0}), NEW w \in Seq(Nat), NEW v \in Seq(Nat), NEW k \in Nat,
         Rest(v, w, k)
  PROVE  /\ <<>> \o v = v /\ Rest(v, r \o w, Len(r) + k)
         /\ k > 0 /\ k <= Len(w) => (r \o w)[Len(r) + k] = w[k]
<1>1. /\ Len(r \o w) = Len(r) + Len(w) /\ Len(r) \in Nat /\ Len(w) \in Nat
      /\ \A i \in 1..Len(w) : (r \o w)[Len(r) + i] = w[i]
  BY Joined
<1>2. Len(v) \in Nat /\ Len(v) = Len(w) - k /\ \A i \in 1..Len(v) : v[i] = w[k + i]
  BY <1>1 DEF Rest
<1>3. <<>> \o v = v
  <2>1. v = [i \in 1..Len(v) |-> v[i]]
    OBVIOUS
  <2> QED
    BY <1>2, <2>1
<1>4. ASSUME NEW i \in 1..Len(v) PROVE v[i] = (r \o w)[Len(r) + k + i]
  <2>1. k + i \in 1..Len(w) /\ Len(r) + (k + i) = Len(r) + k + i
    BY <1>1, <1>2
  <2> QED
    BY <1>1, <1>2, <2>1
<1>5. Len(v) = Len(r \o w) - (Len(r) + k)
  BY <1>1, <1>2
<1>6. k > 0 /\ k <= Len(w) => (r \o w)[Len(r) + k] = w[k]
  BY <1>1
<1> QED
  BY <1>3, <1>4, <1>5, <1>6 DEF Rest

(* A frame begins at once only if the last byte cut off ended one.          *)
Begins(later, w, k) == \A i \in later : i = 1 /\ k > 0 /\ k <= Len(w) /\ w[k] = 0

(* Then the rest of the stream is as intact as all of it.                   *)
LEMMA IntactCut ==
  ASSUME NEW r \in Seq(Nat \ {0}), NEW w \in Seq(Nat), NEW v \in Seq(Nat), NEW k \in Nat,
         Rest(v, w, k), NEW s \in Seq(Frames), NEW first, NEW later,
         Intact(r \o w, first, s), Begins(later, w, k)
  PROVE  Intact(<<>> \o v, later, s)
<1> DEFINE q == r \o w
           d == Len(r) + k
<1>1. /\ <<>> \o v = v /\ Rest(v, q, d)
      /\ k > 0 /\ k <= Len(w) => q[d] = w[k]
  BY StreamCut
<1>2. q \in Seq(Nat) /\ Len(r) \in Nat
  BY Joined
<1>3. d \in Nat /\ (k > 0 => d > 0)
  BY <1>2
<1>4. Intact(q, first, s)
  OBVIOUS
<1> HIDE DEF q, d
<1>5. \A i \in later : i = 1 /\ ((d = 0 /\ 1 \in first) \/ (d > 0 /\ q[d] = 0))
  BY <1>1, <1>3 DEF Begins
<1>6. Intact(v, later, s)
  BY <1>1, <1>2, <1>3, <1>4, <1>5, IntactSuffix
<1> QED
  BY <1>1, <1>6

(* Storing a byte leaves the stream as it is.                               *)
LEMMA StreamStored ==
  ASSUME NEW r \in Seq(Nat \ {0}), NEW w \in Seq(Nat), w # <<>>, w[1] # 0
  PROVE  Append(r, w[1]) \o Tail(w) = r \o w
<1>1. /\ Len(w) \in Nat \ {0} /\ w[1] \in Nat \ {0} /\ Tail(w) \in Seq(Nat)
      /\ Len(Tail(w)) = Len(w) - 1 /\ \A i \in 1..(Len(w) - 1) : Tail(w)[i] = w[i + 1]
  BY TailIs
<1> DEFINE x == Append(r, w[1])
           t == Tail(w)
           p == r \o w
           q == x \o t
           a == Len(r)
           b == Len(w)
<1>2. /\ x \in Seq(Nat \ {0}) /\ Len(x) = a + 1 /\ x[a + 1] = w[1]
      /\ \A i \in 1..a : x[i] = r[i]
  BY <1>1, AppendProperties
<1>3. /\ p \in Seq(Nat) /\ Len(p) = a + b /\ a \in Nat /\ b \in Nat \ {0}
      /\ \A i \in 1..a : p[i] = r[i]
      /\ \A i \in 1..b : p[a + i] = w[i]
  BY <1>1, Joined
<1>9. t \in Seq(Nat)
  BY <1>1
<1> HIDE DEF x, t
<1>4. /\ q \in Seq(Nat) /\ Len(q) = Len(x) + Len(t)
      /\ \A i \in 1..Len(x) : q[i] = x[i]
      /\ \A i \in 1..Len(t) : q[Len(x) + i] = t[i]
  <2>1. x \in Seq(Nat \ {0})
    BY <1>2
  <2> HIDE DEF p, a, b
  <2>2. /\ x \o t \in Seq(Nat) /\ Len(x \o t) = Len(x) + Len(t)
        /\ Len(x) \in Nat /\ Len(t) \in Nat
        /\ \A i \in 1..Len(x) : (x \o t)[i] = x[i] /\ x[i] \in Nat \ {0}
        /\ \A i \in 1..Len(t) : (x \o t)[Len(x) + i] = t[i]
    BY <1>9, <2>1, Joined, Zenon
  <2> QED
    BY <2>2
<1> HIDE DEF p, q, a, b
<1>5. Len(t) = b - 1 /\ \A i \in 1..(b - 1) : t[i] = w[i + 1]
  BY <1>1 DEF t, b
<1>6. Len(q) = a + b
  BY <1>2, <1>3, <1>4, <1>5
<1>7. ASSUME NEW i \in 1..(a + b) PROVE q[i] = p[i]
  <2>1. i \in 1..a \/ i = a + 1 \/ i - a - 1 \in 1..(b - 1)
    BY <1>3
  <2>2. CASE i \in 1..a
    <3>1. i \in 1..(a + 1)
      BY <1>3, <2>2
    <3> QED
      BY <1>2, <1>3, <1>4, <2>2, <3>1
  <2>3. CASE i = a + 1
    <3>1. i \in 1..(a + 1) /\ 1 \in 1..b
      BY <1>3, <2>3
    <3> QED
      BY <1>2, <1>3, <1>4, <2>3, <3>1
  <2>4. CASE i - a - 1 \in 1..(b - 1)
    <3>1. /\ (a + 1) + (i - a - 1) = i /\ (i - a - 1) + 1 = i - a
          /\ i - a \in 1..b /\ a + (i - a) = i
      BY <1>3, <2>4
    <3>2. q[i] = t[i - a - 1]
      <4>1. Len(x) = a + 1
        BY <1>2, Zenon
      <4>2. i - a - 1 \in 1..Len(t)
        BY <1>5, <2>4
      <4>3. q[Len(x) + (i - a - 1)] = t[i - a - 1]
        BY <1>4, <4>2, Zenon
      <4> QED
        BY <3>1, <4>1, <4>3
    <3>3. t[i - a - 1] = w[i - a]
      BY <1>5, <2>4, <3>1
    <3>4. p[i] = w[i - a]
      BY <1>3, <3>1
    <3> QED
      BY <3>2, <3>3, <3>4
  <2> QED
    BY <2>1, <2>2, <2>3, <2>4
<1>8. q = p
  BY <1>3, <1>4, <1>6, <1>7, SeqEqual
<1> QED
  BY <1>8 DEF q, p, x, t

(* What has been received of an intact stream is the beginning of a frame   *)
(* that was sent; at a delimiter it is all of it, and is accepted.          *)
LEMMA IntactReceived ==
  ASSUME NEW r \in Seq(Nat \ {0}), NEW w \in Seq(Nat), sent \in Seq(Frames),
         Intact(r \o w, {1}, sent), r # <<>>, w # <<>>
  PROVE  Len(r) < MaxWire /\ (w[1] = 0 => Accepted(CobsDecode(r)))
<1>1. /\ r \o w \in Seq(Nat) /\ Len(r \o w) = Len(r) + Len(w)
      /\ Len(r) \in Nat /\ Len(w) \in Nat
      /\ \A i \in 1..Len(r) : (r \o w)[i] = r[i] /\ r[i] \in Nat \ {0}
      /\ \A i \in 1..Len(w) : (r \o w)[Len(r) + i] = w[i]
  BY Joined
<1> DEFINE q == r \o w
<1>2. Len(r) # 0 /\ Len(w) # 0 /\ 1 \in 1..Len(q)
  BY <1>1
<1>3. Starts(q, {1}, 1)
  BY <1>2 DEF Starts
<1>4. PICK n \in 1..Len(sent) : StandsAt(q, 1, Wired(sent[n], n))
  BY <1>2, <1>3 DEF Intact
<1>5. sent[n] \in Frames /\ n \in Nat \ {0}
  <2>1. sent[n] \in Frames
    BY ElementOfSeq, Zenon
  <2>2. Len(sent) \in Nat
    OBVIOUS
  <2> QED
    BY <2>1, <2>2
<1> DEFINE e == Wired(sent[n], n)
<1>6. /\ e \in Seq(Nat \ {0}) /\ Len(e) < MaxWire /\ CobsDecode(e) = RawOf(sent[n], n)
  BY <1>5, WiredIs
<1> HIDE DEF q, e
<1>7. Len(e) \in Nat /\ \A i \in 1..Len(e) : e[i] \in Nat \ {0}
  BY <1>6
<1>8. 1 + Len(e) <= Len(q) /\ q[1 + Len(e)] = 0 /\ \A j \in 1..Len(e) : q[1 + j - 1] = e[j]
  BY <1>4 DEF StandsAt, e
<1>9. Len(r) <= Len(e)
  <2> SUFFICES ASSUME Len(e) < Len(r) PROVE FALSE
    BY <1>1, <1>7
  <2>1. 1 + Len(e) \in 1..Len(r)
    BY <1>1, <1>7
  <2> QED
    BY <1>1, <1>8, <2>1 DEF q
<1>10. \A j \in 1..Len(e) : q[j] = e[j]
  <2> TAKE j \in 1..Len(e)
  <2>1. 1 + j - 1 = j
    BY <1>7
  <2> QED
    BY <1>8, <2>1
<1>11. Len(r) < MaxWire
  <2>1. MaxWire \in Nat
    BY Sizes, SMTT(20)
  <2> QED
    BY <1>1, <1>6, <1>7, <1>9, <2>1
<1>12. ASSUME w[1] = 0 PROVE Accepted(CobsDecode(r))
  <2>1. q[Len(r) + 1] = 0
    <3>1. 1 \in 1..Len(w)
      BY <1>1, <1>2
    <3> QED
      BY <1>1, <1>12, <3>1 DEF q
  <2>2. Len(e) = Len(r)
    <3> SUFFICES ASSUME Len(r) < Len(e) PROVE FALSE
      BY <1>1, <1>7, <1>9
    <3>1. Len(r) + 1 \in 1..Len(e)
      BY <1>1, <1>7
    <3> QED
      BY <1>7, <1>10, <2>1, <3>1
  <2>3. \A i \in 1..Len(r) : r[i] = e[i]
    BY <1>1, <1>10, <2>2 DEF q
  <2>4. r = e
    BY <1>6, <2>2, <2>3, SeqEqual
  <2>5. CobsDecode(r) = RawOf(sent[n], n)
    BY <1>6, <2>4
  <2>6. WellFormed(RawOf(sent[n], n))
    BY <1>5, RawIsAccepted
  <2> QED
    BY <2>5, <2>6 DEF Accepted, CrcFits
<1> QED
  BY <1>11, <1>12

(* As long as nothing was damaged.                                          *)
Clean == faults = 0 => errors = 0 /\ Intact(Stream, AtOnce, sent)

(* A byte read as it was sent is no error, and the rest stays intact.       *)
LEMMA CleanByte ==
  ASSUME Typed, Typed', Clean, faults = 0, wire # <<>>, Byte(wire[1]), wire' = Tail(wire),
         sent' = sent
  PROVE  errors' = 0 /\ Intact(Stream', AtOnce', sent')
<1> DEFINE b == wire[1]
           q == Stream
<1>1. /\ rx \in Seq(Nat \ {0}) /\ wire \in Seq(Nat) /\ wire' \in Seq(Nat)
      /\ rx' \in Seq(Nat \ {0})
  BY Numeric
<1>2. sent \in Seq(Frames) /\ sync \in BOOLEAN /\ sync' \in BOOLEAN
  BY Zenon DEF Typed
<1>3. /\ b \in Nat /\ Len(wire) \in Nat \ {0} /\ Len(wire') = Len(wire) - 1
      /\ \A i \in 1..(Len(wire) - 1) : wire'[i] = wire[i + 1]
  BY <1>1, TailIs
<1>4. q \in Seq(Nat) /\ Len(rx) \in Nat /\ Stream' \in Seq(Nat) /\ Stream = rx \o wire
      /\ Stream' = rx' \o wire'
  <2>1. rx' \o wire' \in Seq(Nat) /\ rx \o wire \in Seq(Nat)
    BY <1>1, Joined
  <2> QED
    BY <1>1, <2>1 DEF Stream
<1>5. errors = 0 /\ Intact(q, AtOnce, sent)
  BY DEF Clean
<1> HIDE DEF b, q
<1>6. ASSUME rx' = <<>>, sync' => b = 0
      PROVE  Intact(Stream', AtOnce', sent')
  <2>1. Rest(wire', wire, 1)
    <3>1. Len(wire') = Len(wire) - 1 /\ \A i \in 1..Len(wire') : wire'[i] = wire[1 + i]
      BY <1>3
    <3> QED
      BY <3>1 DEF Rest
  <2>2. Begins(AtOnce', wire, 1)
    BY <1>3, <1>6 DEF b, Begins, AtOnce
  <2>3. Intact(rx \o wire, AtOnce, sent) /\ 1 \in Nat
    BY <1>5 DEF q, Stream
  <2>4. Intact(<<>> \o wire', AtOnce', sent)
    BY <1>1, <1>2, <2>1, <2>2, <2>3, IntactCut, Zenon
  <2> QED
    BY <1>4, <1>6, <2>4
<1>7. CASE NotYet(b) \/ Idles(b)
  <2>1. rx' = <<>> /\ errors' = errors /\ (sync' => b = 0)
    BY <1>7 DEF NotYet, Idles, Quiet
  <2> QED
    BY <1>5, <1>6, <2>1
<1>8. ASSUME NEW n \in 1..Len(sent), Accepts(b, n)
      PROVE  errors' = 0 /\ Intact(Stream', AtOnce', sent')
  <2>1. rx' = <<>> /\ errors' = errors /\ b = 0
    BY <1>8 DEF Accepts, Arrives
  <2> QED
    BY <1>5, <1>6, <2>1
<1>9. ASSUME Stores(b)
      PROVE  errors' = 0 /\ Intact(Stream', AtOnce', sent')
  <2>1. rx' = Append(rx, b) /\ b # 0 /\ errors' = errors /\ sync' = sync
    BY <1>9 DEF Stores, Quiet
  <2>2. Stream' = Stream
    BY <1>1, <1>4, <2>1, StreamStored DEF b
  <2>3. AtOnce' = AtOnce
    BY <2>1 DEF AtOnce
  <2> QED
    BY <1>5, <2>1, <2>2, <2>3 DEF q
<1>10. ASSUME Refuses(b) \/ Overruns(b)
       PROVE  FALSE
  <2>1. sync /\ rx # <<>>
    <3>1. MaxWire \in Nat /\ MaxWire > 0
      BY Sizes
    <3> QED
      BY <1>10, <3>1 DEF Refuses, Overruns
  <2>2. Intact(rx \o wire, {1}, sent)
    BY <1>2, <1>5, <2>1 DEF q, Stream, AtOnce
  <2>3. Len(rx) < MaxWire /\ (b = 0 => Accepted(CobsDecode(rx)))
    BY <1>1, <1>2, <2>1, <2>2, IntactReceived DEF b
  <2>4. MaxWire \in Nat
    BY Sizes
  <2> QED
    BY <1>4, <1>10, <2>3, <2>4 DEF Refuses, Overruns
<1> QED
  BY <1>3, <1>7, <1>8, <1>9, <1>10, ByteIs DEF b

(* Sending puts the frame behind what is there.                             *)
LEMMA StreamSend ==
  ASSUME Typed, NEW f \in Frames
  PROVE  LET e == Wired(f, Len(sent) + 1)
             q == rx \o wire
             p == rx \o (wire \o Append(e, 0))
         IN  /\ q \in Seq(Nat) /\ p \in Seq(Nat)
             /\ Len(q) \in Nat /\ Len(e) \in Nat /\ Len(p) = Len(q) + Len(e) + 1
             /\ \A i \in 1..Len(q) : p[i] = q[i]
             /\ \A j \in 1..Len(e) : p[Len(q) + j] = e[j]
             /\ p[Len(q) + Len(e) + 1] = 0
<1> DEFINE n == Len(sent) + 1
           e == Wired(f, n)
           v == wire \o Append(e, 0)
           q == rx \o wire
           p == rx \o v
           a == Len(rx)
           h == Len(wire)
           l == Len(e)
<1>1. /\ rx \in Seq(Nat \ {0}) /\ wire \in Seq(Nat) /\ a \in Nat /\ h \in Nat
  BY Numeric
<1>3. /\ l \in Nat /\ v \in Seq(Nat) /\ Len(v) = h + l + 1
      /\ \A i \in 1..h : v[i] = wire[i]
      /\ \A i \in 1..l : v[h + i] = e[i]
      /\ v[h + l + 1] = 0
  BY SendIs
<1> HIDE DEF v, e, l, n
<1>5. /\ q \in Seq(Nat) /\ Len(q) = a + h
      /\ \A i \in 1..a : q[i] = rx[i]
      /\ \A i \in 1..h : q[a + i] = wire[i]
  BY <1>1, Joined
<1>6. /\ p \in Seq(Nat) /\ Len(p) = a + Len(v)
      /\ \A i \in 1..a : p[i] = rx[i]
      /\ \A i \in 1..Len(v) : p[a + i] = v[i]
  <2> HIDE DEF q
  <2>1. v \in Seq(Nat)
    BY <1>3
  <2>2. /\ rx \o v \in Seq(Nat) /\ Len(rx \o v) = Len(rx) + Len(v)
        /\ Len(rx) \in Nat /\ Len(v) \in Nat
        /\ \A i \in 1..Len(rx) : (rx \o v)[i] = rx[i] /\ rx[i] \in Nat \ {0}
        /\ \A i \in 1..Len(v) : (rx \o v)[Len(rx) + i] = v[i]
    BY <1>1, <2>1, Joined, Zenon
  <2> QED
    BY <2>2
<1> HIDE DEF p, q, a, h
<1>7. \A i \in 1..Len(q) : p[i] = q[i]
  <2> TAKE i \in 1..Len(q)
  <2>1. CASE i \in 1..a
    BY <1>5, <1>6, <2>1
  <2>2. CASE i - a \in 1..h
    <3>1. a + (i - a) = i /\ i - a \in 1..Len(v)
      BY <1>1, <1>3, <1>5, <2>2
    <3>2. p[a + (i - a)] = v[i - a] /\ v[i - a] = wire[i - a] /\ q[a + (i - a)] = wire[i - a]
      BY <1>3, <1>5, <1>6, <2>2, <3>1
    <3> QED
      BY <3>1, <3>2
  <2>3. i \in 1..a \/ i - a \in 1..h
    BY <1>1, <1>5
  <2> QED
    BY <2>1, <2>2, <2>3
<1>8. Len(p) = Len(q) + l + 1
  BY <1>1, <1>3, <1>5, <1>6
<1>9. \A j \in 1..l : p[Len(q) + j] = e[j]
  <2> TAKE j \in 1..l
  <2>1. Len(q) + j = a + (h + j) /\ h + j \in 1..Len(v)
    BY <1>1, <1>3, <1>5
  <2> QED
    BY <1>3, <1>6, <2>1
<1>10. p[Len(q) + l + 1] = 0
  <2>1. Len(q) + l + 1 = a + (h + l + 1) /\ h + l + 1 \in 1..Len(v)
    BY <1>1, <1>3, <1>5
  <2> QED
    BY <1>3, <1>6, <2>1
<1>11. Len(q) \in Nat
  BY <1>1, <1>5
<1> QED
  BY <1>3, <1>5, <1>6, <1>7, <1>8, <1>9, <1>10, <1>11 DEF p, q, v, e, l, n

(* It is a frame more at the end of an intact stream.                       *)
LEMMA CleanSend ==
  ASSUME Typed, Typed', NEW f \in Frames, Intact(Stream, AtOnce, sent),
         sent' = Append(sent, f), rx' = rx, sync' = sync,
         wire' = wire \o Append(Wired(f, Len(sent) + 1), 0)
  PROVE  Intact(Stream', AtOnce', sent')
<1> DEFINE n == Len(sent) + 1
           e == Wired(f, n)
           q == rx \o wire
           p == rx \o (wire \o Append(e, 0))
           l == Len(e)
<1>1. sent \in Seq(Frames) /\ sync \in BOOLEAN
  BY Zenon DEF Typed
<1>2. /\ q \in Seq(Nat) /\ p \in Seq(Nat) /\ Len(q) \in Nat /\ l \in Nat
      /\ Len(p) = Len(q) + l + 1 /\ \A i \in 1..Len(q) : p[i] = q[i]
      /\ \A j \in 1..l : p[Len(q) + j] = e[j]
      /\ p[Len(q) + l + 1] = 0
  BY StreamSend
<1>4. Stream = q /\ Stream' = p
  BY DEF Stream
<1> HIDE DEF p, q, e, l, n
<1>11. StandsAt(p, Len(q) + 1, e)
  <2>1. (Len(q) + 1) + l <= Len(p) /\ (Len(q) + 1) + l = Len(q) + l + 1
    BY <1>2
  <2>2. \A j \in 1..l : (Len(q) + 1) + j - 1 = Len(q) + j
    BY <1>2
  <2>3. \A j \in 1..l : p[(Len(q) + 1) + j - 1] = e[j]
    BY <1>2, <2>2
  <2>4. p[(Len(q) + 1) + l] = 0
    BY <1>2, <2>1
  <2> QED
    BY <2>1, <2>3, <2>4 DEF StandsAt, l
<1>12. Intact(q, AtOnce, sent)
  BY <1>4
<1>13. AtOnce \in SUBSET {1} /\ AtOnce' = AtOnce
  BY DEF AtOnce
<1>14. Intact(p, AtOnce, Append(sent, f))
  BY <1>1, <1>2, <1>11, <1>12, <1>13, IntactSend DEF e, n, l
<1> QED
  BY <1>4, <1>13, <1>14

(* Nothing is on its way at first.                                          *)
LEMMA InitClean == Init => Clean
<1> SUFFICES ASSUME Init PROVE Clean
  OBVIOUS
<1>1. Stream = <<>> /\ errors = 0
  BY DEF Init, Stream
<1> QED
  BY <1>1 DEF Clean, Intact

(* Every step keeps an undamaged stream intact.                             *)
LEMMA StepClean == Typed /\ Typed' /\ Clean /\ [Next]_vars => Clean'
<1> SUFFICES ASSUME Typed, Typed', Clean, [Next]_vars, faults' = 0
             PROVE  errors' = 0 /\ Intact(Stream', AtOnce', sent')
  BY DEF Clean
<1>1. CASE Send
  <2>1. PICK f \in Frames :
          sent' = Append(sent, f) /\ wire' = wire \o Append(Wired(f, Len(sent) + 1), 0)
    BY <1>1 DEF Send, Wired
  <2>2. UNCHANGED <<rx, sync, errors, faults>>
    BY <1>1 DEF Send, receiver, history
  <2> QED
    BY <2>1, <2>2, CleanSend DEF Clean
<1>2. CASE SenderRestarts \/ PollDamaged
  <2>1. faults \in Nat /\ faults' = faults + 1
    BY <1>2 DEF SenderRestarts, PollDamaged, Typed
  <2> QED
    BY <2>1
<1>3. CASE Poll
  <2>1. wire # <<>> /\ Byte(Head(wire)) /\ wire' = Tail(wire) /\ sent' = sent /\ faults' = faults
    BY <1>3 DEF Poll, sender, history
  <2>2. Head(wire) = wire[1]
    BY <2>1, Numeric, TailIs
  <2> QED
    BY <2>1, <2>2, CleanByte
<1>4. CASE Take \/ UNCHANGED vars
  <2>1. UNCHANGED <<sent, rx, wire, sync, errors, faults>>
    BY <1>4 DEF Take, vars, sender, receiver, history
  <2> QED
    BY <2>1 DEF Clean, Stream, AtOnce
<1>5. CASE ReceiverRestarts
  <2>1. UNCHANGED <<sent, errors, faults>> /\ rx' = <<>> /\ sync' = FALSE
    BY <1>5 DEF ReceiverRestarts, Setup, sender
  <2>2. PICK k \in 0..Len(wire) : wire' = SubSeq(wire, k + 1, Len(wire))
    BY <1>5 DEF ReceiverRestarts
  <2>3. rx \in Seq(Nat \ {0}) /\ wire \in Seq(Nat) /\ wire' \in Seq(Nat)
        /\ Len(wire) \in Nat /\ Len(rx) \in Nat /\ k \in Nat
    BY Numeric
  <2>4. Rest(wire', wire, k)
    BY <2>2, CutFront DEF Rest
  <2>5. errors = 0 /\ Intact(rx \o wire, AtOnce, sent)
    BY <2>1 DEF Clean, Stream
  <2>6. sent \in Seq(Frames) /\ sync \in BOOLEAN
    BY Zenon DEF Typed
  <2>7. Intact(<<>> \o wire', {}, sent)
    <3>1. Begins({}, wire, k)
      BY DEF Begins
    <3> QED
      BY <2>3, <2>4, <2>5, <2>6, <3>1, IntactCut, Zenon
  <2> QED
    BY <2>1, <2>5, <2>7 DEF Stream, AtOnce
<1> QED
  BY <1>1, <1>2, <1>3, <1>4, <1>5 DEF Next

(* A link that damages nothing counts no error, although its receiver may   *)
(* restart in the middle of a frame: every frame fits the buffer, decodes   *)
(* and has the CRC it was sent with.                                        *)
THEOREM CleanLinkCountsNoError == Spec => []CleanLinkIsClean
<1>1. Clean => CleanLinkIsClean
  BY DEF Clean, CleanLinkIsClean
<1> QED
  BY <1>1, InitTyped, StepTyped, InitClean, StepClean, PTL DEF Spec

------------------------------------------------------------------------------
(* Damage                                                                   *)

(* Numbers moved into another set are no more than that set has, if some of *)
(* them are lost.                                                           *)
LEMMA MovedInto ==
  ASSUME NEW S, S \subseteq Int, NEW T, IsFiniteSet(T), NEW k \in Int,
         \A e \in S : e - k \in T
  PROVE  IsFiniteSet(S) /\ Cardinality(S) <= Cardinality(T)
<1> DEFINE f == [e \in S |-> e - k]
<1>1. f \in [S -> T]
  OBVIOUS
<1>2. \A a, b \in S : a - k = b - k => a = b
  OBVIOUS
<1>3. IsInjective(f)
  BY <1>2 DEF IsInjective
<1>4. f \in Injection(S, T)
  BY <1>1, <1>3 DEF Injection
<1> QED
  BY <1>4, FS_Injection

(* At most some are lost.                                                   *)
LEMMA FewLost ==
  ASSUME NEW S, S \subseteq Int, NEW T, IsFiniteSet(T), NEW P, IsFiniteSet(P), NEW k \in Int,
         \A e \in S : e \in P \/ e - k \in T
  PROVE  /\ IsFiniteSet(S)
         /\ Cardinality(S) \in Nat /\ Cardinality(T) \in Nat /\ Cardinality(P) \in Nat
         /\ Cardinality(S) <= Cardinality(T) + Cardinality(P)
<1> DEFINE K == S \ P
<1>1. \A e \in K : e - k \in T
  OBVIOUS
<1>2. K \subseteq Int
  OBVIOUS
<1>3. IsFiniteSet(K) /\ Cardinality(K) <= Cardinality(T)
  <2> HIDE DEF K
  <2> QED
    BY <1>1, <1>2, MovedInto
<1>4. S \subseteq K \cup P
  OBVIOUS
<1> HIDE DEF K
<1>5. /\ IsFiniteSet(K \cup P)
      /\ Cardinality(K \cup P) = Cardinality(K) + Cardinality(P) - Cardinality(K \cap P)
  BY <1>3, FS_Union
<1>6. IsFiniteSet(K \cap P)
  BY <1>3, FS_Subset
<1>7. /\ Cardinality(K) \in Nat /\ Cardinality(P) \in Nat /\ Cardinality(T) \in Nat
      /\ Cardinality(K \cap P) \in Nat
  BY <1>3, <1>6, FS_CardinalityType
<1>8. IsFiniteSet(S) /\ Cardinality(S) <= Cardinality(K \cup P)
  <2>1. S \in SUBSET (K \cup P)
    BY <1>4
  <2> QED
    BY <1>5, <2>1, FS_Subset
<1>9. Cardinality(S) \in Nat
  BY <1>8, FS_CardinalityType
<1> QED
  BY <1>3, <1>5, <1>7, <1>8, <1>9

(* A set without two elements.                                              *)
LEMMA OneAtMost ==
  ASSUME NEW P, \A x, y \in P : x = y
  PROVE  IsFiniteSet(P) /\ Cardinality(P) \in Nat /\ Cardinality(P) <= 1
<1>1. CASE P = {}
  BY <1>1, FS_EmptySet
<1>2. CASE P # {}
  <2>1. PICK x : x \in P
    BY <1>2
  <2>2. P = {x}
    BY <2>1
  <2> QED
    BY <2>2, FS_Singleton
<1> QED
  BY <1>1, <1>2

(* Bytes between two delimiters, and the ends of those that the receiver    *)
(* takes for a frame: A is what decodes to one.                             *)
Segment(q, first, i, e) ==
  /\ Starts(q, first, i)
  /\ e \in i..Len(q) /\ q[e] = 0 /\ \A j \in i..(e - 1) : q[j] # 0

Between(q, i, e) == SubSeq(q, i, e - 1)

Arriving(q, first, A) ==
  {e \in 1..Len(q) :
     \E i \in 1..Len(q) : Segment(q, first, i, e) /\ Between(q, i, e) \in A}

(* What is sent next will not begin a segment.                              *)
Unready(q, first) ==
  IF (q = <<>> /\ first = {}) \/ (q # <<>> /\ q[Len(q)] # 0) THEN 1 ELSE 0

(* There are finitely many.                                                 *)
LEMMA ArrivingFinite ==
  ASSUME NEW q \in Seq(Nat), NEW first, NEW A
  PROVE  /\ Arriving(q, first, A) \subseteq 1..Len(q) /\ Arriving(q, first, A) \subseteq Int
         /\ IsFiniteSet(Arriving(q, first, A)) /\ Cardinality(Arriving(q, first, A)) \in Nat
<1>1. Arriving(q, first, A) \subseteq 1..Len(q)
  BY DEF Arriving
<1>2. Len(q) \in Int /\ 1 \in Int
  OBVIOUS
<1>3. IsFiniteSet(1..Len(q))
  BY <1>2, FS_Interval
<1>4. IsFiniteSet(Arriving(q, first, A))
  BY <1>1, <1>3, FS_Subset
<1>5. Arriving(q, first, A) \subseteq Int
  BY <1>1, <1>2
<1> QED
  BY <1>1, <1>4, <1>5, FS_CardinalityType

(* Of two segments that begin before x and end behind, only one can be.     *)
LEMMA OneEnd ==
  ASSUME NEW q \in Seq(Nat), NEW first, NEW x \in Int,
         NEW i \in Nat, NEW e \in Int, Segment(q, first, i, e), i <= x, x <= e,
         NEW j \in Nat, NEW d \in Int, Segment(q, first, j, d), j <= x, x <= d
  PROVE  e = d
<1>1. ~ (e < d)
  <2>1. e < d => e \in j..(d - 1)
    OBVIOUS
  <2> QED
    BY <2>1 DEF Segment
<1>2. ~ (d < e)
  <2>1. d < e => d \in i..(e - 1)
    OBVIOUS
  <2> QED
    BY <2>1 DEF Segment
<1> QED
  BY <1>1, <1>2

(* The same bytes at two places, k bytes apart.                             *)
SameAt(q, v, i, e, k) == \A j \in i..(e - 1) : v[j - k] = q[j]

(* Then a segment has the same bytes at either place.                       *)
LEMMA SameBytes ==
  ASSUME NEW q \in Seq(Nat), NEW v \in Seq(Nat), NEW k \in Int,
         NEW i \in Int, NEW e \in Int, NEW m \in Int, NEW n \in Int, m = i - k, n = e - k,
         1 <= i, i <= e, e <= Len(q), 1 <= m, n <= Len(v), SameAt(q, v, i, e, k)
  PROVE  Between(v, m, n) = Between(q, i, e)
<1> DEFINE c == e - 1
           h == n - 1
           s == SubSeq(q, i, c)
           t == SubSeq(v, m, h)
           l == e - i
<1>1. Len(q) \in Nat /\ Len(v) \in Nat /\ c \in Int /\ h \in Int
  OBVIOUS
<1>2. \A j \in i..c : q[j] \in Nat
  BY <1>1
<1>3. \A j \in m..h : v[j] \in Nat
  BY <1>1
<1>4. l \in Nat /\ h - m + 1 = l /\ c - i + 1 = l /\ (i <= c <=> l > 0) /\ (m <= h <=> l > 0)
  OBVIOUS
<1>0. \A j \in i..c : v[j - k] = q[j]
  BY DEF SameAt
<1> HIDE DEF c, h
<1>5. /\ s \in Seq(Nat) /\ Len(s) = IF i <= c THEN c - i + 1 ELSE 0
      /\ \A j \in 1..(c - i + 1) : s[j] = q[i + j - 1]
  BY <1>1, <1>2, SubSeqProperties
<1>6. /\ t \in Seq(Nat) /\ Len(t) = IF m <= h THEN h - m + 1 ELSE 0
      /\ \A j \in 1..(h - m + 1) : t[j] = v[m + j - 1]
  BY <1>1, <1>3, SubSeqProperties
<1> HIDE DEF s, t
<1>7. Len(s) = l /\ Len(t) = l
  <2>1. Len(s) = IF i <= c THEN c - i + 1 ELSE 0
    BY <1>5, Zenon
  <2>2. Len(t) = IF m <= h THEN h - m + 1 ELSE 0
    BY <1>6, Zenon
  <2> HIDE DEF l
  <2> QED
    BY <1>4, <2>1, <2>2
<1>8. ASSUME NEW j \in 1..l PROVE s[j] = t[j]
  <2>1. s[j] = q[i + j - 1]
    BY <1>4, <1>5
  <2>2. t[j] = v[m + j - 1]
    BY <1>4, <1>6
  <2>3. i + j - 1 \in i..c /\ m + j - 1 = (i + j - 1) - k
    BY DEF c
  <2> QED
    BY <1>0, <2>1, <2>2, <2>3
<1>9. s = t
  BY <1>5, <1>6, <1>7, <1>8, SeqEqual
<1> QED
  BY <1>9 DEF s, t, c, h, Between

(* A segment in what is left, when the beginning was cut off.               *)
LEMMA ArrivingLeft ==
  ASSUME NEW q \in Seq(Nat), NEW v \in Seq(Nat), NEW d \in Nat, Rest(v, q, d),
         NEW first, first \subseteq {1}, NEW later, NEW A,
         NEW i \in 1..Len(q), NEW e \in Int, Segment(q, first, i, e), Between(q, i, e) \in A,
         i > d + 1 \/ (i = d + 1 /\ 1 \in later)
  PROVE  e - d \in Arriving(v, later, A)
<1>0. Len(v) = Len(q) - d /\ \A j \in 1..Len(v) : v[j] = q[d + j]
  BY Zenon DEF Rest
<1>1. /\ Len(q) \in Nat /\ Len(v) \in Nat /\ Len(v) = Len(q) - d
      /\ \A j \in 1..Len(v) : v[j] = q[d + j]
  <2>1. Len(q) \in Nat /\ Len(v) \in Nat
    OBVIOUS
  <2> QED
    BY <1>0, <2>1, Zenon
<1>2. e \in i..Len(q) /\ q[e] = 0 /\ \A j \in i..(e - 1) : q[j] # 0
  BY DEF Segment
<1>3. i - d \in 1..Len(v) /\ e - d \in (i - d)..Len(v) /\ e - d \in 1..Len(v)
  BY <1>1, <1>2
<1>4. \A j \in i..e : j - d \in 1..Len(v) /\ d + (j - d) = j
  BY <1>1, <1>2
<1>5. \A j \in i..e : v[j - d] = q[j]
  BY <1>1, <1>4
<1>6. v[e - d] = 0
  BY <1>2, <1>5
<1>7. ASSUME NEW j \in (i - d)..((e - d) - 1) PROVE v[j] # 0
  <2>1. d + j \in i..(e - 1) /\ j \in 1..Len(v)
    BY <1>1, <1>2
  <2> QED
    BY <1>1, <1>2, <2>1
<1>8. Starts(v, later, i - d)
  <2>1. CASE i = d + 1 /\ 1 \in later
    BY <1>3, <2>1 DEF Starts
  <2>2. CASE i > d + 1
    <3>1. i > 1 /\ i \notin first
      BY <2>2
    <3>2. q[i - 1] = 0
      BY <3>1 DEF Segment, Starts
    <3>3. (i - d) - 1 \in 1..Len(v) /\ d + ((i - d) - 1) = i - 1 /\ i - d > 1
      BY <1>3, <2>2
    <3>4. v[(i - d) - 1] = 0
      BY <1>1, <3>2, <3>3
    <3> QED
      BY <1>3, <3>3, <3>4 DEF Starts
  <2> QED
    BY <2>1, <2>2
<1>9. Segment(v, later, i - d, e - d)
  BY <1>3, <1>6, <1>7, <1>8 DEF Segment
<1>10. Between(v, i - d, e - d) = Between(q, i, e)
  <2> DEFINE m == i - d
             n == e - d
  <2>1. /\ 1 <= i /\ i <= e /\ e <= Len(q) /\ 1 <= m /\ n <= Len(v) /\ m = i - d
        /\ n = e - d /\ i \in Int /\ d \in Int /\ m \in Int /\ n \in Int
    BY <1>1, <1>2, <1>3
  <2>2. SameAt(q, v, i, e, d)
    <3> SUFFICES ASSUME NEW j \in i..(e - 1) PROVE v[j - d] = q[j]
      BY Zenon DEF SameAt
    <3>1. j \in i..e
      BY <2>1
    <3> QED
      BY <1>5, <3>1, Zenon
  <2> HIDE DEF m, n
  <2>3. Between(v, m, n) = Between(q, i, e)
    BY <2>1, <2>2, SameBytes
  <2> QED
    BY <2>3 DEF m, n
<1> QED
  BY <1>3, <1>9, <1>10 DEF Arriving

(* What stands behind a delimiter in v stands there whatever comes before.  *)
LEMMA ArrivingBehind ==
  ASSUME NEW q \in Seq(Nat), NEW v \in Seq(Nat), NEW d \in Nat, Rest(v, q, d),
         NEW first, NEW A, NEW e \in Arriving(v, {}, A)
  PROVE  e + d \in Arriving(q, first, A)
<1>0. Len(v) = Len(q) - d /\ \A j \in 1..Len(v) : v[j] = q[d + j]
  BY Zenon DEF Rest
<1>1. /\ Len(q) \in Nat /\ Len(v) \in Nat /\ Len(v) = Len(q) - d
      /\ \A j \in 1..Len(v) : v[j] = q[d + j]
  BY <1>0
<1>2. PICK i \in 1..Len(v) : Segment(v, {}, i, e) /\ Between(v, i, e) \in A
  BY DEF Arriving
<1>3. e \in i..Len(v) /\ v[e] = 0 /\ \A j \in i..(e - 1) : v[j] # 0
  BY <1>2 DEF Segment
<1>4. i > 1 /\ v[i - 1] = 0
  BY <1>2 DEF Segment, Starts
<1>5. e \in Int /\ i + d \in 1..Len(q) /\ e + d \in (i + d)..Len(q) /\ e + d \in 1..Len(q)
  BY <1>1, <1>3
<1>6. ASSUME NEW j \in (i + d)..((e + d) - 1) PROVE q[j] # 0
  <2>1. j - d \in i..(e - 1) /\ j - d \in 1..Len(v) /\ d + (j - d) = j
    BY <1>1, <1>3
  <2> QED
    BY <1>1, <1>3, <2>1
<1>7. q[e + d] = 0 /\ q[(i + d) - 1] = 0 /\ i + d > 1
  <2>1. e \in 1..Len(v) /\ d + e = e + d /\ i - 1 \in 1..Len(v) /\ d + (i - 1) = (i + d) - 1
    BY <1>1, <1>3, <1>4
  <2>2. v[e] = q[d + e] /\ v[i - 1] = q[d + (i - 1)]
    BY <1>1, <2>1
  <2>3. i + d > 1
    BY <1>4
  <2> QED
    BY <1>3, <1>4, <2>1, <2>2, <2>3
<1>8. Segment(q, first, i + d, e + d)
  BY <1>5, <1>6, <1>7 DEF Segment, Starts
<1>9. Between(q, i + d, e + d) = Between(v, i, e)
  <2> DEFINE k == 0 - d
             m == i + d
             n == e + d
  <2>1. /\ 1 <= i /\ i <= e /\ e <= Len(v) /\ 1 <= m /\ n <= Len(q) /\ m = i - k
        /\ n = e - k /\ i \in Int /\ k \in Int /\ e \in Int /\ m \in Int /\ n \in Int
    BY <1>1, <1>3, <1>5
  <2>2. SameAt(v, q, i, e, k)
    <3> SUFFICES ASSUME NEW j \in i..(e - 1) PROVE q[j - k] = v[j]
      BY DEF SameAt
    <3>1. j \in 1..Len(v) /\ j - k = d + j
      BY <1>1, <1>3
    <3> QED
      BY <1>1, <3>1
  <2> HIDE DEF k, m, n
  <2>4. Between(q, m, n) = Between(v, i, e)
    BY <2>1, <2>2, SameBytes
  <2> QED
    BY <2>4 DEF m, n
<1> QED
  BY <1>2, <1>5, <1>8, <1>9 DEF Arriving

(* Cutting the end off, or adding one.                                      *)
LEMMA ArrivingBefore ==
  ASSUME NEW q \in Seq(Nat), NEW v \in Seq(Nat), NEW n \in Nat, n <= Len(q), n <= Len(v),
         \A j \in 1..n : v[j] = q[j],
         NEW first, NEW A, NEW B, A \subseteq B, NEW e \in Arriving(q, first, A), e <= n
  PROVE  e \in Arriving(v, first, B)
<1>1. Len(q) \in Nat /\ Len(v) \in Nat
  OBVIOUS
<1>2. PICK i \in 1..Len(q) : Segment(q, first, i, e) /\ Between(q, i, e) \in A
  BY DEF Arriving
<1>3. e \in i..Len(q) /\ q[e] = 0 /\ \A j \in i..(e - 1) : q[j] # 0
  BY <1>2 DEF Segment
<1>4. i \in 1..Len(v) /\ e \in i..Len(v) /\ e \in 1..Len(v) /\ e \in Int
  <2>1. e \in i..Len(q)
    BY <1>3, Zenon
  <2> QED
    BY <1>1, <2>1
<1>5. \A j \in i..e : j \in 1..n
  BY <1>1, <1>3
<1>6. v[e] = 0 /\ \A j \in i..(e - 1) : v[j] # 0
  <2>1. e \in i..e /\ \A j \in i..(e - 1) : j \in i..e
    BY <1>4
  <2>2. \A j \in i..e : v[j] = q[j]
    BY <1>5, Zenon
  <2> QED
    BY <1>3, <2>1, <2>2, Zenon
<1>7. Starts(v, first, i)
  <2>1. i > 1 => i - 1 \in 1..n
    BY <1>3
  <2> QED
    BY <1>2, <1>4, <2>1 DEF Segment, Starts
<1>8. Between(v, i, e) = Between(q, i, e)
  <2>1. /\ 1 <= i /\ i <= e /\ e <= Len(q) /\ e <= Len(v) /\ i = i - 0
        /\ e = e - 0 /\ i \in Int /\ 0 \in Int /\ e \in Int
    BY <1>1, <1>3, <1>4
  <2>2. SameAt(q, v, i, e, 0)
    <3> SUFFICES ASSUME NEW j \in i..(e - 1) PROVE v[j - 0] = q[j]
      BY DEF SameAt
    <3>1. j \in i..e /\ j - 0 = j
      BY <1>3
    <3> QED
      BY <1>5, <3>1
  <2> QED
    BY <2>1, <2>2, SameBytes
<1>9. Segment(v, first, i, e)
  BY <1>4, <1>6, <1>7 DEF Segment
<1> QED
  BY <1>2, <1>4, <1>8, <1>9 DEF Arriving

(* One or nothing.                                                          *)
LEMMA UnreadyIs ==
  ASSUME NEW q, NEW first
  PROVE  Unready(q, first) \in Nat /\ Unready(q, first) <= 1
BY DEF Unready

(* Only the last byte counts, not what comes before.                        *)
LEMMA UnreadyLeft ==
  ASSUME NEW q \in Seq(Nat), NEW v \in Seq(Nat), NEW d \in Nat, Rest(v, q, d),
         NEW first, NEW later, v # <<>>
  PROVE  Unready(v, later) = Unready(q, first)
<1>1. Len(v) = Len(q) - d /\ \A j \in 1..Len(v) : v[j] = q[d + j]
  BY Zenon DEF Rest
<1>2. Len(v) \in Nat /\ Len(v) # 0 /\ Len(q) \in Nat /\ (q = <<>> => Len(q) = 0)
  OBVIOUS
<1>3. Len(v) \in 1..Len(v) /\ d + Len(v) = Len(q) /\ Len(q) # 0
  BY <1>1, <1>2
<1>4. q # <<>> /\ v[Len(v)] = q[Len(q)]
  BY <1>1, <1>2, <1>3
<1> QED
  BY <1>4 DEF Unready

(* Where segments begin: at once, or behind what has been received.         *)
LEMMA SegmentOf ==
  ASSUME NEW r \in Seq(Nat \ {0}), NEW w \in Seq(Nat), NEW first, first \subseteq {1}, NEW A,
         NEW e \in Arriving(r \o w, first, A)
  PROVE  /\ e \in Int /\ Len(r) < e
         /\ \E i \in 1..Len(r \o w) :
              /\ Segment(r \o w, first, i, e) /\ Between(r \o w, i, e) \in A
              /\ (i = 1 /\ 1 \in first) \/ i > Len(r) + 1
<1> DEFINE q == r \o w
<1>1. /\ q \in Seq(Nat) /\ Len(q) = Len(r) + Len(w)
      /\ Len(r) \in Nat /\ Len(w) \in Nat
      /\ \A j \in 1..Len(r) : q[j] = r[j] /\ r[j] \in Nat \ {0}
  BY Joined
<1> HIDE DEF q
<1>2. e \in 1..Len(q)
  BY DEF Arriving, q
<1>3. PICK i \in 1..Len(q) : Segment(q, first, i, e) /\ Between(q, i, e) \in A
  BY DEF Arriving, q
<1>4. ASSUME NEW j \in 1..Len(q), q[j] = 0 PROVE j > Len(r)
  <2>1. ~ (j \in 1..Len(r))
    <3> SUFFICES ASSUME j \in 1..Len(r) PROVE FALSE
      OBVIOUS
    <3>1. q[j] \in Nat \ {0}
      BY <1>1
    <3> QED
      BY <1>4, <3>1
  <2> QED
    BY <1>1, <2>1
<1>5. q[e] = 0
  BY <1>3 DEF Segment
<1>6. (i = 1 /\ 1 \in first) \/ i > Len(r) + 1
  <2>1. i \in first \/ (i > 1 /\ q[i - 1] = 0)
    BY <1>3 DEF Segment, Starts
  <2>2. CASE i > 1 /\ q[i - 1] = 0
    <3>1. i - 1 \in 1..Len(q)
      BY <1>1, <2>2
    <3>2. i - 1 > Len(r)
      BY <1>4, <2>2, <3>1
    <3> QED
      BY <1>1, <3>2
  <2> QED
    BY <2>1, <2>2
<1>7. e \in Int /\ Len(r) < e
  BY <1>1, <1>2, <1>4, <1>5
<1> QED
  BY <1>3, <1>6, <1>7 DEF q

(* No frame is as long.                                                     *)
AllShort(A, n) == \A s \in A : Len(s) <= n

(* A byte is read: the rest stays as it was, unless what has been received  *)
(* is a frame and the byte its delimiter.                                   *)
LEMMA ReadOne ==
  ASSUME NEW r \in Seq(Nat \ {0}), NEW w \in Seq(Nat), w # <<>>, NEW v \in Seq(Nat),
         Rest(v, w, 1), NEW first, first \subseteq {1}, NEW later, NEW A,
         w[1] = 0 => 1 \in later, w[1] # 0 /\ 1 \in first => AllShort(A, Len(r)),
         NEW e \in Arriving(r \o w, first, A)
  PROVE  \/ e - (Len(r) + 1) \in Arriving(v, later, A)
         \/ e = Len(r) + 1 /\ r \in A /\ 1 \in first /\ w[1] = 0
<1> DEFINE q == r \o w
           d == Len(r) + 1
<1>1. /\ q \in Seq(Nat) /\ Len(q) = Len(r) + Len(w) /\ Len(r) \in Nat /\ Len(w) \in Nat
      /\ \A j \in 1..Len(r) : q[j] = r[j] /\ r[j] \in Nat \ {0}
      /\ \A j \in 1..Len(w) : q[Len(r) + j] = w[j]
  BY Joined
<1>2. Rest(v, q, d) /\ Len(w) > 0
  <2>1. Len(w) > 0
    BY <1>1
  <2>2. 1 \in Nat
    OBVIOUS
  <2> QED
    BY <2>1, <2>2, StreamCut
<1>3. PICK i \in 1..Len(q) :
        /\ Segment(q, first, i, e) /\ Between(q, i, e) \in A
        /\ (i = 1 /\ 1 \in first) \/ i > Len(r) + 1
  BY SegmentOf
<1>4. e \in Int /\ Len(r) < e
  BY SegmentOf
<1>5. q[d] = w[1] /\ d \in 1..Len(q)
  <2>1. 1 \in 1..Len(w)
    BY <1>1, <1>2
  <2> QED
    BY <1>1, <1>2, <2>1
<1>6. e \in i..Len(q) /\ q[e] = 0 /\ \A j \in i..(e - 1) : q[j] # 0
  BY <1>3 DEF Segment, q
<1>11. e \in Arriving(q, first, A)
  OBVIOUS
<1> HIDE DEF q
<1>7. CASE i > d + 1 \/ (i = d + 1 /\ 1 \in later)
  <2>1. d \in Nat
    BY <1>1
  <2> HIDE DEF d
  <2>2. e - d \in Arriving(v, later, A)
    BY <1>1, <1>2, <1>3, <1>4, <1>7, <2>1, ArrivingLeft
  <2> QED
    BY <2>2 DEF d
<1>8. ASSUME i = d + 1, 1 \notin later PROVE FALSE
  <2>1. q[i - 1] = 0
    <3>1. i \notin first
      BY <1>1, <1>8
    <3> QED
      BY <1>3, <3>1 DEF Segment, Starts
  <2>2. i - 1 = d
    BY <1>1, <1>8
  <2> QED
    BY <1>5, <1>8, <2>1, <2>2
<1>9. CASE i = 1 /\ 1 \in first
  <2>1. /\ Between(q, 1, e) \in Seq(Nat) /\ Len(Between(q, 1, e)) = e - 1
        /\ \A j \in 1..(e - 1) : Between(q, 1, e)[j] = q[j]
    <3> DEFINE c == e - 1
    <3>1. c \in Int /\ 1 \in Int /\ 1 <= e /\ c <= Len(q)
      BY <1>6, <1>9, <1>1
    <3>2. ASSUME NEW j \in 1..c PROVE q[j] \in Nat
      <4> HIDE DEF c
      <4>1. j \in 1..Len(q)
        BY <1>1, <3>1
      <4> QED
        BY <1>1, <4>1, ElementOfSeq
    <3> HIDE DEF c
    <3>3. /\ SubSeq(q, 1, c) \in Seq(Nat)
          /\ Len(SubSeq(q, 1, c)) = IF 1 <= c THEN c - 1 + 1 ELSE 0
          /\ \A j \in 1..(c - 1 + 1) : SubSeq(q, 1, c)[j] = q[1 + j - 1]
      BY <3>1, <3>2, SubSeqProperties
    <3>4. c - 1 + 1 = c /\ (~ (1 <= c) => c = 0) /\ \A j \in 1..c : 1 + j - 1 = j
      BY <1>4, <3>1 DEF c
    <3>5. Len(SubSeq(q, 1, c)) = c /\ \A j \in 1..c : SubSeq(q, 1, c)[j] = q[j]
      BY <3>3, <3>4
    <3> QED
      BY <3>3, <3>5 DEF c, Between
  <2>2. CASE w[1] # 0
    <3>1. e # d /\ e > d
      <4>1. q[e] = 0 /\ q[d] # 0
        BY <1>5, <1>6, <2>2
      <4>2. e # d
        BY <4>1
      <4> QED
        BY <1>1, <1>4, <4>2
    <3>2. Len(Between(q, 1, e)) <= Len(r)
      BY <1>3, <1>9, <2>2 DEF AllShort
    <3> QED
      BY <1>1, <1>4, <2>1, <3>1, <3>2
  <2>3. CASE w[1] = 0
    <3>1. e = d
      <4>1. ~ (d < e)
        <5>1. d < e => d \in i..(e - 1)
          BY <1>1, <1>4, <1>9
        <5> QED
          BY <1>5, <1>6, <2>3, <5>1
      <4> QED
        BY <1>1, <1>4, <4>1
    <3>2. Between(q, 1, e) = r
      <4>1. r \in Seq(Nat)
        <5>1. Nat \ {0} \subseteq Nat
          OBVIOUS
        <5> QED
          BY <5>1, SeqGrows, Zenon
      <4>2. Len(Between(q, 1, e)) = Len(r) /\ \A j \in 1..Len(r) : Between(q, 1, e)[j] = r[j]
        BY <1>1, <2>1, <3>1
      <4>3. Between(q, 1, e) \in Seq(Nat)
        BY <2>1
      <4> QED
        BY <4>1, <4>2, <4>3, SeqEqual
    <3> QED
      BY <1>3, <1>9, <2>3, <3>1, <3>2
  <2> QED
    BY <2>2, <2>3
<1>10. (i = 1 /\ 1 \in first) \/ i > d + 1 \/ i = d + 1
  BY <1>1, <1>3
<1> QED
  BY <1>7, <1>8, <1>9, <1>10

(* Reading never makes the end of the stream less ready.                    *)
LEMMA UnreadyRead ==
  ASSUME NEW r \in Seq(Nat \ {0}), NEW w \in Seq(Nat), w # <<>>, NEW v \in Seq(Nat),
         Rest(v, w, 1), NEW first, NEW later, w[1] = 0 => 1 \in later
  PROVE  Unready(v, later) <= Unready(r \o w, first)
<1> DEFINE q == r \o w
           d == Len(r) + 1
<1>1. /\ q \in Seq(Nat) /\ Len(q) = Len(r) + Len(w) /\ Len(r) \in Nat /\ Len(w) \in Nat
      /\ \A j \in 1..Len(w) : q[Len(r) + j] = w[j]
  BY Joined
<1>2. Rest(v, q, d) /\ d \in Nat
  <2>1. 1 \in Nat
    OBVIOUS
  <2> QED
    BY <1>1, <2>1, StreamCut
<1> HIDE DEF q
<1>3. CASE v # <<>>
  <2> HIDE DEF d
  <2>1. Unready(v, later) = Unready(q, first)
    BY <1>1, <1>2, <1>3, UnreadyLeft
  <2>2. Unready(q, first) \in Nat
    BY UnreadyIs
  <2> QED
    BY <2>1, <2>2 DEF q
<1>4. CASE v = <<>>
  <2>1. Len(w) = 1
    <3>1. Len(v) = Len(w) - 1 /\ Len(v) = 0
      BY <1>4 DEF Rest
    <3> QED
      BY <1>1, <3>1
  <2>2. q[Len(q)] = w[1] /\ Len(q) # 0 /\ q # <<>>
    <3>1. 1 \in 1..Len(w) /\ Len(q) = Len(r) + 1
      BY <1>1, <2>1
    <3>2. q[Len(q)] = w[1] /\ Len(q) # 0
      BY <1>1, <3>1
    <3>3. q # <<>>
      BY <3>2
    <3> QED
      BY <3>2, <3>3
  <2>3. CASE w[1] = 0
    <3>1. later # {}
      BY <2>3
    <3>2. Unready(v, later) = 0
      BY <1>4, <3>1 DEF Unready
    <3>3. Unready(q, first) \in Nat
      BY UnreadyIs
    <3> QED
      BY <3>2, <3>3 DEF q
  <2>4. CASE w[1] # 0
    <3>1. Unready(q, first) = 1
      BY <2>2, <2>4 DEF Unready
    <3>2. Unready(v, later) \in Nat /\ Unready(v, later) <= 1
      BY UnreadyIs
    <3> QED
      BY <3>1, <3>2 DEF q
  <2> QED
    BY <2>3, <2>4
<1> QED
  BY <1>3, <1>4

(* What would be accepted now.                                              *)
Deliverable == {s \in Seq(Nat) : Accepted(CobsDecode(s))}

(* The receive buffer has room for it.                                      *)
LEMMA DeliverableIs ==
  ASSUME NEW s \in Deliverable
  PROVE  s # <<>> /\ Len(s) \in Nat /\ Len(s) < MaxWire
<1>1. s \in Seq(Nat) /\ Len(CobsDecode(s)) > HeaderLength /\ Len(s) \in Nat
  BY DEF Deliverable, Accepted, WellFormed
<1>2. Len(<<>>) = 0 /\ HeaderLength = 4
  BY DEF HeaderLength
<1>3. Chains(s) # {} /\ Len(s) - 1 <= MaxRaw
  <2>1. CobsDecode(s) # <<>>
    BY <1>1, <1>2
  <2>2. MaxRaw \in Nat
    BY Sizes
  <2> QED
    BY <1>1, <2>1, <2>2 DEF CobsDecode
<1>4. Len(s) < MaxWire
  <2>1. MaxRaw \in Nat
    BY Sizes
  <2> QED
    BY <1>1, <1>3, <2>1 DEF MaxWire
<1>5. s # <<>>
  <2> SUFFICES ASSUME s = <<>> PROVE FALSE
    OBVIOUS
  <2>1. PICK codes \in SUBSET (1..Len(s)) : IsChain(s, codes)
    BY <1>3 DEF Chains
  <2>2. 1 \in 1..Len(s)
    BY <2>1 DEF IsChain
  <2>3. Len(s) = 0
    OBVIOUS
  <2> QED
    BY <2>2, <2>3
<1> QED
  BY <1>1, <1>4, <1>5

(* Every frame sent has been read or is still whole in the stream, but two  *)
(* for every fault and those that a restart loses.                          *)
Whole == Cardinality(Arriving(Stream, AtOnce, Deliverable))
Local ==
  Len(sent) + Unready(Stream, AtOnce) <= arrived + overflows + Whole + 2 * faults + excused

(* A byte read as it was sent takes at most its frame out of the stream.    *)
LEMMA ByteLeaves ==
  ASSUME Typed, NEW v \in Seq(Nat), wire # <<>>, Rest(v, wire, 1), Byte(wire[1]),
         rx' = <<>>, ~ Stores(wire[1])
  PROVE  LET T == Arriving(v, AtOnce', Deliverable) IN
         /\ Whole \in Nat /\ Cardinality(T) \in Nat
         /\ Unready(v, AtOnce') <= Unready(Stream, AtOnce)
         /\ \/ Whole <= Cardinality(T) /\ arrived' + overflows' = arrived + overflows
            \/ Whole <= Cardinality(T) + 1 /\ arrived' + overflows' = arrived + overflows + 1
<1> DEFINE b == wire[1]
           d == Len(rx) + 1
           q == rx \o wire
           S == Arriving(q, AtOnce, Deliverable)
           T == Arriving(v, AtOnce', Deliverable)
<1>1. rx \in Seq(Nat \ {0}) /\ wire \in Seq(Nat) /\ Len(rx) \in Nat /\ Len(wire) \in Nat
  BY Numeric
<1>2. b \in Nat /\ sync \in BOOLEAN /\ arrived \in Nat /\ overflows \in Nat
  BY <1>1, TailIs DEF Typed
<1> HIDE DEF b
<1>3. NotYet(b) \/ Idles(b) \/ Refuses(b) \/ Overruns(b) \/ \E n \in 1..Len(sent) : Accepts(b, n)
  BY <1>2, ByteIs DEF b
<1>4. b = 0 => 1 \in AtOnce'
  <2>1. b = 0 => sync'
    <3>1. CASE NotYet(b)
      BY <3>1, Zenon DEF NotYet
    <3>2. CASE ~ NotYet(b)
      BY <1>3, <3>2 DEF Idles, Refuses, Overruns, Accepts
    <3> QED
      BY <3>1, <3>2
  <2>2. AtOnce' = IF sync' THEN {1} ELSE {}
    BY DEF AtOnce
  <2> QED
    BY <2>1, <2>2
<1>5. b # 0 /\ 1 \in AtOnce => AllShort(Deliverable, Len(rx))
  <2> SUFFICES ASSUME b # 0, 1 \in AtOnce PROVE AllShort(Deliverable, Len(rx))
    OBVIOUS
  <2>1. Len(rx) = MaxWire
    BY <1>3 DEF NotYet, Idles, Refuses, Overruns, Accepts, AtOnce
  <2>2. MaxWire \in Nat
    BY Sizes
  <2>3. ASSUME NEW s \in Deliverable PROVE Len(s) <= MaxWire
    BY <2>2, DeliverableIs
  <2> QED
    BY <2>1, <2>3 DEF AllShort
<1>6. AtOnce \subseteq {1}
  BY DEF AtOnce
<1>7. Unready(v, AtOnce') <= Unready(q, AtOnce)
  BY <1>1, <1>4, UnreadyRead DEF b
<1>8. ASSUME NEW e \in S
      PROVE  e - d \in T \/ (e = d /\ rx \in Deliverable /\ 1 \in AtOnce /\ b = 0)
  <2> DEFINE A == Deliverable
             later == AtOnce'
             first == AtOnce
  <2>1. /\ b = 0 => 1 \in later
        /\ b # 0 /\ 1 \in first => AllShort(A, Len(rx))
        /\ first \subseteq {1} /\ e \in Arriving(rx \o wire, first, A)
    BY <1>4, <1>5, <1>6
  <2> HIDE DEF A, later, first
  <2>2. \/ e - (Len(rx) + 1) \in Arriving(v, later, A)
        \/ e = Len(rx) + 1 /\ rx \in A /\ 1 \in first /\ b = 0
    BY <1>1, <2>1, ReadOne DEF b
  <2> QED
    BY <2>2 DEF A, later, first
<1>9. /\ S \subseteq Int /\ IsFiniteSet(T) /\ d \in Int
  <2>1. q \in Seq(Nat)
    BY <1>1, Joined
  <2> HIDE DEF q
  <2>2. S \subseteq Int
    BY <2>1, ArrivingFinite
  <2>3. IsFiniteSet(T)
    <3> DEFINE later == AtOnce'
               A == Deliverable
    <3> HIDE DEF later, A
    <3>1. IsFiniteSet(Arriving(v, later, A))
      BY ArrivingFinite
    <3> QED
      BY <3>1 DEF later, A
  <2> QED
    BY <1>1, <2>2, <2>3
<1>10. Whole = Cardinality(S) /\ Stream = q
  BY DEF Whole, Stream
<1> HIDE DEF S, T, d, q
<1>11. CASE \A e \in S : e - d \in T
  <2>1. IsFiniteSet({}) /\ Cardinality({}) = 0
    BY FS_EmptySet
  <2>2. \A e \in S : e \in {} \/ e - d \in T
    BY <1>11
  <2>3. Cardinality(S) \in Nat /\ Cardinality(T) \in Nat /\ Cardinality(S) <= Cardinality(T) + 0
    BY <1>9, <2>1, <2>2, FewLost
  <2>4. \/ arrived' + overflows' = arrived + overflows
        \/ arrived' + overflows' = arrived + overflows + 1
    BY <1>2, <1>3 DEF NotYet, Idles, Refuses, Overruns, Accepts, Arrives, Quiet, Erred
  <2>5. Cardinality(S) <= Cardinality(T) /\ Cardinality(S) <= Cardinality(T) + 1
    BY <2>3
  <2> QED
    BY <1>7, <1>10, <2>3, <2>4, <2>5 DEF T
<1>12. CASE \E e \in S : e - d \notin T
  <2>1. rx \in Deliverable /\ sync /\ b = 0
    BY <1>8, <1>12 DEF AtOnce
  <2>2. rx # <<>> /\ Accepted(CobsDecode(rx))
    BY <2>1, DeliverableIs DEF Deliverable
  <2>3. PICK n \in 1..Len(sent) : Accepts(b, n)
    BY <1>3, <2>1, <2>2 DEF NotYet, Idles, Refuses, Overruns
  <2>4. arrived' + overflows' = arrived + overflows + 1
    BY <1>2, <2>3, SMTT(20) DEF Accepts, Arrives
  <2>5. IsFiniteSet({d}) /\ Cardinality({d}) = 1
    BY FS_Singleton
  <2>6. \A e \in S : e \in {d} \/ e - d \in T
    BY <1>8
  <2>7. Cardinality(S) \in Nat /\ Cardinality(T) \in Nat /\ Cardinality(S) <= Cardinality(T) + 1
    BY <1>9, <2>5, <2>6, FewLost
  <2> QED
    BY <1>7, <1>10, <2>4, <2>7 DEF T
<1> QED
  BY <1>11, <1>12

(* What the sender does not touch.                                          *)
LEMMA SameDeliverable == sent' = sent => Deliverable' = Deliverable
BY DEF Deliverable, Accepted, CrcFits

(* The types of the budget.                                                 *)
LEMMA LocalTyped ==
  ASSUME Typed
  PROVE  /\ Stream \in Seq(Nat) /\ Whole \in Nat /\ Unready(Stream, AtOnce) \in Nat
         /\ Len(sent) \in Nat /\ arrived + overflows \in Nat /\ 2 * faults + excused \in Nat
         /\ (Local <=> Len(sent) + Unready(Stream, AtOnce)
                         <= (arrived + overflows) + Whole + (2 * faults + excused))
<1>1. rx \in Seq(Nat \ {0}) /\ wire \in Seq(Nat) /\ Len(sent) \in Nat
  BY Numeric
<1>2. Stream \in Seq(Nat)
  <2>1. rx \o wire \in Seq(Nat)
    BY <1>1, Joined
  <2> QED
    BY <2>1 DEF Stream
<1>3. Whole \in Nat
  <2> DEFINE q == Stream
             first == AtOnce
             A == Deliverable
  <2>1. q \in Seq(Nat)
    BY <1>2
  <2> HIDE DEF q, first, A
  <2>2. Cardinality(Arriving(q, first, A)) \in Nat
    BY <2>1, ArrivingFinite
  <2> QED
    BY <2>2 DEF q, first, A, Whole
<1>4. Unready(Stream, AtOnce) \in Nat
  BY UnreadyIs
<1>5. arrived \in Nat /\ overflows \in Nat /\ faults \in Nat /\ excused \in Nat
  BY DEF Typed
<1>6. arrived + overflows \in Nat /\ 2 * faults + excused \in Nat
  BY <1>5
<1>7. Local <=> Len(sent) + Unready(Stream, AtOnce)
                  <= (arrived + overflows) + Whole + (2 * faults + excused)
  BY <1>1, <1>3, <1>4, <1>5 DEF Local
<1> QED
  BY <1>1, <1>2, <1>3, <1>4, <1>6, <1>7

(* A byte read as it was sent: a frame it takes from the stream is counted. *)
LEMMA PollSpends ==
  ASSUME Typed, Typed', wire # <<>>, Byte(wire[1]), wire' = Tail(wire), sent' = sent
  PROVE  /\ arrived' + overflows' \in Nat /\ arrived + overflows <= arrived' + overflows'
         /\ Whole' \in Nat /\ Unready(Stream, AtOnce)' \in Nat
         /\ (arrived + overflows) + Whole + Unready(Stream, AtOnce)'
              <= (arrived' + overflows') + Whole' + Unready(Stream, AtOnce)
<1> DEFINE b == wire[1]
<1>1. /\ rx \in Seq(Nat \ {0}) /\ wire \in Seq(Nat) /\ wire' \in Seq(Nat)
      /\ rx' \in Seq(Nat \ {0})
  BY Numeric
<1>2. /\ b \in Nat /\ Len(wire) \in Nat \ {0} /\ Len(wire') = Len(wire) - 1
      /\ \A i \in 1..(Len(wire) - 1) : wire'[i] = wire[i + 1]
  BY <1>1, TailIs
<1>3. /\ Whole \in Nat /\ Unready(Stream, AtOnce) \in Nat /\ arrived + overflows \in Nat
      /\ arrived \in Nat /\ overflows \in Nat
  BY LocalTyped DEF Typed
<1> HIDE DEF b
<1>4. CASE Stores(b)
  <2>1. rx' = Append(rx, b) /\ b # 0 /\ sync' = sync /\ arrived' = arrived /\ overflows' = overflows
    BY <1>4 DEF Stores, Quiet
  <2>2. Stream' = Stream
    BY <1>1, <2>1, StreamStored DEF b, Stream
  <2>3. AtOnce' = AtOnce
    BY <2>1 DEF AtOnce
  <2>4. Whole' = Whole
    BY <2>2, <2>3, SameDeliverable DEF Whole
  <2>5. Unready(Stream, AtOnce)' = Unready(Stream, AtOnce)
    BY <2>2, <2>3
  <2> QED
    BY <1>3, <2>1, <2>4, <2>5
<1>5. CASE ~ Stores(b)
  <2>1. rx' = <<>>
    BY <1>2, <1>5, ByteIs DEF b, NotYet, Idles, Refuses, Overruns, Accepts
  <2>2. Rest(wire', wire, 1)
    <3>1. Len(wire') = Len(wire) - 1 /\ \A i \in 1..Len(wire') : wire'[i] = wire[1 + i]
      BY <1>2
    <3> QED
      BY <3>1 DEF Rest
  <2>3. Stream' = wire'
    <3>1. 1 \in Nat
      OBVIOUS
    <3>2. <<>> \o wire' = wire'
      BY <1>1, <2>2, <3>1, StreamCut
    <3> QED
      BY <2>1, <3>2 DEF Stream
  <2> DEFINE T == Arriving(wire', AtOnce', Deliverable)
             C == Cardinality(T)
             U == Unready(wire', AtOnce')
  <2>4. /\ Whole \in Nat /\ C \in Nat /\ U <= Unready(Stream, AtOnce)
        /\ \/ Whole <= C /\ arrived' + overflows' = arrived + overflows
           \/ Whole <= C + 1 /\ arrived' + overflows' = arrived + overflows + 1
    BY <1>1, <1>5, <2>1, <2>2, ByteLeaves DEF b
  <2>5. Whole' = C
    BY <2>3, SameDeliverable DEF Whole
  <2>6. Unready(Stream, AtOnce)' = U
    BY <2>3
  <2>7. U \in Nat
    BY UnreadyIs
  <2> HIDE DEF C, U
  <2> QED
    BY <1>3, <2>4, <2>5, <2>6, <2>7
<1> QED
  BY <1>4, <1>5

(* Damage at the head of the wire hits the segment it is in, and the one    *)
(* behind it if a delimiter is hit: t is what the damage leaves alone.      *)
LEMMA DamageHits ==
  ASSUME NEW r \in Seq(Nat \ {0}), NEW w \in Seq(Nat), w # <<>>, NEW t \in Seq(Nat),
         Rest(t, w, 1), NEW p \in Seq(Nat), NEW d \in Nat, Rest(t, p, d),
         NEW first, first \subseteq {1}, NEW later, NEW A
  PROVE  /\ Cardinality(Arriving(r \o w, first, A)) \in Nat
         /\ Cardinality(Arriving(p, later, A)) \in Nat
         /\ Cardinality(Arriving(r \o w, first, A)) + Unready(p, later)
              <= Cardinality(Arriving(p, later, A)) + Unready(r \o w, first) + 2
<1> DEFINE q == r \o w
           k == Len(r) + 1
           S == Arriving(q, first, A)
           T == Arriving(p, later, A)
           Begun(i) == {e \in S : Segment(q, first, i, e)}
<1>1. /\ q \in Seq(Nat) /\ Len(q) = Len(r) + Len(w) /\ Len(r) \in Nat /\ Len(w) \in Nat
  BY Joined
<1>2. Rest(t, q, k) /\ k \in Nat
  <2>1. 1 \in Nat
    OBVIOUS
  <2> QED
    BY <1>1, <2>1, StreamCut
<1>3. ASSUME NEW e \in S
      PROVE  /\ e \in Int
             /\ \E i \in 1..Len(q) :
                  /\ Segment(q, first, i, e) /\ Between(q, i, e) \in A
                  /\ (i = 1 /\ 1 \in first) \/ i > Len(r) + 1
  BY SegmentOf
<1> HIDE DEF q
<1>4. /\ S \subseteq Int /\ IsFiniteSet(S) /\ IsFiniteSet(T)
      /\ Cardinality(S) \in Nat /\ Cardinality(T) \in Nat
  BY <1>1, ArrivingFinite
<1>5. /\ Unready(p, later) \in Nat /\ Unready(p, later) <= 1
      /\ Unready(q, first) \in Nat /\ Unready(q, first) <= 1
  BY UnreadyIs
<1>6. ASSUME NEW i \in Nat \ {0}, NEW x \in Begun(i), NEW y \in Begun(i) PROVE x = y
  <2>1. x \in Int /\ y \in Int /\ Segment(q, first, i, x) /\ Segment(q, first, i, y)
    BY <1>4
  <2>2. i <= x /\ i <= y /\ i \in Nat /\ i \in Int /\ i <= i
    BY <2>1 DEF Segment
  <2> QED
    BY <1>1, <2>1, <2>2, OneEnd
<1>7. ASSUME NEW i \in Nat \ {0}
      PROVE  IsFiniteSet(Begun(i)) /\ Cardinality(Begun(i)) \in Nat /\ Cardinality(Begun(i)) <= 1
  <2> DEFINE P == Begun(i)
  <2>1. \A x, y \in P : x = y
    BY <1>6
  <2> HIDE DEF P
  <2>2. IsFiniteSet(P) /\ Cardinality(P) \in Nat /\ Cardinality(P) <= 1
    BY <2>1, OneAtMost
  <2> QED
    BY <2>2 DEF P
<1>8. ASSUME NEW e \in S, e \notin Begun(1), e \notin Begun(k + 1)
      PROVE  e - (k - d) \in T
  <2>1. e \in Int
    BY <1>3
  <2>2. PICK i \in 1..Len(q) :
          /\ Segment(q, first, i, e) /\ Between(q, i, e) \in A
          /\ (i = 1 /\ 1 \in first) \/ i > Len(r) + 1
    BY <1>3
  <2>3. i > k + 1
    <3>1. i # 1 /\ i # k + 1
      BY <1>8, <2>2
    <3>2. i > k
      BY <2>2, <3>1
    <3>3. i \in Nat
      BY <1>1
    <3> HIDE DEF k
    <3> QED
      BY <1>2, <3>1, <3>2, <3>3
  <2> DEFINE f == e - k
  <2> HIDE DEF k
  <2>4. f \in Arriving(t, {}, A)
    BY <1>1, <1>2, <2>1, <2>2, <2>3, ArrivingLeft
  <2>5. f \in Int
    BY <1>2, <2>1
  <2> HIDE DEF f
  <2>6. f + d \in Arriving(p, later, A)
    BY <2>4, ArrivingBehind
  <2>7. f + d = e - (k - d)
    BY <1>2, <2>1 DEF f
  <2> QED
    BY <2>6, <2>7
<1> HIDE DEF S, T
<1>9. CASE t # <<>>
  <2> DEFINE P == Begun(1) \cup Begun(k + 1)
  <2>1. Unready(p, later) = Unready(q, first)
    <3> HIDE DEF k
    <3>1. Unready(t, {}) = Unready(q, first)
      BY <1>1, <1>2, <1>9, UnreadyLeft
    <3>2. Unready(t, {}) = Unready(p, later)
      BY <1>9, UnreadyLeft
    <3> QED
      BY <3>1, <3>2
  <2>2. IsFiniteSet(P) /\ Cardinality(P) \in Nat /\ Cardinality(P) <= 2
    <3> DEFINE X == Begun(1)
               Y == Begun(k + 1)
    <3>1. k + 1 \in Nat \ {0} /\ 1 \in Nat \ {0}
      BY <1>2
    <3>2. /\ IsFiniteSet(X) /\ Cardinality(X) \in Nat /\ Cardinality(X) <= 1
          /\ IsFiniteSet(Y) /\ Cardinality(Y) \in Nat /\ Cardinality(Y) <= 1
      BY <1>7, <3>1
    <3> HIDE DEF X, Y
    <3>3. /\ IsFiniteSet(X \cup Y) /\ IsFiniteSet(X \cap Y)
          /\ Cardinality(X \cup Y) = Cardinality(X) + Cardinality(Y) - Cardinality(X \cap Y)
      BY <3>2, FS_Union, FS_Subset
    <3>4. Cardinality(X \cap Y) \in Nat /\ Cardinality(X \cup Y) \in Nat
      BY <3>3, FS_CardinalityType
    <3>5. Cardinality(X \cup Y) <= 2
      BY <3>2, <3>3, <3>4
    <3> QED
      BY <3>3, <3>4, <3>5 DEF X, Y
  <2>3. \A e \in S : e \in P \/ e - (k - d) \in T
    BY <1>8
  <2>4. k - d \in Int
    BY <1>2
  <2> HIDE DEF P
  <2>5. Cardinality(S) <= Cardinality(T) + Cardinality(P)
    BY <1>4, <2>2, <2>3, <2>4, FewLost
  <2> QED
    BY <1>4, <1>5, <2>1, <2>2, <2>5, SMTT(20) DEF S, T, q
<1>10. CASE t = <<>>
  <2>1. Len(q) = k
    <3>1. Len(t) = Len(w) - 1 /\ Len(t) = 0
      BY <1>10 DEF Rest
    <3>2. Len(w) = 1
      BY <1>1, <3>1
    <3> QED
      BY <1>1, <3>2
  <2>2. \A e \in S : e \in Begun(1)
    BY <1>1, <1>3, <2>1, SMTT(20) DEF S
  <2>3. Cardinality(S) <= 1
    <3>1. \A x, y \in S : x = y
      BY <1>6, <2>2
    <3> QED
      BY <3>1, OneAtMost
  <2> QED
    BY <1>4, <1>5, <2>3 DEF S, T, q
<1> QED
  BY <1>9, <1>10

(* A byte of any kind never takes back what was counted.                    *)
LEMMA ByteCounts ==
  ASSUME Typed, NEW b \in Nat, Byte(b)
  PROVE  arrived' + overflows' \in Nat /\ arrived + overflows <= arrived' + overflows'
<1>1. arrived \in Nat /\ overflows \in Nat
  BY DEF Typed
<1>2. NotYet(b) \/ Idles(b) \/ Refuses(b) \/ Overruns(b) \/ Stores(b)
      \/ \E n \in 1..Len(sent) : Accepts(b, n)
  BY ByteIs
<1> QED
  BY <1>1, <1>2
     DEF NotYet, Idles, Refuses, Overruns, Stores, Accepts, Arrives, Quiet, Erred

(* A byte changed, added or lost spends two frames.                         *)
LEMMA DamageSpends ==
  ASSUME Typed, Typed', wire # <<>>, sent' = sent, PollDamaged
  PROVE  /\ arrived' + overflows' \in Nat /\ arrived + overflows <= arrived' + overflows'
         /\ Whole' \in Nat /\ Unready(Stream, AtOnce)' \in Nat
         /\ (arrived + overflows) + Whole + Unready(Stream, AtOnce)'
              <= (arrived' + overflows') + Whole' + Unready(Stream, AtOnce) + 2
<1>1. /\ rx \in Seq(Nat \ {0}) /\ wire \in Seq(Nat) /\ wire' \in Seq(Nat)
      /\ rx' \in Seq(Nat \ {0}) /\ Len(rx') \in Nat
  BY Numeric
<1> DEFINE t == Tail(wire)
<1>2. /\ t \in Seq(Nat) /\ Len(wire) \in Nat \ {0} /\ Len(t) = Len(wire) - 1
      /\ \A i \in 1..(Len(wire) - 1) : t[i] = wire[i + 1]
  BY <1>1, TailIs
<1>3. wire' = t \/ wire' = wire
  BY DEF PollDamaged
<1>4. arrived' + overflows' \in Nat /\ arrived + overflows <= arrived' + overflows'
  <2>1. Damaged \subseteq Nat
    BY LinkConstants DEF Bytes
  <2>2. CASE \E b \in Damaged : Byte(b)
    BY <2>1, <2>2, ByteCounts
  <2>3. CASE UNCHANGED receiver
    BY <2>3 DEF receiver, Typed
  <2> QED
    BY <2>2, <2>3 DEF PollDamaged
<1> HIDE DEF t
<1>5. Rest(t, wire, 1)
  <2>1. \A i \in 1..Len(t) : i \in 1..(Len(wire) - 1) /\ 1 + i = i + 1
    BY <1>2
  <2>2. Len(t) = Len(wire) - 1 /\ \A i \in 1..Len(t) : t[i] = wire[1 + i]
    BY <1>2, <2>1
  <2> QED
    BY <2>2 DEF Rest
<1>6. \E d \in Nat : Rest(t, rx' \o wire', d)
  <2>1. CASE wire' = wire
    <3> DEFINE d == Len(rx') + 1
    <3>1. 1 \in Nat /\ d \in Nat
      BY <1>1
    <3>2. Rest(t, rx' \o wire, d)
      BY <1>1, <1>2, <1>5, <3>1, StreamCut
    <3> QED
      BY <2>1, <3>1, <3>2
  <2>2. CASE wire' = t
    <3> DEFINE d == Len(rx') + 0
    <3>1. 0 \in Nat /\ d \in Nat
      BY <1>1
    <3>2. Rest(t, t, 0)
      <4>1. Len(t) = Len(t) - 0 /\ \A i \in 1..Len(t) : t[i] = t[0 + i]
        BY <1>2
      <4> QED
        BY <4>1 DEF Rest
    <3>3. Rest(t, rx' \o t, d)
      BY <1>1, <1>2, <3>1, <3>2, StreamCut
    <3> QED
      BY <2>2, <3>1, <3>3
  <2> QED
    BY <1>3, <2>1, <2>2
<1>7. PICK d \in Nat : Rest(t, rx' \o wire', d)
  BY <1>6
<1> DEFINE p == rx' \o wire'
           first == AtOnce
           later == AtOnce'
           A == Deliverable
           W == Cardinality(Arriving(rx \o wire, first, A))
           C == Cardinality(Arriving(p, later, A))
           U == Unready(rx \o wire, first)
           V == Unready(p, later)
<1>8. p \in Seq(Nat) /\ first \subseteq {1} /\ Rest(t, p, d)
  BY <1>1, <1>7, Joined DEF AtOnce
<1> HIDE DEF p, first, later, A
<1>9. W \in Nat /\ C \in Nat /\ W + V <= C + U + 2
  BY <1>1, <1>2, <1>5, <1>8, DamageHits
<1>10. V \in Nat /\ U \in Nat
  BY UnreadyIs
<1>11. Whole = W /\ Unready(Stream, AtOnce) = U
  BY DEF Whole, Stream, first, A
<1>12. Whole' = C /\ Unready(Stream, AtOnce)' = V
  <2>1. Deliverable' = Deliverable
    BY SameDeliverable
  <2> QED
    BY <2>1 DEF Whole, Stream, p, later, A
<1>13. arrived + overflows \in Nat
  BY LocalTyped
<1> HIDE DEF W, C, U, V
<1> DEFINE X == arrived + overflows
           Y == arrived' + overflows'
<1>14. X \in Nat /\ Y \in Nat /\ X <= Y
  BY <1>4, <1>13
<1> HIDE DEF X, Y
<1>15. X + W + V <= Y + C + U + 2
  BY <1>9, <1>10, <1>14
<1> QED
  BY <1>4, <1>9, <1>10, <1>11, <1>12, <1>15 DEF X, Y

(* What could be accepted before a frame was sent can be accepted after it, *)
(* and so can that frame.                                                   *)
LEMMA DeliverableSend ==
  ASSUME Typed, NEW f \in Frames, sent' = Append(sent, f), NEW n \in Nat, n = Len(sent) + 1
  PROVE  Deliverable \subseteq Deliverable' /\ Wired(f, n) \in Deliverable'
<1>1. sent \in Seq(Frames) /\ Len(sent) \in Nat
  BY DEF Typed
<1>2. /\ Len(sent') = n /\ sent'[n] = f /\ n \in 1..Len(sent') /\ n \in Nat \ {0}
      /\ \A i \in 1..Len(sent) : i \in 1..Len(sent') /\ sent'[i] = sent[i]
  BY <1>1
<1>3. ASSUME NEW s \in Deliverable PROVE s \in Deliverable'
  <2>1. s \in Seq(Nat) /\ WellFormed(CobsDecode(s)) /\ CrcFits(CobsDecode(s))
    BY DEF Deliverable, Accepted
  <2>2. PICK i \in 1..Len(sent) : CobsDecode(s) = RawOf(sent[i], i)
    BY <2>1 DEF CrcFits
  <2>3. i \in 1..Len(sent') /\ CobsDecode(s) = RawOf(sent'[i], i)
    BY <1>2, <2>2
  <2>4. CrcFits(CobsDecode(s))'
    BY <2>3 DEF CrcFits
  <2> QED
    BY <2>1, <2>4 DEF Deliverable, Accepted
<1>4. ASSUME NEW e, e = Wired(f, n) PROVE e \in Deliverable'
  <2>1. e \in Seq(Nat \ {0}) /\ CobsDecode(e) = RawOf(f, n)
    BY <1>2, <1>4, WiredIs
  <2>2. Nat \ {0} \subseteq Nat
    OBVIOUS
  <2>3. e \in Seq(Nat)
    BY <2>1, <2>2, SeqGrows, Zenon
  <2>4. WellFormed(CobsDecode(e))
    BY <1>2, <2>1, RawIsAccepted
  <2>5. n \in 1..Len(sent') /\ CobsDecode(e) = RawOf(sent'[n], n)
    BY <1>2, <2>1
  <2>6. CrcFits(CobsDecode(e))'
    BY <2>5 DEF CrcFits
  <2> QED
    BY <2>3, <2>4, <2>6 DEF Deliverable, Accepted
<1> QED
  BY <1>3, <1>4

(* The stream p is the stream q with e and a delimiter behind it.           *)
Grown(p, q, e) ==
  /\ Len(p) = Len(q) + Len(e) + 1
  /\ \A i \in 1..Len(q) : p[i] = q[i]
  /\ \A j \in 1..Len(e) : p[Len(q) + j] = e[j]
  /\ p[Len(q) + Len(e) + 1] = 0

(* A frame more at the end of the stream, if the end was ready for one.     *)
LEMMA ArrivingMore ==
  ASSUME NEW q \in Seq(Nat), NEW p \in Seq(Nat), NEW e \in Seq(Nat \ {0}),
         Grown(p, q, e), NEW first, first \subseteq {1}, NEW A, NEW B, A \subseteq B, e \in B
  PROVE  /\ Cardinality(Arriving(q, first, A)) \in Nat
         /\ Cardinality(Arriving(p, first, B)) \in Nat
         /\ Unready(p, first) = 0
         /\ Cardinality(Arriving(q, first, A)) + 1
              <= Cardinality(Arriving(p, first, B)) + Unready(q, first)
<1>0. /\ Len(p) = Len(q) + Len(e) + 1
      /\ \A i \in 1..Len(q) : p[i] = q[i]
      /\ \A j \in 1..Len(e) : p[Len(q) + j] = e[j]
      /\ p[Len(q) + Len(e) + 1] = 0
  BY Zenon DEF Grown
<1> DEFINE S == Arriving(q, first, A)
           T == Arriving(p, first, B)
           m == Len(q)
           l == Len(e)
           z == m + l + 1
<1>1. m \in Nat /\ l \in Nat /\ Len(p) = z /\ z \in Nat /\ z > m /\ z \in 1..Len(p)
  BY <1>0
<1>2. /\ S \subseteq 1..m /\ IsFiniteSet(S) /\ IsFiniteSet(T)
      /\ Cardinality(S) \in Nat /\ Cardinality(T) \in Nat
  BY ArrivingFinite
<1>3. ASSUME NEW s \in S PROVE s \in T
  <2>1. m <= Len(q) /\ m <= Len(p) /\ s <= m
    BY <1>1, <1>2
  <2>2. \A j \in 1..m : p[j] = q[j]
    BY <1>0
  <2> HIDE DEF m
  <2> QED
    BY <1>1, <2>1, <2>2, ArrivingBefore
<1>4. p[z] = 0 /\ p # <<>> /\ Len(p) # 0
  BY <1>0, <1>1
<1>5. Unready(p, first) = 0
  BY <1>1, <1>4 DEF Unready
<1>6. Unready(q, first) \in Nat /\ Unready(q, first) <= 1
  BY UnreadyIs
<1>7. ASSUME Unready(q, first) = 0 PROVE z \in T
  <2>1. Starts(p, first, m + 1)
    <3>1. m + 1 \in 1..Len(p)
      BY <1>1
    <3>2. CASE q = <<>>
      <4>1. first # {} /\ m = 0
        BY <1>7, <3>2 DEF Unready
      <4>2. 1 \in first
        BY <4>1
      <4> QED
        BY <3>1, <4>1, <4>2 DEF Starts
    <3>3. CASE q # <<>>
      <4>1. q[m] = 0 /\ m # 0
        BY <1>7, <3>3 DEF Unready
      <4>2. m \in 1..m /\ m + 1 > 1 /\ (m + 1) - 1 = m
        BY <1>1, <4>1
      <4>3. p[m] = 0
        BY <1>0, <4>1, <4>2
      <4> QED
        BY <3>1, <4>2, <4>3 DEF Starts
    <3> QED
      BY <3>2, <3>3
  <2>2. ASSUME NEW j \in (m + 1)..(z - 1) PROVE p[j] # 0
    <3>1. j - m \in 1..l /\ m + (j - m) = j
      BY <1>1
    <3>2. p[j] = e[j - m]
      BY <1>0, <3>1
    <3>3. e[j - m] \in Nat \ {0}
      BY <3>1, ElementOfSeq
    <3> QED
      BY <3>2, <3>3
  <2>3. Segment(p, first, m + 1, z)
    <3>1. z \in (m + 1)..Len(p)
      BY <1>1
    <3> HIDE DEF m, z
    <3> QED
      BY <1>4, <2>1, <2>2, <3>1 DEF Segment
  <2>4. Between(p, m + 1, z) = e
    <3> DEFINE a == m + 1
               c == z - 1
    <3>1. a \in Int /\ c \in Int /\ c - a + 1 = l /\ (a <= c <=> l > 0) /\ c <= Len(p) /\ 1 <= a
      BY <1>1
    <3>2. ASSUME NEW j \in 1..l PROVE a + j - 1 = m + j
      BY <1>1
    <3> HIDE DEF a, c, m
    <3>3. \A j \in a..c : p[j] \in Nat
      <4> TAKE j \in a..c
      <4>1. j \in 1..Len(p)
        BY <1>1, <3>1
      <4> QED
        BY <4>1, ElementOfSeq
    <3>4. /\ SubSeq(p, a, c) \in Seq(Nat)
          /\ Len(SubSeq(p, a, c)) = IF a <= c THEN c - a + 1 ELSE 0
          /\ \A j \in 1..(c - a + 1) : SubSeq(p, a, c)[j] = p[a + j - 1]
      BY <3>1, <3>3, SubSeqProperties
    <3> DEFINE t == SubSeq(p, a, c)
    <3> HIDE DEF t
    <3>5. t \in Seq(Nat) /\ Len(t) = l
      BY <1>1, <3>1, <3>4 DEF t
    <3>6. ASSUME NEW j \in 1..l PROVE t[j] = e[j]
      <4>1. t[j] = p[a + j - 1]
        BY <3>1, <3>4 DEF t
      <4>2. p[a + j - 1] = e[j]
        BY <1>0, <3>2 DEF m
      <4> QED
        BY <4>1, <4>2
    <3>7. e \in Seq(Nat)
      <4>1. Nat \ {0} \subseteq Nat
        OBVIOUS
      <4> QED
        BY <4>1, SeqGrows, Zenon
    <3>8. t = e
      BY <3>5, <3>6, <3>7, SeqEqual
    <3> QED
      BY <3>8 DEF t, a, c, Between
  <2>5. m + 1 \in 1..Len(p)
    BY <1>1
  <2> HIDE DEF m, z
  <2> QED
    BY <1>1, <2>3, <2>4, <2>5 DEF Arriving
<1> HIDE DEF S, T
<1>8. CASE Unready(q, first) = 0
  <2>1. z \notin S
    <3>1. \A s \in S : s <= m
      BY <1>1, <1>2
    <3>2. ~ (z <= m)
      BY <1>1
    <3> HIDE DEF z, m
    <3> QED
      BY <3>1, <3>2
  <2>2. S \cup {z} \subseteq T
    <3> HIDE DEF z
    <3> QED
      BY <1>3, <1>7, <1>8
  <2> HIDE DEF z
  <2>3. IsFiniteSet(S \cup {z}) /\ Cardinality(S \cup {z}) = Cardinality(S) + 1
    BY <1>2, <2>1, FS_AddElement
  <2>4. Cardinality(S \cup {z}) <= Cardinality(T)
    BY <1>2, <2>2, FS_Subset
  <2>5. Cardinality(S) + 1 <= Cardinality(T) + 0
    BY <1>2, <2>3, <2>4
  <2> QED
    BY <1>2, <1>5, <1>8, <2>5 DEF S, T
<1>9. CASE Unready(q, first) # 0
  <2>1. Unready(q, first) = 1
    BY <1>6, <1>9
  <2>2. S \subseteq T
    BY <1>3
  <2>3. Cardinality(S) <= Cardinality(T)
    BY <1>2, <2>2, FS_Subset
  <2>4. Cardinality(S) + 1 <= Cardinality(T) + 1
    BY <1>2, <2>3
  <2> QED
    BY <1>2, <1>5, <2>1, <2>4 DEF S, T
<1> QED
  BY <1>8, <1>9

(* The delimiters in what a restart loses.                                  *)
LEMMA DelimitersIs ==
  ASSUME NEW c \in Seq(Nat)
  PROVE  /\ DOMAIN c = 1..Len(c) /\ Delimiters(c) \in Nat
         /\ IsFiniteSet({i \in DOMAIN c : c[i] = 0})
         /\ Delimiters(c) = Cardinality({i \in DOMAIN c : c[i] = 0})
<1>1. DOMAIN c = 1..Len(c) /\ Len(c) \in Int /\ 1 \in Int
  OBVIOUS
<1>2. IsFiniteSet(1..Len(c))
  BY <1>1, FS_Interval
<1>3. IsFiniteSet({i \in DOMAIN c : c[i] = 0})
  <2>1. {i \in DOMAIN c : c[i] = 0} \in SUBSET (1..Len(c))
    BY <1>1
  <2> QED
    BY <1>2, <2>1, FS_Subset
<1>4. Cardinality({i \in DOMAIN c : c[i] = 0}) \in Nat
  BY <1>3, FS_CardinalityType
<1> QED
  BY <1>1, <1>3, <1>4 DEF Delimiters

(* The sender restarts: a frame lost had its delimiter in what was lost.    *)
LEMMA EndLost ==
  ASSUME NEW r \in Seq(Nat \ {0}), NEW w \in Seq(Nat), NEW k \in Nat, k <= Len(w),
         NEW v \in Seq(Nat), Len(v) = k, \A i \in 1..k : v[i] = w[i],
         NEW c \in Seq(Nat), Rest(c, w, k), NEW first, NEW A
  PROVE  /\ Cardinality(Arriving(r \o w, first, A)) \in Nat
         /\ Cardinality(Arriving(r \o v, first, A)) \in Nat
         /\ Cardinality(Arriving(r \o w, first, A))
              <= Cardinality(Arriving(r \o v, first, A)) + Delimiters(c)
<1> DEFINE q == r \o w
           p == r \o v
           a == Len(r)
           S == Arriving(q, first, A)
           T == Arriving(p, first, A)
           P == {z \in S : z > a + k}
           Z == {i \in DOMAIN c : c[i] = 0}
<1>1. /\ q \in Seq(Nat) /\ Len(q) = a + Len(w) /\ a \in Nat /\ Len(w) \in Nat
      /\ \A j \in 1..a : q[j] = r[j]
      /\ \A j \in 1..Len(w) : q[a + j] = w[j]
  BY Joined
<1>2. /\ p \in Seq(Nat) /\ Len(p) = a + k
      /\ \A j \in 1..a : p[j] = r[j]
      /\ \A j \in 1..k : p[a + j] = v[j]
  <2>1. /\ r \o v \in Seq(Nat) /\ Len(r \o v) = Len(r) + Len(v)
        /\ \A j \in 1..Len(r) : (r \o v)[j] = r[j]
        /\ \A j \in 1..Len(v) : (r \o v)[Len(r) + j] = v[j]
    BY Joined
  <2> QED
    BY <2>1
<1>3. Len(c) = Len(w) - k /\ \A i \in 1..Len(c) : c[i] = w[k + i]
  BY Zenon DEF Rest
<1> HIDE DEF q, p, a
<1>4. \A j \in 1..(a + k) : p[j] = q[j]
  <2> TAKE j \in 1..(a + k)
  <2>1. CASE j \in 1..a
    BY <1>1, <1>2, <2>1
  <2>2. CASE j - a \in 1..k
    <3>1. a + (j - a) = j /\ j - a \in 1..Len(w)
      BY <1>1, <2>2
    <3>2. p[a + (j - a)] = v[j - a] /\ q[a + (j - a)] = w[j - a] /\ v[j - a] = w[j - a]
      BY <1>1, <1>2, <2>2, <3>1
    <3> QED
      BY <3>1, <3>2
  <2>3. j \in 1..a \/ j - a \in 1..k
    BY <1>1
  <2> QED
    BY <2>1, <2>2, <2>3
<1>5. /\ S \subseteq 1..Len(q) /\ S \subseteq Int /\ IsFiniteSet(S) /\ IsFiniteSet(T)
      /\ Cardinality(S) \in Nat /\ Cardinality(T) \in Nat
  BY <1>1, <1>2, ArrivingFinite
<1>6. ASSUME NEW z \in S, ~ (z > a + k) PROVE z \in T
  <2> DEFINE n == a + k
  <2>1. n \in Nat /\ n <= Len(q) /\ n <= Len(p) /\ z <= n
    BY <1>1, <1>2, <1>5, <1>6
  <2>2. \A j \in 1..n : p[j] = q[j]
    BY <1>4
  <2>3. A \subseteq A
    OBVIOUS
  <2> HIDE DEF n
  <2> QED
    BY <1>1, <1>2, <2>1, <2>2, <2>3, ArrivingBefore
<1>7. ASSUME NEW z \in P PROVE z - (a + k) \in Z
  <2>1. z \in 1..Len(q) /\ z > a + k /\ q[z] = 0
    <3>1. z \in S /\ z > a + k
      OBVIOUS
    <3>2. q[z] = 0
      BY <3>1 DEF Arriving, Segment
    <3> QED
      BY <1>5, <3>1, <3>2
  <2>2. z - (a + k) \in 1..Len(c) /\ a + (k + (z - (a + k))) = z
        /\ k + (z - (a + k)) \in 1..Len(w)
    BY <1>1, <1>3, <2>1
  <2>3. c[z - (a + k)] = 0
    BY <1>1, <1>3, <2>1, <2>2
  <2> QED
    BY <2>2, <2>3, DelimitersIs
<1>8. IsFiniteSet(Z) /\ Delimiters(c) = Cardinality(Z) /\ Delimiters(c) \in Nat
  BY DelimitersIs
<1>9. IsFiniteSet(P) /\ Cardinality(P) \in Nat /\ Cardinality(P) <= Cardinality(Z)
  <2>1. P \subseteq Int /\ a + k \in Int
    BY <1>1, <1>5
  <2> DEFINE m == a + k
  <2>2. \A z \in P : z - m \in Z
    BY <1>7
  <2>3. m \in Int
    BY <2>1
  <2> HIDE DEF P, Z, m
  <2> QED
    BY <1>8, <2>1, <2>2, <2>3, MovedInto, FS_CardinalityType
<1>10. \A z \in S : z \in P \/ z - 0 \in T
  <2> TAKE z \in S
  <2>1. z - 0 = z
    BY <1>5
  <2> QED
    BY <1>6, <2>1
<1> HIDE DEF S, T, P, Z
<1>11. Cardinality(S) <= Cardinality(T) + Cardinality(P)
  <2>1. 0 \in Int
    OBVIOUS
  <2> QED
    BY <1>5, <1>9, <1>10, <2>1, FewLost
<1>12. Cardinality(Z) \in Nat
  BY <1>8
<1>13. Cardinality(S) <= Cardinality(T) + Delimiters(c)
  BY <1>5, <1>8, <1>9, <1>11, <1>12
<1> QED
  BY <1>5, <1>13 DEF S, T, q, p

(* The receiver restarts: besides those the frame is lost in whose middle   *)
(* it starts to listen.                                                     *)
LEMMA BeginningLost ==
  ASSUME NEW r \in Seq(Nat \ {0}), NEW w \in Seq(Nat), NEW k \in Nat, k <= Len(w),
         NEW v \in Seq(Nat), Rest(v, w, k),
         NEW c \in Seq(Nat), Len(c) = k, \A i \in 1..k : c[i] = w[i],
         NEW first, first \subseteq {1}, NEW A
  PROVE  /\ Cardinality(Arriving(r \o w, first, A)) \in Nat
         /\ Cardinality(Arriving(v, {}, A)) \in Nat
         /\ Cardinality(Arriving(r \o w, first, A)) + Unready(v, {})
              <= Cardinality(Arriving(v, {}, A)) + Unready(r \o w, first) + (Delimiters(c) + 1)
<1> DEFINE q == r \o w
           a == Len(r)
           d == a + k
           S == Arriving(q, first, A)
           T == Arriving(v, {}, A)
           P == {z \in S : z <= d}
           Q == {z \in S : z > d /\ \E i \in 1..Len(q) : i <= d + 1 /\ Segment(q, first, i, z)}
           Z == {i \in DOMAIN c : c[i] = 0}
<1>1. /\ q \in Seq(Nat) /\ Len(q) = a + Len(w) /\ a \in Nat /\ Len(w) \in Nat
      /\ \A j \in 1..a : q[j] = r[j]
      /\ \A j \in 1..Len(w) : q[a + j] = w[j]
  BY Joined, SMTT(20)
<1>2. Rest(v, q, d) /\ d \in Nat
  BY <1>1, StreamCut
<1>3. ASSUME NEW e \in S PROVE e \in Int /\ a < e
  BY SegmentOf
<1> HIDE DEF q, a
<1>4. /\ S \subseteq 1..Len(q) /\ S \subseteq Int /\ IsFiniteSet(S) /\ IsFiniteSet(T)
      /\ Cardinality(S) \in Nat /\ Cardinality(T) \in Nat
  BY <1>1, ArrivingFinite
<1>5. IsFiniteSet(Z) /\ Delimiters(c) = Cardinality(Z) /\ Delimiters(c) \in Nat
  BY DelimitersIs
<1>6. ASSUME NEW z \in P PROVE z - a \in Z
  <2>1. z \in 1..Len(q) /\ z <= d /\ z > a /\ q[z] = 0
    <3>1. z \in S /\ z <= d
      OBVIOUS
    <3>2. q[z] = 0
      BY <3>1 DEF Arriving, Segment
    <3> QED
      BY <1>3, <1>4, <3>1, <3>2
  <2>2. z - a \in 1..k /\ a + (z - a) = z /\ z - a \in 1..Len(w) /\ z - a \in 1..Len(c)
    BY <1>1, <2>1
  <2>3. c[z - a] = 0
    BY <1>1, <2>1, <2>2
  <2> QED
    BY <2>2, <2>3, DelimitersIs
<1>7. IsFiniteSet(P) /\ Cardinality(P) \in Nat /\ Cardinality(P) <= Delimiters(c)
  <2>1. P \subseteq Int /\ a \in Int
    BY <1>1, <1>4
  <2>2. \A z \in P : z - a \in Z
    BY <1>6
  <2> HIDE DEF P, Z
  <2> QED
    BY <1>5, <2>1, <2>2, MovedInto, FS_CardinalityType
<1>8. ASSUME NEW x \in Q, NEW y \in Q PROVE x = y
  <2>1. /\ x \in Int /\ y \in Int /\ d + 1 <= x /\ d + 1 <= y /\ d + 1 \in Int
    <3>1. x \in S /\ y \in S /\ x > d /\ y > d
      OBVIOUS
    <3>2. x \in Int /\ y \in Int
      BY <1>4, <3>1
    <3> HIDE DEF d
    <3> QED
      BY <1>2, <3>1, <3>2
  <2>2. PICK i \in 1..Len(q) : i <= d + 1 /\ Segment(q, first, i, x)
    OBVIOUS
  <2>3. PICK j \in 1..Len(q) : j <= d + 1 /\ Segment(q, first, j, y)
    OBVIOUS
  <2> DEFINE m == d + 1
  <2>4. m \in Int /\ i <= m /\ j <= m /\ m <= x /\ m <= y /\ i \in Nat /\ j \in Nat
    BY <2>1, <2>2, <2>3
  <2>5. Segment(q, first, i, x) /\ Segment(q, first, j, y) /\ x \in Int /\ y \in Int
    BY <2>1, <2>2, <2>3
  <2> HIDE DEF m, Q, S
  <2> QED
    BY <1>1, <2>4, <2>5, OneEnd
<1>9. IsFiniteSet(Q) /\ Cardinality(Q) \in Nat /\ Cardinality(Q) <= 1
  <2>1. \A x, y \in Q : x = y
    BY <1>8
  <2> HIDE DEF Q
  <2> QED
    BY <2>1, OneAtMost
<1>10. ASSUME NEW z \in S, z \notin P, z \notin Q PROVE z - d \in T
  <2>1. PICK i \in 1..Len(q) : Segment(q, first, i, z) /\ Between(q, i, z) \in A
    BY DEF Arriving
  <2>2. z \in Int /\ z > d
    BY <1>2, <1>3, <1>10
  <2>3. i > d + 1
    <3>1. ~ (i <= d + 1)
      BY <1>10, <2>1, <2>2
    <3> QED
      BY <1>1, <1>2, <3>1
  <2> HIDE DEF d
  <2> QED
    BY <1>1, <1>2, <2>1, <2>2, <2>3, ArrivingLeft
<1>11. Unready(v, {}) \in Nat /\ Unready(v, {}) <= 1 /\ Unready(q, first) \in Nat
  BY UnreadyIs
<1> HIDE DEF S, T, P, Q, Z
<1>12. CASE v # <<>>
  <2>1. Unready(v, {}) = Unready(q, first)
    <3> HIDE DEF d
    <3> QED
      BY <1>1, <1>2, <1>12, UnreadyLeft
  <2> DEFINE B == P \cup Q
  <2>2. IsFiniteSet(B) /\ Cardinality(B) \in Nat /\ Cardinality(B) <= Delimiters(c) + 1
    <3>1. /\ IsFiniteSet(P \cup Q) /\ IsFiniteSet(P \cap Q)
          /\ Cardinality(P \cup Q) = Cardinality(P) + Cardinality(Q) - Cardinality(P \cap Q)
      BY <1>7, <1>9, FS_Union, FS_Subset
    <3>2. Cardinality(P \cap Q) \in Nat /\ Cardinality(P \cup Q) \in Nat
      BY <3>1, FS_CardinalityType
    <3> QED
      BY <1>5, <1>7, <1>9, <3>1, <3>2
  <2>3. \A z \in S : z \in B \/ z - d \in T
    BY <1>10
  <2> HIDE DEF B, d
  <2>4. Cardinality(S) <= Cardinality(T) + Cardinality(B)
    <3>1. d \in Int
      BY <1>2
    <3> QED
      BY <1>4, <2>2, <2>3, <3>1, FewLost
  <2>5. Cardinality(S) + Unready(v, {})
          <= Cardinality(T) + Unready(q, first) + (Delimiters(c) + 1)
    BY <1>4, <1>5, <1>11, <2>1, <2>2, <2>4
  <2> QED
    BY <1>4, <2>5 DEF S, T, q
<1>13. CASE v = <<>>
  <2>1. Len(q) = d
    <3>1. Len(v) = Len(w) - k /\ Len(v) = 0
      BY <1>13 DEF Rest
    <3>2. Len(w) = k
      BY <1>1, <3>1
    <3> QED
      BY <1>1, <3>2
  <2>2. S \subseteq P
    BY <1>2, <1>4, <2>1 DEF P
  <2>3. Cardinality(S) <= Cardinality(P)
    BY <1>7, <2>2, FS_Subset
  <2>4. Cardinality(S) + Unready(v, {})
          <= Cardinality(T) + Unready(q, first) + (Delimiters(c) + 1)
    BY <1>4, <1>5, <1>7, <1>11, <2>3
  <2> QED
    BY <1>4, <2>4 DEF S, T, q
<1> QED
  BY <1>12, <1>13

(* What is owed at all.                                                     *)
Debt == 2 * faults + excused

(* The frames counted or on their way.                                      *)
Held == (arrived + overflows) + Whole

(* Local in these words.                                                    *)
LEMMA LocalIs ==
  Typed => /\ Debt \in Nat /\ Held \in Nat /\ Len(sent) \in Nat
           /\ Whole \in Nat /\ Unready(Stream, AtOnce) \in Nat
           /\ Local <=> Len(sent) + Unready(Stream, AtOnce) <= Held + Debt
BY LocalTyped DEF Held, Debt

(* The budget of a step: m frames sent and k allowed to get lost.           *)
LEMMA Budget ==
  ASSUME Typed, Typed', Local, NEW m \in Nat, NEW k \in Nat,
         Whole' \in Nat, Unready(Stream, AtOnce)' \in Nat,
         Len(sent') = Len(sent) + m, Debt' = Debt + k,
         Held + Unready(Stream, AtOnce)' + m <= Held' + Unready(Stream, AtOnce) + k
  PROVE  Local'
<1>1. /\ Debt \in Nat /\ Held \in Nat /\ Len(sent) \in Nat
      /\ Unready(Stream, AtOnce) \in Nat
      /\ Len(sent) + Unready(Stream, AtOnce) <= Held + Debt
  BY LocalIs
<1>2. /\ Debt' \in Nat /\ Held' \in Nat
      /\ Len(sent') + Unready(Stream, AtOnce)' <= Held' + Debt' => Local'
  <2>1. Typed' => (/\ Debt \in Nat /\ Held \in Nat /\ Len(sent) \in Nat
                   /\ Whole \in Nat /\ Unready(Stream, AtOnce) \in Nat
                   /\ Local <=> Len(sent) + Unready(Stream, AtOnce) <= Held + Debt)'
    BY LocalIs, PTL
  <2> QED
    BY <2>1
<1>3. PICK u, v, d, e, b : /\ u = Unready(Stream, AtOnce) /\ v = Unready(Stream, AtOnce)'
                           /\ d = Held /\ e = Held' /\ b = Debt
  BY Zenon
<1>4. PICK s : s = Len(sent)
  BY Zenon
<1>5. /\ s \in Nat /\ u \in Nat /\ v \in Nat /\ d \in Nat /\ e \in Nat /\ b \in Nat
      /\ s + u <= d + b /\ d + v + m <= e + u + k
  BY <1>1, <1>2, <1>3, <1>4
<1>6. (s + m) + v <= e + (b + k)
  BY <1>5
<1> QED
  BY <1>2, <1>3, <1>4, <1>6

(* Nothing is on its way at first, and the frame is excused in whose middle *)
(* the receiver may begin.                                                  *)
LEMMA InitLocal == Init => Local
<1> SUFFICES ASSUME Init PROVE Local
  OBVIOUS
<1>1. /\ Stream = <<>> /\ sent = <<>> /\ sync = FALSE
      /\ arrived = 0 /\ overflows = 0 /\ faults = 0 /\ excused = 1
  BY DEF Init, Stream
<1>2. AtOnce = {} /\ Len(sent) = 0 /\ Len(<<>>) = 0
  BY <1>1 DEF AtOnce
<1>3. Whole = 0
  <2>1. Arriving(Stream, AtOnce, Deliverable) = {}
    BY <1>1, <1>2 DEF Arriving
  <2> QED
    BY <2>1, FS_EmptySet DEF Whole
<1>4. Unready(Stream, AtOnce) = 1
  BY <1>1, <1>2 DEF Unready
<1> QED
  BY <1>1, <1>2, <1>3, <1>4 DEF Local

(* Every step keeps within the budget.                                      *)
LEMMA StepLocal == Typed /\ Typed' /\ Local /\ [Next]_vars => Local'
<1> SUFFICES ASSUME Typed, Typed', Local, [Next]_vars PROVE Local'
  OBVIOUS
<1>1. /\ rx \in Seq(Nat \ {0}) /\ wire \in Seq(Nat) /\ wire' \in Seq(Nat)
      /\ Len(wire) \in Nat /\ Len(rx) \in Nat
  BY Numeric
<1>2. /\ arrived \in Nat /\ overflows \in Nat /\ faults \in Nat /\ excused \in Nat
      /\ Len(sent) \in Nat /\ Whole \in Nat /\ Unready(Stream, AtOnce) \in Nat
  BY LocalTyped DEF Typed
<1>3. 0 \in Nat /\ 1 \in Nat /\ 2 \in Nat
  OBVIOUS
<1>4. CASE Send
  <2> DEFINE first == AtOnce
             A == Deliverable
             B == Deliverable'
             q == rx \o wire
  <2>1. PICK f \in Frames :
          sent' = Append(sent, f) /\ wire' = wire \o Append(Wired(f, Len(sent) + 1), 0)
    BY <1>4 DEF Send, Wired
  <2>2. UNCHANGED <<rx, sync, arrived, overflows, faults, excused>>
    BY <1>4 DEF Send, receiver, history
  <2>3. PICK n \in Nat : n = Len(sent) + 1
    BY <1>2
  <2>4. PICK e : e = Wired(f, n)
    OBVIOUS
  <2>5. PICK p : p = rx \o (wire \o Append(e, 0))
    OBVIOUS
  <2>6. q \in Seq(Nat) /\ p \in Seq(Nat) /\ Grown(p, q, e)
    BY <2>3, <2>4, <2>5, StreamSend DEF Grown
  <2>7. e \in Seq(Nat \ {0})
    <3>1. n \in Nat \ {0}
      BY <1>2, <2>3
    <3> QED
      BY <2>4, <3>1, WiredIs
  <2>8. A \subseteq B /\ e \in B
    BY <2>1, <2>3, <2>4, DeliverableSend
  <2>9. first \subseteq {1} /\ AtOnce' = first
    BY <2>2 DEF AtOnce
  <2>10. Stream = q /\ Stream' = p
    BY <2>1, <2>2, <2>3, <2>4, <2>5 DEF Stream
  <2>11. Whole = Cardinality(Arriving(q, first, A))
    BY <2>10 DEF Whole
  <2>12. Whole' = Cardinality(Arriving(p, first, B))
    BY <2>9, <2>10 DEF Whole
  <2>13. Unready(Stream, AtOnce) = Unready(q, first) /\ Unready(Stream, AtOnce)' = Unready(p, first)
    BY <2>9, <2>10
  <2> HIDE DEF first, A, B, q
  <2>14. /\ Whole' \in Nat /\ Unready(p, first) = 0 /\ Whole + 1 <= Whole' + Unready(q, first)
    BY <2>6, <2>7, <2>8, <2>9, <2>11, <2>12, ArrivingMore
  <2>15. Len(sent') = Len(sent) + 1
    BY <2>1 DEF Typed
  <2>16. Debt' = Debt + 0
    BY <1>2, <2>2 DEF Debt
  <2>17. Held + Unready(Stream, AtOnce)' + 1 <= Held' + Unready(Stream, AtOnce) + 0
    BY <1>2, <2>2, <2>13, <2>14 DEF Held
  <2>18. Unready(Stream, AtOnce)' \in Nat
    BY <2>13, <2>14
  <2> QED
    BY <1>3, <2>14, <2>15, <2>16, <2>17, <2>18, Budget
<1>5. CASE SenderRestarts
  <2>1. PICK k \in 0..(Len(wire) - 1) :
          /\ wire' = SubSeq(wire, 1, k)
          /\ excused' = excused + Delimiters(SubSeq(wire, k + 1, Len(wire)))
    BY <1>5 DEF SenderRestarts
  <2>2. faults' = faults + 1 /\ UNCHANGED <<sent, rx, sync, arrived, overflows>>
    BY <1>5 DEF SenderRestarts, receiver
  <2> DEFINE c == SubSeq(wire, k + 1, Len(wire))
             first == AtOnce
             A == Deliverable
  <2>3. k \in Nat /\ k <= Len(wire) /\ k \in 0..Len(wire) /\ k \in Int /\ 1 <= k + 1 /\ k + 1 \in Int
    BY <1>1
  <2>4. Len(wire') = k /\ \A i \in 1..k : wire'[i] = wire[i]
    <3>1. 1 \in Int /\ k - 1 + 1 = k
      BY <2>3
    <3>2. /\ Len(wire') = IF 1 <= k THEN k - 1 + 1 ELSE 0
          /\ \A i \in 1..(k - 1 + 1) : wire'[i] = wire[1 + i - 1]
      BY <2>1, <2>3, <3>1, CutTyped
    <3>3. \A i \in 1..k : 1 + i - 1 = i
      BY <2>3
    <3> QED
      BY <2>3, <3>1, <3>2, <3>3
  <2>5. c \in Seq(Nat) /\ Delimiters(c) \in Nat
    <3>1. PICK a, n : a = k + 1 /\ n = Len(wire)
      BY Zenon
    <3>2. a \in Int /\ n \in Int /\ 1 <= a /\ n <= Len(wire)
      BY <1>1, <2>3, <3>1
    <3>3. SubSeq(wire, a, n) \in Seq(Nat) /\ Delimiters(SubSeq(wire, a, n)) \in Nat
      BY <3>2, CutTyped
    <3> QED
      BY <3>1, <3>3
  <2>6. Rest(c, wire, k)
    BY <2>3, CutFront DEF Rest
  <2>7. excused' = excused + Delimiters(c)
    BY <2>1
  <2> HIDE DEF c
  <2>8. AtOnce' = first /\ Deliverable' = A
    BY <2>2, SameDeliverable DEF AtOnce
  <2>9. /\ Whole = Cardinality(Arriving(rx \o wire, first, A))
        /\ Whole' = Cardinality(Arriving(rx \o wire', first, A))
    BY <2>2, <2>8 DEF Whole, Stream
  <2> HIDE DEF first, A
  <2>10. Whole' \in Nat /\ Whole <= Whole' + Delimiters(c)
    BY <1>1, <2>3, <2>4, <2>5, <2>6, <2>9, EndLost
  <2>11. Unready(Stream, AtOnce)' \in Nat /\ Unready(Stream, AtOnce)' <= 1
    BY UnreadyIs
  <2>12. PICK m, l : l = Delimiters(c) /\ m = 2 + l
    BY Zenon
  <2>13. m \in Nat /\ l \in Nat
    BY <2>5, <2>12
  <2>14. Debt' = Debt + m
    BY <1>2, <2>2, <2>7, <2>12, <2>13 DEF Debt
  <2>15. Held + Unready(Stream, AtOnce)' + 0 <= Held' + Unready(Stream, AtOnce) + m
    <3>1. PICK o, u, v, g, h : /\ o = arrived + overflows
                               /\ u = Unready(Stream, AtOnce) /\ v = Unready(Stream, AtOnce)'
                               /\ g = Whole /\ h = Whole'
      BY Zenon
    <3>2. /\ o \in Nat /\ u \in Nat /\ v \in Nat /\ g \in Nat /\ h \in Nat
          /\ v <= 1 /\ g <= h + l
      BY <1>2, <2>10, <2>11, <2>12, <3>1
    <3>3. (o + g) + v + 0 <= (o + h) + u + m
      BY <2>12, <2>13, <3>2
    <3>4. Held = o + g /\ Held' = o + h
      BY <2>2, <3>1 DEF Held
    <3> QED
      BY <3>1, <3>3, <3>4
  <2>16. Len(sent') = Len(sent) + 0
    BY <1>2, <2>2
  <2> QED
    BY <1>3, <2>10, <2>11, <2>13, <2>14, <2>15, <2>16, Budget
<1>6. CASE Poll
  <2>1. /\ wire # <<>> /\ Byte(Head(wire)) /\ wire' = Tail(wire)
        /\ sent' = sent /\ faults' = faults /\ excused' = excused
    BY <1>6 DEF Poll, sender, history
  <2>2. Head(wire) = wire[1]
    BY <1>1, <2>1, TailIs
  <2>3. /\ arrived' + overflows' \in Nat /\ Whole' \in Nat /\ Unready(Stream, AtOnce)' \in Nat
        /\ (arrived + overflows) + Whole + Unready(Stream, AtOnce)'
             <= (arrived' + overflows') + Whole' + Unready(Stream, AtOnce)
    BY <2>1, <2>2, PollSpends
  <2>4. Held + Unready(Stream, AtOnce)' + 0 <= Held' + Unready(Stream, AtOnce) + 0
    BY <1>2, <2>3 DEF Held
  <2>5. Len(sent') = Len(sent) + 0 /\ Debt' = Debt + 0
    BY <1>2, <2>1 DEF Debt
  <2> QED
    BY <1>3, <2>3, <2>4, <2>5, Budget
<1>7. CASE PollDamaged
  <2>1. /\ wire # <<>> /\ sent' = sent /\ faults' = faults + 1 /\ excused' = excused
    BY <1>7 DEF PollDamaged, sender
  <2>2. /\ arrived' + overflows' \in Nat /\ Whole' \in Nat /\ Unready(Stream, AtOnce)' \in Nat
        /\ (arrived + overflows) + Whole + Unready(Stream, AtOnce)'
             <= (arrived' + overflows') + Whole' + Unready(Stream, AtOnce) + 2
    BY <1>7, <2>1, DamageSpends
  <2>3. Held + Unready(Stream, AtOnce)' + 0 <= Held' + Unready(Stream, AtOnce) + 2
    BY <1>2, <2>2 DEF Held
  <2>4. Len(sent') = Len(sent) + 0 /\ Debt' = Debt + 2
    BY <1>2, <2>1 DEF Debt
  <2> QED
    BY <1>3, <2>2, <2>3, <2>4, Budget
<1>8. CASE Take \/ UNCHANGED vars
  <2>1. UNCHANGED <<sent, rx, wire, sync, arrived, overflows, faults, excused>>
    BY <1>8 DEF Take, vars, sender, receiver, history
  <2>2. Stream' = Stream /\ AtOnce' = AtOnce /\ Deliverable' = Deliverable
    BY <2>1, SameDeliverable DEF Stream, AtOnce
  <2>3. Whole' = Whole
    BY <2>2 DEF Whole
  <2>4. Unready(Stream, AtOnce)' = Unready(Stream, AtOnce)
    BY <2>2
  <2> QED
    BY <2>1, <2>3, <2>4 DEF Local
<1>9. CASE ReceiverRestarts
  <2>1. /\ rx' = <<>> /\ sync' = FALSE /\ UNCHANGED <<sent, arrived, overflows, faults>>
    BY <1>9 DEF ReceiverRestarts, Setup, sender
  <2>2. PICK k \in 0..Len(wire) :
          /\ wire' = SubSeq(wire, k + 1, Len(wire))
          /\ excused' = excused + Delimiters(SubSeq(wire, 1, k)) + 1
    BY <1>9 DEF ReceiverRestarts
  <2> DEFINE c == SubSeq(wire, 1, k)
             first == AtOnce
             A == Deliverable
  <2>3. k \in Nat /\ k <= Len(wire) /\ k \in Int /\ 1 \in Int
    BY <1>1
  <2>4. /\ c \in Seq(Nat) /\ Delimiters(c) \in Nat
        /\ Len(c) = k /\ \A i \in 1..k : c[i] = wire[i]
    <3>1. k - 1 + 1 = k
      BY <2>3
    <3>2. /\ c \in Seq(Nat) /\ Delimiters(c) \in Nat
          /\ Len(c) = IF 1 <= k THEN k - 1 + 1 ELSE 0
          /\ \A i \in 1..(k - 1 + 1) : c[i] = wire[1 + i - 1]
      BY <2>3, CutTyped
    <3>3. \A i \in 1..k : 1 + i - 1 = i
      BY <2>3
    <3> HIDE DEF c
    <3> QED
      BY <2>3, <3>1, <3>2, <3>3
  <2>5. Rest(wire', wire, k)
    BY <2>2, CutFront DEF Rest
  <2>6. excused' = excused + Delimiters(c) + 1
    BY <2>2
  <2> HIDE DEF c
  <2>7. Stream' = wire'
    <3>1. <<>> \o wire' = wire'
      BY <1>1, <2>3, <2>5, StreamCut
    <3> QED
      BY <2>1, <3>1 DEF Stream
  <2>8. AtOnce' = {} /\ Deliverable' = A /\ first \subseteq {1}
    BY <2>1, SameDeliverable DEF AtOnce
  <2>9. /\ Whole = Cardinality(Arriving(rx \o wire, first, A))
        /\ Whole' = Cardinality(Arriving(wire', {}, A))
        /\ Unready(Stream, AtOnce) = Unready(rx \o wire, first)
        /\ Unready(Stream, AtOnce)' = Unready(wire', {})
    BY <2>7, <2>8 DEF Whole, Stream
  <2> HIDE DEF first, A
  <2>10. /\ Whole' \in Nat
         /\ Whole + Unready(wire', {})
              <= Whole' + Unready(rx \o wire, first) + (Delimiters(c) + 1)
    BY <1>1, <2>3, <2>4, <2>5, <2>8, <2>9, BeginningLost
  <2>11. Unready(Stream, AtOnce)' \in Nat
    BY UnreadyIs
  <2>12. PICK m : m = Delimiters(c) + 1
    BY Zenon
  <2>13. m \in Nat
    BY <2>4, <2>12
  <2>14. Debt' = Debt + m
    <3>1. PICK l : l = Delimiters(c)
      BY Zenon
    <3>2. l \in Nat /\ m = l + 1 /\ excused' = excused + l + 1
      BY <2>4, <2>6, <2>12, <3>1
    <3> QED
      BY <1>2, <2>1, <3>2 DEF Debt
  <2>15. Held + Unready(Stream, AtOnce)' + 0 <= Held' + Unready(Stream, AtOnce) + m
    <3>1. PICK o, u, v, g, h : /\ o = arrived + overflows
                               /\ u = Unready(Stream, AtOnce) /\ v = Unready(Stream, AtOnce)'
                               /\ g = Whole /\ h = Whole'
      BY Zenon
    <3>2. u = Unready(rx \o wire, first) /\ v = Unready(wire', {})
      BY <2>9, <3>1
    <3>3. /\ o \in Nat /\ u \in Nat /\ v \in Nat /\ g \in Nat /\ h \in Nat
          /\ g + v <= h + u + m
      BY <1>2, <2>10, <2>11, <2>12, <3>1, <3>2
    <3>4. (o + g) + v + 0 <= (o + h) + u + m
      BY <2>13, <3>3
    <3>5. Held = o + g /\ Held' = o + h
      BY <2>1, <3>1 DEF Held
    <3> QED
      BY <3>1, <3>4, <3>5
  <2>16. Len(sent') = Len(sent) + 0
    BY <1>2, <2>1
  <2> QED
    BY <1>3, <2>10, <2>11, <2>13, <2>14, <2>15, <2>16, Budget
<1> QED
  BY <1>4, <1>5, <1>6, <1>7, <1>8, <1>9 DEF Next

(* Damage costs the frame it hits and at most the one behind it, a restart  *)
(* what it loses by its nature: once every byte has been read, all other    *)
(* frames have arrived or found the ring full.                              *)
THEOREM DamageStaysLocal == Spec => []DamageIsLocal
<1>1. Typed /\ Local => DamageIsLocal
  <2> SUFFICES ASSUME Typed, Local, wire = <<>>
               PROVE  Len(sent) - arrived - overflows <= 2 * faults + excused
    BY DEF DamageIsLocal
  <2>1. /\ Len(sent) \in Nat /\ arrived \in Nat /\ overflows \in Nat
        /\ faults \in Nat /\ excused \in Nat /\ Unready(Stream, AtOnce) \in Nat
    BY LocalTyped DEF Typed
  <2>2. Whole = 0
    <3> SUFFICES ASSUME NEW e \in Arriving(rx \o wire, AtOnce, Deliverable) PROVE FALSE
      BY FS_EmptySet DEF Whole, Stream
    <3>1. /\ rx \in Seq(Nat \ {0}) /\ wire \in Seq(Nat)
          /\ Len(rx \o wire) = Len(rx) + Len(wire) /\ Len(rx) \in Nat /\ Len(wire) = 0
      BY Numeric, Joined
    <3>2. AtOnce \subseteq {1}
      BY DEF AtOnce
    <3>3. e \in Int /\ Len(rx) < e
      BY <3>1, <3>2, SegmentOf
    <3>4. e \in 1..Len(rx \o wire)
      BY DEF Arriving
    <3> QED
      BY <3>1, <3>3, <3>4
  <2>3. Len(sent) + Unready(Stream, AtOnce) <= arrived + overflows + 0 + 2 * faults + excused
    BY <2>2 DEF Local
  <2> QED
    BY <2>1, <2>3
<1> QED
  BY <1>1, InitTyped, StepTyped, InitLocal, StepLocal, PTL DEF Spec

=============================================================================
