------------------------------ MODULE LinkFraming ------------------------------
(***************************************************************************)
(* Link of dual_mcu_link.h, one direction: the sender packs a frame, COBS  *)
(* keeps zero for the delimiter, the receiver reads byte by byte and puts  *)
(* what decodes and has the right CRC into the ring of FrameRing.          *)
(*                                                                         *)
(* The wire may change, lose or add a byte; the sender may restart in the  *)
(* middle of a frame and the receiver at any time.                         *)
(*                                                                         *)
(* Bytes are numbers.  The flags byte is left out, the sequence and the    *)
(* CRC are one symbol each.  The CRC symbol of the n-th frame fits the     *)
(* content of that frame and no other: collisions are not modelled.        *)
(***************************************************************************)
EXTENDS FrameRing, FiniteSets

CONSTANTS
  MaxPayload,   \* MAX_PAYLOAD
  MaxFrames,    \* bound: frames sent
  MaxFaults,    \* bound: bytes damaged, and restarts of the sender
  MaxBoots,     \* bound: restarts of the receiver
  Damaged       \* the bytes damage may put on the wire

PROTOCOL_VERSION == 3
HeaderLength == 4               \* version, type, sequence, length
MaxRaw == HeaderLength + MaxPayload + 1
MaxWire == MaxRaw + 2

Bytes == 0..255
Payloads == {p \in Seq(Bytes) : Len(p) <= MaxPayload}

(* MAX_RAW_FRAME is 200: no block of COBS is full, no code is 0xFF.         *)
ASSUME LinkConstants ==
  /\ MaxPayload \in Nat /\ MaxRaw < 254
  /\ MaxFrames \in Nat /\ MaxFaults \in Nat /\ MaxBoots \in Nat
  /\ Damaged \subseteq Bytes
  /\ Frames \subseteq [type : Bytes, sequence : 0..MaxFrames, payload : Payloads]

VARIABLES
  sent,        \* history: the frames sent
  tx,          \* tx_sequence_
  wire,        \* bytes on their way, oldest first
  sync,        \* rx_synchronized_
  rx,          \* rx_wire_ up to rx_length_
  errors,      \* decode_errors + version_errors + crc_errors
  overflows,   \* queue_overflows
  arrived,     \* received
  taken,       \* history: the frames pop_priority gave out
  faults,      \* history: what happened to wire and sender
  boots,       \* history: restarts of the receiver
  excused      \* history: frames a restart loses by its nature

sender == <<sent, tx>>
receiver == <<sync, rx, errors, overflows, arrived>>
history == <<taken, faults, boots, excused>>
vars == <<sender, wire, receiver, history, ringVars>>

Init ==
  /\ RingInit
  /\ sent = <<>> /\ tx = 0 /\ wire = <<>>
  /\ sync = FALSE /\ rx = <<>>
  /\ errors = 0 /\ overflows = 0 /\ arrived = 0
  /\ taken = <<>> /\ faults = 0 /\ boots = 0
  /\ excused = 1     \* the frame of the first delimiter

------------------------------------------------------------------------------
(* The format.                                                              *)

Content(f) == <<PROTOCOL_VERSION, f.type, f.sequence, Len(f.payload)>> \o f.payload

(* No byte, sequence number or length.                                      *)
CrcBase == 255 + MaxFrames + MaxWire
Crc(n) == CrcBase + n

RawOf(f, n) == Append(Content(f), Crc(n))

(* A code stands in front of the frame and in the place of every zero: it   *)
(* is the distance to the next one.                                         *)
CobsEncode(raw) ==
  LET IsCode(j) == j = 1 \/ raw[j - 1] = 0
      end == Len(raw) + 2
      Following(j) == CHOOSE k \in (j + 1)..end :
                        /\ k = end \/ IsCode(k)
                        /\ \A l \in (j + 1)..(k - 1) : ~ IsCode(l)
  IN  [j \in 1..(Len(raw) + 1) |-> IF IsCode(j) THEN Following(j) - j ELSE raw[j - 1]]

(* The places the loop reads a code from: it starts at the first one, and   *)
(* each leads to the next, the last to the end of what was received.        *)
IsChain(s, codes) ==
  /\ 1 \in codes
  /\ \A p \in codes : p + s[p] \in codes \cup {Len(s) + 1}
  /\ \A q \in codes \ {1} : \E p \in codes : q = p + s[p]
Chains(s) == {codes \in SUBSET (1..Len(s)) : IsChain(s, codes)}

(* A block longer than what is left, or more than fits, decodes to nothing. *)
CobsDecode(s) ==
  IF Chains(s) = {} \/ Len(s) - 1 > MaxRaw THEN <<>>
  ELSE LET codes == CHOOSE c \in Chains(s) : TRUE
       IN  [i \in 1..(Len(s) - 1) |-> IF i + 1 \in codes THEN 0 ELSE s[i + 1]]

CrcFits(raw) ==
  \E n \in 1..Len(sent) : raw = RawOf(sent[n], n)

(* The checks of decode_received_frame_.                                    *)
WellFormed(raw) ==
  /\ Len(raw) > HeaderLength
  /\ raw[1] = PROTOCOL_VERSION
  /\ raw[4] <= MaxPayload /\ Len(raw) = HeaderLength + raw[4] + 1
AcceptedNoCrc(raw) == WellFormed(raw)
Accepted(raw) == WellFormed(raw) /\ CrcFits(raw)

FrameOf(raw) ==
  [type |-> raw[2], sequence |-> raw[3], payload |-> SubSeq(raw, 5, 4 + raw[4])]

------------------------------------------------------------------------------
(* The sender.                                                              *)

Send ==
  /\ Len(sent) < MaxFrames
  /\ \E f \in Frames :
       /\ f.sequence = tx
       /\ sent' = Append(sent, f)
       /\ wire' = wire \o Append(CobsEncode(RawOf(f, Len(sent) + 1)), 0)
  /\ tx' = tx + 1
  /\ UNCHANGED <<receiver, history, ringVars>>

Delimiters(s) == Cardinality({i \in DOMAIN s : s[i] = 0})

(* The sender restarts: what it had not yet put on the wire is lost.        *)
SenderRestarts ==
  /\ faults < MaxFaults /\ wire # <<>>
  /\ \E k \in 0..(Len(wire) - 1) :
       /\ wire' = SubSeq(wire, 1, k)
       /\ excused' = excused + Delimiters(SubSeq(wire, k + 1, Len(wire)))
  /\ tx' = 0 /\ faults' = faults + 1
  /\ UNCHANGED <<sent, receiver, taken, boots, ringVars>>

------------------------------------------------------------------------------
(* The receiver.                                                            *)

DecodeReceivedFrame ==
  LET raw == CobsDecode(rx) IN
  \/ /\ ~ Accepted(raw)
     /\ errors' = errors + 1 /\ UNCHANGED <<overflows, arrived, ringVars>>
  \/ /\ Accepted(raw) /\ Full
     /\ overflows' = overflows + 1 /\ UNCHANGED <<errors, arrived, ringVars>>
  \/ /\ Accepted(raw) /\ Push(FrameOf(raw))
     /\ arrived' = arrived + 1 /\ UNCHANGED <<errors, overflows>>

Synchronize(byte) ==
  /\ ~ sync
  /\ sync' = (byte = 0) /\ UNCHANGED <<rx, errors, overflows, arrived, ringVars>>

DelimiterKeepsRx(byte) ==
  /\ sync /\ byte = 0
  /\ IF rx = <<>> THEN UNCHANGED <<errors, overflows, arrived, ringVars>>
                  ELSE DecodeReceivedFrame
  /\ UNCHANGED <<sync, rx>>
Delimiter(byte) ==
  /\ sync /\ byte = 0
  /\ IF rx = <<>> THEN UNCHANGED <<errors, overflows, arrived, ringVars>>
                  ELSE DecodeReceivedFrame
  /\ rx' = <<>> /\ UNCHANGED sync

TooLong(byte) ==
  /\ sync /\ byte # 0 /\ Len(rx) >= MaxWire
  /\ errors' = errors + 1 /\ rx' = <<>>
  /\ UNCHANGED <<sync, overflows, arrived, ringVars>>

Store(byte) ==
  /\ sync /\ byte # 0 /\ Len(rx) < MaxWire
  /\ rx' = Append(rx, byte)
  /\ UNCHANGED <<sync, errors, overflows, arrived, ringVars>>

Byte(byte) == Synchronize(byte) \/ Delimiter(byte) \/ TooLong(byte) \/ Store(byte)

(* One turn of the loop of poll.                                            *)
Poll ==
  /\ wire # <<>>
  /\ Byte(Head(wire)) /\ wire' = Tail(wire)
  /\ UNCHANGED <<sender, history>>

(* The same with a byte changed, added or lost on its way.                  *)
PollDamaged ==
  /\ faults < MaxFaults /\ wire # <<>>
  /\ faults' = faults + 1
  /\ \/ (\E b \in Damaged \ {Head(wire)} : Byte(b)) /\ wire' = Tail(wire)
     \/ (\E b \in Damaged : Byte(b)) /\ wire' = wire
     \/ wire' = Tail(wire) /\ UNCHANGED <<receiver, ringVars>>
  /\ UNCHANGED <<sender, taken, boots, excused>>

(* The loop takes a frame.                                                  *)
Take ==
  /\ PopPriority
  /\ taken' = Append(taken, given')
  /\ UNCHANGED <<sender, wire, receiver, faults, boots, excused>>

SetupSynchronized == rx' = <<>> /\ sync' = TRUE
Setup == rx' = <<>> /\ sync' = FALSE

(* The receiver restarts: the bytes that come meanwhile are gone, and the   *)
(* frame before the next delimiter.                                         *)
ReceiverRestarts ==
  /\ boots < MaxBoots
  /\ boots' = boots + 1
  /\ Setup /\ RingReset
  /\ \E k \in 0..Len(wire) :
       /\ wire' = SubSeq(wire, k + 1, Len(wire))
       /\ excused' = excused + Delimiters(SubSeq(wire, 1, k)) + 1
  /\ UNCHANGED <<sender, errors, overflows, arrived, taken, faults>>

Next == Send \/ SenderRestarts \/ Poll \/ PollDamaged \/ Take \/ ReceiverRestarts

Spec == Init /\ [][Next]_vars

------------------------------------------------------------------------------
(* The ring is sound, and what is being received fits its buffer.           *)
TypeOK ==
  /\ RingOK
  /\ Len(rx) <= MaxWire /\ sync \in BOOLEAN /\ (rx # <<>> => sync)
  /\ arrived + overflows <= Len(sent) /\ tx <= Len(sent)

SameClass(f, g) == f \in Control <=> g \in Control

(* A damaged frame is never handed out, and none twice: the loop gets       *)
(* frames that were sent, whole, and those of one class in the order of     *)
(* sending ("keep bulk transfer ordering intact").                          *)
TakenAsSent ==
  \E at \in [DOMAIN taken -> DOMAIN sent] :
    /\ \A i \in DOMAIN taken : taken[i] = sent[at[i]]
    /\ \A i, j \in DOMAIN taken :
         i < j /\ SameClass(taken[i], taken[j]) => at[i] < at[j]

(* Damage costs at most the frame it hits and the one after it: once every  *)
(* byte has been read, all other frames have reached the ring, or found it  *)
(* full.                                                                    *)
DamageIsLocal ==
  wire = <<>> => Len(sent) - arrived - overflows <= 2 * faults + excused

(* On a link that damages nothing no error is ever counted, even when the   *)
(* receiver starts in the middle of a frame (comment in setup).             *)
CleanLinkIsClean == faults = 0 => errors = 0
=============================================================================
