------------------------ MODULE LibraryTransferProofs ------------------------
(***************************************************************************)
(* The library transfer for every value of the constants, and whether or   *)
(* not the timeouts race the answers: type correctness, the integrity of   *)
(* what is installed, stop-and-wait, the order of the versions, and that   *)
(* the transfer implements LibraryCatalog.  Last, for timeouts that do not *)
(* race answers: on a healthy link there are none.                         *)
(***************************************************************************)
EXTENDS LibraryTransfer, QueueLemmas, SequenceTheorems, TLAPS

------------------------------------------------------------------------------
(* The inductive invariants *)

Caching ==
  \A k \in Kinds : cache[k] # 0 =>
    cache[k] \in 1..Len(pubs) /\ pubs[cache[k]].kind = k
Sending ==
  phase # "IDLE" =>
    /\ up /\ snap \in 1..Len(pubs) /\ transferId # 0
    /\ phase = "BEGIN" => offset = 0
    /\ phase = "CHUNK" => offset < Len(pubs[snap].blob)
Holding ==
  /\ mode \in {"receiving", "finished"} => got.kind \in Kinds
  /\ completed => mode = "finished"

(* Every type but the one of the bulk slot, which no step below depends on. *)
Typed == LinkTyped /\ BridgeTyped /\ S3Typed /\ PickerTyped

IInv == Typed /\ Caching /\ Sending /\ Holding

(* What a step of the bulk slot leaves alone. *)
SlotKept ==
  UNCHANGED <<linkVars, up, cacheVars, sendVars, avail, recvVars, pickVars, faults>>

(* The bulk frames of transfers, and the pages they were cut from. *)
IsPage(f) == f.type \in {"BEGIN", "CHUNK", "END"}
CutFrom(f, page) ==
  /\ f.type = "BEGIN" =>
       f.kind = page.kind /\ f.total = Len(page.blob) /\ f.ctx = page.ctx
  /\ f.type = "CHUNK" => f.off < Len(page.blob) /\ f.data = page.blob[f.off + 1]
  /\ f.type = "END" => f.total = Len(page.blob)

(* A version v is the one that travels under id. *)
Carries(id, v) == id <= transferId /\ (phase # "IDLE" /\ id = transferId => v = snap)

InFlight ==
  \A f \in ToSet(toS3) : IsPage(f) =>
    f.ver \in 1..Len(pubs) /\ CutFrom(f, pubs[f.ver]) /\ Carries(f.id, f.ver)
SameId ==
  \A f, g \in ToSet(toS3) : IsPage(f) /\ IsPage(g) /\ f.id = g.id => f.ver = g.ver
DownQuiet == ~ up => toBridge = <<>>

(* A client that still waits for a transfer of an earlier boot: nothing that *)
(* could be taken for the rest of it can come before it gives up.            *)
Orphaned ==
  /\ phase = "IDLE"
  /\ \A f \in ToSet(toS3) : ~ IsPage(f)
  /\ \A f \in ToSet(toBridge) : f.type # "REQUEST"

Received ==
  mode = "receiving" =>
    LET page == pubs[got.ver]
    IN  /\ got.ver \in 1..Len(pubs)
        /\ got.kind = page.kind /\ got.total = Len(page.blob) /\ got.ctx = page.ctx
        /\ Len(bytes) <= Len(page.blob)
        /\ \A i \in 1..Len(bytes) : bytes[i] = page.blob[i]
        /\ \A f \in ToSet(toS3) : IsPage(f) /\ f.id = got.id => f.ver = got.ver
        /\ Carries(got.id, got.ver) \/ Orphaned
Completed == completed => got.ver \in 1..Len(pubs) /\ CompletedIsPublished

Fidelity == InFlight /\ SameId /\ DownQuiet /\ Received /\ Completed

------------------------------------------------------------------------------
(* Sequences *)

(* A frame offered to a queue is appended or dropped, never overfilling it. *)
LEMMA OfferSeq ==
  ASSUME NEW S, NEW q \in Seq(S), NEW f \in S, Len(q) <= QueueSize
  PROVE  /\ Offer(q, f) \in Seq(S)
         /\ Len(Offer(q, f)) <= QueueSize
         /\ ToSet(Offer(q, f)) \subseteq ToSet(q) \cup {f}
  BY BoundsAssumption DEF Offer, ToSet

------------------------------------------------------------------------------
(* Type correctness *)

(* The type field of a frame decides which other fields it has. *)
LEMMA FramesTyped ==
  /\ \A f \in FrameToS3 :
       /\ f.type \in {"BEGIN", "CHUNK", "END", "ERROR", "CHANGED", "HELLO"}
       /\ f.type = "BEGIN" => f \in BeginFrame
       /\ f.type = "CHUNK" => f \in ChunkFrame
       /\ f.type = "END" => f \in EndFrame
       /\ f.type = "CHANGED" => f.kind \in Kinds
  /\ \A f \in FrameToBridge :
       /\ f.type \in {"REQUEST", "ACK", "HELLO"}
       /\ f.type = "REQUEST" => f.kind \in Kinds
       /\ f.type = "ACK" => f.id \in 0..MaxId /\ f.off \in Nat
  BY DEF FrameToS3, FrameToBridge, BeginFrame, ChunkFrame, EndFrame, Hello

(* Every control frame is a frame of its direction. *)
LEMMA SmallFramesTyped ==
  /\ Hello \in FrameToS3 /\ Hello \in FrameToBridge
  /\ Error(1) \in FrameToS3 /\ Error(2) \in FrameToS3
  /\ \A k \in Kinds : Changed(k) \in FrameToS3 /\ Request(k) \in FrameToBridge
  /\ \A id \in 0..MaxId, o \in Nat : Ack(id, o) \in FrameToBridge
  BY DEF FrameToS3, FrameToBridge, Hello, Error, Changed, Request, Ack

(* Taking a frame from the queue of the S3 keeps the link typed. *)
LEMMA TakeS3Typed ==
  ASSUME LinkTyped, NEW i \in 1..Len(toS3), NEW f, TakeS3(i, f)
  PROVE  /\ f \in FrameToS3 /\ f = toS3[i] /\ f \in ToSet(toS3)
         /\ toS3' \in Seq(FrameToS3) /\ Len(toS3') <= QueueSize
         /\ ToSet(toS3') \subseteq ToSet(toS3)
<1>1. f = toS3[i] /\ toS3' = RemoveAt(toS3, i)
  BY DEF TakeS3
<1>2. toS3 \in Seq(FrameToS3) /\ Len(toS3) <= QueueSize
  BY DEF LinkTyped
<1>3. /\ toS3' \in Seq(FrameToS3) /\ Len(toS3') = Len(toS3) - 1
      /\ ToSet(toS3') \subseteq ToSet(toS3)
  BY <1>1, <1>2, RemoveAtSeq, Zenon
<1>4. f \in FrameToS3 /\ f \in ToSet(toS3)
  BY <1>1, <1>2 DEF ToSet
<1>5. QED
  BY <1>1, <1>2, <1>3, <1>4, BoundsAssumption

(* Taking a frame from the queue of the Bridge keeps the link typed. *)
LEMMA TakeBridgeTyped ==
  ASSUME LinkTyped, NEW i \in 1..Len(toBridge), NEW f, TakeBridge(i, f)
  PROVE  /\ up /\ f \in FrameToBridge /\ f = toBridge[i] /\ f \in ToSet(toBridge)
         /\ toBridge' \in Seq(FrameToBridge) /\ Len(toBridge') <= QueueSize
         /\ ToSet(toBridge') \subseteq ToSet(toBridge)
<1>1. up /\ f = toBridge[i] /\ toBridge' = RemoveAt(toBridge, i)
  BY DEF TakeBridge
<1>2. toBridge \in Seq(FrameToBridge) /\ Len(toBridge) <= QueueSize
  BY DEF LinkTyped
<1>3. /\ toBridge' \in Seq(FrameToBridge) /\ Len(toBridge') = Len(toBridge) - 1
      /\ ToSet(toBridge') \subseteq ToSet(toBridge)
  BY <1>1, <1>2, RemoveAtSeq, Zenon
<1>4. f \in FrameToBridge /\ f \in ToSet(toBridge)
  BY <1>1, <1>2 DEF ToSet
<1>5. QED
  BY <1>1, <1>2, <1>3, <1>4, BoundsAssumption

(* Sending a frame to the S3 keeps its queue typed. *)
LEMMA OfferS3Typed ==
  ASSUME LinkTyped, NEW f \in FrameToS3
  PROVE  /\ Offer(toS3, f) \in Seq(FrameToS3) /\ Len(Offer(toS3, f)) <= QueueSize
         /\ ToSet(Offer(toS3, f)) \subseteq ToSet(toS3) \cup {f}
<1>1. toS3 \in Seq(FrameToS3) /\ Len(toS3) <= QueueSize
  BY DEF LinkTyped
<1>2. QED
  BY <1>1, OfferSeq, Zenon

(* Sending a frame to the Bridge keeps its queue typed, up or down. *)
LEMMA OfferBridgeTyped ==
  ASSUME LinkTyped, NEW f \in FrameToBridge
  PROVE  /\ OfferBridge(toBridge, f) \in Seq(FrameToBridge)
         /\ Len(OfferBridge(toBridge, f)) <= QueueSize
         /\ ToSet(OfferBridge(toBridge, f)) \subseteq ToSet(toBridge) \cup {f}
         /\ ~ up => OfferBridge(toBridge, f) = toBridge
<1>1. toBridge \in Seq(FrameToBridge) /\ Len(toBridge) <= QueueSize
  BY DEF LinkTyped
<1>2. /\ Offer(toBridge, f) \in Seq(FrameToBridge) /\ Len(Offer(toBridge, f)) <= QueueSize
      /\ ToSet(Offer(toBridge, f)) \subseteq ToSet(toBridge) \cup {f}
  BY <1>1, OfferSeq, Zenon
<1>3. QED
  BY <1>1, <1>2 DEF OfferBridge

(* Every page has at least one chunk: set and set_page encode a header. *)
LEMMA BlobsNonEmpty ==
  \A b \in Blobs : b \in Seq(Data) /\ b # <<>> /\ Len(b) \in Nat \ {0} /\ PagePos[b] \in Nat
<1> SUFFICES ASSUME NEW b \in Blobs
             PROVE  b \in Seq(Data) /\ b # <<>> /\ Len(b) \in Nat \ {0} /\ PagePos[b] \in Nat
  OBVIOUS
<1>1. b \in Seq(Data) /\ b # <<>>
  BY BlobsAssumption DEF Blobs
<1>2. PagePos[b] \in Nat
  BY BlobsAssumption
<1>3. QED
  BY <1>1, <1>2

(* What the Bridge cached so far are pages of known kinds. *)
LEMMA PublicationsTyped ==
  ASSUME BridgeTyped, NEW v \in 1..Len(pubs)
  PROVE  /\ pubs[v].kind \in Kinds /\ pubs[v].ctx \in 0..MaxSelections
         /\ pubs[v].blob \in Blobs /\ pubs[v].blob \in Seq(Data)
         /\ Len(pubs[v].blob) \in Nat \ {0}
<1>1. pubs[v] \in Publication
  BY DEF BridgeTyped
<1>2. QED
  BY <1>1, BlobsNonEmpty DEF Publication

(* A picture that takes, leaves or keeps the slot does nothing else. *)
LEMMA SlotSteps == SlotStep \/ UNCHANGED vars => SlotKept
  BY DEF SlotStep, PictureBegins, PictureEnds, PictureDrags, SlotKept, vars

(* What is left alone keeps its type. *)
LEMMA BridgeStays ==
  ASSUME IInv, UNCHANGED <<up, cacheVars, sendVars>>
  PROVE  BridgeTyped' /\ Caching' /\ Sending'
  BY DEF IInv, Typed, BridgeTyped, Caching, Sending, cacheVars, sendVars

Phases == {"IDLE", "BEGIN", "CHUNK", "END"}

(* A step of the server that leaves the caches alone keeps the Bridge typed. *)
LEMMA ServerTyped ==
  ASSUME BridgeTyped, UNCHANGED <<up, cacheVars>>,
         phase' \in Phases, awaiting' \in BOOLEAN, transferId' \in 0..MaxId,
         offset' \in Nat, snap' \in Nat
  PROVE  BridgeTyped'
<1>1. up' \in BOOLEAN
  BY DEF BridgeTyped
<1>2. cache' \in [Kinds -> Nat] /\ lookup' \in [Kinds -> Nat] /\ pubs' \in Seq(Publication)
  BY DEF BridgeTyped, cacheVars
<1>3. QED
  BY <1>1, <1>2 DEF BridgeTyped, Phases

(* A step that leaves the client alone keeps it typed. *)
LEMMA S3Stays ==
  ASSUME IInv, UNCHANGED <<avail, recvVars>>
  PROVE  S3Typed' /\ Holding'
  BY DEF IInv, Typed, S3Typed, Holding, recvVars

(* A step that leaves the media picker alone keeps it typed. *)
LEMMA PickerStays ==
  ASSUME IInv, UNCHANGED pickVars
  PROVE  PickerTyped'
  BY DEF IInv, Typed, PickerTyped, pickVars

(* No step of the Bridge loop leaves the types. *)
LEMMA BridgeStepTyped ==
  ASSUME IInv, BridgeStep
  PROVE  IInv'
<1> USE DEF IInv, Typed
<1>1. CASE \E i \in 1..Len(toBridge) : HandleRequest(i)
  <2>0. PICK i \in 1..Len(toBridge) : HandleRequest(i)
    BY <1>1
  <2> DEFINE f == toBridge[i]
  <2>1. /\ f.type = "REQUEST" /\ TakeBridge(i, f)
        /\ UNCHANGED <<losses, up, cacheVars, avail, recvVars, pickVars, faults>>
        /\ \/ toS3' = Offer(toS3, Error(1)) /\ UNCHANGED sendVars
           \/ cache[f.kind] # 0 /\ StartTransfer(f.kind) /\ UNCHANGED toS3
           \/ toS3' = Offer(toS3, Error(2)) /\ UNCHANGED sendVars
    BY <2>0 DEF HandleRequest
  <2> HIDE DEF f
  <2>2. f.kind \in Kinds
    BY <2>1, TakeBridgeTyped, FramesTyped
  <2>3. LinkTyped'
    BY <2>1, TakeBridgeTyped, OfferS3Typed, SmallFramesTyped DEF LinkTyped
  <2>4. BridgeTyped' /\ Caching' /\ Sending'
    <3>1. CASE UNCHANGED sendVars
      BY <2>1, <3>1, BridgeStays
    <3>2. CASE cache[f.kind] # 0 /\ StartTransfer(f.kind)
      <4>1. transferId' \in 1..MaxId
        BY <3>2, BoundsAssumption DEF StartTransfer, NextId, BridgeTyped
      <4>2. /\ snap' \in 1..Len(pubs) /\ phase' = "BEGIN" /\ offset' = 0
            /\ awaiting' = FALSE
        BY <2>2, <3>2 DEF StartTransfer, Caching
      <4>3. up /\ UNCHANGED <<up, cacheVars>>
        BY <2>1 DEF TakeBridge
      <4>4. BridgeTyped'
        <5>1. phase' \in Phases /\ awaiting' \in BOOLEAN /\ offset' \in Nat
          BY <4>2 DEF Phases
        <5>2. snap' \in Nat /\ transferId' \in 0..MaxId
          BY <4>1, <4>2
        <5>3. QED
          BY <4>3, <5>1, <5>2, ServerTyped
      <4>5. Sending'
        BY <4>1, <4>2, <4>3 DEF Sending, cacheVars
      <4>6. QED
        BY <4>3, <4>4, <4>5 DEF Caching, cacheVars
    <3>3. QED
      BY <2>1, <3>1, <3>2
  <2>5. QED
    BY <2>1, <2>3, <2>4, S3Stays, PickerStays
<1>2. CASE \E i \in 1..Len(toBridge) : HandleAck(i)
  <2>0. PICK i \in 1..Len(toBridge) : HandleAck(i)
    BY <1>2
  <2> DEFINE f == toBridge[i]
  <2>1. /\ f.type = "ACK" /\ TakeBridge(i, f)
        /\ (AckMatches(f) /\ AdvanceOnAck(f)) \/ UNCHANGED sendVars
        /\ UNCHANGED <<toS3, losses, up, cacheVars, avail, recvVars, pickVars, faults>>
    BY <2>0 DEF HandleAck
  <2> HIDE DEF f
  <2>2. LinkTyped'
    <3>1. TakeBridge(i, f) /\ UNCHANGED <<toS3, losses, faults>>
      BY <2>1
    <3>2. toBridge' \in Seq(FrameToBridge) /\ Len(toBridge') <= QueueSize
      BY <3>1, TakeBridgeTyped
    <3>3. QED
      BY <3>1, <3>2 DEF LinkTyped
  <2>3. BridgeTyped' /\ Caching' /\ Sending'
    <3>1. CASE UNCHANGED sendVars
      BY <2>1, <3>1, BridgeStays
    <3>2. CASE AckMatches(f) /\ AdvanceOnAck(f)
      <4>1. phase # "IDLE" /\ snap \in 1..Len(pubs)
        BY <3>2 DEF AckMatches, Sending
      <4>2. Len(pubs[snap].blob) \in Nat \ {0}
        BY <4>1, PublicationsTyped
      <4>3. BridgeTyped'
        <5>1. awaiting' \in BOOLEAN /\ transferId' \in 0..MaxId /\ phase' \in Phases
          <6>1. awaiting' \in BOOLEAN /\ phase' \in Phases
            BY <3>2 DEF AdvanceOnAck, Phases
          <6>2. QED
            BY <3>2, <6>1 DEF AdvanceOnAck, BridgeTyped
        <5>a. snap' \in Nat
          BY <3>2 DEF AdvanceOnAck, BridgeTyped
        <5>2. offset' \in Nat
          BY <3>2 DEF AckMatches, ExpectedAck, AdvanceOnAck, BridgeTyped
        <5>3. up /\ UNCHANGED <<up, cacheVars>>
          BY <2>1 DEF TakeBridge
        <5>4. QED
          BY <5>1, <5>a, <5>2, <5>3, ServerTyped
      <4>4. Sending'
        BY <2>1, <3>2, <4>2
        DEF AdvanceOnAck, AckMatches, ExpectedAck, AllSent, ActiveSize, ActivePage,
            BridgeTyped, Sending, cacheVars
      <4>5. QED
        BY <2>1, <4>3, <4>4 DEF Caching, cacheVars
    <3>3. QED
      BY <2>1, <3>1, <3>2
  <2>4. QED
    BY <2>1, <2>2, <2>3, S3Stays, PickerStays
<1>3. CASE \E i \in 1..Len(toBridge) : BridgeHello(i)
  <2>1. PICK i \in 1..Len(toBridge) : BridgeHello(i)
    BY <1>3
  <2>2. LinkTyped'
    BY <2>1, TakeBridgeTyped DEF LinkTyped, BridgeHello
  <2>3. BridgeTyped' /\ Caching' /\ Sending'
    BY <2>1 DEF BridgeHello, ResetTransfer, BridgeTyped, Caching, Sending, cacheVars
  <2>4. QED
    BY <2>1, <2>2, <2>3, S3Stays, PickerStays DEF BridgeHello
<1>4. CASE PollSend
  <2>1. /\ snap \in 1..Len(pubs) /\ transferId \in 1..MaxId
        /\ phase = "CHUNK" => offset < Len(pubs[snap].blob)
    BY <1>4 DEF PollSend, Sending, BridgeTyped
  <2>2. /\ pubs[snap].kind \in Kinds /\ pubs[snap].ctx \in 0..MaxSelections
        /\ pubs[snap].blob \in Blobs /\ pubs[snap].blob \in Seq(Data)
    BY <2>1, PublicationsTyped
  <2>3. PICK f \in FrameToS3 : toS3' = Offer(toS3, f)
    <3>1. Begin(transferId, ActivePage.kind, ActiveSize, ActivePage.ctx, snap) \in FrameToS3
      BY <2>1, <2>2 DEF Begin, BeginFrame, FrameToS3, ActivePage, ActiveSize
    <3>2. ASSUME phase = "CHUNK"
          PROVE  Chunk(transferId, offset, ActivePage.blob[offset + 1], snap) \in FrameToS3
      BY <2>1, <2>2, <3>2 DEF Chunk, ChunkFrame, FrameToS3, ActivePage, BridgeTyped
    <3>3. End(transferId, ActiveSize, Crc(ActivePage.blob), snap) \in FrameToS3
      BY <2>1, <2>2 DEF End, EndFrame, FrameToS3, ActivePage, ActiveSize
    <3>4. phase \in {"BEGIN", "CHUNK", "END"}
      BY <1>4 DEF PollSend, BridgeTyped
    <3>5. QED
      BY <1>4, <3>1, <3>2, <3>3, <3>4 DEF PollSend
  <2>4. LinkTyped'
    BY <1>4, <2>3, OfferS3Typed DEF LinkTyped, PollSend
  <2>5. BridgeTyped' /\ Caching' /\ Sending'
    BY <1>4 DEF PollSend, BridgeTyped, Caching, Sending, cacheVars
  <2>6. QED
    BY <1>4, <2>4, <2>5, S3Stays, PickerStays DEF PollSend
<1>5. CASE StallTimeout
  <2>1. LinkTyped'
    BY <1>5 DEF LinkTyped, StallTimeout, linkVars
  <2>2. BridgeTyped' /\ Caching' /\ Sending'
    BY <1>5 DEF StallTimeout, ResetTransfer, BridgeTyped, Caching, Sending, cacheVars
  <2>3. QED
    BY <1>5, <2>1, <2>2, S3Stays, PickerStays DEF StallTimeout
<1>6. QED
  BY <1>1, <1>2, <1>3, <1>4, <1>5 DEF BridgeStep

(* What a handler of the S3 does to the client keeps it typed. *)
LEMMA FailTyped ==
  ASSUME IInv, Fail, UNCHANGED avail
  PROVE  S3Typed' /\ Holding'
<1>1. avail' \in BOOLEAN /\ completed' \in BOOLEAN /\ cooldown' \in BOOLEAN
  BY DEF IInv, Typed, S3Typed, Fail
<1>2. mode' = "idle" /\ bytes' = <<>> /\ UNCHANGED <<wanted, got>> /\ ~ completed'
  BY DEF Fail
<1>3. QED
  BY <1>1, <1>2 DEF IInv, Typed, S3Typed, Holding

(* reset_ keeps the client typed. *)
LEMMA ResetClientTyped ==
  ASSUME IInv, ResetClient, avail' = FALSE
  PROVE  S3Typed' /\ Holding'
<1>1. avail' \in BOOLEAN /\ completed' \in BOOLEAN /\ cooldown' \in BOOLEAN
  BY DEF IInv, Typed, S3Typed, ResetClient
<1>2. mode' = "idle" /\ bytes' = <<>> /\ UNCHANGED <<wanted, got>> /\ ~ completed'
  BY DEF ResetClient
<1>3. QED
  BY <1>1, <1>2 DEF IInv, Typed, S3Typed, Holding

(* The acknowledgement of what has been received is a frame to the Bridge. *)
LEMMA SendAckTyped ==
  ASSUME IInv, S3Typed', SendAck
  PROVE  toBridge' \in Seq(FrameToBridge) /\ Len(toBridge') <= QueueSize
<1>1. got'.id \in 0..MaxId /\ Len(bytes') \in Nat
  BY DEF S3Typed
<1>2. Ack(got'.id, Len(bytes')) \in FrameToBridge
  BY <1>1, SmallFramesTyped
<1>3. QED
  BY <1>2, OfferBridgeTyped DEF SendAck, IInv, Typed

(* No frame the S3 handles makes it leave the types. *)
LEMMA ReceiveTyped ==
  ASSUME IInv, NEW i \in 1..Len(toS3),
         \/ ReceiveBegin(i) \/ ReceiveChunk(i) \/ ReceiveEnd(i)
         \/ ReceiveError(i) \/ ReceiveChanged(i) \/ ReceiveHello(i)
  PROVE  IInv'
<1> USE DEF IInv, Typed
<1> DEFINE f == toS3[i]
<1>1. ASSUME TakeS3(i, f), S3Typed', Holding', PickerTyped',
             UNCHANGED <<losses, up, cacheVars, sendVars, faults>>,
             \/ UNCHANGED toBridge
             \/ SendAck
             \/ toBridge' = OfferBridge(toBridge, Hello)
      PROVE  IInv'
  <2>1. toS3' \in Seq(FrameToS3) /\ Len(toS3') <= QueueSize
    BY <1>1, TakeS3Typed
  <2>2. toBridge' \in Seq(FrameToBridge) /\ Len(toBridge') <= QueueSize
    <3>1. CASE UNCHANGED toBridge
      BY <3>1 DEF LinkTyped
    <3>2. CASE SendAck
      BY <1>1, <3>2, SendAckTyped
    <3>3. CASE toBridge' = OfferBridge(toBridge, Hello)
      BY <3>3, OfferBridgeTyped, SmallFramesTyped
    <3>4. QED
      BY <1>1, <3>1, <3>2, <3>3
  <2>3. LinkTyped'
    BY <1>1, <2>1, <2>2 DEF LinkTyped
  <2>4. QED
    BY <1>1, <2>3, BridgeStays
<1>2. CASE ReceiveBegin(i)
  <2>1. f.type = "BEGIN" /\ TakeS3(i, f)
    BY <1>2 DEF ReceiveBegin
  <2>2. f \in BeginFrame
    BY <2>1, TakeS3Typed, FramesTyped
  <2>3. S3Typed' /\ Holding'
    <3>1. CASE UNCHANGED recvVars
      BY <1>2, <3>1, S3Stays DEF ReceiveBegin
    <3>2. CASE /\ mode' = "receiving" /\ bytes' = <<>>
               /\ got' = [id |-> f.id, kind |-> f.kind, total |-> f.total, ctx |-> f.ctx,
                          ver |-> f.ver]
               /\ mode = "waiting" /\ UNCHANGED <<avail, wanted, completed, cooldown>>
      BY <2>2, <3>2 DEF S3Typed, Holding, BeginFrame
    <3>3. QED
      BY <1>2, <3>1, <3>2 DEF ReceiveBegin
  <2>4. UNCHANGED toBridge \/ SendAck
    BY <1>2 DEF ReceiveBegin
  <2>5. UNCHANGED <<losses, up, cacheVars, sendVars, pickVars, faults>>
    BY <1>2 DEF ReceiveBegin
  <2>6. QED
    BY <1>1, <2>1, <2>3, <2>4, <2>5, PickerStays
<1>3. CASE ReceiveChunk(i)
  <2>1. f.type = "CHUNK" /\ TakeS3(i, f)
    BY <1>3 DEF ReceiveChunk
  <2>2. f.data \in Data
    BY <2>1, TakeS3Typed, FramesTyped DEF ChunkFrame
  <2>3. S3Typed' /\ Holding'
    <3>1. CASE UNCHANGED recvVars
      BY <1>3, <3>1, S3Stays DEF ReceiveChunk
    <3>2. CASE Fail
      BY <1>3, <3>2, FailTyped DEF ReceiveChunk
    <3>3. CASE /\ bytes' = Append(bytes, f.data)
               /\ UNCHANGED <<avail, mode, wanted, got, completed, cooldown>>
      BY <2>2, <3>3 DEF S3Typed, Holding
    <3>4. QED
      BY <1>3, <3>1, <3>2, <3>3 DEF ReceiveChunk
  <2>4. UNCHANGED toBridge \/ SendAck
    BY <1>3 DEF ReceiveChunk
  <2>5. UNCHANGED <<losses, up, cacheVars, sendVars, pickVars, faults>>
    BY <1>3 DEF ReceiveChunk
  <2>6. QED
    BY <1>1, <2>1, <2>3, <2>4, <2>5, PickerStays
<1>4. CASE ReceiveEnd(i)
  <2>1. f.type = "END" /\ TakeS3(i, f)
    BY <1>4 DEF ReceiveEnd
  <2>2. S3Typed' /\ Holding'
    <3>1. CASE UNCHANGED recvVars
      BY <1>4, <3>1, S3Stays DEF ReceiveEnd
    <3>2. CASE Fail
      BY <1>4, <3>2, FailTyped DEF ReceiveEnd
    <3>3. CASE /\ mode = "receiving" /\ mode' = "finished" /\ completed' = TRUE
               /\ UNCHANGED <<avail, wanted, got, bytes, cooldown>>
      BY <3>3 DEF S3Typed, Holding
    <3>4. QED
      BY <1>4, <3>1, <3>2, <3>3 DEF ReceiveEnd
  <2>3. UNCHANGED toBridge \/ SendAck
    BY <1>4 DEF ReceiveEnd
  <2>4. UNCHANGED <<losses, up, cacheVars, sendVars, pickVars, faults>>
    BY <1>4 DEF ReceiveEnd
  <2>5. QED
    BY <1>1, <2>1, <2>2, <2>3, <2>4, PickerStays
<1>5. CASE ReceiveError(i)
  <2>1. TakeS3(i, f) /\ Fail /\ UNCHANGED avail
    BY <1>5 DEF ReceiveError
  <2>2. UNCHANGED <<toBridge, losses, up, cacheVars, sendVars, pickVars, faults>>
    BY <1>5 DEF ReceiveError
  <2>3. QED
    BY <1>1, <2>1, <2>2, FailTyped, PickerStays
<1>6. CASE ReceiveChanged(i)
  <2>1. f.type = "CHANGED" /\ TakeS3(i, f)
    BY <1>6 DEF ReceiveChanged
  <2>2. f.kind \in Kinds
    BY <2>1, TakeS3Typed, FramesTyped
  <2>3. S3Typed' /\ Holding'
    BY <1>6 DEF ReceiveChanged, S3Typed, Holding
  <2>4. PickerTyped'
    BY <1>6, <2>2 DEF ReceiveChanged, PickerTyped
  <2>5. UNCHANGED <<toBridge, losses, up, cacheVars, sendVars, faults>>
    BY <1>6 DEF ReceiveChanged
  <2>6. QED
    BY <1>1, <2>1, <2>3, <2>4, <2>5
<1>7. CASE ReceiveHello(i)
  <2>1. TakeS3(i, f)
    BY <1>7 DEF ReceiveHello, TakeS3
  <2>2. /\ toBridge' = OfferBridge(toBridge, Hello)
        /\ UNCHANGED <<losses, up, cacheVars, sendVars, avail, recvVars, pickVars, faults>>
    BY <1>7 DEF ReceiveHello
  <2>3. QED
    BY <1>1, <2>1, <2>2, S3Stays, PickerStays
<1>8. QED
  BY <1>2, <1>3, <1>4, <1>5, <1>6, <1>7

(* The scheduler of the S3 requests a kind that exists. *)
LEMMA NextKindTyped == MissingKinds # {} /\ PickerTyped => NextKind \in Kinds
<1> SUFFICES ASSUME MissingKinds # {}, PickerTyped
             PROVE  NextKind \in Kinds
  OBVIOUS
<1> DEFINE First(i) == /\ RequestOrder[i] \in MissingKinds
                       /\ \A j \in 1..(i - 1) : RequestOrder[j] \notin MissingKinds
<1>1. MissingKinds \subseteq Kinds /\ MissingKinds \subseteq {2, 3, 4, 5}
  BY KindsAssumption DEF MissingKinds, PickerTyped
<1>2. RequestOrder = <<5, 4, 2, 3>>
  BY DEF RequestOrder, PLAYLIST_TRACKS, PLAYLIST_PAGE
<1>3. \E i \in 1..4 : First(i)
  <2>1. CASE 5 \in MissingKinds
    BY <1>2, <2>1
  <2>2. CASE 5 \notin MissingKinds /\ 4 \in MissingKinds
    <3>1. First(2)
      BY <1>2, <2>2
    <3>2. QED
      BY <3>1
  <2>3. CASE 5 \notin MissingKinds /\ 4 \notin MissingKinds /\ 2 \in MissingKinds
    <3>1. First(3)
      BY <1>2, <2>3
    <3>2. QED
      BY <3>1
  <2>4. CASE 5 \notin MissingKinds /\ 4 \notin MissingKinds /\ 2 \notin MissingKinds
    <3>1. 3 \in MissingKinds
      BY <1>1, <2>4
    <3>2. First(4)
      BY <1>2, <2>4, <3>1
    <3>3. QED
      BY <3>2
  <2>5. QED
    BY <2>1, <2>2, <2>3, <2>4
<1>4. First(CHOOSE i \in 1..4 : First(i))
  BY <1>3
<1>5. QED
  BY <1>1, <1>4 DEF NextKind

(* No timer, request or use of a completed page leaves the types. *)
LEMMA ClientStepTyped ==
  ASSUME IInv, SendRequest \/ RequestDue \/ ClientTimeout \/ CooldownOver \/ TakeCompleted
  PROVE  IInv'
<1> USE DEF IInv, Typed
<1>1. ASSUME UNCHANGED <<linkVars, up, cacheVars, sendVars, faults>>,
             S3Typed', Holding', PickerTyped'
      PROVE  IInv'
  <2>1. LinkTyped'
    BY <1>1 DEF LinkTyped, linkVars
  <2>2. QED
    BY <1>1, <2>1, BridgeStays
<1>2. CASE SendRequest
  <2>1. NextKind \in Kinds
    BY <1>2, NextKindTyped DEF SendRequest
  <2>2. toBridge' \in Seq(FrameToBridge) /\ Len(toBridge') <= QueueSize
    BY <1>2, <2>1, OfferBridgeTyped, SmallFramesTyped DEF SendRequest
  <2>3. LinkTyped'
    BY <1>2, <2>2 DEF SendRequest, LinkTyped
  <2>4. S3Typed' /\ Holding'
    BY <1>2, <2>1 DEF SendRequest, S3Typed, Holding
  <2>5. PickerTyped'
    BY <1>2 DEF SendRequest, PickerTyped
  <2>6. QED
    BY <1>2, <2>3, <2>4, <2>5, BridgeStays DEF SendRequest
<1>3. CASE RequestDue
  <2>1. PickerTyped'
    BY <1>3 DEF RequestDue, PickerTyped
  <2>2. QED
    BY <1>1, <1>3, <2>1, S3Stays DEF RequestDue
<1>4. CASE ClientTimeout
  BY <1>1, <1>4, FailTyped, PickerStays DEF ClientTimeout
<1>5. CASE CooldownOver
  <2>1. S3Typed' /\ Holding'
    BY <1>5 DEF CooldownOver, S3Typed, Holding
  <2>2. QED
    BY <1>1, <1>5, <2>1, PickerStays DEF CooldownOver
<1>6. CASE TakeCompleted
  <2>1. S3Typed' /\ Holding'
    <3>1. CASE Decodes
      BY <1>6, <3>1 DEF TakeCompleted, S3Typed, Holding
    <3>2. CASE ~ Decodes
      BY <1>6, <3>2, FailTyped DEF TakeCompleted
    <3>3. QED
      BY <3>1, <3>2
  <2>2. PickerTyped'
    <3>1. CASE UNCHANGED pickVars
      BY <3>1, PickerStays
    <3>2. CASE Usable /\ InstallPage
      <4>1. got.kind \in Kinds /\ bytes \in Blobs
        BY <1>6, <3>2, BlobsAssumption DEF TakeCompleted, Holding, Usable, Decodes, Blobs
      <4>2. RowsBefore \in Seq(Row)
        BY <3>2, <4>1, BlobsNonEmpty, SubSeqProperties
        DEF PickerTyped, RowsBefore, Usable, Gap
      <4>3. [blob |-> bytes, ctx |-> got.ctx, ver |-> got.ver] \in Row
        BY <4>1 DEF S3Typed, Row
      <4>4. QED
        BY <3>2, <4>1, <4>2, <4>3 DEF InstallPage, PickerTyped, S3Typed
    <3>3. QED
      BY <1>6, <3>1, <3>2 DEF TakeCompleted
  <2>3. QED
    BY <1>1, <1>6, <2>1, <2>2 DEF TakeCompleted
<1>7. QED
  BY <1>2, <1>3, <1>4, <1>5, <1>6

(* The header of a client that holds no transfer is typed. *)
LEMMA ZeroTyped ==
  [id |-> 0, kind |-> 0, total |-> 0, ctx |-> 0, ver |-> 0]
    \in [id : 0..MaxId, kind : Kinds \cup {0}, total : Nat, ctx : 0..MaxSelections, ver : Nat]
  BY BoundsAssumption

(* No refresh, selection, loss, outage or restart leaves the types. *)
LEMMA EnvironmentTyped ==
  ASSUME IInv, Environment
  PROVE  IInv'
<1> USE DEF IInv, Typed
<1>1. ASSUME UNCHANGED <<linkVars, up, cacheVars, sendVars>>, faults' \in 0..MaxFaults,
             S3Typed', Holding', PickerTyped'
      PROVE  IInv'
  <2>1. LinkTyped'
    BY <1>1 DEF LinkTyped, linkVars
  <2>2. QED
    BY <1>1, <2>1, BridgeStays
<1>2. ASSUME faults < MaxFaults, faults' = faults + 1
      PROVE  faults' \in 0..MaxFaults
  BY <1>2, BoundsAssumption DEF LinkTyped
<1>3. faults \in 0..MaxFaults
  BY DEF LinkTyped
<1>4. CASE \E k \in Kinds, b \in Blobs, c \in 0..MaxSelections : Publish(k, b, c)
  <2>1. PICK k \in Kinds, b \in Blobs, c \in 0..MaxSelections : Publish(k, b, c)
    BY <1>4
  <2> DEFINE page == [kind |-> k, blob |-> b, ctx |-> c]
  <2>2. /\ pubs' = Append(pubs, page) /\ cache' = [cache EXCEPT ![k] = Len(pubs')]
        /\ lookup' = [lookup EXCEPT ![k] = PagePos[b] + 1]
        /\ toS3' = Offer(toS3, Changed(k))
        /\ UNCHANGED <<toBridge, losses, up, sendVars, avail, recvVars, faults>>
        /\ UNCHANGED <<due, desired, fetched, gen, shelf, installed>>
        /\ UNCHANGED ours \/ ours' = ours \cup {Len(pubs')}
    BY <2>1 DEF Publish
  <2>3. LinkTyped'
    BY <2>2, OfferS3Typed, SmallFramesTyped DEF LinkTyped
  <2>4. /\ pubs' \in Seq(Publication) /\ Len(pubs') = Len(pubs) + 1
        /\ pubs'[Len(pubs) + 1] = page /\ \A v \in 1..Len(pubs) : pubs'[v] = pubs[v]
    <3>1. pubs \in Seq(Publication) /\ page \in Publication
      BY DEF BridgeTyped, Publication
    <3>2. QED
      BY <2>2, <3>1, AppendProperties
  <2>5. BridgeTyped'
    <3>1. up' \in BOOLEAN /\ awaiting' \in BOOLEAN
      BY <2>2 DEF BridgeTyped, sendVars
    <3>2. cache' \in [Kinds -> Nat] /\ lookup' \in [Kinds -> Nat]
      BY <2>2, <2>4, BlobsNonEmpty DEF BridgeTyped
    <3>3. QED
      BY <2>2, <2>4, <3>1, <3>2 DEF BridgeTyped, sendVars
  <2>6. Caching'
    BY <2>2, <2>4 DEF Caching, BridgeTyped
  <2>7. Sending'
    BY <2>2, <2>4 DEF Sending, sendVars, BridgeTyped
  <2>8. PickerTyped'
    <3>1. Len(pubs') \in Nat
      BY <2>4
    <3>2. ours' \subseteq Nat
      BY <2>2, <3>1 DEF PickerTyped
    <3>3. QED
      BY <2>2, <3>2 DEF PickerTyped
  <2>9. QED
    BY <2>2, <2>3, <2>5, <2>6, <2>7, <2>8, S3Stays
<1>5. CASE SelectPlaylist
  <2>1. PickerTyped'
    BY <1>5, BoundsAssumption DEF SelectPlaylist, PickerTyped
  <2>2. QED
    BY <1>1, <1>3, <1>5, <2>1, S3Stays DEF SelectPlaylist
<1>6. CASE BridgeAvailable
  <2>1. S3Typed' /\ Holding'
    BY <1>6 DEF BridgeAvailable, S3Typed, Holding, recvVars
  <2>2. QED
    BY <1>1, <1>3, <1>6, <2>1, PickerStays DEF BridgeAvailable
<1>7. CASE BridgeUnavailable
  BY <1>1, <1>2, <1>7, ResetClientTyped, PickerStays DEF BridgeUnavailable
<1>8. CASE LinkLost
  <2>1. PickerTyped'
    BY <1>8 DEF LinkLost, PickerTyped, Retained
  <2>2. QED
    BY <1>1, <1>2, <1>8, <2>1, ResetClientTyped DEF LinkLost
<1>9. CASE LoseFrame
  <2>1. losses' \in 0..MaxLosses
    BY <1>9, BoundsAssumption DEF LoseFrame, LinkTyped
  <2>2. /\ toS3' \in Seq(FrameToS3) /\ Len(toS3') <= QueueSize
        /\ toBridge' \in Seq(FrameToBridge) /\ Len(toBridge') <= QueueSize
    <3>1. CASE \E i \in 1..Len(toS3) : toS3' = RemoveAt(toS3, i) /\ UNCHANGED toBridge
      BY <3>1, RemoveAtSeq, BoundsAssumption DEF LinkTyped
    <3>2. CASE \E i \in 1..Len(toBridge) : toBridge' = RemoveAt(toBridge, i) /\ UNCHANGED toS3
      BY <3>2, RemoveAtSeq, BoundsAssumption DEF LinkTyped
    <3>3. QED
      BY <1>9, <3>1, <3>2 DEF LoseFrame
  <2>3. LinkTyped'
    BY <1>3, <1>9, <2>1, <2>2 DEF LoseFrame, LinkTyped
  <2>4. QED
    BY <1>9, <2>3, BridgeStays, S3Stays, PickerStays DEF LoseFrame
<1>10. CASE BridgeDown
  <2>1. LinkTyped'
    BY <1>2, <1>10, BoundsAssumption DEF BridgeDown, LinkTyped
  <2>2. BridgeTyped' /\ Caching' /\ Sending'
    BY <1>10 DEF BridgeDown, BridgeTyped, Caching, Sending
  <2>3. QED
    BY <1>10, <2>1, <2>2, S3Stays, PickerStays DEF BridgeDown
<1>11. CASE BridgeBoot
  <2>1. LinkTyped'
    <3>1. toS3' \in Seq(FrameToS3) /\ Len(toS3') <= QueueSize
      BY <1>11, SmallFramesTyped, BoundsAssumption DEF BridgeBoot
    <3>2. QED
      BY <1>11, <3>1 DEF BridgeBoot, LinkTyped
  <2>2. BridgeTyped' /\ Caching' /\ Sending'
    <3>1. phase = "IDLE"
      BY <1>11 DEF BridgeBoot, Sending
    <3>2. BridgeTyped'
      BY <1>11, BoundsAssumption DEF BridgeBoot, BridgeTyped, cacheVars
    <3>3. QED
      BY <1>11, <3>1, <3>2 DEF BridgeBoot, Caching, Sending, cacheVars
  <2>3. QED
    BY <1>11, <2>1, <2>2, S3Stays, PickerStays DEF BridgeBoot
<1>12. CASE S3Restart
  <2>1. LinkTyped'
    <3>1. toBridge' \in Seq(FrameToBridge) /\ Len(toBridge') <= QueueSize
      BY <1>12, OfferBridgeTyped, SmallFramesTyped DEF S3Restart
    <3>2. QED
      BY <1>2, <1>12, <3>1, BoundsAssumption DEF S3Restart, LinkTyped
  <2>2. S3Typed' /\ Holding'
    <3>1. got' \in [id : 0..MaxId, kind : Kinds \cup {0}, total : Nat,
                    ctx : 0..MaxSelections, ver : Nat]
      BY <1>12, ZeroTyped DEF S3Restart
    <3>2. avail' \in BOOLEAN /\ completed' \in BOOLEAN /\ cooldown' \in BOOLEAN
      BY <1>12 DEF S3Restart
    <3>3. QED
      BY <1>12, <3>1, <3>2 DEF S3Restart, S3Typed, Holding
  <2>3. PickerTyped'
    BY <1>12, BoundsAssumption DEF S3Restart, PickerTyped, Retained
  <2>4. QED
    BY <1>12, <2>1, <2>2, <2>3, BridgeStays DEF S3Restart
<1>13. QED
  BY <1>4, <1>5, <1>6, <1>7, <1>8, <1>9, <1>10, <1>11, <1>12 DEF Environment

(* The type invariant holds when both processors have just booted. *)
LEMMA InitTyped == Init => IInv
<1> SUFFICES ASSUME Init
             PROVE  IInv
  OBVIOUS
<1> USE BoundsAssumption DEF Init
<1>1. LinkTyped
  BY DEF LinkTyped
<1>2. BridgeTyped /\ Caching /\ Sending
  <2>1. up \in BOOLEAN /\ awaiting \in BOOLEAN
    OBVIOUS
  <2>2. cache \in [Kinds -> Nat] /\ lookup \in [Kinds -> Nat] /\ pubs \in Seq(Publication)
    OBVIOUS
  <2>3. BridgeTyped
    BY <2>1, <2>2 DEF BridgeTyped
  <2>4. QED
    BY <2>3 DEF Caching, Sending
<1>3. S3Typed /\ Holding
  <2>1. got \in [id : 0..MaxId, kind : Kinds \cup {0}, total : Nat,
                 ctx : 0..MaxSelections, ver : Nat]
    BY ZeroTyped
  <2>2. avail \in BOOLEAN /\ completed \in BOOLEAN /\ cooldown \in BOOLEAN
    OBVIOUS
  <2>3. QED
    BY <2>1, <2>2 DEF S3Typed, Holding
<1>4. PickerTyped
  BY DEF PickerTyped, Retained
<1>5. QED
  BY <1>1, <1>2, <1>3, <1>4 DEF IInv, Typed

(* The type invariant speaks of the variables only. *)
LEMMA StutterTyped == IInv /\ SlotKept => IInv'
<1> SUFFICES ASSUME IInv, SlotKept
             PROVE  IInv'
  OBVIOUS
<1>1. LinkTyped'
  BY DEF IInv, Typed, LinkTyped, SlotKept, linkVars
<1>2. QED
  BY <1>1, BridgeStays, S3Stays, PickerStays DEF SlotKept, IInv, Typed

(* Every step preserves the type invariant. *)
LEMMA StepTyped == IInv /\ [Next]_vars => IInv'
  BY BridgeStepTyped, ReceiveTyped, ClientStepTyped, EnvironmentTyped, StutterTyped, SlotSteps
  DEF Next, S3Step

(* The strengthened type invariant holds in every reachable state: frames *)
(* and handlers of LibraryProxyServer and LibraryProxyClient keep its types. *)
THEOREM Inductive == Spec => []IInv
  BY InitTyped, StepTyped, PTL DEF Spec

(* Only a picture makes a transfer overdue; its progress and its end clear *)
(* that again.                                                             *)
OverdueClears == UNCHANGED slotVars \/ (UNCHANGED <<picture, slow>> /\ overdue' = FALSE)

LEMMA BridgeStepClears == BridgeStep => OverdueClears
<1> SUFFICES ASSUME BridgeStep
             PROVE  OverdueClears
  OBVIOUS
<1>1. ASSUME NEW i \in 1..Len(toBridge), HandleRequest(i)
      PROVE  OverdueClears
  BY <1>1 DEF HandleRequest, StartTransfer, OverdueClears, slotVars
<1>2. ASSUME NEW i \in 1..Len(toBridge), HandleAck(i)
      PROVE  OverdueClears
  BY <1>2 DEF HandleAck, AdvanceOnAck, OverdueClears, slotVars
<1>3. ASSUME NEW i \in 1..Len(toBridge), BridgeHello(i)
      PROVE  OverdueClears
  BY <1>3 DEF BridgeHello, ResetTransfer, OverdueClears, slotVars
<1>4. CASE PollSend
  BY <1>4 DEF PollSend, OverdueClears
<1>5. CASE StallTimeout
  BY <1>5 DEF StallTimeout, ResetTransfer, OverdueClears
<1>6. QED
  BY <1>1, <1>2, <1>3, <1>4, <1>5 DEF BridgeStep

(* The S3 does not touch the slot. *)
LEMMA S3StepClears == S3Step => UNCHANGED slotVars
  BY DEF S3Step, ReceiveBegin, ReceiveChunk, ReceiveEnd, ReceiveError, ReceiveChanged,
         ReceiveHello, SendRequest, RequestDue, ClientTimeout, CooldownOver, TakeCompleted

(* A restart of the Bridge frees the slot, nothing else around it does. *)
LEMMA EnvironmentClears ==
  Environment =>
    UNCHANGED slotVars \/ (picture' = FALSE /\ overdue' = FALSE /\ UNCHANGED slow)
  BY DEF Environment, Publish, SelectPlaylist, BridgeAvailable, BridgeUnavailable, LinkLost,
         LoseFrame, BridgeDown, BridgeBoot, S3Restart, slotVars

LEMMA MaxSlowNat == MaxSlow \in Nat
  BY BoundsAssumption

(* Whoever holds the slot, its variables keep their types. *)
LEMMA SlotTypeKept ==
  ASSUME SlotTyped, [Next]_vars
  PROVE  SlotTyped'
<1>1. CASE BridgeStep
  BY <1>1, BridgeStepClears DEF OverdueClears, slotVars, SlotTyped
<1>2. CASE S3Step
  BY <1>2, S3StepClears DEF slotVars, SlotTyped
<1>3. CASE SlotStep
  <2>1. /\ picture' \in BOOLEAN /\ overdue' \in BOOLEAN
        /\ slow' = slow \/ (slow < MaxSlow /\ slow' = slow + 1)
    BY <1>3 DEF SlotStep, PictureBegins, PictureEnds, PictureDrags, SlotTyped
  <2>2. slow' \in 0..MaxSlow
    BY <2>1, MaxSlowNat DEF SlotTyped
  <2>3. QED
    BY <2>1, <2>2 DEF SlotTyped
<1>4. CASE Environment
  BY <1>4, EnvironmentClears DEF slotVars, SlotTyped
<1>5. CASE UNCHANGED vars
  BY <1>5 DEF vars, slotVars, SlotTyped
<1>6. QED
  BY <1>1, <1>2, <1>3, <1>4, <1>5 DEF Next

(* Whatever the sizes of queues, ids and pages: only kinds, ids, offsets and *)
(* chunks that exist are sent and accepted, and no receive queue outgrows    *)
(* FRAME_QUEUE_SIZE.                                                         *)
THEOREM TypeCorrect == Spec => []TypeOK
<1>1. Init => SlotTyped
  <2>1. 0 \in 0..MaxSlow
    BY MaxSlowNat
  <2>2. QED
    BY <2>1 DEF Init, SlotTyped
<1>2. SlotTyped /\ [Next]_vars => SlotTyped'
  BY SlotTypeKept
<1>3. IInv /\ SlotTyped => TypeOK
  BY DEF IInv, Typed, TypeOK
<1>4. QED
  BY Inductive, <1>1, <1>2, <1>3, PTL DEF Spec

------------------------------------------------------------------------------
(* Integrity of what arrives *)

(* Most steps neither cut a new page frame nor add to what was received:   *)
(* what they may do is stated here, and that it disturbs nothing.           *)
PubsGrow ==
  Len(pubs) <= Len(pubs') /\ \A v \in 1..Len(pubs) : pubs'[v] = pubs[v]
SenderSteps ==
  \/ transferId' = transferId /\ (phase' # "IDLE" => phase # "IDLE" /\ snap' = snap)
  \/ transferId' = transferId + 1
NoNewPage == \A f \in ToSet(toS3') : IsPage(f) => f \in ToSet(toS3)
NoNewRequest == \A f \in ToSet(toBridge') : f.type = "REQUEST" => f \in ToSet(toBridge)
ClientKept ==
  /\ mode' = "receiving" =>
       /\ UNCHANGED <<mode, got, bytes>>
       /\ NoNewRequest /\ (Orphaned => phase' = "IDLE")
  /\ completed' => UNCHANGED <<completed, got, bytes>>
Quiet == PubsGrow /\ SenderSteps /\ NoNewPage

(* An id keeps its version while the sender steps on. *)
LEMMA CarriesKept ==
  ASSUME BridgeTyped, SenderSteps, NEW id \in Nat, NEW v, Carries(id, v)
  PROVE  Carries(id, v)'
  BY DEF BridgeTyped, SenderSteps, Carries

(* A page frame in flight names a transfer id and a publication. *)
LEMMA PagesTyped ==
  ASSUME LinkTyped, NEW f \in ToSet(toS3), IsPage(f)
  PROVE  f.id \in Nat /\ f.ver \in Nat /\ f.id \in 1..MaxId
<1>1. f \in FrameToS3
  BY DEF LinkTyped, ToSet
<1>2. QED
  BY <1>1, FramesTyped, BoundsAssumption DEF IsPage, BeginFrame, ChunkFrame, EndFrame

(* Frames in flight stay faithful when none is added but what was taken. *)
LEMMA FlightKept ==
  ASSUME IInv, Fidelity, Quiet
  PROVE  InFlight' /\ SameId'
<1>1. ASSUME NEW f \in ToSet(toS3'), IsPage(f)
      PROVE  /\ f \in ToSet(toS3) /\ f.ver \in 1..Len(pubs') /\ CutFrom(f, pubs'[f.ver])
             /\ Carries(f.id, f.ver)'
  <2>1. f \in ToSet(toS3)
    BY <1>1 DEF Quiet, NoNewPage
  <2>2. f.ver \in 1..Len(pubs) /\ CutFrom(f, pubs[f.ver]) /\ Carries(f.id, f.ver)
    BY <1>1, <2>1 DEF Fidelity, InFlight
  <2>3. f.id \in Nat
    BY <1>1, <2>1, PagesTyped DEF IInv, Typed
  <2>4. Carries(f.id, f.ver)'
    BY <2>2, <2>3, CarriesKept DEF Quiet, IInv, Typed
  <2>5. pubs'[f.ver] = pubs[f.ver] /\ f.ver \in 1..Len(pubs')
    BY <2>2 DEF Quiet, PubsGrow, IInv, Typed, BridgeTyped
  <2>6. QED
    BY <2>1, <2>2, <2>4, <2>5
<1>2. InFlight'
  BY <1>1 DEF InFlight, IsPage, CutFrom
<1>3. SameId'
  BY <1>1 DEF SameId, IsPage, Fidelity
<1>4. QED
  BY <1>2, <1>3

(* A partial page stays a prefix of its publication while others step. *)
LEMMA ReceivedKept ==
  ASSUME IInv, Fidelity, Quiet, ClientKept
  PROVE  Received' /\ Completed'
<1>1. ASSUME got.ver \in 1..Len(pubs)
      PROVE  got.ver \in 1..Len(pubs') /\ pubs'[got.ver] = pubs[got.ver]
  BY <1>1 DEF Quiet, PubsGrow, IInv, Typed, BridgeTyped
<1>2. Received'
  <2>1. SUFFICES ASSUME mode' = "receiving"
                 PROVE  Received'
    BY DEF Received
  <2>2. /\ UNCHANGED <<mode, got, bytes>> /\ mode = "receiving"
        /\ NoNewRequest /\ (Orphaned => phase' = "IDLE")
    BY <2>1 DEF ClientKept
  <2>3. got'.ver \in 1..Len(pubs') /\ pubs'[got'.ver] = pubs[got.ver]
    BY <1>1, <2>2 DEF Fidelity, Received
  <2>4. Carries(got.id, got.ver)' \/ Orphaned'
    <3>1. CASE Carries(got.id, got.ver)
      <4>1. got.id \in Nat
        BY DEF IInv, Typed, S3Typed
      <4>2. ASSUME NEW id \in Nat, NEW v, id = got.id, v = got.ver
            PROVE  Carries(id, v)'
        BY <3>1, <4>2, CarriesKept DEF Quiet, IInv, Typed
      <4>3. QED
        BY <2>2, <4>1, <4>2
    <3>2. CASE Orphaned
      BY <2>2, <3>2 DEF Orphaned, Quiet, NoNewPage, NoNewRequest, IsPage
    <3>3. QED
      BY <2>2, <3>1, <3>2 DEF Fidelity, Received
  <2>5. \A f \in ToSet(toS3') : IsPage(f) /\ f.id = got'.id => f.ver = got'.ver
    BY <2>2 DEF Quiet, NoNewPage, Fidelity, Received
  <2>6. QED
    BY <2>2, <2>3, <2>4, <2>5 DEF Fidelity, Received, IsPage
<1>3. Completed'
  <2>1. SUFFICES ASSUME completed'
                 PROVE  Completed'
    BY DEF Completed
  <2>2. UNCHANGED <<completed, got, bytes>> /\ completed
    BY <2>1 DEF ClientKept
  <2>3. QED
    BY <1>1, <2>2 DEF Fidelity, Completed, CompletedIsPublished
<1>4. QED
  BY <1>2, <1>3

(* A step that neither sends a page frame nor touches the client is faithful. *)
LEMMA QuietStep ==
  ASSUME IInv, Fidelity, Quiet, ClientKept, DownQuiet'
  PROVE  Fidelity'
  BY FlightKept, ReceivedKept DEF Fidelity

(* A step that leaves the caches alone changes no publication. *)
LEMMA PubsStay == UNCHANGED cacheVars => PubsGrow
  BY DEF PubsGrow, cacheVars

(* A step that leaves the server alone changes no id. *)
LEMMA SenderStays == UNCHANGED sendVars => SenderSteps
  BY DEF SenderSteps, sendVars

(* Control frames offered to the S3 are no pages. *)
LEMMA OfferedIsNoPage ==
  ASSUME LinkTyped, NEW f \in FrameToS3, ~ IsPage(f), toS3' = Offer(toS3, f)
  PROVE  NoNewPage
<1>1. ToSet(toS3') \subseteq ToSet(toS3) \cup {f}
  BY OfferS3Typed
<1>2. QED
  BY <1>1 DEF NoNewPage

(* A frame other than a request adds no request to the queue of the Bridge. *)
LEMMA OfferedIsNoRequest ==
  ASSUME LinkTyped, NEW f \in FrameToBridge, f.type # "REQUEST",
         toBridge' = OfferBridge(toBridge, f)
  PROVE  NoNewRequest
<1>1. ToSet(toBridge') \subseteq ToSet(toBridge) \cup {f}
  BY OfferBridgeTyped
<1>2. QED
  BY <1>1 DEF NoNewRequest

(* Whatever the Bridge sends is cut from the page frozen under its id. *)
LEMMA BridgeStepFaithful ==
  ASSUME IInv, Fidelity, BridgeStep, MaxTransfers <= MaxId
  PROVE  Fidelity'
<1> USE DEF IInv, Typed
<1>1. ASSUME UNCHANGED <<recvVars, cacheVars, up>>, NoNewPage, NoNewRequest, SenderSteps,
             up, Orphaned => phase' = "IDLE"
      PROVE  Fidelity'
  <2>1. ClientKept
    BY <1>1 DEF ClientKept, recvVars
  <2>2. DownQuiet'
    BY <1>1 DEF DownQuiet
  <2>3. Quiet
    BY <1>1, PubsStay DEF Quiet
  <2>4. QED
    BY <2>1, <2>2, <2>3, QuietStep
<1>2. CASE \E i \in 1..Len(toBridge) : HandleRequest(i)
  <2>0. PICK i \in 1..Len(toBridge) : HandleRequest(i)
    BY <1>2
  <2> DEFINE f == toBridge[i]
  <2>1. /\ f.type = "REQUEST" /\ TakeBridge(i, f)
        /\ UNCHANGED <<up, cacheVars, recvVars>>
        /\ \/ toS3' = Offer(toS3, Error(1)) /\ UNCHANGED sendVars
           \/ StartTransfer(f.kind) /\ UNCHANGED toS3
           \/ toS3' = Offer(toS3, Error(2)) /\ UNCHANGED sendVars
    BY <2>0 DEF HandleRequest
  <2> HIDE DEF f
  <2>2. /\ up /\ f \in ToSet(toBridge) /\ ToSet(toBridge') \subseteq ToSet(toBridge)
    BY <2>1, TakeBridgeTyped
  <2>3. NoNewRequest /\ ~ Orphaned
    BY <2>1, <2>2 DEF NoNewRequest, Orphaned
  <2>4. NoNewPage
    <3>1. ~ IsPage(Error(1)) /\ ~ IsPage(Error(2))
      BY DEF IsPage, Error
    <3>2. CASE UNCHANGED toS3
      BY <3>2 DEF NoNewPage
    <3>3. QED
      BY <2>1, <3>1, <3>2, OfferedIsNoPage, SmallFramesTyped
  <2>5. SenderSteps
    <3>1. CASE UNCHANGED sendVars
      BY <3>1, SenderStays
    <3>2. CASE StartTransfer(f.kind)
      BY <3>2, BoundsAssumption DEF StartTransfer, NextId, SenderSteps, BridgeTyped
    <3>3. QED
      BY <2>1, <3>1, <3>2
  <2>6. QED
    BY <1>1, <2>1, <2>2, <2>3, <2>4, <2>5
<1>3. CASE \E i \in 1..Len(toBridge) : HandleAck(i)
  <2>0. PICK i \in 1..Len(toBridge) : HandleAck(i)
    BY <1>3
  <2> DEFINE f == toBridge[i]
  <2>1. /\ TakeBridge(i, f) /\ UNCHANGED <<toS3, up, cacheVars, recvVars>>
        /\ \/ AckMatches(f) /\ AdvanceOnAck(f)
           \/ UNCHANGED sendVars
    BY <2>0 DEF HandleAck
  <2> HIDE DEF f
  <2>2. up /\ ToSet(toBridge') \subseteq ToSet(toBridge)
    BY <2>1, TakeBridgeTyped
  <2>3. NoNewRequest /\ NoNewPage
    BY <2>1, <2>2 DEF NoNewRequest, NoNewPage
  <2>4. SenderSteps /\ (Orphaned => phase' = "IDLE")
    <3>1. CASE UNCHANGED sendVars
      BY <3>1, SenderStays DEF Orphaned, sendVars
    <3>2. CASE AckMatches(f) /\ AdvanceOnAck(f)
      BY <3>2 DEF AckMatches, AdvanceOnAck, SenderSteps, Orphaned
    <3>3. QED
      BY <2>1, <3>1, <3>2
  <2>5. QED
    BY <1>1, <2>1, <2>2, <2>3, <2>4
<1>4. CASE \E i \in 1..Len(toBridge) : BridgeHello(i)
  <2>1. PICK i \in 1..Len(toBridge) : BridgeHello(i)
    BY <1>4
  <2>2. up /\ ToSet(toBridge') \subseteq ToSet(toBridge)
    BY <2>1, TakeBridgeTyped DEF BridgeHello
  <2>3. NoNewRequest /\ NoNewPage
    BY <2>1, <2>2 DEF NoNewRequest, NoNewPage, BridgeHello
  <2>4. SenderSteps /\ phase' = "IDLE"
    BY <2>1 DEF BridgeHello, ResetTransfer, SenderSteps
  <2>5. UNCHANGED <<recvVars, cacheVars, up>>
    BY <2>1 DEF BridgeHello
  <2>6. QED
    BY <1>1, <2>2, <2>3, <2>4, <2>5
<1>5. CASE StallTimeout
  <2>1. /\ up /\ UNCHANGED <<toS3, toBridge>> /\ UNCHANGED <<recvVars, cacheVars, up>>
        /\ phase' = "IDLE" /\ transferId' = transferId
    BY <1>5 DEF StallTimeout, ResetTransfer, linkVars
  <2>2. NoNewRequest /\ NoNewPage /\ SenderSteps
    BY <2>1 DEF NoNewRequest, NoNewPage, SenderSteps
  <2>3. QED
    BY <1>1, <2>1, <2>2
<1>6. CASE PollSend
  <2> DEFINE page == pubs[snap]
  <2>1. /\ up /\ phase # "IDLE" /\ snap \in 1..Len(pubs) /\ transferId \in 1..MaxId
        /\ phase = "CHUNK" => offset < Len(page.blob)
        /\ UNCHANGED <<toBridge, up, cacheVars, phase, transferId, offset, snap, recvVars>>
    BY <1>6 DEF PollSend, Sending, BridgeTyped
  <2>2. PICK f \in FrameToS3 :
          /\ toS3' = Offer(toS3, f)
          /\ f.id = transferId /\ f.ver = snap /\ IsPage(f) /\ CutFrom(f, page)
    <3>1. /\ pubs[snap].kind \in Kinds /\ pubs[snap].ctx \in 0..MaxSelections
          /\ pubs[snap].blob \in Blobs /\ pubs[snap].blob \in Seq(Data)
      BY <2>1, PublicationsTyped
    <3>2. CASE phase = "BEGIN"
      <4> DEFINE f == Begin(transferId, ActivePage.kind, ActiveSize, ActivePage.ctx, snap)
      <4>1. f \in FrameToS3
        BY <2>1, <3>1 DEF Begin, BeginFrame, FrameToS3, ActivePage, ActiveSize
      <4>2. f.id = transferId /\ f.ver = snap /\ IsPage(f) /\ CutFrom(f, page)
        BY DEF Begin, IsPage, CutFrom, ActivePage, ActiveSize
      <4>3. toS3' = Offer(toS3, f)
        BY <1>6, <3>2 DEF PollSend
      <4>4. QED
        BY <4>1, <4>2, <4>3
    <3>3. CASE phase = "CHUNK"
      <4> DEFINE f == Chunk(transferId, offset, ActivePage.blob[offset + 1], snap)
      <4>1. f \in FrameToS3
        BY <2>1, <3>1, <3>3 DEF Chunk, ChunkFrame, FrameToS3, ActivePage, BridgeTyped
      <4>2. f.id = transferId /\ f.ver = snap /\ IsPage(f) /\ CutFrom(f, page)
        BY <2>1, <3>3 DEF Chunk, IsPage, CutFrom, ActivePage
      <4>3. toS3' = Offer(toS3, f)
        BY <1>6, <3>3 DEF PollSend
      <4>4. QED
        BY <4>1, <4>2, <4>3
    <3>4. CASE phase = "END"
      <4> DEFINE f == End(transferId, ActiveSize, Crc(ActivePage.blob), snap)
      <4>1. f \in FrameToS3
        BY <2>1, <3>1 DEF End, EndFrame, FrameToS3, ActivePage, ActiveSize
      <4>2. f.id = transferId /\ f.ver = snap /\ IsPage(f) /\ CutFrom(f, page)
        BY DEF End, IsPage, CutFrom, ActivePage, ActiveSize
      <4>3. toS3' = Offer(toS3, f)
        BY <1>6, <3>4 DEF PollSend
      <4>4. QED
        BY <4>1, <4>2, <4>3
    <3>5. QED
      BY <2>1, <3>2, <3>3, <3>4 DEF BridgeTyped
  <2>3. ToSet(toS3') \subseteq ToSet(toS3) \cup {f}
    BY <2>2, OfferS3Typed
  <2>4. UNCHANGED <<pubs, mode, got, bytes, completed>>
    BY <2>1 DEF cacheVars, recvVars
  <2>5. InFlight' /\ SameId'
    <3>1. \A g \in ToSet(toS3') : IsPage(g) =>
            /\ g.ver \in 1..Len(pubs) /\ CutFrom(g, pubs[g.ver]) /\ Carries(g.id, g.ver)
            /\ g.id = transferId => g.ver = snap
      BY <2>1, <2>2, <2>3 DEF Fidelity, InFlight, Carries, BridgeTyped
    <3>2. InFlight'
      BY <2>1, <2>4, <3>1 DEF InFlight, Carries, IsPage, CutFrom
    <3>3. SameId'
      BY <2>2, <2>3, <3>1 DEF SameId, IsPage, Fidelity
    <3>4. QED
      BY <3>2, <3>3
  <2>6. Received'
    <3>1. SUFFICES ASSUME mode = "receiving"
                   PROVE  Received'
      BY <2>4 DEF Received
    <3>2. Carries(got.id, got.ver) /\ (got.id = transferId => got.ver = snap)
      BY <2>1, <3>1 DEF Fidelity, Received, Orphaned, Carries
    <3>3. \A g \in ToSet(toS3') : IsPage(g) /\ g.id = got.id => g.ver = got.ver
      BY <2>2, <2>3, <3>1, <3>2 DEF Fidelity, Received
    <3>4. QED
      BY <2>1, <2>4, <3>1, <3>2, <3>3 DEF Fidelity, Received, Carries, IsPage
  <2>7. DownQuiet' /\ Completed'
    BY <2>1, <2>4 DEF DownQuiet, Completed, CompletedIsPublished, Fidelity
  <2>8. QED
    BY <2>5, <2>6, <2>7 DEF Fidelity
<1>7. QED
  BY <1>2, <1>3, <1>4, <1>5, <1>6 DEF BridgeStep

(* An acknowledgement is no request. *)
LEMMA SendAckIsNoRequest ==
  ASSUME LinkTyped, S3Typed', SendAck
  PROVE  NoNewRequest
<1>1. Ack(got'.id, Len(bytes')) \in FrameToBridge
  <2>1. got'.id \in 0..MaxId /\ Len(bytes') \in Nat
    BY DEF S3Typed
  <2>2. QED
    BY <2>1, SmallFramesTyped
<1>2. Ack(got'.id, Len(bytes')).type # "REQUEST"
  BY DEF Ack
<1>3. QED
  BY <1>1, <1>2, OfferedIsNoRequest DEF SendAck

(* Nothing reaches a Bridge that is down. *)
LEMMA OfferStaysDown ==
  ASSUME DownQuiet, UNCHANGED up, NEW f, toBridge' = OfferBridge(toBridge, f)
  PROVE  DownQuiet'
  BY DEF DownQuiet, OfferBridge

(* Whatever the S3 keeps of a frame extends a prefix of one publication. *)
LEMMA ReceiveFaithful ==
  ASSUME IInv, IInv', Fidelity, NEW i \in 1..Len(toS3),
         \/ ReceiveBegin(i) \/ ReceiveChunk(i) \/ ReceiveEnd(i)
         \/ ReceiveError(i) \/ ReceiveChanged(i) \/ ReceiveHello(i)
  PROVE  Fidelity'
<1> USE DEF IInv, Typed
<1> DEFINE f == toS3[i]
           page == pubs[f.ver]
<1>1. /\ TakeS3(i, f) /\ UNCHANGED <<up, cacheVars, sendVars>>
      /\ \/ UNCHANGED toBridge
         \/ SendAck
         \/ toBridge' = OfferBridge(toBridge, Hello)
  <2>1. CASE ReceiveBegin(i)
    BY <2>1 DEF ReceiveBegin
  <2>2. CASE ReceiveChunk(i)
    BY <2>2 DEF ReceiveChunk
  <2>3. CASE ReceiveEnd(i)
    BY <2>3 DEF ReceiveEnd
  <2>4. CASE ReceiveError(i)
    BY <2>4 DEF ReceiveError
  <2>5. CASE ReceiveChanged(i)
    BY <2>5 DEF ReceiveChanged
  <2>6. CASE ReceiveHello(i)
    BY <2>6 DEF ReceiveHello, TakeS3
  <2>7. QED
    BY <2>1, <2>2, <2>3, <2>4, <2>5, <2>6
<1>2. f \in ToSet(toS3) /\ ToSet(toS3') \subseteq ToSet(toS3)
  BY <1>1, TakeS3Typed
<1>3. Quiet
  BY <1>1, <1>2, PubsStay, SenderStays DEF Quiet, NoNewPage
<1>4. InFlight' /\ SameId'
  BY <1>3, FlightKept
<1>5. DownQuiet'
  <2>1. CASE UNCHANGED toBridge
    BY <1>1, <2>1 DEF DownQuiet, Fidelity
  <2>2. CASE SendAck \/ toBridge' = OfferBridge(toBridge, Hello)
    BY <1>1, <2>2, OfferStaysDown DEF SendAck, Fidelity
  <2>3. QED
    BY <1>1, <2>1, <2>2
<1>6. NoNewRequest
  <2>1. CASE UNCHANGED toBridge
    BY <2>1 DEF NoNewRequest
  <2>2. CASE SendAck
    BY <2>2, SendAckIsNoRequest
  <2>3. CASE toBridge' = OfferBridge(toBridge, Hello)
    BY <2>3, OfferedIsNoRequest, SmallFramesTyped DEF Hello
  <2>4. QED
    BY <1>1, <2>1, <2>2, <2>3
<1>7. phase' = phase /\ UNCHANGED <<pubs, transferId, snap>>
  BY <1>1 DEF sendVars, cacheVars
<1>8. ASSUME mode' = "receiving" => UNCHANGED <<mode, got, bytes>>,
             completed' => UNCHANGED <<completed, got, bytes>>
      PROVE  Fidelity'
  BY <1>3, <1>5, <1>6, <1>7, <1>8, QuietStep DEF ClientKept, Orphaned
<1>9. IsPage(f) => /\ f.ver \in 1..Len(pubs) /\ CutFrom(f, page) /\ Carries(f.id, f.ver)
                   /\ f.id \in 1..MaxId
  BY <1>2, PagesTyped DEF Fidelity, InFlight
<1> HIDE DEF f, page
<1>10. CASE ReceiveBegin(i)
  <2>1. f.type = "BEGIN"
    BY <1>10 DEF ReceiveBegin, f
  <2>2. CASE UNCHANGED recvVars
    BY <1>8, <2>2 DEF recvVars
  <2>3. CASE /\ mode = "waiting" /\ mode' = "receiving" /\ bytes' = <<>>
             /\ got' = [id |-> f.id, kind |-> f.kind, total |-> f.total, ctx |-> f.ctx,
                        ver |-> f.ver]
             /\ UNCHANGED completed
    <3>1. IsPage(f)
      BY <2>1 DEF IsPage
    <3>2. /\ got'.id = f.id /\ got'.ver = f.ver /\ got'.kind = page.kind
          /\ got'.total = Len(page.blob) /\ got'.ctx = page.ctx
      BY <1>9, <2>1, <2>3, <3>1 DEF CutFrom
    <3>3. Carries(got.id, got.ver)'
      BY <1>7, <1>9, <3>1, <3>2 DEF Carries
    <3>4. \A g \in ToSet(toS3') : IsPage(g) /\ g.id = got'.id => g.ver = got'.ver
      BY <1>2, <3>1, <3>2 DEF Fidelity, SameId
    <3>5. pubs'[got'.ver] = page /\ got'.ver \in 1..Len(pubs')
      BY <1>7, <1>9, <3>1, <3>2 DEF page
    <3>6. Len(bytes') = 0 /\ Len(page.blob) \in Nat
      BY <1>9, <2>3, <3>1, PublicationsTyped DEF page
    <3>7. Received'
      BY <2>3, <3>2, <3>3, <3>4, <3>5, <3>6 DEF Received, IsPage
    <3>8. Completed'
      BY <2>3 DEF Completed, Holding
    <3>9. QED
      BY <1>4, <1>5, <3>7, <3>8 DEF Fidelity
  <2>4. QED
    BY <1>10, <2>2, <2>3 DEF ReceiveBegin, f
<1>11. CASE ReceiveChunk(i)
  <2>1. f.type = "CHUNK"
    BY <1>11 DEF ReceiveChunk, f
  <2>2. CASE UNCHANGED recvVars
    BY <1>8, <2>2 DEF recvVars
  <2>3. CASE Fail
    BY <1>8, <2>3 DEF Fail
  <2>4. CASE /\ mode = "receiving" /\ f.id = got.id /\ f.off = Len(bytes)
             /\ bytes' = Append(bytes, f.data)
             /\ UNCHANGED <<mode, got, completed>>
    <3>1. IsPage(f)
      BY <2>1 DEF IsPage
    <3>2. f.ver = got.ver
      BY <1>2, <2>4, <3>1 DEF Fidelity, Received
    <3>3. Len(bytes) < Len(page.blob) /\ f.data = page.blob[Len(bytes) + 1]
      BY <1>9, <2>1, <2>4, <3>1 DEF CutFrom
    <3>4. /\ bytes \in Seq(Data) /\ page.blob \in Seq(Data)
      BY <1>9, <3>1, PublicationsTyped DEF S3Typed, page
    <3>5. /\ Len(bytes') = Len(bytes) + 1 /\ bytes'[Len(bytes) + 1] = f.data
          /\ \A j \in 1..Len(bytes) : bytes'[j] = bytes[j]
      BY <2>4, <3>4
    <3>6. Len(bytes') <= Len(page.blob) /\ \A j \in 1..Len(bytes') : bytes'[j] = page.blob[j]
      <4>1. /\ \A j \in 1..Len(bytes) : bytes[j] = page.blob[j]
        BY <2>4, <3>2 DEF Fidelity, Received, page
      <4>2. QED
        BY <3>3, <3>4, <3>5, <4>1
    <3>7. Carries(got.id, got.ver)'
      BY <1>2, <1>7, <1>9, <2>4, <3>1, <3>2 DEF Carries
    <3>8. \A g \in ToSet(toS3') : IsPage(g) /\ g.id = got'.id => g.ver = got'.ver
      BY <1>2, <2>4 DEF Fidelity, Received
    <3>9. /\ got'.ver \in 1..Len(pubs') /\ pubs'[got'.ver] = page
          /\ got'.kind = page.kind /\ got'.total = Len(page.blob) /\ got'.ctx = page.ctx
      BY <1>7, <2>4, <3>2 DEF Fidelity, Received, page
    <3>10. Received'
      BY <2>4, <3>6, <3>7, <3>8, <3>9 DEF Received, IsPage
    <3>11. Completed'
      BY <2>4 DEF Completed, Holding
    <3>12. QED
      BY <1>4, <1>5, <3>10, <3>11 DEF Fidelity
  <2>5. QED
    BY <1>11, <2>2, <2>3, <2>4 DEF ReceiveChunk, f
<1>12. CASE ReceiveEnd(i)
  <2>1. f.type = "END"
    BY <1>12 DEF ReceiveEnd, f
  <2>2. CASE UNCHANGED recvVars
    BY <1>8, <2>2 DEF recvVars
  <2>3. CASE Fail
    BY <1>8, <2>3 DEF Fail
  <2>4. CASE /\ mode = "receiving" /\ EndMatches(f) /\ mode' = "finished"
             /\ UNCHANGED <<got, bytes>>
    <3> DEFINE all == pubs[got.ver]
    <3>1. /\ got.ver \in 1..Len(pubs) /\ got.kind = all.kind /\ got.ctx = all.ctx
          /\ got.total = Len(all.blob) /\ \A j \in 1..Len(bytes) : bytes[j] = all.blob[j]
      BY <2>4 DEF Fidelity, Received
    <3>2. Len(bytes) = Len(all.blob)
      BY <2>4, <3>1 DEF EndMatches
    <3>3. bytes = all.blob
      <4>1. bytes \in Seq(Data) /\ all.blob \in Seq(Data)
        BY <3>1, PublicationsTyped DEF S3Typed
      <4>2. QED
        BY <3>1, <3>2, <4>1, SMTT(30)
    <3>4. Completed'
      BY <1>7, <2>4, <3>1, <3>3 DEF Completed, CompletedIsPublished
    <3>5. Received'
      BY <2>4 DEF Received
    <3>6. QED
      BY <1>4, <1>5, <3>4, <3>5 DEF Fidelity
  <2>5. QED
    BY <1>12, <2>2, <2>3, <2>4 DEF ReceiveEnd, f
<1>13. CASE ReceiveError(i)
  BY <1>8, <1>13 DEF ReceiveError, Fail
<1>14. CASE ReceiveChanged(i)
  BY <1>8, <1>14 DEF ReceiveChanged
<1>15. CASE ReceiveHello(i)
  BY <1>8, <1>15 DEF ReceiveHello, recvVars
<1>16. QED
  BY <1>10, <1>11, <1>12, <1>13, <1>14, <1>15

(* Timers, requests and completed pages do not touch partial pages. *)
LEMMA ClientStepFaithful ==
  ASSUME IInv, Fidelity,
         SendRequest \/ RequestDue \/ ClientTimeout \/ CooldownOver \/ TakeCompleted
  PROVE  Fidelity'
<1> USE DEF IInv, Typed
<1>1. ASSUME UNCHANGED <<toS3, up, cacheVars, sendVars>>, DownQuiet',
             \/ mode' # "receiving"
             \/ UNCHANGED <<toBridge, mode, got, bytes>>,
             completed' => UNCHANGED <<completed, got, bytes>>
      PROVE  Fidelity'
  <2>1. Quiet
    BY <1>1, PubsStay, SenderStays DEF Quiet, NoNewPage
  <2>2. ClientKept
    BY <1>1 DEF ClientKept, NoNewRequest, Orphaned, sendVars
  <2>3. QED
    BY <1>1, <2>1, <2>2, QuietStep
<1>2. UNCHANGED <<toBridge, up>> => DownQuiet'
  BY DEF DownQuiet, Fidelity
<1>3. CASE SendRequest
  <2>1. DownQuiet'
    BY <1>3, OfferStaysDown DEF SendRequest, Fidelity
  <2>2. QED
    BY <1>1, <1>3, <2>1 DEF SendRequest
<1>4. CASE RequestDue
  BY <1>1, <1>2, <1>4 DEF RequestDue, linkVars, recvVars
<1>5. CASE ClientTimeout
  BY <1>1, <1>2, <1>5 DEF ClientTimeout, Fail, linkVars
<1>6. CASE CooldownOver
  BY <1>1, <1>2, <1>6 DEF CooldownOver, linkVars
<1>7. CASE TakeCompleted
  <2>1. UNCHANGED <<toS3, toBridge, up, cacheVars, sendVars>>
    BY <1>7 DEF TakeCompleted, linkVars
  <2>2. completed' = FALSE /\ mode' # "receiving"
    BY <1>7 DEF TakeCompleted, Fail, Holding
  <2>3. QED
    BY <1>1, <1>2, <2>1, <2>2
<1>8. QED
  BY <1>3, <1>4, <1>5, <1>6, <1>7

(* A restart starts the ids over only when no old frame can be mistaken. *)
LEMMA EnvironmentFaithful ==
  ASSUME IInv, Fidelity, Environment
  PROVE  Fidelity'
<1> USE DEF IInv, Typed
<1>1. ASSUME UNCHANGED <<recvVars, cacheVars, sendVars>>, NoNewPage, NoNewRequest, DownQuiet'
      PROVE  Fidelity'
  BY <1>1, PubsStay, SenderStays, QuietStep DEF Quiet, ClientKept, Orphaned, sendVars, recvVars
<1>2. ASSUME ResetClient, UNCHANGED <<linkVars, up, cacheVars, sendVars>>
      PROVE  Fidelity'
  <2>1. mode' = "idle" /\ completed' = FALSE /\ UNCHANGED <<toS3, toBridge>>
    BY <1>2 DEF ResetClient, linkVars
  <2>2. ClientKept /\ NoNewPage /\ DownQuiet'
    BY <1>2, <2>1 DEF ClientKept, NoNewPage, DownQuiet, Fidelity
  <2>3. QED
    BY <1>2, <2>2, PubsStay, SenderStays, QuietStep DEF Quiet
<1>3. UNCHANGED linkVars => NoNewPage /\ NoNewRequest
  BY DEF linkVars, NoNewPage, NoNewRequest
<1>4. UNCHANGED <<linkVars, up>> => DownQuiet'
  BY DEF linkVars, DownQuiet, Fidelity
<1>5. CASE \E k \in Kinds, b \in Blobs, c \in 0..MaxSelections : Publish(k, b, c)
  <2>1. PICK k \in Kinds, b \in Blobs, c \in 0..MaxSelections : Publish(k, b, c)
    BY <1>5
  <2>2. /\ up /\ pubs' = Append(pubs, [kind |-> k, blob |-> b, ctx |-> c])
        /\ toS3' = Offer(toS3, Changed(k))
        /\ UNCHANGED <<toBridge, up, sendVars, recvVars>>
    BY <2>1 DEF Publish
  <2>3. PubsGrow
    <3>1. pubs \in Seq(Publication) /\ [kind |-> k, blob |-> b, ctx |-> c] \in Publication
      BY DEF BridgeTyped, Publication
    <3>2. QED
      BY <2>2, <3>1, AppendProperties DEF PubsGrow
  <2>4. NoNewPage
    <3>1. ~ IsPage(Changed(k)) /\ Changed(k) \in FrameToS3
      BY SmallFramesTyped DEF IsPage, Changed
    <3>2. QED
      BY <2>2, <3>1, OfferedIsNoPage
  <2>5. ClientKept /\ DownQuiet'
    BY <2>2 DEF ClientKept, NoNewRequest, Orphaned, DownQuiet, sendVars, recvVars
  <2>6. QED
    BY <2>2, <2>3, <2>4, <2>5, SenderStays, QuietStep DEF Quiet
<1>6. CASE SelectPlaylist
  BY <1>1, <1>3, <1>4, <1>6 DEF SelectPlaylist
<1>7. CASE BridgeAvailable
  BY <1>1, <1>3, <1>4, <1>7 DEF BridgeAvailable
<1>8. CASE BridgeUnavailable
  BY <1>2, <1>8 DEF BridgeUnavailable
<1>9. CASE LinkLost
  BY <1>2, <1>9 DEF LinkLost
<1>10. CASE LoseFrame
  <2>1. /\ ToSet(toS3') \subseteq ToSet(toS3)
        /\ ToSet(toBridge') \subseteq ToSet(toBridge)
    <3>1. CASE \E i \in 1..Len(toS3) : toS3' = RemoveAt(toS3, i) /\ UNCHANGED toBridge
      BY <3>1, RemoveAtSeq DEF LinkTyped
    <3>2. CASE \E i \in 1..Len(toBridge) : toBridge' = RemoveAt(toBridge, i) /\ UNCHANGED toS3
      BY <3>2, RemoveAtSeq DEF LinkTyped
    <3>3. QED
      BY <1>10, <3>1, <3>2 DEF LoseFrame
  <2>2. NoNewPage /\ NoNewRequest
    BY <2>1 DEF NoNewPage, NoNewRequest
  <2>3. DownQuiet'
    <3>1. up \/ toBridge = <<>>
      BY DEF DownQuiet, Fidelity
    <3>2. toBridge = <<>> => UNCHANGED toBridge
      BY <1>10 DEF LoseFrame
    <3>3. QED
      BY <1>10, <3>1, <3>2 DEF LoseFrame, DownQuiet
  <2>4. QED
    BY <1>1, <1>10, <2>2, <2>3 DEF LoseFrame
<1>11. CASE BridgeDown
  <2>1. /\ toBridge' = <<>> /\ phase' = "IDLE" /\ ToSet(toBridge') = {}
        /\ UNCHANGED <<toS3, transferId, pubs, recvVars>>
    BY <1>11 DEF BridgeDown, ToSet
  <2>2. Quiet
    BY <2>1 DEF Quiet, PubsGrow, SenderSteps, NoNewPage
  <2>3. ClientKept /\ DownQuiet'
    BY <2>1 DEF ClientKept, NoNewRequest, DownQuiet, recvVars
  <2>4. QED
    BY <2>2, <2>3, QuietStep
<1>12. CASE BridgeBoot
  <2>1. /\ toS3' = <<Hello>> /\ toBridge = <<>> /\ phase = "IDLE" /\ up'
        /\ UNCHANGED <<toBridge, phase, pubs, recvVars>>
    BY <1>12 DEF BridgeBoot, Fidelity, DownQuiet, Sending, cacheVars
  <2>2. \A f \in ToSet(toS3') : ~ IsPage(f)
    BY <2>1 DEF ToSet, IsPage, Hello
  <2>3. ToSet(toBridge') = {}
    BY <2>1 DEF ToSet
  <2>4. Orphaned'
    BY <2>1, <2>2, <2>3 DEF Orphaned, IsPage
  <2>5. InFlight' /\ SameId' /\ DownQuiet'
    BY <2>1, <2>2 DEF InFlight, SameId, DownQuiet, IsPage
  <2>6. UNCHANGED <<mode, got, bytes, completed>>
    BY <2>1 DEF recvVars
  <2>7. Received'
    BY <2>1, <2>2, <2>4, <2>6 DEF Received, Fidelity, IsPage
  <2>8. Completed'
    BY <2>1, <2>6 DEF Completed, CompletedIsPublished, Fidelity
  <2>9. QED
    BY <2>5, <2>7, <2>8 DEF Fidelity
<1>13. CASE S3Restart
  <2>1. /\ toS3' = <<>> /\ mode' = "idle" /\ completed' = FALSE
        /\ toBridge' = OfferBridge(toBridge, Hello) /\ ToSet(toS3') = {}
        /\ UNCHANGED <<up, cacheVars, sendVars>>
    BY <1>13 DEF S3Restart, ToSet
  <2>2. ClientKept /\ NoNewPage
    BY <2>1 DEF ClientKept, NoNewPage
  <2>3. DownQuiet'
    BY <2>1, OfferStaysDown DEF Fidelity
  <2>4. QED
    BY <2>1, <2>2, <2>3, PubsStay, SenderStays, QuietStep DEF Quiet
<1>14. QED
  BY <1>5, <1>6, <1>7, <1>8, <1>9, <1>10, <1>11, <1>12, <1>13 DEF Environment

(* Fidelity speaks of the variables only. *)
LEMMA StutterFaithful ==
  ASSUME IInv, Fidelity, SlotKept
  PROVE  Fidelity'
<1>1. UNCHANGED <<linkVars, up, cacheVars, sendVars, recvVars>>
  BY DEF SlotKept
<1>2. Quiet
  BY <1>1, PubsStay, SenderStays DEF Quiet, NoNewPage, linkVars
<1>3. ClientKept /\ DownQuiet'
  BY <1>1 DEF ClientKept, NoNewRequest, Orphaned, DownQuiet, Fidelity,
              linkVars, sendVars, recvVars
<1>4. QED
  BY <1>2, <1>3, QuietStep

(* As long as no transfer id comes round again within one boot of the       *)
(* Bridge, everything in flight and received is faithful.                   *)
LEMMA Faithful ==
  ASSUME MaxTransfers <= MaxId
  PROVE  Spec => []Fidelity
<1>1. Init => Fidelity
  BY DEF Init, Fidelity, InFlight, SameId, DownQuiet, Received, Completed, ToSet
<1>2. IInv /\ IInv' /\ Fidelity /\ [Next]_vars => Fidelity'
  BY BridgeStepFaithful, ReceiveFaithful, ClientStepFaithful, EnvironmentFaithful,
     StutterFaithful, SlotSteps
  DEF Next, S3Step
<1> QED
  BY <1>1, <1>2, Inductive, PTL DEF Spec

(* As long as no transfer id comes round again within one boot of the       *)
(* Bridge (65535 transfers), a completed page is the page the Bridge had    *)
(* cached when it accepted the request: its chunks, its kind, its context.  *)
(* Neither the CRC nor the timing of the two processors is relied upon.     *)
THEOREM Integrity ==
  ASSUME MaxTransfers <= MaxId
  PROVE  Spec => []CompletedIsPublished
<1>1. Fidelity => CompletedIsPublished
  BY DEF Fidelity, Completed, CompletedIsPublished
<1> QED
  BY <1>1, Faithful, PTL

------------------------------------------------------------------------------
(* What the picker shows *)

(* A list changes by a usable page, a selection or a restart only. *)
LEMMA ShelfSteps ==
  ASSUME [Next]_vars
  PROVE  \/ UNCHANGED <<shelf, gen>>
         \/ completed /\ Usable /\ InstallPage
         \/ SelectPlaylist
         \/ S3Restart
<1> USE DEF pickVars
<1>1. CASE BridgeStep
  BY <1>1 DEF BridgeStep, HandleRequest, HandleAck, BridgeHello, PollSend, StallTimeout
<1>2. CASE S3Step
  <2>1. CASE TakeCompleted
    BY <2>1 DEF TakeCompleted
  <2>2. CASE SendRequest \/ RequestDue \/ ClientTimeout \/ CooldownOver
    BY <2>2 DEF SendRequest, RequestDue, ClientTimeout, CooldownOver
  <2>3. CASE \E i \in 1..Len(toS3) :
               \/ ReceiveBegin(i) \/ ReceiveChunk(i) \/ ReceiveEnd(i)
               \/ ReceiveError(i) \/ ReceiveChanged(i) \/ ReceiveHello(i)
    BY <2>3 DEF ReceiveBegin, ReceiveChunk, ReceiveEnd, ReceiveError, ReceiveChanged,
                ReceiveHello
  <2>4. QED
    BY <1>2, <2>1, <2>2, <2>3 DEF S3Step
<1>3. CASE Environment
  BY <1>3 DEF Environment, Publish, BridgeAvailable, BridgeUnavailable, LinkLost,
              LoseFrame, BridgeDown, BridgeBoot
<1>4. CASE SlotKept
  BY <1>4 DEF SlotKept
<1>5. QED
  BY <1>1, <1>2, <1>3, <1>4, SlotSteps DEF Next

(* A page that is used cuts its list at its own place and is put there. *)
LEMMA PageInstalled ==
  ASSUME IInv, completed, Usable, InstallPage
  PROVE  LET k   == got.kind
             pos == PagePos[bytes]
         IN  /\ k \in Kinds /\ pos \in Nat /\ shelf[k] \in Seq(Row)
             /\ Len(shelf'[k]) = pos + 1 /\ pos <= Len(shelf[k])
             /\ \A i \in 1..pos : shelf'[k][i] = shelf[k][i]
             /\ shelf'[k][pos + 1] = [blob |-> bytes, ctx |-> got.ctx, ver |-> got.ver]
             /\ \A l \in Kinds \ {k} : shelf'[l] = shelf[l]
<1> DEFINE k   == got.kind
           pos == PagePos[bytes]
           row == [blob |-> bytes, ctx |-> got.ctx, ver |-> got.ver]
<1>1. k \in Kinds /\ bytes \in Blobs
  BY BlobsAssumption DEF IInv, Holding, Usable, Decodes, Blobs
<1>2. pos \in Nat /\ shelf[k] \in Seq(Row) /\ pos <= Len(shelf[k]) /\ row \in Row
  <2>1. pos \in Nat
    BY <1>1, BlobsNonEmpty
  <2>2. shelf[k] \in Seq(Row)
    BY <1>1 DEF IInv, Typed, PickerTyped
  <2>3. row \in Row
    BY <1>1 DEF IInv, Typed, S3Typed, Row
  <2>4. ~ (pos > Len(shelf[k]))
    BY DEF Usable, Gap
  <2>5. QED
    BY <2>1, <2>2, <2>3, <2>4
<1>3. /\ RowsBefore \in Seq(Row) /\ Len(RowsBefore) = pos
      /\ \A i \in 1..pos : RowsBefore[i] = shelf[k][i]
  BY <1>2 DEF RowsBefore
<1>4. /\ shelf'[k] = Append(RowsBefore, row)
      /\ \A l \in Kinds \ {k} : shelf'[l] = shelf[l]
  BY <1>1 DEF InstallPage, IInv, Typed, PickerTyped
<1>5. /\ Len(shelf'[k]) = pos + 1 /\ shelf'[k][pos + 1] = row
      /\ \A i \in 1..pos : shelf'[k][i] = shelf[k][i]
  BY <1>2, <1>3, <1>4
<1>6. QED
  BY <1>1, <1>2, <1>4, <1>5

(* An emptied list has no rows. *)
LEMMA ListsEmptied ==
  ASSUME IInv
  PROVE  /\ SelectPlaylist => /\ shelf'[PLAYLIST_TRACKS] = <<>>
                              /\ \A k \in Kinds \ {PLAYLIST_TRACKS} : shelf'[k] = shelf[k]
         /\ S3Restart => \A k \in Kinds : shelf'[k] = <<>>
  BY DEF SelectPlaylist, S3Restart, IInv, Typed, PickerTyped

(* Every row of the track list bears the generation of the present selection. *)
TracksOfGeneration ==
  PLAYLIST_TRACKS \in Kinds =>
    \A row \in ToSet(shelf[PLAYLIST_TRACKS]) : row.ctx = gen

(* A row of the track list that was published for a selection made since the *)
(* S3 started belongs to the playlist opened last, with any number of        *)
(* selections, losses and pages in flight.  Nothing is said of a page that   *)
(* was published for an earlier life of the S3 and bears the same number.    *)
THEOREM Selection == Spec => []TracksOfSelection
<1> DEFINE T == PLAYLIST_TRACKS
<1>1. Init => TracksOfGeneration
  BY DEF Init, TracksOfGeneration, ToSet
<1>2. ASSUME IInv, TracksOfGeneration, [Next]_vars
      PROVE  TracksOfGeneration'
  <2>1. SUFFICES ASSUME T \in Kinds, NEW i \in 1..Len(shelf'[T])
                 PROVE  shelf'[T][i].ctx = gen'
    BY DEF TracksOfGeneration, ToSet
  <2>2. \A j \in 1..Len(shelf[T]) : shelf[T][j].ctx = gen
    BY <1>2, <2>1 DEF TracksOfGeneration, ToSet
  <2>3. CASE UNCHANGED <<shelf, gen>>
    BY <2>1, <2>2, <2>3
  <2>4. CASE completed /\ Usable /\ InstallPage
    <3>1. gen' = gen
      BY <2>4 DEF InstallPage
    <3>2. CASE got.kind # T
      BY <1>2, <2>1, <2>2, <2>4, <3>1, <3>2, PageInstalled
    <3>3. CASE got.kind = T
      <4>1. got.ctx = gen
        BY <2>4, <3>3 DEF Usable, StaleTracks
      <4>2. i \in 1..PagePos[bytes] \/ i = PagePos[bytes] + 1
        BY <1>2, <2>1, <2>4, <3>3, PageInstalled
      <4>3. CASE i \in 1..PagePos[bytes]
        BY <1>2, <2>2, <2>4, <3>1, <3>3, <4>3, PageInstalled
      <4>4. CASE i = PagePos[bytes] + 1
        BY <1>2, <2>4, <3>1, <3>3, <4>1, <4>4, PageInstalled
      <4>5. QED
        BY <4>2, <4>3, <4>4
    <3>4. QED
      BY <3>2, <3>3
  <2>5. CASE SelectPlaylist \/ S3Restart
    BY <1>2, <2>1, <2>5, ListsEmptied
  <2>6. QED
    BY <1>2, <2>3, <2>4, <2>5, ShelfSteps
<1>3. TracksOfGeneration => TracksOfSelection
  BY DEF TracksOfGeneration, TracksOfSelection
<1>4. QED
  BY <1>1, <1>2, <1>3, Inductive, PTL DEF Spec

(* No list of the picker ever has a hole or shows a page twice, in whatever *)
(* order pages of the paged catalogue arrive.                               *)
THEOREM Assembly == Spec => []ShelfAssembled
<1>1. Init => ShelfAssembled
  BY DEF Init, ShelfAssembled
<1>2. ASSUME IInv, ShelfAssembled, [Next]_vars
      PROVE  ShelfAssembled'
  <2>1. SUFFICES ASSUME NEW k \in Kinds, NEW i \in 1..Len(shelf'[k])
                 PROVE  PagePos[shelf'[k][i].blob] = i - 1
    BY DEF ShelfAssembled
  <2>2. \A j \in 1..Len(shelf[k]) : PagePos[shelf[k][j].blob] = j - 1
    BY <1>2, <2>1 DEF ShelfAssembled
  <2>3. CASE UNCHANGED <<shelf, gen>>
    BY <2>1, <2>2, <2>3
  <2>4. CASE completed /\ Usable /\ InstallPage
    <3>1. CASE got.kind # k
      BY <1>2, <2>1, <2>2, <2>4, <3>1, PageInstalled
    <3>2. CASE got.kind = k
      <4>1. i \in 1..PagePos[bytes] \/ i = PagePos[bytes] + 1
        BY <1>2, <2>1, <2>4, <3>2, PageInstalled
      <4>2. CASE i \in 1..PagePos[bytes]
        <5>1. i \in 1..Len(shelf[k]) /\ shelf'[k][i] = shelf[k][i]
          BY <1>2, <2>4, <3>2, <4>2, PageInstalled
        <5>2. QED
          BY <2>2, <5>1
      <4>3. CASE i = PagePos[bytes] + 1
        BY <1>2, <2>4, <3>2, <4>3, PageInstalled
      <4>4. QED
        BY <4>1, <4>2, <4>3
    <3>3. QED
      BY <3>1, <3>2
  <2>5. CASE SelectPlaylist \/ S3Restart
    BY <1>2, <2>1, <2>2, <2>5, ListsEmptied
  <2>6. QED
    BY <1>2, <2>3, <2>4, <2>5, ShelfSteps
<1>3. QED
  BY <1>1, <1>2, Inductive, PTL DEF Spec

------------------------------------------------------------------------------
(* Stop and wait *)

(* A frame of the open transfer, and a client that is receiving it.         *)
Current(f) == IsPage(f) /\ f.id = transferId
Listening == mode = "receiving" /\ got.id = transferId
AckOf(a) == a.type = "ACK" /\ a.id = transferId

(* The frames of the open transfer are of the phase of the server or of one *)
(* before it, and its BEGINs stand ahead of everything else.                *)
FramesInPhase ==
  \A f \in ToSet(toS3) : Current(f) =>
    /\ f.type = "BEGIN" => phase = "BEGIN" \/ (phase = "CHUNK" /\ offset = 0)
    /\ f.type = "CHUNK" => phase = "END" \/ (phase = "CHUNK" /\ f.off <= offset)
    /\ f.type = "END" => phase = "END"
BeginsFirst ==
  \A i, j \in 1..Len(toS3) :
    i < j /\ Current(toS3[i]) /\ Current(toS3[j]) /\ toS3[j].type = "BEGIN"
      => toS3[i].type = "BEGIN"

(* As long as a BEGIN can still make the client start over, nothing but     *)
(* offset 0 was acknowledged: a late BEGIN never overtakes a chunk.         *)
BeginPossible ==
  phase = "BEGIN" \/ \E f \in ToSet(toS3) : Current(f) /\ f.type = "BEGIN"
NothingBefore ==
  BeginPossible => /\ \A a \in ToSet(toBridge) : AckOf(a) => a.off = 0
                   /\ Listening => bytes = <<>>

(* The client has what it acknowledged.                                     *)
AcksBehind == Listening => \A a \in ToSet(toBridge) : AckOf(a) => a.off <= Len(bytes)

InStep == FramesInPhase /\ BeginsFirst /\ NothingBefore /\ AcksBehind /\ LockStep

(* Neither an acknowledgement nor the client names a transfer to come.      *)
AckIds == \A a \in ToSet(toBridge) : a.type = "ACK" => a.id <= transferId
Known == mode \in {"receiving", "finished"} => got.id <= transferId \/ Orphaned

Pacing == AckIds /\ Known /\ (phase # "IDLE" => InStep)

(* What most steps leave alone.                                             *)
NoNewAck == \A a \in ToSet(toBridge') : a.type = "ACK" => a \in ToSet(toBridge)
ClientRests ==
  /\ mode' = "receiving" => UNCHANGED <<mode, got, bytes>>
  /\ mode' = "finished" => UNCHANGED <<mode, got>>
  /\ mode' \in {"receiving", "finished"} => NoNewRequest
ServerRests ==
  UNCHANGED <<phase, transferId, offset>> /\ (phase # "IDLE" => ActiveSize' = ActiveSize)
NoPageSent ==
  \/ toS3' = toS3 \/ toS3' = <<>>
  \/ \E i \in 1..Len(toS3) : toS3' = RemoveAt(toS3, i)
  \/ \E f \in FrameToS3 : ~ IsPage(f) /\ toS3' = Offer(toS3, f)

(* Without a new page frame the frames in flight are old ones.              *)
LEMMA NoPageSentIsNone ==
  ASSUME LinkTyped, NoPageSent
  PROVE  NoNewPage
<1>1. toS3 \in Seq(FrameToS3)
  BY DEF LinkTyped
<1>2. CASE \E f \in FrameToS3 : ~ IsPage(f) /\ toS3' = Offer(toS3, f)
  BY <1>2, OfferedIsNoPage
<1>3. CASE \/ toS3' = toS3 \/ toS3' = <<>>
           \/ \E i \in 1..Len(toS3) : toS3' = RemoveAt(toS3, i)
  BY <1>1, <1>3, ThinnedBy, Zenon DEF NoNewPage
<1> QED
  BY <1>2, <1>3 DEF NoPageSent

(* An acknowledgement in flight has an id and an offset.                    *)
LEMMA AcksTyped ==
  ASSUME LinkTyped, NEW a \in ToSet(toBridge), a.type = "ACK"
  PROVE  a.id \in Nat /\ a.off \in Nat
<1>1. a \in FrameToBridge
  BY DEF LinkTyped, ToSet
<1> QED
  BY <1>1, FramesTyped, BoundsAssumption

(* A chunk in flight has an offset.                                         *)
LEMMA ChunksTyped ==
  ASSUME LinkTyped, NEW f \in ToSet(toS3), f.type = "CHUNK"
  PROVE  f.off \in Nat
<1>1. f \in FrameToS3
  BY DEF LinkTyped, ToSet
<1> QED
  BY <1>1, FramesTyped DEF ChunkFrame

(* The BEGINs stay ahead unless one is sent behind something else.          *)
LEMMA BeginsFirstKept ==
  ASSUME LinkTyped, BeginsFirst, transferId' = transferId,
         \/ toS3' = toS3 \/ toS3' = <<>>
         \/ \E i \in 1..Len(toS3) : toS3' = RemoveAt(toS3, i)
         \/ \E f \in FrameToS3 :
              /\ toS3' = Offer(toS3, f)
              /\ Current(f) /\ f.type = "BEGIN" =>
                   \A g \in ToSet(toS3) : Current(g) => g.type = "BEGIN"
  PROVE  BeginsFirst'
<1>0. toS3 \in Seq(FrameToS3)
  BY DEF LinkTyped
<1>1. CASE \/ toS3' = toS3 \/ toS3' = <<>>
           \/ \E i \in 1..Len(toS3) : toS3' = RemoveAt(toS3, i)
  <2>1. Thinned(toS3', toS3)
    BY <1>0, <1>1, ThinnedBy, Zenon
  <2>2. ASSUME NEW i \in 1..Len(toS3'), NEW j \in 1..Len(toS3'), i < j,
               Current(toS3'[i]), Current(toS3'[j]), toS3'[j].type = "BEGIN"
        PROVE  toS3'[i].type = "BEGIN"
    <3>1. PICK n, m \in 1..Len(toS3) :
            toS3'[j] = toS3[m] /\ toS3'[i] = toS3[n] /\ (i < j <=> n < m)
      BY <2>1 DEF Thinned
    <3> QED
      BY <2>2, <3>1 DEF BeginsFirst
  <2> QED
    BY <2>2 DEF BeginsFirst, Current, IsPage
<1>2. ASSUME NEW f \in FrameToS3, toS3' = Append(toS3, f),
             Current(f) /\ f.type = "BEGIN" =>
               \A g \in ToSet(toS3) : Current(g) => g.type = "BEGIN"
      PROVE  BeginsFirst'
  <2>1. /\ Len(toS3') = Len(toS3) + 1 /\ toS3'[Len(toS3) + 1] = f /\ Len(toS3) \in Nat
        /\ \A i \in 1..Len(toS3) : toS3'[i] = toS3[i] /\ toS3[i] \in ToSet(toS3)
    BY <1>0, <1>2, Appended DEF ToSet
  <2>2. ASSUME NEW i \in 1..Len(toS3'), NEW j \in 1..Len(toS3'), i < j,
               Current(toS3'[i]), Current(toS3'[j]), toS3'[j].type = "BEGIN"
        PROVE  toS3'[i].type = "BEGIN"
    <3>1. i \in 1..Len(toS3) /\ (j \in 1..Len(toS3) \/ j = Len(toS3) + 1)
      BY <2>1, <2>2
    <3>2. CASE j \in 1..Len(toS3)
      BY <2>1, <2>2, <3>1, <3>2 DEF BeginsFirst
    <3>3. CASE j = Len(toS3) + 1
      BY <1>2, <2>1, <2>2, <3>1, <3>3
    <3> QED
      BY <3>1, <3>2, <3>3
  <2> QED
    BY <2>2, <1>2 DEF BeginsFirst, Current, IsPage
<1>3. toS3' = toS3 => BeginsFirst'
  BY <1>1
<1> QED
  BY <1>1, <1>2, <1>3 DEF Offer

(* Who stays known, and which ids stay past.                                *)
LEMMA IdsKept ==
  ASSUME IInv, Pacing, NoNewAck, ClientRests, NoNewPage,
         transferId' \in Nat, transferId <= transferId',
         mode' \in {"receiving", "finished"} /\ Orphaned => phase' = "IDLE"
  PROVE  AckIds' /\ Known'
<1> USE DEF IInv, Typed
<1>0. transferId \in Nat /\ got.id \in Nat
  BY BoundsAssumption DEF BridgeTyped, S3Typed
<1>1. ASSUME NEW a \in ToSet(toBridge'), a.type = "ACK"
      PROVE  a.id <= transferId'
  <2>1. a \in ToSet(toBridge) /\ a.id <= transferId /\ a.id \in Nat
    BY <1>1, AcksTyped DEF Pacing, AckIds, NoNewAck
  <2> QED
    BY <1>0, <2>1
<1>2. AckIds'
  BY <1>1 DEF AckIds
<1>3. ASSUME mode' \in {"receiving", "finished"}
      PROVE  got'.id <= transferId' \/ Orphaned'
  <2>1. mode = mode' /\ got' = got /\ NoNewRequest
    BY <1>3 DEF ClientRests
  <2>2. CASE got.id <= transferId
    BY <1>0, <2>1, <2>2
  <2>3. CASE Orphaned
    BY <1>3, <2>1, <2>3 DEF Orphaned, NoNewPage, NoNewRequest, IsPage
  <2> QED
    BY <1>3, <2>1, <2>2, <2>3 DEF Pacing, Known
<1> QED
  BY <1>2, <1>3 DEF Known

(* A step that sends no page frame, acknowledges nothing and leaves both    *)
(* ends of the transfer alone, or ends it at the server, keeps the pace.    *)
LEMMA RestsKeepPace ==
  ASSUME IInv, Pacing, NoPageSent, NoNewAck, ClientRests,
         ServerRests \/ (phase' = "IDLE" /\ transferId' = transferId)
  PROVE  Pacing'
<1> USE DEF IInv, Typed
<1>1. NoNewPage /\ transferId' = transferId /\ transferId \in Nat
  BY NoPageSentIsNone, BoundsAssumption DEF ServerRests, BridgeTyped
<1>2. AckIds' /\ Known'
  <2>1. Orphaned => phase' = "IDLE"
    BY DEF Orphaned, ServerRests
  <2> QED
    BY <1>1, <2>1, IdsKept
<1>3. ASSUME phase' # "IDLE"
      PROVE  InStep'
  <2>1. /\ UNCHANGED <<phase, transferId, offset>> /\ ActiveSize' = ActiveSize
        /\ InStep /\ phase # "IDLE"
    BY <1>3 DEF ServerRests, Pacing
  <2>2. FramesInPhase'
    BY <1>1, <2>1 DEF InStep, FramesInPhase, NoNewPage, Current, IsPage
  <2>3. BeginsFirst'
    <3>1. ASSUME NEW f \in FrameToS3, ~ IsPage(f)
          PROVE  ~ Current(f)
      BY <3>1 DEF Current
    <3> QED
      BY <2>1, <3>1, BeginsFirstKept DEF InStep, NoPageSent
  <2>4. Listening' => Listening /\ bytes' = bytes
    BY <1>1 DEF Listening, ClientRests
  <2>5. NothingBefore'
    <3>1. BeginPossible' => BeginPossible
      BY <1>1, <2>1 DEF BeginPossible, NoNewPage, Current, IsPage
    <3> QED
      BY <1>1, <2>1, <2>4, <3>1 DEF InStep, NothingBefore, NoNewAck, AckOf
  <2>6. AcksBehind'
    BY <1>1, <2>1, <2>4 DEF InStep, AcksBehind, NoNewAck, AckOf
  <2>7. LockStep'
    <3>1. CASE mode' = "receiving"
      BY <2>1, <3>1 DEF InStep, LockStep, ClientRests
    <3>2. CASE mode' = "finished"
      BY <2>1, <3>2 DEF InStep, LockStep, ClientRests
    <3> QED
      BY <3>1, <3>2 DEF LockStep
  <2> QED
    BY <2>2, <2>3, <2>5, <2>6, <2>7 DEF InStep
<1> QED
  BY <1>2, <1>3 DEF Pacing

(* The server sends the frame of its phase.                                 *)
LEMMA SentFrame ==
  ASSUME IInv, PollSend
  PROVE  \E f \in FrameToS3 :
           /\ toS3' = Offer(toS3, f) /\ Current(f)
           /\ f.type = phase /\ (f.type = "CHUNK" => f.off = offset)
           /\ f.type = "BEGIN" => f.kind = pubs[snap].kind /\ f.ver = snap
<1> USE DEF IInv, Typed
<1>1. /\ phase \in {"BEGIN", "CHUNK", "END"} /\ snap \in 1..Len(pubs) /\ transferId \in 1..MaxId
      /\ phase = "CHUNK" => offset < Len(pubs[snap].blob)
  BY DEF PollSend, Sending, BridgeTyped
<1>2. /\ pubs[snap].kind \in Kinds /\ pubs[snap].ctx \in 0..MaxSelections
      /\ pubs[snap].blob \in Blobs /\ pubs[snap].blob \in Seq(Data)
  BY <1>1, PublicationsTyped
<1>3. CASE phase = "BEGIN"
  <2> DEFINE f == Begin(transferId, ActivePage.kind, ActiveSize, ActivePage.ctx, snap)
  <2>1. f \in FrameToS3
    BY <1>1, <1>2 DEF Begin, BeginFrame, FrameToS3, ActivePage, ActiveSize
  <2>2. Current(f) /\ f.type = "BEGIN" /\ f.kind = pubs[snap].kind /\ f.ver = snap
    BY DEF Begin, Current, IsPage, ActivePage
  <2>3. toS3' = Offer(toS3, f)
    BY <1>3 DEF PollSend
  <2> QED
    BY <1>3, <2>1, <2>2, <2>3
<1>4. CASE phase = "CHUNK"
  <2> DEFINE f == Chunk(transferId, offset, ActivePage.blob[offset + 1], snap)
  <2>1. f \in FrameToS3
    BY <1>1, <1>2, <1>4 DEF Chunk, ChunkFrame, FrameToS3, ActivePage, BridgeTyped
  <2>2. Current(f) /\ f.type = "CHUNK" /\ f.off = offset
    BY DEF Chunk, Current, IsPage
  <2>3. toS3' = Offer(toS3, f)
    BY <1>4 DEF PollSend
  <2> QED
    BY <1>4, <2>1, <2>2, <2>3
<1>5. CASE phase = "END"
  <2> DEFINE f == End(transferId, ActiveSize, Crc(ActivePage.blob), snap)
  <2>1. f \in FrameToS3
    BY <1>1, <1>2 DEF End, EndFrame, FrameToS3, ActivePage, ActiveSize
  <2>2. Current(f) /\ f.type = "END"
    BY DEF End, Current, IsPage
  <2>3. toS3' = Offer(toS3, f)
    BY <1>5 DEF PollSend
  <2> QED
    BY <1>5, <2>1, <2>2, <2>3
<1> QED
  BY <1>1, <1>3, <1>4, <1>5

(* A frame of the phase of the server, first or repeated, keeps the pace.   *)
LEMMA SendKeepsPace ==
  ASSUME IInv, Pacing, PollSend
  PROVE  Pacing'
<1> USE DEF IInv, Typed
<1>1. PICK f \in FrameToS3 :
        /\ toS3' = Offer(toS3, f) /\ Current(f)
        /\ f.type = phase /\ (f.type = "CHUNK" => f.off = offset)
  BY SentFrame
<1>2. /\ phase # "IDLE" /\ UNCHANGED <<toBridge, phase, transferId, offset>>
      /\ UNCHANGED <<mode, got, bytes>> /\ ActiveSize' = ActiveSize /\ InStep
  BY DEF PollSend, recvVars, cacheVars, ActiveSize, ActivePage, Pacing
<1>3. ToSet(toS3') \subseteq ToSet(toS3) \cup {f} /\ offset \in Nat
  BY <1>1, OfferS3Typed DEF BridgeTyped
<1>4. AckIds' /\ Known'
  BY <1>2 DEF Pacing, AckIds, Known, Orphaned
<1>5. FramesInPhase'
  BY <1>1, <1>2, <1>3 DEF InStep, FramesInPhase, Current, IsPage
<1>6. BeginsFirst'
  <2>1. ASSUME f.type = "BEGIN", NEW g \in ToSet(toS3), Current(g)
        PROVE  g.type = "BEGIN"
    BY <1>1, <1>2, <2>1 DEF InStep, FramesInPhase, Current, IsPage
  <2> QED
    BY <1>1, <1>2, <2>1, BeginsFirstKept DEF InStep
<1>7. NothingBefore'
  <2>1. BeginPossible' => BeginPossible
    BY <1>1, <1>2, <1>3 DEF BeginPossible, Current, IsPage
  <2> QED
    BY <1>2, <2>1 DEF InStep, NothingBefore, AckOf, Listening
<1>8. AcksBehind' /\ LockStep'
  BY <1>2 DEF InStep, AcksBehind, LockStep, AckOf, Listening
<1> QED
  BY <1>4, <1>5, <1>6, <1>7, <1>8 DEF Pacing, InStep

(* The acknowledgement the server waits for takes both ends one step on.    *)
LEMMA AckKeepsPace ==
  ASSUME IInv, Pacing, NEW i \in 1..Len(toBridge), NEW a, a.type = "ACK",
         TakeBridge(i, a), AckMatches(a), AdvanceOnAck(a),
         UNCHANGED <<toS3, up, cacheVars, recvVars>>
  PROVE  Pacing'
<1> USE DEF IInv, Typed
<1>1. /\ phase # "IDLE" /\ a.id = transferId /\ a.off = ExpectedAck
      /\ transferId' = transferId /\ InStep /\ UNCHANGED <<mode, got, bytes, pubs>>
  BY DEF AckMatches, AdvanceOnAck, Pacing, recvVars, cacheVars
<1>2. a \in ToSet(toBridge) /\ ToSet(toBridge') \subseteq ToSet(toBridge)
  BY TakeBridgeTyped
<1>3. /\ phase \in Phases /\ offset \in Nat /\ (phase = "BEGIN" => offset = 0)
      /\ phase = "CHUNK" => offset < ActiveSize
      /\ ActiveSize \in Nat \ {0} /\ Len(bytes) \in Nat /\ bytes \in Seq(Data)
  <2>1. snap \in 1..Len(pubs) /\ (phase = "CHUNK" => offset < ActiveSize)
    BY <1>1 DEF Sending, ActiveSize, ActivePage
  <2>2. ActiveSize \in Nat \ {0}
    BY <2>1, PublicationsTyped DEF ActiveSize, ActivePage
  <2>3. phase \in Phases /\ offset \in Nat /\ (phase = "BEGIN" => offset = 0)
    BY <1>1 DEF Phases, Sending, BridgeTyped
  <2>4. bytes \in Seq(Data) /\ Len(bytes) \in Nat
    BY DEF S3Typed
  <2> QED
    BY <2>1, <2>2, <2>3, <2>4
<1>4. AckIds' /\ Known'
  <2>1. Orphaned => FALSE
    BY <1>1 DEF Orphaned
  <2> QED
    BY <1>1, <1>2, <2>1 DEF Pacing, AckIds, Known
<1>5. ASSUME NEW o \in ToSet(toBridge'), AckOf(o)
      PROVE  o \in ToSet(toBridge) /\ o.off \in Nat
  BY <1>2, <1>5, AcksTyped DEF AckOf
<1>6. Listening' <=> Listening
  BY <1>1 DEF Listening
<1>7. AcksBehind'
  BY <1>1, <1>2, <1>6 DEF InStep, AcksBehind, AckOf
<1>8. BeginsFirst'
  BY <1>1, BeginsFirstKept DEF InStep
<1>9. ASSUME FramesInPhase', LockStep', BeginPossible' => BeginPossible
      PROVE  Pacing'
  <2>1. NothingBefore'
    BY <1>1, <1>2, <1>6, <1>9 DEF InStep, NothingBefore, AckOf
  <2> QED
    BY <1>4, <1>7, <1>8, <1>9, <2>1 DEF Pacing, InStep
<1>10. CASE phase = "BEGIN"
  <2>1. phase' = "CHUNK" /\ offset' = 0
    BY <1>3, <1>10 DEF AdvanceOnAck
  <2>2. FramesInPhase'
    BY <1>1, <1>10, <2>1 DEF InStep, FramesInPhase, Current, IsPage
  <2>3. LockStep'
    BY <1>1, <1>3, <1>10, <2>1 DEF InStep, LockStep
  <2>4. BeginPossible' => BeginPossible
    BY <1>10 DEF BeginPossible
  <2> QED
    BY <1>9, <2>2, <2>3, <2>4
<1>11. CASE phase = "CHUNK"
  <2>1. /\ a.off = offset + 1 /\ offset' = offset + 1 /\ snap' = snap
        /\ phase' = IF offset + 1 >= ActiveSize THEN "END" ELSE "CHUNK"
    BY <1>1, <1>11 DEF ExpectedAck, AdvanceOnAck, AllSent
  <2>2. ~ BeginPossible
    BY <1>1, <1>2, <1>3, <2>1 DEF InStep, NothingBefore, AckOf
  <2>3. FramesInPhase'
    <3>1. ASSUME NEW f \in ToSet(toS3), Current(f)
          PROVE  f.type = "CHUNK" /\ f.off <= offset /\ f.off \in Nat
      BY <1>1, <1>11, <2>2, <3>1, ChunksTyped
         DEF InStep, FramesInPhase, BeginPossible, Current, IsPage
    <3> QED
      BY <1>1, <1>3, <2>1, <3>1 DEF FramesInPhase, Current, IsPage
  <2>4. ActiveSize' = ActiveSize
    BY <1>1, <2>1 DEF ActiveSize, ActivePage
  <2>5. LockStep'
    <3>1. mode = "receiving" /\ got.id = transferId => Len(bytes) = offset + 1
      <4>1. mode = "receiving" /\ got.id = transferId => Len(bytes) - offset \in {0, 1}
        BY <1>1, <1>11 DEF InStep, LockStep
      <4>2. mode = "receiving" /\ got.id = transferId => offset + 1 <= Len(bytes)
        BY <1>1, <1>2, <2>1 DEF InStep, AcksBehind, Listening, AckOf
      <4> QED
        BY <1>3, <4>1, <4>2
    <3>2. mode = "finished" => got.id # transferId
      BY <1>1, <1>11 DEF InStep, LockStep
    <3> QED
      BY <1>1, <1>3, <1>11, <2>1, <2>4, <3>1, <3>2 DEF LockStep
  <2>6. ~ BeginPossible'
    BY <1>1, <2>1, <2>2 DEF BeginPossible, Current, IsPage
  <2> QED
    BY <1>9, <2>3, <2>5, <2>6
<1>12. CASE phase = "END"
  <2>1. phase' = "IDLE"
    BY <1>12 DEF AdvanceOnAck
  <2> QED
    BY <1>4, <2>1 DEF Pacing
<1> QED
  BY <1>1, <1>3, <1>10, <1>11, <1>12 DEF Phases

(* Nothing in flight and no client knows the id of a transfer that starts.  *)
LEMMA StartKeepsPace ==
  ASSUME IInv, Fidelity, Pacing, MaxTransfers <= MaxId,
         NEW i \in 1..Len(toBridge), NEW f, f.type = "REQUEST", TakeBridge(i, f),
         StartTransfer(f.kind), UNCHANGED <<toS3, recvVars>>
  PROVE  Pacing'
<1> USE DEF IInv, Typed
<1>1. /\ transferId' = transferId + 1 /\ transferId \in Nat /\ phase' = "BEGIN" /\ offset' = 0
      /\ UNCHANGED <<mode, got, bytes>> /\ got.id \in Nat
  <2>1. transferId < MaxTransfers /\ transferId' = NextId(transferId) /\ phase' = "BEGIN" /\ offset' = 0
    BY DEF StartTransfer
  <2>2. transferId \in Nat /\ MaxTransfers \in Nat /\ MaxId \in Nat
    BY BoundsAssumption DEF BridgeTyped
  <2>3. transferId' = transferId + 1
    BY <2>1, <2>2 DEF NextId
  <2> QED
    BY <2>1, <2>2, <2>3, BoundsAssumption DEF recvVars, S3Typed
<1>2. f \in ToSet(toBridge) /\ ToSet(toBridge') \subseteq ToSet(toBridge)
  BY TakeBridgeTyped
<1>3. ASSUME NEW g \in ToSet(toS3), IsPage(g)
      PROVE  g.id # transferId'
  <2>1. g.id <= transferId /\ g.id \in Nat
    BY <1>3, PagesTyped DEF Fidelity, InFlight, Carries
  <2> QED
    BY <1>1, <2>1
<1>4. ASSUME NEW a \in ToSet(toBridge'), a.type = "ACK"
      PROVE  a.id <= transferId /\ a.id \in Nat
  BY <1>2, <1>4, AcksTyped DEF Pacing, AckIds
<1>5. mode \in {"receiving", "finished"} => got.id <= transferId
  BY <1>2 DEF Pacing, Known, Orphaned
<1>6. AckIds' /\ Known'
  BY <1>1, <1>4, <1>5 DEF AckIds, Known
<1>7. ~ Listening' /\ (mode' = "finished" => got'.id # transferId')
  BY <1>1, <1>5 DEF Listening
<1>8. \A g \in ToSet(toS3') : ~ Current(g)'
  BY <1>3 DEF Current, IsPage
<1>9. FramesInPhase'
  BY <1>8 DEF FramesInPhase
<1>10. BeginsFirst'
  <2>1. \A k \in 1..Len(toS3') : toS3'[k] \in ToSet(toS3')
    BY DEF LinkTyped, ToSet
  <2> QED
    BY <1>8, <2>1 DEF BeginsFirst
<1>11. NothingBefore' /\ AcksBehind'
  <2>1. \A a \in ToSet(toBridge') : ~ AckOf(a)'
    BY <1>1, <1>4 DEF AckOf
  <2> QED
    BY <1>7, <2>1 DEF NothingBefore, AcksBehind
<1>12. LockStep'
  BY <1>1, <1>7 DEF LockStep, Listening
<1> QED
  BY <1>6, <1>9, <1>10, <1>11, <1>12 DEF Pacing, InStep

(* A page frame is taken only as the oldest frame; the others stood behind. *)
LEMMA TakenFirst ==
  ASSUME LinkTyped, NEW i \in 1..Len(toS3), NEW f, TakeS3(i, f), IsPage(f)
  PROVE  /\ 1 \in 1..Len(toS3) /\ f = toS3[1] /\ toS3' = RemoveAt(toS3, 1)
         /\ \A g \in ToSet(toS3') : \E j \in 1..Len(toS3) : g = toS3[j] /\ 1 < j
<1>1. i = 1
  BY DEF TakeS3, Poppable, IsControl, IsPage
<1>2. 1 \in 1..Len(toS3) /\ f = toS3[1] /\ toS3' = RemoveAt(toS3, 1) /\ toS3 \in Seq(FrameToS3)
  BY <1>1 DEF TakeS3, LinkTyped
<1>3. \A g \in ToSet(RemoveAt(toS3, 1)) :
        \E j \in 1..Len(toS3) : g = toS3[j] /\ ~ (j < 1) /\ j # 1
  BY <1>2, Behind
<1>4. \A j \in 1..Len(toS3) : ~ (j < 1) /\ j # 1 => 1 < j
  OBVIOUS
<1>5. \A g \in ToSet(toS3') : \E j \in 1..Len(toS3) : g = toS3[j] /\ 1 < j
  BY <1>2, <1>3, <1>4
<1> QED
  BY <1>2, <1>5

(* What the client does with the page frame f it answers.                   *)
Answers(f) ==
  \/ UNCHANGED <<mode, got, bytes>> /\ mode = "receiving"
  \/ UNCHANGED <<mode, got, bytes>> /\ mode = "finished" /\ f.type # "BEGIN"
  \/ f.type = "BEGIN" /\ mode' = "receiving" /\ bytes' = <<>>
  \/ /\ f.type = "CHUNK" /\ mode = "receiving" /\ UNCHANGED <<mode, got>>
     /\ f.off = Len(bytes) /\ bytes' = Append(bytes, f.data)
  \/ f.type = "END" /\ mode' = "finished"

(* Taking a frame and acknowledging it keeps the pace.                      *)
LEMMA AnswerKeepsPace ==
  ASSUME IInv, S3Typed', Fidelity, Pacing, NEW i \in 1..Len(toS3), NEW f, TakeS3(i, f),
         IsPage(f), f.id = got'.id, Answers(f), SendAck, UNCHANGED <<up, cacheVars, sendVars>>
  PROVE  Pacing'
<1> USE DEF IInv, Typed
<1> DEFINE new == Ack(got'.id, Len(bytes'))
<1>1. /\ UNCHANGED <<phase, transferId, offset, snap, pubs>> /\ ActiveSize' = ActiveSize
      /\ transferId \in Nat /\ offset \in Nat /\ bytes \in Seq(Data) /\ bytes' \in Seq(Data)
  BY BoundsAssumption DEF sendVars, cacheVars, ActiveSize, ActivePage, BridgeTyped, S3Typed
<1>2. /\ 1 \in 1..Len(toS3) /\ f = toS3[1] /\ toS3' = RemoveAt(toS3, 1) /\ f \in ToSet(toS3)
      /\ \A g \in ToSet(toS3') : \E j \in 1..Len(toS3) : g = toS3[j] /\ 1 < j
      /\ ToSet(toS3') \subseteq ToSet(toS3)
  BY TakenFirst, TakeS3Typed
<1>3. /\ ToSet(toBridge') \subseteq ToSet(toBridge) \cup {new}
      /\ new.type = "ACK" /\ new.id = f.id /\ new.off = Len(bytes')
  <2>1. new \in FrameToBridge
    BY SmallFramesTyped DEF S3Typed
  <2>2. ToSet(toBridge') \subseteq ToSet(toBridge) \cup {new}
    BY <2>1, OfferBridgeTyped DEF SendAck
  <2> QED
    BY <2>2 DEF Ack
<1>4. f.id <= transferId /\ f.id \in Nat
  BY <1>2, PagesTyped DEF Fidelity, InFlight, Carries
<1> HIDE DEF new
<1>5. AckIds' /\ Known'
  BY <1>1, <1>3, <1>4 DEF Pacing, AckIds, Known
<1>6. ASSUME phase # "IDLE"
      PROVE  InStep'
  <2>1. InStep
    BY <1>6 DEF Pacing
  <2>2. FramesInPhase'
    BY <1>1, <1>2, <2>1 DEF InStep, FramesInPhase, Current, IsPage
  <2>3. BeginsFirst'
    BY <1>1, <1>2, <2>1, BeginsFirstKept DEF InStep
  <2>4. BeginPossible' => BeginPossible
    BY <1>1, <1>2 DEF BeginPossible, Current, IsPage
  <2>5. Listening' => Current(f)
    BY <1>1 DEF Listening, Current
  <2>6. new.id = transferId => Current(f)
    BY <1>3 DEF Current
  <2>7. ASSUME Current(f), BeginPossible'
        PROVE  f.type = "BEGIN"
    <3>1. CASE phase = "BEGIN"
      BY <1>2, <2>1, <2>7, <3>1 DEF InStep, FramesInPhase, IsPage
    <3>2. ASSUME NEW g \in ToSet(toS3'), Current(g), g.type = "BEGIN"
          PROVE  f.type = "BEGIN"
      <4>1. PICK j \in 1..Len(toS3) : g = toS3[j] /\ 1 < j
        BY <1>2
      <4> QED
        BY <1>2, <2>1, <2>7, <3>2, <4>1 DEF InStep, BeginsFirst
    <3> QED
      BY <1>1, <2>7, <3>1, <3>2 DEF BeginPossible, Current, IsPage
  <2>8. ASSUME Current(f), f.type = "BEGIN"
        PROVE  /\ BeginPossible /\ bytes' = <<>> /\ mode' = "receiving"
               /\ phase = "BEGIN" \/ (phase = "CHUNK" /\ offset = 0)
    <3>1. BeginPossible /\ (phase = "BEGIN" \/ (phase = "CHUNK" /\ offset = 0))
      BY <1>2, <2>1, <2>8 DEF BeginPossible, InStep, FramesInPhase
    <3>2. Listening => bytes = <<>>
      BY <2>1, <3>1 DEF InStep, NothingBefore
    <3> QED
      BY <2>8, <3>1, <3>2 DEF Answers, Listening, Current
  <2>9. NothingBefore'
    <3>1. SUFFICES ASSUME BeginPossible'
                   PROVE  /\ \A a \in ToSet(toBridge') : a.type = "ACK" /\ a.id = transferId => a.off = 0
                          /\ Listening' => bytes' = <<>>
      BY <1>1 DEF NothingBefore, AckOf
    <3>2. Current(f) => bytes' = <<>>
      BY <2>7, <2>8, <3>1
    <3>3. ASSUME NEW a \in ToSet(toBridge'), a.type = "ACK", a.id = transferId
          PROVE  a.off = 0
      <4>1. CASE a \in ToSet(toBridge)
        BY <2>1, <2>4, <3>1, <3>3, <4>1 DEF InStep, NothingBefore, AckOf
      <4>2. CASE a = new
        BY <1>3, <2>6, <3>2, <3>3, <4>2
      <4> QED
        BY <1>3, <3>3, <4>1, <4>2
    <3> QED
      BY <2>5, <3>2, <3>3
  <2>10. AcksBehind'
    <3>1. SUFFICES ASSUME Listening', NEW a \in ToSet(toBridge'), a.type = "ACK", a.id = transferId
                   PROVE  a.off <= Len(bytes')
      BY <1>1 DEF AcksBehind, AckOf
    <3>2. Len(bytes') \in Nat /\ Len(bytes) \in Nat
      BY <1>1
    <3>3. CASE a = new
      BY <1>3, <3>2, <3>3
    <3>4. CASE a \in ToSet(toBridge)
      <4>0. a.off \in Nat
        BY <3>1, <3>4, AcksTyped
      <4>1. CASE f.type = "BEGIN"
        BY <2>1, <2>5, <2>8, <3>1, <3>2, <3>4, <4>1 DEF InStep, NothingBefore, AckOf
      <4>2. CASE f.type # "BEGIN"
        <5>1. Listening /\ Len(bytes) <= Len(bytes')
          BY <1>1, <3>1, <3>2, <4>2 DEF Answers, Listening
        <5> QED
          BY <2>1, <3>1, <3>2, <3>4, <4>0, <5>1 DEF InStep, AcksBehind, AckOf
      <4> QED
        BY <4>1, <4>2
    <3> QED
      BY <1>3, <3>1, <3>3, <3>4
  <2>11. LockStep'
    <3>1. SUFFICES ASSUME got'.id = transferId, mode' \in {"receiving", "finished"}
                   PROVE  LockStep'
      BY <1>1 DEF LockStep
    <3>2. Current(f)
      BY <3>1 DEF Current
    <3>3. CASE f.type = "BEGIN"
      BY <1>1, <2>8, <3>2, <3>3 DEF LockStep
    <3>4. CASE UNCHANGED <<mode, got, bytes>>
      BY <1>1, <2>1, <3>4 DEF InStep, LockStep
    <3>5. CASE /\ f.type = "CHUNK" /\ mode = "receiving" /\ UNCHANGED <<mode, got>>
               /\ f.off = Len(bytes) /\ bytes' = Append(bytes, f.data)
      <4>1. phase = "END" \/ (phase = "CHUNK" /\ Len(bytes) <= offset)
        BY <1>2, <2>1, <3>2, <3>5 DEF InStep, FramesInPhase
      <4>2. Len(bytes') = Len(bytes) + 1 /\ Len(bytes) \in Nat
        BY <1>1, <3>5
      <4>3. phase # "END"
        <5>1. phase = "END" => Len(bytes) = ActiveSize
          BY <2>1, <3>1, <3>5 DEF InStep, LockStep
        <5>2. Len(bytes) < Len(pubs[f.ver].blob) /\ (phase = "END" => f.ver = snap)
          BY <1>2, <3>2, <3>5 DEF Fidelity, InFlight, CutFrom, Carries, Current
        <5> QED
          BY <5>1, <5>2, <4>2 DEF ActiveSize, ActivePage
      <4>4. Len(bytes) - offset \in {0, 1}
        BY <2>1, <3>1, <3>5, <4>1, <4>3 DEF InStep, LockStep
      <4> QED
        BY <1>1, <3>5, <4>1, <4>2, <4>3, <4>4 DEF LockStep
    <3>6. CASE f.type = "END" /\ mode' = "finished"
      BY <1>1, <1>2, <2>1, <3>2, <3>6 DEF InStep, FramesInPhase, LockStep
    <3> QED
      BY <3>3, <3>4, <3>5, <3>6 DEF Answers
  <2> QED
    BY <2>2, <2>3, <2>9, <2>10, <2>11 DEF InStep
<1> QED
  BY <1>1, <1>5, <1>6 DEF Pacing

(* A step of the others leaves the server at rest.                          *)
LEMMA ServerStays == UNCHANGED <<sendVars, cacheVars>> => ServerRests
  BY DEF ServerRests, sendVars, cacheVars, ActiveSize, ActivePage

(* A frame other than an acknowledgement adds none.                         *)
LEMMA OfferedIsNoAck ==
  ASSUME LinkTyped, NEW f \in FrameToBridge, f.type # "ACK",
         toBridge' = OfferBridge(toBridge, f)
  PROVE  NoNewAck
<1>1. ToSet(toBridge') \subseteq ToSet(toBridge) \cup {f}
  BY OfferBridgeTyped
<1> QED
  BY <1>1 DEF NoNewAck

(* Every handler of the S3 keeps the pace.                                  *)
LEMMA ReceiveKeepsPace ==
  ASSUME IInv, IInv', Fidelity, Pacing, NEW i \in 1..Len(toS3),
         \/ ReceiveBegin(i) \/ ReceiveChunk(i) \/ ReceiveEnd(i)
         \/ ReceiveError(i) \/ ReceiveChanged(i) \/ ReceiveHello(i)
  PROVE  Pacing'
<1> USE DEF IInv, Typed
<1>1. ASSUME NEW f, TakeS3(i, f), UNCHANGED <<toBridge, cacheVars, sendVars>>,
             Fail \/ UNCHANGED <<mode, got, bytes>>
      PROVE  Pacing'
  <2>1. NoPageSent /\ NoNewAck /\ NoNewRequest
    BY <1>1 DEF NoPageSent, TakeS3, NoNewAck, NoNewRequest
  <2>2. ClientRests
    BY <1>1, <2>1 DEF ClientRests, Fail
  <2> QED
    BY <1>1, <2>1, <2>2, ServerStays, RestsKeepPace
<1>2. CASE ReceiveBegin(i)
  <2> DEFINE f == toS3[i]
  <2>1. /\ f.type = "BEGIN" /\ TakeS3(i, f) /\ UNCHANGED <<up, cacheVars, sendVars>>
        /\ \/ mode = "receiving" /\ f.id = got.id /\ UNCHANGED recvVars /\ SendAck
           \/ /\ mode' = "receiving" /\ bytes' = <<>> /\ got'.id = f.id /\ SendAck
           \/ UNCHANGED <<recvVars, toBridge>>
    BY <1>2 DEF ReceiveBegin
  <2>2. IsPage(f)
    BY <2>1 DEF IsPage
  <2> HIDE DEF f
  <2>3. CASE UNCHANGED <<recvVars, toBridge>>
    BY <1>1, <2>1, <2>3 DEF recvVars
  <2>4. CASE mode = "receiving" /\ f.id = got.id /\ UNCHANGED recvVars /\ SendAck
    BY <2>1, <2>2, <2>4, AnswerKeepsPace DEF recvVars, Answers
  <2>5. CASE mode' = "receiving" /\ bytes' = <<>> /\ got'.id = f.id /\ SendAck
    BY <2>1, <2>2, <2>5, AnswerKeepsPace DEF Answers
  <2> QED
    BY <2>1, <2>3, <2>4, <2>5
<1>3. CASE ReceiveChunk(i)
  <2> DEFINE f == toS3[i]
  <2>1. /\ f.type = "CHUNK" /\ TakeS3(i, f) /\ UNCHANGED <<up, cacheVars, sendVars>>
        /\ \/ Fail /\ UNCHANGED toBridge
           \/ UNCHANGED <<recvVars, toBridge>>
           \/ mode = "receiving" /\ f.id = got.id /\ UNCHANGED recvVars /\ SendAck
           \/ /\ mode = "receiving" /\ f.id = got.id /\ f.off = Len(bytes)
              /\ bytes' = Append(bytes, f.data) /\ UNCHANGED <<mode, got>> /\ SendAck
    BY <1>3 DEF ReceiveChunk
  <2>2. IsPage(f)
    BY <2>1 DEF IsPage
  <2> HIDE DEF f
  <2>3. CASE (Fail /\ UNCHANGED toBridge) \/ UNCHANGED <<recvVars, toBridge>>
    BY <1>1, <2>1, <2>3 DEF recvVars
  <2>4. CASE mode = "receiving" /\ f.id = got.id /\ UNCHANGED recvVars /\ SendAck
    BY <2>1, <2>2, <2>4, AnswerKeepsPace DEF recvVars, Answers
  <2>5. CASE /\ mode = "receiving" /\ f.id = got.id /\ f.off = Len(bytes)
             /\ bytes' = Append(bytes, f.data) /\ UNCHANGED <<mode, got>> /\ SendAck
    BY <2>1, <2>2, <2>5, AnswerKeepsPace DEF Answers
  <2> QED
    BY <2>1, <2>3, <2>4, <2>5
<1>4. CASE ReceiveEnd(i)
  <2> DEFINE f == toS3[i]
  <2>1. /\ f.type = "END" /\ TakeS3(i, f) /\ UNCHANGED <<up, cacheVars, sendVars>>
        /\ \/ Fail /\ UNCHANGED toBridge
           \/ UNCHANGED <<recvVars, toBridge>>
           \/ mode = "finished" /\ f.id = got.id /\ UNCHANGED recvVars /\ SendAck
           \/ mode' = "finished" /\ f.id = got.id /\ UNCHANGED got /\ SendAck
    BY <1>4 DEF ReceiveEnd, EndMatches
  <2>2. IsPage(f)
    BY <2>1 DEF IsPage
  <2> HIDE DEF f
  <2>3. CASE (Fail /\ UNCHANGED toBridge) \/ UNCHANGED <<recvVars, toBridge>>
    BY <1>1, <2>1, <2>3 DEF recvVars
  <2>4. CASE mode = "finished" /\ f.id = got.id /\ UNCHANGED recvVars /\ SendAck
    BY <2>1, <2>2, <2>4, AnswerKeepsPace DEF recvVars, Answers
  <2>5. CASE mode' = "finished" /\ f.id = got.id /\ UNCHANGED got /\ SendAck
    BY <2>1, <2>2, <2>5, AnswerKeepsPace DEF Answers
  <2> QED
    BY <2>1, <2>3, <2>4, <2>5
<1>5. CASE ReceiveError(i)
  BY <1>1, <1>5 DEF ReceiveError
<1>6. CASE ReceiveChanged(i)
  BY <1>1, <1>6 DEF ReceiveChanged
<1>7. CASE ReceiveHello(i)
  <2>1. NoPageSent
    BY <1>7 DEF ReceiveHello, NoPageSent, TakeS3
  <2>2. NoNewAck /\ NoNewRequest
    BY <1>7, OfferedIsNoAck, OfferedIsNoRequest, SmallFramesTyped DEF ReceiveHello, Hello
  <2>3. ClientRests
    BY <1>7, <2>2 DEF ReceiveHello, ClientRests, recvVars
  <2> QED
    BY <1>7, <2>1, <2>2, <2>3, ServerStays, RestsKeepPace DEF ReceiveHello
<1> QED
  BY <1>2, <1>3, <1>4, <1>5, <1>6, <1>7

(* So does everything the server does.                                      *)
LEMMA ServerKeepsPace ==
  ASSUME IInv, Fidelity, Pacing, BridgeStep, MaxTransfers <= MaxId
  PROVE  Pacing'
<1> USE DEF IInv, Typed
<1>1. ASSUME UNCHANGED recvVars, NoPageSent, NoNewAck, NoNewRequest,
             ServerRests \/ (phase' = "IDLE" /\ transferId' = transferId)
      PROVE  Pacing'
  BY <1>1, RestsKeepPace DEF ClientRests, recvVars
<1>2. ASSUME NEW i \in 1..Len(toBridge), NEW f, TakeBridge(i, f)
      PROVE  NoNewAck /\ NoNewRequest
  BY <1>2, TakeBridgeTyped DEF NoNewAck, NoNewRequest
<1>3. ASSUME NEW i \in 1..Len(toBridge), HandleRequest(i)
      PROVE  Pacing'
  <2> DEFINE f == toBridge[i]
  <2>1. /\ f.type = "REQUEST" /\ TakeBridge(i, f) /\ UNCHANGED <<cacheVars, recvVars>>
        /\ \/ toS3' = Offer(toS3, Error(1)) /\ UNCHANGED sendVars
           \/ StartTransfer(f.kind) /\ UNCHANGED toS3
           \/ toS3' = Offer(toS3, Error(2)) /\ UNCHANGED sendVars
    BY <1>3 DEF HandleRequest
  <2> HIDE DEF f
  <2>2. CASE StartTransfer(f.kind) /\ UNCHANGED toS3
    BY <2>1, <2>2, StartKeepsPace
  <2>3. CASE (toS3' = Offer(toS3, Error(1)) \/ toS3' = Offer(toS3, Error(2))) /\ UNCHANGED sendVars
    <3>1. ~ IsPage(Error(1)) /\ ~ IsPage(Error(2))
      BY DEF IsPage, Error
    <3>2. NoPageSent
      BY <2>3, <3>1, SmallFramesTyped DEF NoPageSent
    <3> QED
      BY <1>1, <1>2, <2>1, <2>3, <3>2, ServerStays
  <2> QED
    BY <2>1, <2>2, <2>3
<1>4. ASSUME NEW i \in 1..Len(toBridge), HandleAck(i)
      PROVE  Pacing'
  <2> DEFINE a == toBridge[i]
  <2>1. /\ a.type = "ACK" /\ TakeBridge(i, a) /\ UNCHANGED <<toS3, up, cacheVars, recvVars>>
        /\ (AckMatches(a) /\ AdvanceOnAck(a)) \/ UNCHANGED sendVars
    BY <1>4 DEF HandleAck
  <2> HIDE DEF a
  <2>2. CASE AckMatches(a) /\ AdvanceOnAck(a)
    BY <2>1, <2>2, AckKeepsPace
  <2>3. CASE UNCHANGED sendVars
    BY <1>1, <1>2, <2>1, <2>3, ServerStays DEF NoPageSent
  <2> QED
    BY <2>1, <2>2, <2>3
<1>5. ASSUME NEW i \in 1..Len(toBridge), BridgeHello(i)
      PROVE  Pacing'
  BY <1>1, <1>2, <1>5 DEF BridgeHello, ResetTransfer, NoPageSent
<1>6. CASE PollSend
  BY <1>6, SendKeepsPace
<1>7. CASE StallTimeout
  BY <1>1, <1>7 DEF StallTimeout, ResetTransfer, linkVars, NoPageSent, NoNewAck, NoNewRequest
<1> QED
  BY <1>3, <1>4, <1>5, <1>6, <1>7 DEF BridgeStep

(* The timers of the client, its requests and the use of a page keep it.    *)
LEMMA ClientKeepsPace ==
  ASSUME IInv, Pacing,
         SendRequest \/ RequestDue \/ ClientTimeout \/ CooldownOver \/ TakeCompleted
  PROVE  Pacing'
<1> USE DEF IInv, Typed
<1>1. /\ toS3' = toS3 /\ UNCHANGED <<sendVars, cacheVars>> /\ (UNCHANGED toBridge \/ SendRequest)
  BY DEF SendRequest, RequestDue, ClientTimeout, CooldownOver, TakeCompleted, linkVars
<1>2. ServerRests /\ NoPageSent
  BY <1>1, ServerStays DEF NoPageSent
<1>3. CASE SendRequest
  <2>1. /\ MissingKinds # {} /\ mode' = "waiting"
        /\ toBridge' = OfferBridge(toBridge, Request(NextKind))
    BY <1>3 DEF SendRequest
  <2>2. Request(NextKind) \in FrameToBridge /\ Request(NextKind).type = "REQUEST"
    BY <2>1, NextKindTyped, SmallFramesTyped DEF Request
  <2>3. NoNewAck
    BY <2>1, <2>2, OfferedIsNoAck
  <2> QED
    BY <1>2, <2>1, <2>3, RestsKeepPace DEF ClientRests
<1>4. CASE RequestDue \/ ClientTimeout \/ CooldownOver \/ TakeCompleted
  <2>1. UNCHANGED toBridge
    BY <1>4 DEF RequestDue, ClientTimeout, CooldownOver, TakeCompleted, linkVars
  <2>2. NoNewAck /\ NoNewRequest
    BY <2>1 DEF NoNewAck, NoNewRequest
  <2>3. UNCHANGED <<mode, got, bytes>> \/ mode' = "idle"
    BY <1>4 DEF RequestDue, ClientTimeout, CooldownOver, TakeCompleted, Fail, recvVars
  <2> QED
    BY <1>2, <2>2, <2>3, RestsKeepPace DEF ClientRests
<1> QED
  BY <1>3, <1>4

(* And so do losses, restarts and whatever else comes from outside.         *)
LEMMA EnvironmentKeepsPace ==
  ASSUME IInv, Fidelity, Pacing, Environment
  PROVE  Pacing'
<1> USE DEF IInv, Typed
<1>1. ASSUME NoPageSent, NoNewAck, NoNewRequest, ServerRests,
             mode' = "idle" \/ UNCHANGED <<mode, got, bytes>>
      PROVE  Pacing'
  BY <1>1, RestsKeepPace DEF ClientRests
<1>2. UNCHANGED linkVars => NoPageSent /\ NoNewAck /\ NoNewRequest
  BY DEF linkVars, NoPageSent, NoNewAck, NoNewRequest
<1>3. CASE \E k \in Kinds, b \in Blobs, c \in 0..MaxSelections : Publish(k, b, c)
  <2>1. PICK k \in Kinds, b \in Blobs, c \in 0..MaxSelections : Publish(k, b, c)
    BY <1>3
  <2>2. /\ pubs' = Append(pubs, [kind |-> k, blob |-> b, ctx |-> c])
        /\ toS3' = Offer(toS3, Changed(k))
        /\ UNCHANGED <<toBridge, sendVars, recvVars>>
    BY <2>1 DEF Publish
  <2>3. NoPageSent /\ NoNewAck /\ NoNewRequest
    BY <2>2, SmallFramesTyped DEF NoPageSent, NoNewAck, NoNewRequest, IsPage, Changed
  <2>4. ServerRests
    <3>1. pubs \in Seq(Publication) /\ [kind |-> k, blob |-> b, ctx |-> c] \in Publication
      BY DEF BridgeTyped, Publication
    <3>2. phase # "IDLE" => pubs'[snap] = pubs[snap]
      BY <2>2, <3>1, AppendProperties DEF Sending
    <3> QED
      BY <2>2, <3>2 DEF ServerRests, sendVars, ActiveSize, ActivePage
  <2> QED
    BY <1>1, <2>2, <2>3, <2>4 DEF recvVars
<1>4. CASE SelectPlaylist \/ BridgeAvailable
  <2>1. UNCHANGED <<linkVars, cacheVars, sendVars, recvVars>>
    BY <1>4 DEF SelectPlaylist, BridgeAvailable
  <2> QED
    BY <1>1, <1>2, <2>1, ServerStays DEF recvVars
<1>5. CASE BridgeUnavailable \/ LinkLost
  <2>1. UNCHANGED <<linkVars, cacheVars, sendVars>> /\ mode' = "idle"
    BY <1>5 DEF BridgeUnavailable, LinkLost, ResetClient
  <2> QED
    BY <1>1, <1>2, <2>1, ServerStays
<1>6. CASE LoseFrame
  <2>1. /\ UNCHANGED <<cacheVars, sendVars, recvVars>>
        /\ \/ \E i \in 1..Len(toS3) : toS3' = RemoveAt(toS3, i) /\ UNCHANGED toBridge
           \/ \E i \in 1..Len(toBridge) : toBridge' = RemoveAt(toBridge, i) /\ UNCHANGED toS3
    BY <1>6 DEF LoseFrame
  <2>2. ToSet(toBridge') \subseteq ToSet(toBridge)
    BY <2>1, RemoveAtSeq DEF LinkTyped
  <2>3. NoPageSent /\ NoNewAck /\ NoNewRequest
    BY <2>1, <2>2 DEF NoPageSent, NoNewAck, NoNewRequest
  <2> QED
    BY <1>1, <2>1, <2>3, ServerStays DEF recvVars
<1>7. CASE BridgeDown
  <2>1. /\ toBridge' = <<>> /\ ToSet(toBridge') = {} /\ phase' = "IDLE"
        /\ UNCHANGED <<toS3, transferId, recvVars>>
    BY <1>7 DEF BridgeDown, ToSet
  <2>2. NoPageSent /\ NoNewAck /\ NoNewRequest
    BY <2>1 DEF NoPageSent, NoNewAck, NoNewRequest
  <2> QED
    BY <2>1, <2>2, RestsKeepPace DEF ClientRests, recvVars
<1>8. CASE BridgeBoot
  <2>1. /\ toS3' = <<Hello>> /\ toBridge = <<>> /\ phase = "IDLE"
        /\ UNCHANGED <<toBridge, phase, mode, got>>
    BY <1>8 DEF BridgeBoot, Fidelity, DownQuiet, Sending, recvVars
  <2>2. ToSet(toBridge') = {} /\ ToSet(toS3') = {Hello} /\ ~ IsPage(Hello)
    BY <2>1 DEF ToSet, IsPage, Hello
  <2>3. Orphaned'
    BY <2>1, <2>2 DEF Orphaned, IsPage
  <2> QED
    BY <2>1, <2>2, <2>3 DEF Pacing, AckIds, Known
<1>9. CASE S3Restart
  <2>1. /\ toS3' = <<>> /\ mode' = "idle" /\ toBridge' = OfferBridge(toBridge, Hello)
        /\ UNCHANGED <<cacheVars, sendVars>>
    BY <1>9 DEF S3Restart
  <2>2. NoPageSent /\ NoNewAck /\ NoNewRequest
    BY <2>1, OfferedIsNoAck, OfferedIsNoRequest, SmallFramesTyped DEF NoPageSent, Hello
  <2> QED
    BY <1>1, <2>1, <2>2, ServerStays
<1> QED
  BY <1>3, <1>4, <1>5, <1>6, <1>7, <1>8, <1>9 DEF Environment

(* While both ends work on one transfer the client is never behind what the *)
(* server has seen acknowledged and at most one chunk ahead of it, whatever *)
(* timers fire, frames are lost, repeated or refused and processors restart *)
(* in between: chunks cannot be skipped, and the server sends LIBRARY_END   *)
(* only to a client that holds the whole page.                              *)
THEOREM StopAndWait ==
  ASSUME MaxTransfers <= MaxId
  PROVE  Spec => []LockStep
<1>1. Init => Pacing
  BY DEF Init, Pacing, AckIds, Known, ToSet
<1>2. ASSUME IInv, IInv', Fidelity, Pacing, [Next]_vars
      PROVE  Pacing'
  <2>1. CASE BridgeStep
    BY <1>2, <2>1, ServerKeepsPace
  <2>2. CASE S3Step
    BY <1>2, <2>2, ReceiveKeepsPace, ClientKeepsPace DEF S3Step, IInv, Typed
  <2>3. CASE Environment
    BY <1>2, <2>3, EnvironmentKeepsPace
  <2>4. CASE SlotKept
    <3>1. UNCHANGED <<linkVars, sendVars, cacheVars, recvVars>>
      BY <2>4 DEF SlotKept
    <3>2. NoPageSent /\ NoNewAck /\ ClientRests
      BY <3>1 DEF NoPageSent, NoNewAck, NoNewRequest, ClientRests, linkVars, recvVars
    <3> QED
      BY <1>2, <3>1, <3>2, ServerStays, RestsKeepPace
  <2> QED
    BY <1>2, <2>1, <2>2, <2>3, <2>4, SlotSteps DEF Next
<1>3. Pacing => LockStep
  BY DEF Pacing, InStep, LockStep
<1> QED
  BY <1>1, <1>2, <1>3, Inductive, Faithful, PTL DEF Spec

------------------------------------------------------------------------------
(* Versions never go back *)

(* The cache of the Bridge holds the newest publication of a list, and what *)
(* a list has taken was published for it.                                   *)
CacheNewest ==
  \A k \in Kinds : cache[k] # 0 =>
    \A v \in 1..Len(pubs) : pubs[v].kind = k => v <= cache[k]
InstalledKnown ==
  \A k \in Kinds : installed[k] # 0 =>
    installed[k] \in 1..Len(pubs) /\ pubs[installed[k]].kind = k

(* Along the way of a page - list, client, link, server, cache - the        *)
(* versions of one list never decrease.                                     *)
IsBegin(f) == f.type = "BEGIN"
BeginsNewer == \A f \in ToSet(toS3) : IsBegin(f) => installed[f.kind] <= f.ver
BeginsInOrder ==
  \A i, j \in 1..Len(toS3) :
    i < j /\ IsBegin(toS3[i]) /\ IsBegin(toS3[j]) /\ toS3[i].kind = toS3[j].kind
      => toS3[i].ver <= toS3[j].ver
BeginsSent ==
  phase # "IDLE" => \A f \in ToSet(toS3) : IsBegin(f) /\ f.kind = pubs[snap].kind => f.ver <= snap
SnapNewer == phase # "IDLE" => installed[pubs[snap].kind] <= snap
Taking == mode = "receiving" \/ completed
TakingNewer ==
  Taking =>
    /\ installed[got.kind] <= got.ver
    /\ \A f \in ToSet(toS3) : IsBegin(f) /\ f.kind = got.kind => got.ver <= f.ver
    /\ phase # "IDLE" /\ pubs[snap].kind = got.kind => got.ver <= snap

Versions ==
  /\ CacheNewest /\ InstalledKnown /\ BeginsNewer /\ BeginsInOrder /\ BeginsSent
  /\ SnapNewer /\ TakingNewer

(* What most steps leave alone.                                             *)
TakingRests == Taking' => Taking /\ got' = got
SnapRests == phase' # "IDLE" => phase # "IDLE" /\ snap' = snap

(* A BEGIN in flight names a list and a version.                            *)
LEMMA BeginsTyped ==
  ASSUME LinkTyped, NEW f \in ToSet(toS3), IsBegin(f)
  PROVE  f.kind \in Kinds /\ f.ver \in Nat /\ IsPage(f)
<1>1. f \in FrameToS3
  BY DEF LinkTyped, ToSet
<1> QED
  BY <1>1, FramesTyped DEF BeginFrame, IsBegin, IsPage

(* The BEGINs of a list stay in order unless an older version is sent.      *)
LEMMA BeginsInOrderKept ==
  ASSUME LinkTyped, BeginsInOrder,
         \/ toS3' = toS3 \/ toS3' = <<>>
         \/ \E i \in 1..Len(toS3) : toS3' = RemoveAt(toS3, i)
         \/ \E f \in FrameToS3 :
              /\ toS3' = Offer(toS3, f)
              /\ IsBegin(f) =>
                   \A g \in ToSet(toS3) : IsBegin(g) /\ g.kind = f.kind => g.ver <= f.ver
  PROVE  BeginsInOrder'
<1>0. toS3 \in Seq(FrameToS3)
  BY DEF LinkTyped
<1>1. CASE \/ toS3' = toS3 \/ toS3' = <<>>
           \/ \E i \in 1..Len(toS3) : toS3' = RemoveAt(toS3, i)
  <2>1. Thinned(toS3', toS3)
    BY <1>0, <1>1, ThinnedBy, Zenon
  <2>2. ASSUME NEW i \in 1..Len(toS3'), NEW j \in 1..Len(toS3'), i < j,
               IsBegin(toS3'[i]), IsBegin(toS3'[j]), toS3'[i].kind = toS3'[j].kind
        PROVE  toS3'[i].ver <= toS3'[j].ver
    <3>1. PICK n, m \in 1..Len(toS3) :
            toS3'[j] = toS3[m] /\ toS3'[i] = toS3[n] /\ (i < j <=> n < m)
      BY <2>1 DEF Thinned
    <3> QED
      BY <2>2, <3>1 DEF BeginsInOrder
  <2> QED
    BY <2>2 DEF BeginsInOrder, IsBegin
<1>2. ASSUME NEW f \in FrameToS3, toS3' = Append(toS3, f),
             IsBegin(f) =>
               \A g \in ToSet(toS3) : IsBegin(g) /\ g.kind = f.kind => g.ver <= f.ver
      PROVE  BeginsInOrder'
  <2>1. /\ Len(toS3') = Len(toS3) + 1 /\ toS3'[Len(toS3) + 1] = f /\ Len(toS3) \in Nat
        /\ \A i \in 1..Len(toS3) : toS3'[i] = toS3[i] /\ toS3[i] \in ToSet(toS3)
    BY <1>0, <1>2, Appended DEF ToSet
  <2>2. ASSUME NEW i \in 1..Len(toS3'), NEW j \in 1..Len(toS3'), i < j,
               IsBegin(toS3'[i]), IsBegin(toS3'[j]), toS3'[i].kind = toS3'[j].kind
        PROVE  toS3'[i].ver <= toS3'[j].ver
    <3>1. i \in 1..Len(toS3) /\ (j \in 1..Len(toS3) \/ j = Len(toS3) + 1)
      BY <2>1, <2>2
    <3>2. CASE j \in 1..Len(toS3)
      BY <2>1, <2>2, <3>1, <3>2 DEF BeginsInOrder
    <3>3. CASE j = Len(toS3) + 1
      BY <1>2, <2>1, <2>2, <3>1, <3>3
    <3> QED
      BY <3>1, <3>2, <3>3
  <2> QED
    BY <2>2, <1>2 DEF BeginsInOrder, IsBegin
<1>3. toS3' = toS3 => BeginsInOrder'
  BY <1>1
<1> QED
  BY <1>1, <1>2, <1>3 DEF Offer

(* A step that sends no page, starts no transfer and takes no page keeps    *)
(* the versions in order; a restart of the S3 only starts its lists over.   *)
LEMMA RestsKeepVersions ==
  ASSUME IInv, Versions, NoPageSent, SnapRests, TakingRests, PubsGrow, CacheNewest',
         \A k \in Kinds : installed'[k] = installed[k] \/ installed'[k] = 0
  PROVE  Versions'
<1> USE DEF IInv, Typed
<1>1. NoNewPage /\ installed \in [Kinds -> Nat] /\ snap \in Nat
  BY NoPageSentIsNone DEF PickerTyped, BridgeTyped
<1>2. ASSUME NEW f \in ToSet(toS3'), IsBegin(f)
      PROVE  f \in ToSet(toS3) /\ f.kind \in Kinds /\ f.ver \in Nat
  BY <1>1, <1>2, BeginsTyped DEF NoNewPage, IsPage, IsBegin
<1>3. ASSUME phase' # "IDLE"
      PROVE  /\ phase # "IDLE" /\ snap' = snap /\ pubs'[snap] = pubs[snap]
             /\ pubs[snap].kind \in Kinds
  <2>1. phase # "IDLE" /\ snap' = snap /\ snap \in 1..Len(pubs)
    BY <1>3 DEF SnapRests, Sending
  <2> QED
    BY <2>1, PublicationsTyped DEF PubsGrow
<1>4. ASSUME Taking'
      PROVE  Taking /\ got' = got /\ got.kind \in Kinds /\ got.ver \in Nat
  BY <1>4 DEF TakingRests, Taking, Holding, S3Typed
<1>5. InstalledKnown'
  BY <1>1 DEF Versions, InstalledKnown, PubsGrow, BridgeTyped
<1>6. BeginsNewer'
  <2>1. ASSUME NEW f \in ToSet(toS3'), IsBegin(f)
        PROVE  installed'[f.kind] <= f.ver
    BY <1>2, <2>1 DEF Versions, BeginsNewer
  <2> QED
    BY <2>1 DEF BeginsNewer, IsBegin
<1>7. BeginsInOrder'
  <2>1. \A f : IsBegin(f) => IsPage(f)
    BY DEF IsBegin, IsPage
  <2> QED
    BY <2>1, BeginsInOrderKept DEF Versions, NoPageSent
<1>8. BeginsSent'
  <2>1. ASSUME phase' # "IDLE", NEW f \in ToSet(toS3'), IsBegin(f), f.kind = pubs'[snap'].kind
        PROVE  f.ver <= snap'
    BY <1>2, <1>3, <2>1 DEF Versions, BeginsSent
  <2> QED
    BY <2>1 DEF BeginsSent, IsBegin
<1>9. SnapNewer'
  BY <1>1, <1>3 DEF Versions, SnapNewer
<1>10. TakingNewer'
  <2>1. SUFFICES ASSUME Taking' PROVE TakingNewer'
    BY DEF TakingNewer
  <2>2. Taking /\ got' = got /\ got.kind \in Kinds /\ got.ver \in Nat
    BY <1>4, <2>1
  <2>3. installed'[got.kind] <= got.ver
    BY <2>2 DEF Versions, TakingNewer
  <2>4. ASSUME NEW f \in ToSet(toS3'), IsBegin(f), f.kind = got.kind
        PROVE  got.ver <= f.ver
    BY <1>2, <2>2, <2>4 DEF Versions, TakingNewer
  <2>5. phase' # "IDLE" /\ pubs'[snap'].kind = got.kind => got.ver <= snap'
    BY <1>3, <2>2 DEF Versions, TakingNewer
  <2> QED
    BY <2>2, <2>3, <2>4, <2>5 DEF TakingNewer, IsBegin
<1> QED
  BY <1>5, <1>6, <1>7, <1>8, <1>9, <1>10 DEF Versions

(* The BEGIN of a transfer is at least as new as those sent before it.      *)
LEMMA SendKeepsVersions ==
  ASSUME IInv, Versions, PollSend
  PROVE  Versions'
<1> USE DEF IInv, Typed
<1>1. PICK f \in FrameToS3 :
        /\ toS3' = Offer(toS3, f)
        /\ f.type = phase
        /\ f.type = "BEGIN" => f.kind = pubs[snap].kind /\ f.ver = snap
  BY SentFrame
<1>2. /\ phase # "IDLE" /\ UNCHANGED <<cache, pubs, installed, phase, snap>>
      /\ UNCHANGED <<mode, got, completed>>
  BY DEF PollSend, recvVars, cacheVars, pickVars
<1>3. ToSet(toS3') \subseteq ToSet(toS3) \cup {f}
  BY <1>1, OfferS3Typed
<1>4. InstalledKnown' /\ CacheNewest' /\ SnapNewer'
  BY <1>2 DEF Versions, InstalledKnown, CacheNewest, SnapNewer
<1>5. BeginsNewer'
  BY <1>1, <1>2, <1>3 DEF Versions, BeginsNewer, SnapNewer, IsBegin
<1>6. BeginsInOrder'
  <2>1. IsBegin(f) => \A g \in ToSet(toS3) : IsBegin(g) /\ g.kind = f.kind => g.ver <= f.ver
    BY <1>1, <1>2 DEF Versions, BeginsSent, IsBegin
  <2> QED
    BY <1>1, <2>1, BeginsInOrderKept DEF Versions
<1>7. BeginsSent'
  <2>1. snap \in Nat
    BY DEF BridgeTyped
  <2> QED
    BY <1>1, <1>2, <1>3, <2>1 DEF Versions, BeginsSent, IsBegin
<1>8. TakingNewer'
  BY <1>1, <1>2, <1>3 DEF Versions, TakingNewer, Taking, IsBegin
<1> QED
  BY <1>4, <1>5, <1>6, <1>7, <1>8 DEF Versions

(* A transfer that starts sends the newest publication of its list.         *)
LEMMA StartKeepsVersions ==
  ASSUME IInv, Fidelity, Versions, NEW k \in Kinds, cache[k] # 0, StartTransfer(k),
         UNCHANGED <<toS3, cacheVars, recvVars, pickVars>>
  PROVE  Versions'
<1> USE DEF IInv, Typed
<1>1. /\ snap' = cache[k] /\ cache[k] \in 1..Len(pubs) /\ pubs[snap'].kind = k
      /\ UNCHANGED <<cache, pubs, installed, mode, got, completed>>
  BY DEF StartTransfer, Caching, cacheVars, recvVars, pickVars
<1>2. \A v \in 1..Len(pubs) : pubs[v].kind = k => v <= snap'
  BY <1>1 DEF Versions, CacheNewest
<1>3. CacheNewest' /\ InstalledKnown' /\ BeginsNewer' /\ BeginsInOrder'
  BY <1>1 DEF Versions, CacheNewest, InstalledKnown, BeginsNewer, BeginsInOrder, IsBegin
<1>4. BeginsSent'
  <2>1. ASSUME NEW f \in ToSet(toS3), IsBegin(f), f.kind = k
        PROVE  f.ver <= snap'
    <3>1. f.ver \in 1..Len(pubs) /\ pubs[f.ver].kind = k
      BY <2>1 DEF Fidelity, InFlight, CutFrom, IsPage, IsBegin
    <3> QED
      BY <1>2, <3>1
  <2> QED
    BY <1>1, <2>1 DEF BeginsSent, IsBegin
<1>5. SnapNewer'
  <2>1. installed[k] \in Nat /\ snap' \in Nat
    BY <1>1 DEF PickerTyped
  <2>2. installed[k] = 0 \/ installed[k] <= snap'
    BY <1>2 DEF Versions, InstalledKnown
  <2> QED
    BY <1>1, <2>1, <2>2 DEF SnapNewer
<1>6. TakingNewer'
  <2>1. ASSUME Taking, got.kind = k
        PROVE  got.ver <= snap'
    <3>1. got.ver \in 1..Len(pubs) /\ got.kind = pubs[got.ver].kind
      BY <2>1 DEF Taking, Fidelity, Received, Completed, CompletedIsPublished
    <3> QED
      BY <1>2, <2>1, <3>1
  <2> QED
    BY <1>1, <2>1 DEF Versions, TakingNewer, Taking, IsBegin
<1> QED
  BY <1>3, <1>4, <1>5, <1>6 DEF Versions

(* A transfer the client accepts is no older than the list and the client   *)
(* takes the oldest BEGIN first.                                            *)
LEMMA AcceptKeepsVersions ==
  ASSUME IInv, Versions, NEW i \in 1..Len(toS3), NEW f, TakeS3(i, f), IsBegin(f),
         got'.kind = f.kind, got'.ver = f.ver,
         UNCHANGED <<cacheVars, sendVars, pickVars>>
  PROVE  Versions'
<1> USE DEF IInv, Typed
<1>1. UNCHANGED <<cache, pubs, installed, phase, snap>>
  BY DEF cacheVars, sendVars, pickVars
<1>2. IsPage(f)
  BY DEF IsPage, IsBegin
<1>3. /\ 1 \in 1..Len(toS3) /\ f = toS3[1] /\ toS3' = RemoveAt(toS3, 1) /\ f \in ToSet(toS3)
      /\ \A g \in ToSet(toS3') : \E j \in 1..Len(toS3) : g = toS3[j] /\ 1 < j
      /\ ToSet(toS3') \subseteq ToSet(toS3)
  BY <1>2, TakenFirst, TakeS3Typed
<1>4. CacheNewest' /\ InstalledKnown' /\ SnapNewer'
  BY <1>1 DEF Versions, CacheNewest, InstalledKnown, SnapNewer
<1>5. BeginsNewer' /\ BeginsSent'
  BY <1>1, <1>3 DEF Versions, BeginsNewer, BeginsSent, IsBegin
<1>6. BeginsInOrder'
  BY <1>3, BeginsInOrderKept DEF Versions
<1>7. TakingNewer'
  <2>1. installed[f.kind] <= f.ver
    BY <1>3 DEF Versions, BeginsNewer
  <2>2. ASSUME NEW g \in ToSet(toS3'), IsBegin(g), g.kind = f.kind
        PROVE  f.ver <= g.ver
    <3>1. PICK j \in 1..Len(toS3) : g = toS3[j] /\ 1 < j
      BY <1>3
    <3> QED
      BY <1>3, <2>2, <3>1 DEF Versions, BeginsInOrder
  <2>3. phase # "IDLE" /\ pubs[snap].kind = f.kind => f.ver <= snap
    BY <1>3 DEF Versions, BeginsSent
  <2> QED
    BY <1>1, <2>1, <2>2, <2>3 DEF TakingNewer, IsBegin
<1> QED
  BY <1>4, <1>5, <1>6, <1>7 DEF Versions

(* A page that is used is no newer than what is under way for its list.     *)
LEMMA InstallKeepsVersions ==
  ASSUME IInv, Fidelity, Versions, TakeCompleted, Usable
  PROVE  Versions'
<1> USE DEF IInv, Typed
<1>1. /\ completed /\ InstallPage /\ completed' = FALSE /\ UNCHANGED <<mode, got>>
      /\ UNCHANGED <<toS3, cache, pubs, phase, snap>>
  BY DEF TakeCompleted, Usable, linkVars, cacheVars, sendVars
<1>2. /\ mode # "receiving" /\ got.kind \in Kinds
      /\ got.ver \in 1..Len(pubs) /\ got.kind = pubs[got.ver].kind
  BY <1>1 DEF Holding, Fidelity, Completed, CompletedIsPublished
<1>3. /\ installed'[got.kind] = got.ver
      /\ \A k \in Kinds \ {got.kind} : installed'[k] = installed[k]
  BY <1>1, <1>2 DEF InstallPage, PickerTyped
<1>4. /\ \A f \in ToSet(toS3) : IsBegin(f) /\ f.kind = got.kind => got.ver <= f.ver
      /\ phase # "IDLE" /\ pubs[snap].kind = got.kind => got.ver <= snap
  BY <1>1 DEF Versions, TakingNewer, Taking
<1>5. CacheNewest' /\ BeginsInOrder' /\ BeginsSent'
  BY <1>1 DEF Versions, CacheNewest, BeginsInOrder, BeginsSent, IsBegin
<1>6. InstalledKnown'
  BY <1>1, <1>2, <1>3 DEF Versions, InstalledKnown
<1>7. BeginsNewer'
  <2>1. ASSUME NEW f \in ToSet(toS3), IsBegin(f)
        PROVE  installed'[f.kind] <= f.ver
    BY <1>3, <1>4, <2>1, BeginsTyped DEF Versions, BeginsNewer
  <2> QED
    BY <1>1, <2>1 DEF BeginsNewer, IsBegin
<1>8. SnapNewer'
  <2>1. phase # "IDLE" => pubs[snap].kind \in Kinds
    BY PublicationsTyped DEF Sending
  <2> QED
    BY <1>1, <1>3, <1>4, <2>1 DEF Versions, SnapNewer
<1>9. TakingNewer'
  BY <1>1, <1>2 DEF TakingNewer, Taking
<1> QED
  BY <1>5, <1>6, <1>7, <1>8, <1>9 DEF Versions

(* The same for a step that leaves caches and lists alone.                  *)
LEMMA StaysInOrder ==
  ASSUME IInv, Versions, NoPageSent, SnapRests, TakingRests, UNCHANGED <<cacheVars, installed>>
  PROVE  Versions'
<1>1. CacheNewest'
  BY DEF Versions, CacheNewest, cacheVars
<1> QED
  BY <1>1, PubsStay, RestsKeepVersions

(* The steps of the server keep the versions in order.                      *)
LEMMA ServerKeepsVersions ==
  ASSUME IInv, Fidelity, Versions, BridgeStep
  PROVE  Versions'
<1> USE DEF IInv, Typed
<1>1. ASSUME UNCHANGED <<recvVars, cacheVars, pickVars>>, NoPageSent, SnapRests
      PROVE  Versions'
  BY <1>1, StaysInOrder DEF TakingRests, Taking, recvVars, pickVars
<1>2. ASSUME NEW i \in 1..Len(toBridge), HandleRequest(i)
      PROVE  Versions'
  <2> DEFINE f == toBridge[i]
  <2>1. /\ f.type = "REQUEST" /\ TakeBridge(i, f) /\ UNCHANGED <<cacheVars, recvVars, pickVars>>
        /\ \/ toS3' = Offer(toS3, Error(1)) /\ UNCHANGED sendVars
           \/ cache[f.kind] # 0 /\ StartTransfer(f.kind) /\ UNCHANGED toS3
           \/ toS3' = Offer(toS3, Error(2)) /\ UNCHANGED sendVars
    BY <1>2 DEF HandleRequest
  <2> HIDE DEF f
  <2>2. CASE cache[f.kind] # 0 /\ StartTransfer(f.kind) /\ UNCHANGED toS3
    <3>1. f.kind \in Kinds
      BY <2>1, TakeBridgeTyped, FramesTyped
    <3> QED
      BY <2>1, <2>2, <3>1, StartKeepsVersions
  <2>3. CASE (toS3' = Offer(toS3, Error(1)) \/ toS3' = Offer(toS3, Error(2))) /\ UNCHANGED sendVars
    <3>1. NoPageSent
      BY <2>3, SmallFramesTyped DEF NoPageSent, IsPage, Error
    <3>2. SnapRests
      BY <2>3 DEF SnapRests, sendVars
    <3> QED
      BY <1>1, <2>1, <3>1, <3>2
  <2> QED
    BY <2>1, <2>2, <2>3
<1>3. ASSUME NEW i \in 1..Len(toBridge), HandleAck(i)
      PROVE  Versions'
  <2>1. /\ UNCHANGED <<toS3, cacheVars, recvVars, pickVars>>
        /\ \/ AckMatches(toBridge[i]) /\ AdvanceOnAck(toBridge[i])
           \/ UNCHANGED sendVars
    BY <1>3 DEF HandleAck
  <2>2. SnapRests
    BY <2>1 DEF SnapRests, AckMatches, AdvanceOnAck, sendVars
  <2> QED
    BY <1>1, <2>1, <2>2 DEF NoPageSent
<1>4. ASSUME NEW i \in 1..Len(toBridge), BridgeHello(i)
      PROVE  Versions'
  BY <1>1, <1>4 DEF BridgeHello, ResetTransfer, NoPageSent, SnapRests
<1>5. CASE PollSend
  BY <1>5, SendKeepsVersions
<1>6. CASE StallTimeout
  BY <1>1, <1>6 DEF StallTimeout, ResetTransfer, linkVars, NoPageSent, SnapRests
<1> QED
  BY <1>2, <1>3, <1>4, <1>5, <1>6 DEF BridgeStep

(* The handlers of the S3, its requests and its timers do so as well.       *)
LEMMA ClientKeepsVersions ==
  ASSUME IInv, Fidelity, Versions, S3Step
  PROVE  Versions'
<1> USE DEF IInv, Typed
<1>1. ASSUME UNCHANGED <<cacheVars, sendVars, installed>>, NoPageSent, TakingRests
      PROVE  Versions'
  BY <1>1, StaysInOrder DEF SnapRests, sendVars
<1>2. ASSUME NEW i \in 1..Len(toS3), NEW f, TakeS3(i, f)
      PROVE  NoPageSent
  BY <1>2 DEF TakeS3, NoPageSent
<1>3. Fail \/ UNCHANGED <<mode, got, completed>> => TakingRests
  BY DEF Fail, TakingRests, Taking
<1>4. ASSUME NEW i \in 1..Len(toS3), ReceiveBegin(i)
      PROVE  Versions'
  <2> DEFINE f == toS3[i]
  <2>1. /\ f.type = "BEGIN" /\ TakeS3(i, f) /\ UNCHANGED <<cacheVars, sendVars, pickVars>>
        /\ UNCHANGED recvVars \/ (got'.kind = f.kind /\ got'.ver = f.ver)
    BY <1>4 DEF ReceiveBegin
  <2> HIDE DEF f
  <2>2. CASE UNCHANGED recvVars
    BY <1>1, <1>2, <1>3, <2>1, <2>2 DEF recvVars, pickVars
  <2>3. CASE got'.kind = f.kind /\ got'.ver = f.ver
    BY <2>1, <2>3, AcceptKeepsVersions DEF IsBegin
  <2> QED
    BY <2>1, <2>2, <2>3
<1>5. ASSUME NEW i \in 1..Len(toS3), ReceiveChunk(i)
      PROVE  Versions'
  <2>1. /\ TakeS3(i, toS3[i]) /\ UNCHANGED <<cacheVars, sendVars, pickVars>>
        /\ Fail \/ UNCHANGED <<mode, got, completed>>
    BY <1>5 DEF ReceiveChunk, recvVars
  <2> QED
    BY <1>1, <1>2, <1>3, <2>1 DEF pickVars
<1>6. ASSUME NEW i \in 1..Len(toS3), ReceiveEnd(i)
      PROVE  Versions'
  <2>1. /\ TakeS3(i, toS3[i]) /\ UNCHANGED <<cacheVars, sendVars, pickVars>>
        /\ \/ Fail \/ UNCHANGED <<mode, got, completed>>
           \/ mode = "receiving" /\ UNCHANGED got
    BY <1>6 DEF ReceiveEnd, recvVars
  <2>2. TakingRests
    BY <1>3, <2>1 DEF TakingRests, Taking
  <2> QED
    BY <1>1, <1>2, <2>1, <2>2 DEF pickVars
<1>7. ASSUME NEW i \in 1..Len(toS3), ReceiveError(i) \/ ReceiveChanged(i) \/ ReceiveHello(i)
      PROVE  Versions'
  <2>1. /\ \E f : TakeS3(i, f)
        /\ UNCHANGED <<cacheVars, sendVars, installed>>
        /\ Fail \/ UNCHANGED <<mode, got, completed>>
    BY <1>7 DEF ReceiveError, ReceiveChanged, ReceiveHello, recvVars, pickVars
  <2> QED
    BY <1>1, <1>2, <1>3, <2>1
<1>8. CASE SendRequest
  <2>1. toS3' = toS3 /\ UNCHANGED <<cacheVars, sendVars, installed, completed>> /\ mode' = "waiting"
        /\ ~ completed
    BY <1>8 DEF SendRequest
  <2> QED
    BY <1>1, <2>1 DEF NoPageSent, TakingRests, Taking
<1>9. CASE RequestDue \/ ClientTimeout \/ CooldownOver
  <2>1. /\ toS3' = toS3 /\ UNCHANGED <<cacheVars, sendVars, installed>>
        /\ Fail \/ UNCHANGED <<mode, got, completed>>
    BY <1>9 DEF RequestDue, ClientTimeout, CooldownOver, linkVars, recvVars, pickVars
  <2> QED
    BY <1>1, <1>3, <2>1 DEF NoPageSent
<1>10. CASE TakeCompleted /\ Usable
  BY <1>10, InstallKeepsVersions
<1>11. CASE TakeCompleted /\ ~ Usable
  <2>1. /\ toS3' = toS3 /\ UNCHANGED <<cacheVars, sendVars, installed>>
        /\ completed' = FALSE /\ mode' # "receiving"
    BY <1>11 DEF TakeCompleted, Fail, Holding, linkVars, pickVars
  <2> QED
    BY <1>1, <2>1 DEF NoPageSent, TakingRests, Taking
<1> QED
  BY <1>4, <1>5, <1>6, <1>7, <1>8, <1>9, <1>10, <1>11 DEF S3Step

(* And every publication, selection, loss, outage and restart.              *)
LEMMA EnvironmentKeepsVersions ==
  ASSUME IInv, Versions, Environment
  PROVE  Versions'
<1> USE DEF IInv, Typed
<1>1. CASE \E k \in Kinds, b \in Blobs, c \in 0..MaxSelections : Publish(k, b, c)
  <2>1. PICK k \in Kinds, b \in Blobs, c \in 0..MaxSelections : Publish(k, b, c)
    BY <1>1
  <2> DEFINE page == [kind |-> k, blob |-> b, ctx |-> c]
  <2>2. /\ pubs' = Append(pubs, page) /\ cache' = [cache EXCEPT ![k] = Len(pubs')]
        /\ toS3' = Offer(toS3, Changed(k))
        /\ UNCHANGED <<sendVars, recvVars, installed>>
    BY <2>1 DEF Publish
  <2>3. /\ pubs \in Seq(Publication) /\ page \in Publication
        /\ cache \in [Kinds -> Nat]
    BY DEF BridgeTyped, Publication
  <2>4. /\ Len(pubs') = Len(pubs) + 1 /\ pubs'[Len(pubs) + 1] = page /\ Len(pubs) \in Nat
        /\ \A v \in 1..Len(pubs) : pubs'[v] = pubs[v]
    BY <2>2, <2>3, Appended
  <2>5. CacheNewest'
    <3>1. ASSUME NEW l \in Kinds, cache'[l] # 0, NEW v \in 1..Len(pubs'), pubs'[v].kind = l
          PROVE  v <= cache'[l]
      <4>1. CASE l = k
        BY <2>2, <2>3, <2>4, <4>1
      <4>2. CASE l # k
        <5>1. cache'[l] = cache[l]
          BY <2>2, <2>3, <4>2
        <5>2. v \in 1..Len(pubs)
          BY <2>4, <3>1, <4>2
        <5> QED
          BY <2>4, <3>1, <5>1, <5>2 DEF Versions, CacheNewest
      <4> QED
        BY <4>1, <4>2
    <3> QED
      BY <3>1 DEF CacheNewest
  <2>6. PubsGrow
    BY <2>4 DEF PubsGrow
  <2>7. NoPageSent
    BY <2>2, SmallFramesTyped DEF NoPageSent, IsPage, Changed
  <2>8. SnapRests /\ TakingRests /\ installed' = installed
    BY <2>2 DEF SnapRests, TakingRests, Taking, sendVars, recvVars
  <2> QED
    BY <2>5, <2>6, <2>7, <2>8, RestsKeepVersions
<1>2. CASE SelectPlaylist \/ BridgeAvailable \/ BridgeUnavailable \/ LinkLost
  <2>1. /\ UNCHANGED <<linkVars, cacheVars, sendVars, installed>>
        /\ (mode' = "idle" /\ ~ completed') \/ UNCHANGED recvVars
    BY <1>2 DEF SelectPlaylist, BridgeAvailable, BridgeUnavailable, LinkLost, ResetClient, pickVars
  <2>2. NoPageSent /\ SnapRests /\ TakingRests
    BY <2>1 DEF NoPageSent, SnapRests, TakingRests, Taking, linkVars, sendVars, recvVars
  <2> QED
    BY <2>1, <2>2, StaysInOrder
<1>3. CASE LoseFrame
  <2>1. /\ UNCHANGED <<cacheVars, sendVars, recvVars, pickVars>>
        /\ toS3' = toS3 \/ \E i \in 1..Len(toS3) : toS3' = RemoveAt(toS3, i)
    BY <1>3 DEF LoseFrame
  <2>2. NoPageSent /\ SnapRests /\ TakingRests
    BY <2>1 DEF NoPageSent, SnapRests, TakingRests, Taking, sendVars, recvVars
  <2> QED
    BY <2>1, <2>2, StaysInOrder DEF pickVars
<1>4. CASE BridgeDown
  <2>1. /\ toS3' = toS3 /\ phase' = "IDLE" /\ cache' = [k \in Kinds |-> 0]
        /\ UNCHANGED <<pubs, recvVars, pickVars>>
    BY <1>4 DEF BridgeDown
  <2>2. NoPageSent /\ SnapRests /\ TakingRests /\ CacheNewest' /\ PubsGrow
    BY <2>1 DEF NoPageSent, SnapRests, TakingRests, Taking, CacheNewest, PubsGrow, recvVars
  <2> QED
    BY <2>1, <2>2, RestsKeepVersions DEF pickVars
<1>5. CASE BridgeBoot
  <2>1. /\ toS3 = <<>> /\ toS3' = <<Hello>>
        /\ UNCHANGED <<phase, snap, cacheVars, recvVars, pickVars>>
    BY <1>5 DEF BridgeBoot
  <2>2. Offer(toS3, Hello) = <<Hello>>
    BY <2>1, BoundsAssumption DEF Offer
  <2>3. NoPageSent
    BY <2>1, <2>2, SmallFramesTyped DEF NoPageSent, IsPage, Hello
  <2>4. SnapRests /\ TakingRests
    BY <2>1 DEF SnapRests, TakingRests, Taking, recvVars
  <2> QED
    BY <2>1, <2>3, <2>4, StaysInOrder DEF pickVars
<1>6. CASE S3Restart
  <2>1. /\ toS3' = <<>> /\ mode' = "idle" /\ ~ completed' /\ UNCHANGED <<cacheVars, sendVars>>
        /\ installed' = [k \in Kinds |-> 0]
    BY <1>6 DEF S3Restart
  <2>2. NoPageSent /\ SnapRests /\ TakingRests /\ CacheNewest' /\ PubsGrow
    BY <2>1, PubsStay DEF NoPageSent, SnapRests, TakingRests, Taking, Versions, CacheNewest,
       sendVars, cacheVars
  <2> QED
    BY <2>1, <2>2, RestsKeepVersions
<1> QED
  BY <1>1, <1>2, <1>3, <1>4, <1>5, <1>6 DEF Environment

(* The order of the versions, from the start and for ever.                  *)
LEMMA InOrder ==
  ASSUME MaxTransfers <= MaxId
  PROVE  Spec => []Versions
<1>1. Init => Versions
  <2>1. SUFFICES ASSUME Init PROVE Versions
    OBVIOUS
  <2>2. /\ toS3 = <<>> /\ ToSet(toS3) = {} /\ Len(toS3) = 0
    BY <2>1 DEF Init, ToSet
  <2> QED
    BY <2>1, <2>2
    DEF Init, Versions, CacheNewest, InstalledKnown, BeginsNewer, BeginsInOrder, BeginsSent,
        SnapNewer, TakingNewer, Taking
<1>2. ASSUME IInv, Fidelity, Versions, [Next]_vars
      PROVE  Versions'
  <2>1. CASE SlotKept
    <3>1. UNCHANGED <<linkVars, sendVars, cacheVars, recvVars, pickVars>>
      BY <2>1 DEF SlotKept
    <3>2. NoPageSent /\ SnapRests /\ TakingRests
      BY <3>1 DEF NoPageSent, SnapRests, TakingRests, Taking, linkVars, sendVars, recvVars
    <3> QED
      BY <1>2, <3>1, <3>2, StaysInOrder DEF pickVars
  <2> QED
    BY <1>2, <2>1, ServerKeepsVersions, ClientKeepsVersions, EnvironmentKeepsVersions,
       SlotSteps
    DEF Next
<1> QED
  BY <1>1, <1>2, Inductive, Faithful, PTL DEF Spec

------------------------------------------------------------------------------
(* The lists implement the catalogue *)

(* What a step does to the publications and to the lists.                   *)
LEMMA CatalogSteps ==
  ASSUME [Next]_vars
  PROVE  \/ UNCHANGED <<pubs, shelf, installed>>
         \/ \E k \in Kinds, b \in Blobs, c \in 0..MaxSelections : Publish(k, b, c)
         \/ completed /\ Usable /\ InstallPage /\ UNCHANGED pubs
         \/ SelectPlaylist
         \/ S3Restart
<1> USE DEF pickVars, cacheVars
<1>1. CASE BridgeStep
  BY <1>1 DEF BridgeStep, HandleRequest, HandleAck, BridgeHello, PollSend, StallTimeout
<1>2. CASE S3Step
  <2>1. CASE TakeCompleted
    BY <2>1 DEF TakeCompleted
  <2>2. CASE SendRequest \/ RequestDue \/ ClientTimeout \/ CooldownOver
    BY <2>2 DEF SendRequest, RequestDue, ClientTimeout, CooldownOver
  <2>3. CASE \E i \in 1..Len(toS3) :
               \/ ReceiveBegin(i) \/ ReceiveChunk(i) \/ ReceiveEnd(i)
               \/ ReceiveError(i) \/ ReceiveChanged(i) \/ ReceiveHello(i)
    BY <2>3 DEF ReceiveBegin, ReceiveChunk, ReceiveEnd, ReceiveError, ReceiveChanged,
                ReceiveHello
  <2> QED
    BY <1>2, <2>1, <2>2, <2>3 DEF S3Step
<1>3. CASE Environment
  BY <1>3 DEF Environment, BridgeAvailable, BridgeUnavailable, LinkLost, LoseFrame,
              BridgeDown, BridgeBoot
<1>4. CASE SlotKept
  BY <1>4 DEF SlotKept
<1> QED
  BY <1>1, <1>2, <1>3, <1>4, SlotSteps DEF Next

(* A page that is used is a whole publication, put on top of the pages      *)
(* before it and no older than the page the list took last.                 *)
LEMMA InstallIsInstall ==
  ASSUME IInv, Fidelity, Versions, completed, Usable, InstallPage, UNCHANGED pubs
  PROVE  got.ver \in 1..Len(pubs) /\ Catalog!Install(got.ver)
<1> DEFINE page == pubs[got.ver]
<1>1. /\ got.ver \in 1..Len(pubs) /\ bytes = page.blob /\ got.kind = page.kind
      /\ got.ctx = page.ctx
  BY DEF Fidelity, Completed, CompletedIsPublished
<1>2. installed[got.kind] <= got.ver
  BY DEF Versions, TakingNewer, Taking
<1>3. PagePos[bytes] <= Len(shelf[got.kind])
  BY PageInstalled
<1>4. installed' = [installed EXCEPT ![got.kind] = got.ver]
  BY DEF InstallPage
<1>5. shelf' = [shelf EXCEPT ![got.kind] =
         Append(SubSeq(shelf[got.kind], 1, PagePos[bytes]),
                [blob |-> bytes, ctx |-> got.ctx, ver |-> got.ver])]
  BY DEF InstallPage, RowsBefore
<1> HIDE DEF page
<1>6. /\ installed[page.kind] <= got.ver /\ PagePos[page.blob] <= Len(shelf[page.kind])
      /\ installed' = [installed EXCEPT ![page.kind] = got.ver]
      /\ shelf' = [shelf EXCEPT ![page.kind] =
           Append(SubSeq(@, 1, PagePos[page.blob]),
                  [blob |-> page.blob, ctx |-> page.ctx, ver |-> got.ver])]
  BY <1>1, <1>2, <1>3, <1>4, <1>5
<1> QED
  BY <1>1, <1>6 DEF page, Catalog!Install

(* Every step is a step of the catalogue or invisible to it.                *)
LEMMA StepIsCatalogStep ==
  ASSUME IInv, Fidelity, Versions, [Next]_vars
  PROVE  [Catalog!Next]_(Catalog!vars)
<1> USE DEF Catalog!vars
<1>1. CASE UNCHANGED <<pubs, shelf, installed>>
  BY <1>1
<1>2. CASE \E k \in Kinds, b \in Blobs, c \in 0..MaxSelections : Publish(k, b, c)
  <2>1. PICK k \in Kinds, b \in Blobs, c \in 0..MaxSelections : Publish(k, b, c)
    BY <1>2
  <2> DEFINE page == [kind |-> k, blob |-> b, ctx |-> c]
  <2>2. pubs' = Append(pubs, page) /\ UNCHANGED <<installed, shelf>>
    BY <2>1 DEF Publish
  <2>3. pubs \in Seq(Publication) /\ page \in Publication
    BY DEF IInv, Typed, BridgeTyped, Publication
  <2> HIDE DEF page
  <2>4. Len(pubs') = Len(pubs) + 1 /\ SubSeq(pubs', 1, Len(pubs)) = pubs
    BY <2>2, <2>3
  <2> QED
    BY <2>2, <2>4 DEF Catalog!Next, Catalog!Publish
<1>3. CASE completed /\ Usable /\ InstallPage /\ UNCHANGED pubs
  BY <1>3, InstallIsInstall DEF Catalog!Next
<1>4. CASE SelectPlaylist
  BY <1>4 DEF SelectPlaylist, cacheVars, Catalog!Next, Catalog!Clear
<1>5. CASE S3Restart
  BY <1>5 DEF S3Restart, cacheVars, Catalog!Next, Catalog!Restart
<1>6. \/ UNCHANGED <<pubs, shelf, installed>>
      \/ \E k \in Kinds, b \in Blobs, c \in 0..MaxSelections : Publish(k, b, c)
      \/ completed /\ Usable /\ InstallPage /\ UNCHANGED pubs
      \/ SelectPlaylist
      \/ S3Restart
  BY CatalogSteps
<1> QED
  BY <1>1, <1>2, <1>3, <1>4, <1>5, <1>6

(* The lists of the S3 are those of LibraryCatalog: assembled from whole    *)
(* publications, each put where it belongs and never replaced by an older   *)
(* one, whatever the Bridge refreshes while a page is under way, whichever  *)
(* processor restarts and whatever is lost, repeated or late on the link.   *)
THEOREM Refinement ==
  ASSUME MaxTransfers <= MaxId
  PROVE  Spec => ImplementsCatalog
<1>1. Init => Catalog!Init
  BY DEF Init, Catalog!Init
<1> QED
  BY <1>1, StepIsCatalogStep, Inductive, Faithful, InOrder, PTL
  DEF Spec, ImplementsCatalog, Catalog!Spec

------------------------------------------------------------------------------
(* Timeouts on a healthy link.  With nothing lost and no fault the two ends *)
(* go through the states of one exchange at a time: nothing requested, or a *)
(* phase whose frame is still to be sent or under way, or the               *)
(* acknowledgement of that frame under way.                                 *)

(* The queue q holds no frame of the types T; it holds f and no other. *)
Without(q, T) == \A i \in 1..Len(q) : q[i].type \notin T
Single(q, T, f) ==
  \E i \in 1..Len(q) : /\ q[i] = f /\ f.type \in T
                       /\ \A j \in 1..Len(q) : q[j].type \in T => j = i
Keeps(q, r, T) ==
  /\ Without(q, T) => Without(r, T)
  /\ \A f : Single(q, T, f) => Single(r, T, f)

Bulk == {"BEGIN", "CHUNK", "END"}

NoRequest == Without(toBridge, {"REQUEST"}) /\ Without(toS3, {"ERROR"})

(* A client that receives nothing: when it waits, its request or the error  *)
(* that answers it is under way.                                            *)
Asking ==
  /\ mode # "receiving"
  /\ mode # "waiting" => NoRequest
  /\ mode = "waiting" =>
       \/ Single(toBridge, {"REQUEST"}, Request(wanted)) /\ Without(toS3, {"ERROR"})
       \/ Without(toBridge, {"REQUEST"}) /\ \E f : Single(toS3, {"ERROR"}, f)

(* A client that receives the page the server sends. *)
Collecting ==
  /\ mode = "receiving" /\ NoRequest
  /\ got.id = transferId /\ got.total = ActiveSize
  /\ Len(bytes) <= ActiveSize
  /\ \A i \in 1..Len(bytes) : bytes[i] = ActivePage.blob[i]

(* The frame poll_send builds in a phase. *)
CurrentFrame ==
  CASE phase = "BEGIN" -> Begin(transferId, ActivePage.kind, ActiveSize, ActivePage.ctx, snap)
    [] phase = "CHUNK" -> Chunk(transferId, offset, ActivePage.blob[offset + 1], snap)
    [] phase = "END"   -> End(transferId, ActiveSize, Crc(ActivePage.blob), snap)

Resting ==
  /\ phase = "IDLE" /\ ~ awaiting
  /\ Without(toS3, Bulk) /\ Without(toBridge, {"ACK"})
  /\ Asking
Delivering ==
  /\ phase # "IDLE" /\ Without(toBridge, {"ACK"})
  /\ \/ ~ awaiting /\ Without(toS3, Bulk)
     \/ awaiting /\ Single(toS3, Bulk, CurrentFrame)
  /\ phase = "BEGIN" => mode = "waiting" /\ wanted = ActivePage.kind /\ NoRequest
  /\ phase = "CHUNK" => Collecting /\ Len(bytes) = offset
  /\ phase = "END" => Collecting /\ Len(bytes) = ActiveSize
Answered ==
  /\ phase # "IDLE" /\ awaiting /\ Without(toS3, Bulk)
  /\ Single(toBridge, {"ACK"}, Ack(transferId, ExpectedAck))
  /\ phase = "BEGIN" => Collecting /\ bytes = <<>>
  /\ phase = "CHUNK" => Collecting /\ Len(bytes) = offset + 1
  /\ phase = "END" => Asking

Exchanging ==
  /\ up /\ Without(toS3, {"HELLO"}) /\ Without(toBridge, {"HELLO"})
  /\ Resting \/ Delivering \/ Answered
Undisturbed == losses = 0 /\ faults = 0 /\ slow = 0
Healthy == Undisturbed => Exchanging

(* A transfer is overdue only after a picture has held the slot for 2 s.    *)
OnTime == slow \in Nat /\ (slow = 0 => ~ overdue)

(* Announcements alone never fill the queue of the S3. *)
OnlyAnnounced == Without(toS3, Bulk \cup {"ERROR"})
AnnouncementsFit == OnlyAnnounced => Len(toS3) < QueueSize

(* A frame that is taken away leaves the frames of other types alone.       *)
LEMMA TakenAway ==
  ASSUME NEW S, NEW q \in Seq(S), NEW i \in 1..Len(q), NEW r, r = RemoveAt(q, i), NEW T
  PROVE  /\ Without(q, T) => Without(r, T)
         /\ q[i].type \notin T => Keeps(q, r, T)
         /\ q[i].type \in T => \A f : Single(q, T, f) => q[i] = f /\ Without(r, T)
<1>1. /\ r \in Seq(S) /\ Len(r) = Len(q) - 1
      /\ \A j \in 1..(Len(q) - 1) : r[j] = IF j < i THEN q[j] ELSE q[j + 1]
  BY RemoveAtElements, Zenon
<1>2. ASSUME NEW j \in 1..Len(r)
      PROVE  \E m \in 1..Len(q) : r[j] = q[m] /\ m # i /\ (m = j \/ m = j + 1) /\ (j < i => m = j)
                                  /\ (~ (j < i) => m = j + 1)
  <2>1. j \in 1..(Len(q) - 1) /\ j \in 1..Len(q) /\ j + 1 \in 1..Len(q)
    BY <1>1
  <2> QED
    BY <1>1, <2>1
<1>3. Without(q, T) => Without(r, T)
  BY <1>2 DEF Without
<1>4. ASSUME NEW f, Single(q, T, f)
      PROVE  /\ q[i].type \notin T => Single(r, T, f)
             /\ q[i].type \in T => q[i] = f /\ Without(r, T)
  <2>1. PICK n \in 1..Len(q) : /\ q[n] = f /\ f.type \in T
                               /\ \A j \in 1..Len(q) : q[j].type \in T => j = n
    BY <1>4 DEF Single
  <2>2. CASE q[i].type \in T
    <3>1. i = n
      BY <2>1, <2>2
    <3>2. Without(r, T)
      BY <1>2, <2>1, <3>1 DEF Without
    <3> QED
      BY <2>1, <2>2, <3>1, <3>2
  <2>3. CASE q[i].type \notin T
    <3> DEFINE k == IF n < i THEN n ELSE n - 1
    <3>1. n # i
      BY <2>1, <2>3
    <3>2. k \in 1..Len(r) /\ k \in 1..(Len(q) - 1) /\ (k < i <=> n < i) /\ (~ (n < i) => k + 1 = n)
      BY <1>1, <3>1
    <3>3. r[k] = f
      BY <1>1, <2>1, <3>2
    <3>4. ASSUME NEW j \in 1..Len(r), r[j].type \in T
          PROVE  j = k
      <4>1. PICK m \in 1..Len(q) : r[j] = q[m] /\ (j < i => m = j) /\ (~ (j < i) => m = j + 1)
        BY <1>2
      <4>2. m = n
        BY <2>1, <3>4, <4>1
      <4> QED
        BY <4>1, <4>2
    <3> HIDE DEF k
    <3> QED
      BY <2>1, <2>3, <3>2, <3>3, <3>4 DEF Single
  <2> QED
    BY <2>2, <2>3
<1> QED
  BY <1>3, <1>4 DEF Keeps

(* So does one that is appended.                                            *)
LEMMA PutIn ==
  ASSUME NEW S, NEW q \in Seq(S), NEW g, NEW r, r = Append(q, g), NEW T
  PROVE  /\ g.type \notin T => Keeps(q, r, T)
         /\ g.type \in T /\ Without(q, T) => Single(r, T, g)
         /\ Without(r, T) => Without(q, T)
<1>1. /\ Len(r) = Len(q) + 1 /\ r[Len(q) + 1] = g
      /\ \A i \in 1..Len(q) : r[i] = q[i]
  OBVIOUS
<1>2. Len(q) \in Nat
  OBVIOUS
<1>3. 1..Len(r) = 1..Len(q) \cup {Len(q) + 1} /\ Len(q) + 1 \notin 1..Len(q)
  BY <1>1, <1>2
<1>4. g.type \notin T /\ Without(q, T) => Without(r, T)
  BY <1>1, <1>3 DEF Without
<1>5. ASSUME g.type \notin T, NEW f, Single(q, T, f)
      PROVE  Single(r, T, f)
  BY <1>1, <1>3, <1>5 DEF Single
<1>6. g.type \in T /\ Without(q, T) => Single(r, T, g)
  BY <1>1, <1>3 DEF Without, Single
<1>7. Without(r, T) => Without(q, T)
  BY <1>1, <1>3 DEF Without
<1> QED
  BY <1>4, <1>5, <1>6, <1>7 DEF Keeps

(* A frame offered to a queue, or taken from it, that is not of the types T. *)
LEMMA OfferKeeps ==
  ASSUME NEW S, NEW q \in Seq(S), NEW g, NEW T, g.type \notin T
  PROVE  Keeps(q, Offer(q, g), T)
<1>1. CASE Offer(q, g) = q
  BY <1>1 DEF Keeps
<1>2. CASE Offer(q, g) = Append(q, g)
  BY <1>2, PutIn, Zenon
<1> QED
  BY <1>1, <1>2 DEF Offer

(* A queue that holds one frame of the types T holds it.                    *)
LEMMA SingleIn ==
  ASSUME NEW S, NEW q \in Seq(S), NEW T, NEW f, Single(q, T, f)
  PROVE  f \in ToSet(q) /\ f.type \in T /\ ~ Without(q, T) /\ q # <<>>
<1>1. PICK n \in 1..Len(q) : q[n] = f /\ f.type \in T
  BY DEF Single
<1>2. DOMAIN q = 1..Len(q) /\ Len(q) \in Nat
  OBVIOUS
<1> QED
  BY <1>1, <1>2 DEF ToSet, Without

(* What the receivers take from their queues.                               *)
LEMMA TakenFromS3 ==
  ASSUME LinkTyped, NEW i \in 1..Len(toS3), NEW f, TakeS3(i, f)
  PROVE  /\ \A T : Without(toS3, T) => f.type \notin T /\ Without(toS3', T)
         /\ \A T : f.type \notin T => Keeps(toS3, toS3', T)
         /\ \A T, g : f.type \in T /\ Single(toS3, T, g) => f = g /\ Without(toS3', T)
<1>1. toS3 \in Seq(FrameToS3) /\ f = toS3[i] /\ toS3' = RemoveAt(toS3, i)
  BY DEF LinkTyped, TakeS3
<1>2. ASSUME NEW T
      PROVE  /\ Without(toS3, T) => f.type \notin T /\ Without(toS3', T)
             /\ f.type \notin T => Keeps(toS3, toS3', T)
             /\ \A g : f.type \in T /\ Single(toS3, T, g) => f = g /\ Without(toS3', T)
  <2>1. /\ Without(toS3, T) => Without(toS3', T)
        /\ f.type \notin T => Keeps(toS3, toS3', T)
        /\ f.type \in T => \A g : Single(toS3, T, g) => f = g /\ Without(toS3', T)
    BY <1>1, TakenAway, Zenon
  <2>2. Without(toS3, T) => f.type \notin T
    BY <1>1 DEF Without
  <2> QED
    BY <2>1, <2>2
<1> QED
  BY <1>2

LEMMA TakenFromBridge ==
  ASSUME LinkTyped, NEW i \in 1..Len(toBridge), NEW f, TakeBridge(i, f)
  PROVE  /\ \A T : Without(toBridge, T) => f.type \notin T /\ Without(toBridge', T)
         /\ \A T : f.type \notin T => Keeps(toBridge, toBridge', T)
         /\ \A T, g : f.type \in T /\ Single(toBridge, T, g) => f = g /\ Without(toBridge', T)
<1>1. toBridge \in Seq(FrameToBridge) /\ f = toBridge[i] /\ toBridge' = RemoveAt(toBridge, i)
  BY DEF LinkTyped, TakeBridge
<1>2. ASSUME NEW T
      PROVE  /\ Without(toBridge, T) => f.type \notin T /\ Without(toBridge', T)
             /\ f.type \notin T => Keeps(toBridge, toBridge', T)
             /\ \A g : f.type \in T /\ Single(toBridge, T, g) => f = g /\ Without(toBridge', T)
  <2>1. /\ Without(toBridge, T) => Without(toBridge', T)
        /\ f.type \notin T => Keeps(toBridge, toBridge', T)
        /\ f.type \in T => \A g : Single(toBridge, T, g) => f = g /\ Without(toBridge', T)
    BY <1>1, TakenAway, Zenon
  <2>2. Without(toBridge, T) => f.type \notin T
    BY <1>1 DEF Without
  <2> QED
    BY <2>1, <2>2
<1> QED
  BY <1>2

(* A frame sent to the S3 next to announcements finds room.                 *)
LEMMA SentToS3 ==
  ASSUME LinkTyped, AnnouncementsFit, Without(toS3, Bulk), Without(toS3, {"ERROR"}),
         NEW g, toS3' = Offer(toS3, g)
  PROVE  /\ \A T : g.type \notin T => Keeps(toS3, toS3', T)
         /\ \A T : g.type \in T /\ Without(toS3, T) => Single(toS3', T, g)
<1>1. OnlyAnnounced
  BY DEF OnlyAnnounced, Without
<1>2. toS3' = Append(toS3, g) /\ toS3 \in Seq(FrameToS3)
  BY <1>1 DEF AnnouncementsFit, Offer, LinkTyped
<1>3. ASSUME NEW T
      PROVE  /\ g.type \notin T => Keeps(toS3, toS3', T)
             /\ g.type \in T /\ Without(toS3, T) => Single(toS3', T, g)
  BY <1>2, PutIn, Zenon
<1> QED
  BY <1>3

(* A frame sent to the Bridge finds at most an acknowledgement there.       *)
LEMMA SentToBridge ==
  ASSUME LinkTyped, up, 2 <= QueueSize,
         Without(toBridge, {"HELLO"}), Without(toBridge, {"REQUEST"}),
         Without(toBridge, {"ACK"}) \/ \E a : Single(toBridge, {"ACK"}, a),
         NEW g, toBridge' = OfferBridge(toBridge, g)
  PROVE  /\ \A T : g.type \notin T => Keeps(toBridge, toBridge', T)
         /\ \A T : g.type \in T /\ Without(toBridge, T) => Single(toBridge', T, g)
<1>1. toBridge \in Seq(FrameToBridge) /\ Len(toBridge) \in Nat
  BY DEF LinkTyped
<1>2. \A j \in 1..Len(toBridge) : toBridge[j].type = "ACK"
  <2>1. ASSUME NEW j \in 1..Len(toBridge)
        PROVE  toBridge[j].type \in {"REQUEST", "ACK", "HELLO"}
    BY <1>1, FramesTyped
  <2> QED
    BY <2>1 DEF Without
<1>3. Len(toBridge) < 2
  <2>1. CASE Without(toBridge, {"ACK"})
    <3>1. 1 \notin 1..Len(toBridge)
      BY <1>2, <2>1 DEF Without
    <3> QED
      BY <1>1, <3>1
  <2>2. ASSUME NEW a, Single(toBridge, {"ACK"}, a)
        PROVE  Len(toBridge) < 2
    <3>1. PICK n \in 1..Len(toBridge) : \A j \in 1..Len(toBridge) : j = n
      BY <1>2, <2>2 DEF Single
    <3>2. ~ (1 \in 1..Len(toBridge) /\ 2 \in 1..Len(toBridge))
      BY <3>1
    <3> QED
      BY <1>1, <3>2
  <2> QED
    BY <2>1, <2>2
<1>4. toBridge' = Append(toBridge, g)
  BY <1>1, <1>3, BoundsAssumption DEF OfferBridge, Offer
<1>5. ASSUME NEW T
      PROVE  /\ g.type \notin T => Keeps(toBridge, toBridge', T)
             /\ g.type \in T /\ Without(toBridge, T) => Single(toBridge', T, g)
  BY <1>1, <1>4, PutIn, Zenon
<1> QED
  BY <1>5

(* In a healthy exchange the peer of an open transfer is working on it, and *)
(* the server on what the client waits for.                                 *)
LEMMA BothEngaged ==
  ASSUME IInv, Exchanging
  PROVE  (phase # "IDLE" => PeerEngaged) /\ (Active => ServerEngaged)
<1>1. toBridge \in Seq(FrameToBridge) /\ toS3 \in Seq(FrameToS3) /\ phase \in Phases
  BY DEF IInv, Typed, LinkTyped, BridgeTyped, Phases
<1>2. ASSUME phase # "IDLE"
      PROVE  PeerEngaged
  <2>1. CASE Delivering
    BY <1>1, <1>2, <2>1 DEF Delivering, Collecting, PeerEngaged, Phases
  <2>2. CASE Answered
    <3>1. Ack(transferId, ExpectedAck) \in ToSet(toBridge)
      BY <1>1, <2>2, SingleIn, Zenon DEF Answered
    <3>2. AckMatches(Ack(transferId, ExpectedAck)) /\ Ack(transferId, ExpectedAck).type = "ACK"
      BY <2>2 DEF Answered, AckMatches, Ack
    <3> QED
      BY <3>1, <3>2 DEF PeerEngaged
  <2> QED
    BY <1>2, <2>1, <2>2 DEF Exchanging, Resting
<1>3. ASSUME Active, phase = "IDLE"
      PROVE  ServerEngaged
  <2>1. mode = "waiting" /\ Asking
    BY <1>3 DEF Exchanging, Resting, Delivering, Answered, Asking, Active
  <2>2. CASE Single(toBridge, {"REQUEST"}, Request(wanted))
    <3>1. Request(wanted) \in ToSet(toBridge) /\ Request(wanted).type = "REQUEST"
      BY <1>1, <2>2, SingleIn, Zenon DEF Request
    <3> QED
      BY <3>1 DEF ServerEngaged
  <2>3. ASSUME NEW f, Single(toS3, {"ERROR"}, f)
        PROVE  ServerEngaged
    <3>1. f \in ToSet(toS3) /\ f.type \in {"ERROR"}
      BY <1>1, <2>3, SingleIn, Zenon
    <3> QED
      BY <3>1 DEF ServerEngaged
  <2> QED
    BY <2>1, <2>2, <2>3 DEF Asking
<1> QED
  BY <1>2, <1>3 DEF ServerEngaged

(* A step that touches none of the frames of the exchange.                  *)
S3Side ==
  /\ Keeps(toS3, toS3', Bulk) /\ Keeps(toS3, toS3', {"ERROR"})
  /\ Keeps(toS3, toS3', {"HELLO"})
BridgeSide ==
  /\ Keeps(toBridge, toBridge', {"REQUEST"}) /\ Keeps(toBridge, toBridge', {"ACK"})
  /\ Keeps(toBridge, toBridge', {"HELLO"})
PageStays == phase # "IDLE" => ActivePage' = ActivePage

LEMMA SideStays ==
  /\ UNCHANGED toS3 => S3Side
  /\ UNCHANGED toBridge => BridgeSide
  BY DEF S3Side, BridgeSide, Keeps

LEMMA AskingKept ==
  ASSUME UNCHANGED <<mode, wanted>>, S3Side, BridgeSide
  PROVE  (Asking => Asking') /\ (NoRequest => NoRequest')
<1>1. NoRequest => NoRequest'
  BY DEF S3Side, BridgeSide, Keeps, NoRequest
<1>2. Request(wanted)' = Request(wanted)
  BY DEF Request
<1>3. /\ Single(toBridge, {"REQUEST"}, Request(wanted))
           => Single(toBridge', {"REQUEST"}, Request(wanted))
      /\ \A f : Single(toS3, {"ERROR"}, f) => Single(toS3', {"ERROR"}, f)
      /\ Without(toS3, {"ERROR"}) => Without(toS3', {"ERROR"})
      /\ Without(toBridge, {"REQUEST"}) => Without(toBridge', {"REQUEST"})
  BY DEF S3Side, BridgeSide, Keeps
<1>4. Single(toBridge, {"REQUEST"}, Request(wanted))'
        <=> Single(toBridge', {"REQUEST"}, Request(wanted))
  BY DEF Single, Request
<1>5. Asking => Asking'
  BY <1>1, <1>3, <1>4 DEF Asking
<1> QED
  BY <1>1, <1>5

LEMMA CollectingKept ==
  ASSUME UNCHANGED <<mode, got, bytes, transferId>>, ActivePage' = ActivePage,
         NoRequest', Collecting
  PROVE  Collecting'
<1>1. ActiveSize' = ActiveSize
  BY DEF ActiveSize
<1> QED
  BY <1>1 DEF Collecting

LEMMA FrameKept ==
  ASSUME UNCHANGED <<phase, transferId, offset, snap>>, ActivePage' = ActivePage
  PROVE  CurrentFrame' = CurrentFrame /\ ExpectedAck' = ExpectedAck /\ ActiveSize' = ActiveSize
<1>1. ActiveSize' = ActiveSize
  BY DEF ActiveSize
<1>2. ExpectedAck' = ExpectedAck
  BY <1>1 DEF ExpectedAck
<1>3. CurrentFrame' = CurrentFrame
  BY <1>1 DEF CurrentFrame
<1> QED
  BY <1>1, <1>2, <1>3

LEMMA ExchangeKept ==
  ASSUME Exchanging, UNCHANGED <<up, sendVars, mode, wanted, got, bytes>>,
         PageStays, S3Side, BridgeSide
  PROVE  Exchanging'
<1>1. up' /\ Without(toS3', {"HELLO"}) /\ Without(toBridge', {"HELLO"})
  BY DEF Exchanging, S3Side, BridgeSide, Keeps
<1>2. /\ Without(toS3, Bulk) => Without(toS3', Bulk)
      /\ \A f : Single(toS3, Bulk, f) => Single(toS3', Bulk, f)
      /\ Without(toBridge, {"ACK"}) => Without(toBridge', {"ACK"})
      /\ \A f : Single(toBridge, {"ACK"}, f) => Single(toBridge', {"ACK"}, f)
  BY DEF S3Side, BridgeSide, Keeps
<1>3. (Asking => Asking') /\ (NoRequest => NoRequest')
  BY AskingKept
<1>4. UNCHANGED <<phase, awaiting, transferId, offset, snap, mode, wanted, got, bytes>>
  BY DEF sendVars
<1>5. CASE Resting
  BY <1>1, <1>2, <1>3, <1>4, <1>5 DEF Exchanging, Resting
<1>6. ASSUME phase # "IDLE"
      PROVE  /\ CurrentFrame' = CurrentFrame /\ ExpectedAck' = ExpectedAck
             /\ ActiveSize' = ActiveSize /\ ActivePage' = ActivePage
             /\ Collecting => Collecting'
  <2>1. ActivePage' = ActivePage
    BY <1>6 DEF PageStays
  <2>2. CurrentFrame' = CurrentFrame /\ ExpectedAck' = ExpectedAck /\ ActiveSize' = ActiveSize
    BY <1>4, <2>1, FrameKept
  <2>3. Collecting => NoRequest
    BY DEF Collecting
  <2> QED
    BY <1>3, <1>4, <2>1, <2>2, <2>3, CollectingKept
<1>7. CASE Delivering
  <2>1. phase # "IDLE"
    BY <1>7 DEF Delivering
  <2>2. Delivering'
    BY <1>2, <1>3, <1>4, <1>6, <1>7, <2>1 DEF Delivering
  <2> QED
    BY <1>1, <2>2 DEF Exchanging
<1>8. CASE Answered
  <2>1. phase # "IDLE"
    BY <1>8 DEF Answered
  <2>2. Ack(transferId, ExpectedAck)' = Ack(transferId, ExpectedAck)
    BY <1>4, <1>6, <2>1 DEF Ack
  <2>3. Answered'
    BY <1>2, <1>3, <1>4, <1>6, <1>8, <2>1, <2>2 DEF Answered
  <2> QED
    BY <1>1, <2>3 DEF Exchanging
<1> QED
  BY <1>5, <1>7, <1>8 DEF Exchanging

(* When a request is under way nothing is that could be its answer.        *)
LEMMA RequestAlone ==
  ASSUME IInv, Exchanging, ~ Without(toBridge, {"REQUEST"})
  PROVE  /\ Resting \/ (Answered /\ phase = "END")
         /\ mode = "waiting" /\ Single(toBridge, {"REQUEST"}, Request(wanted))
         /\ Without(toS3, Bulk) /\ Without(toS3, {"ERROR"})
<1>1. phase \in Phases
  BY DEF IInv, Typed, BridgeTyped, Phases
<1>2. ~ NoRequest /\ ~ Collecting
  BY DEF NoRequest, Collecting
<1>3. /\ Resting \/ (Answered /\ phase = "END")
      /\ Asking /\ Without(toS3, Bulk)
  BY <1>1, <1>2 DEF Exchanging, Delivering, Answered, Resting, Phases
<1> QED
  BY <1>2, <1>3 DEF Asking

(* The server on a healthy link: a request is answered with an error or, if *)
(* nothing is open, begins a transfer of what the client waits for.         *)
LEMMA RequestExchange ==
  ASSUME IInv, Exchanging, AnnouncementsFit, Timely, ~ overdue,
         NEW i \in 1..Len(toBridge), HandleRequest(i)
  PROVE  Exchanging'
<1> USE DEF IInv, Typed
<1> DEFINE f == toBridge[i]
<1>1. /\ f.type = "REQUEST" /\ TakeBridge(i, f)
      /\ UNCHANGED <<up, mode, wanted, got, bytes>> /\ UNCHANGED pubs
      /\ \/ toS3' = Offer(toS3, Error(1)) /\ UNCHANGED sendVars
         \/ /\ cache[f.kind] # 0 /\ (phase = "IDLE" \/ Stalled)
            /\ StartTransfer(f.kind) /\ UNCHANGED toS3
         \/ toS3' = Offer(toS3, Error(2)) /\ UNCHANGED sendVars /\ phase # "IDLE"
  BY DEF HandleRequest, cacheVars, recvVars
<1> HIDE DEF f
<1>2. /\ \A T : Without(toBridge, T) => f.type \notin T /\ Without(toBridge', T)
      /\ \A T : f.type \notin T => Keeps(toBridge, toBridge', T)
      /\ \A T, g : f.type \in T /\ Single(toBridge, T, g) => f = g /\ Without(toBridge', T)
  BY <1>1, TakenFromBridge
<1>3. /\ Resting \/ (Answered /\ phase = "END")
      /\ mode = "waiting" /\ Single(toBridge, {"REQUEST"}, Request(wanted))
      /\ Without(toS3, Bulk) /\ Without(toS3, {"ERROR"})
  <2>1. ~ Without(toBridge, {"REQUEST"})
    BY <1>1, <1>2
  <2> QED
    BY <2>1, RequestAlone
<1>4. f = Request(wanted) /\ Without(toBridge', {"REQUEST"})
  BY <1>1, <1>2, <1>3
<1>5. /\ up' /\ Without(toBridge', {"HELLO"}) /\ Keeps(toBridge, toBridge', {"ACK"})
      /\ Without(toS3, {"HELLO"})
  BY <1>1, <1>2 DEF Exchanging
<1>6. ASSUME NEW c, toS3' = Offer(toS3, Error(c)), UNCHANGED sendVars
      PROVE  Exchanging'
  <2>1. /\ \A T : Error(c).type \notin T => Keeps(toS3, toS3', T)
        /\ \A T : Error(c).type \in T /\ Without(toS3, T) => Single(toS3', T, Error(c))
    BY <1>3, <1>6, SentToS3
  <2>2. Error(c).type = "ERROR"
    BY DEF Error
  <2>3. /\ Keeps(toS3, toS3', Bulk) /\ Keeps(toS3, toS3', {"HELLO"})
        /\ Single(toS3', {"ERROR"}, Error(c))
    BY <1>3, <1>4, <2>1, <2>2 DEF Bulk
  <2>4. Without(toS3', {"HELLO"}) /\ Without(toS3', Bulk)
    BY <1>3, <1>5, <2>3 DEF Keeps
  <2>5. mode' = "waiting" /\ Asking'
    BY <1>1, <1>3, <1>4, <2>3 DEF Asking
  <2>6. CASE Resting
    <3>1. Resting'
      BY <1>5, <1>6, <2>4, <2>5, <2>6 DEF Resting, sendVars, Keeps
    <3> QED
      BY <1>5, <2>4, <3>1 DEF Exchanging
  <2>7. CASE Answered /\ phase = "END"
    <3>1. UNCHANGED <<phase, awaiting, transferId, offset, snap>> /\ ActivePage' = ActivePage
      BY <1>1, <1>6 DEF sendVars, ActivePage
    <3>2. ExpectedAck' = ExpectedAck
      BY <3>1, FrameKept
    <3>3. Single(toBridge', {"ACK"}, Ack(transferId, ExpectedAck))
      BY <1>5, <2>7 DEF Answered, Keeps
    <3>4. Ack(transferId, ExpectedAck)' = Ack(transferId, ExpectedAck)
      BY <3>1, <3>2 DEF Ack
    <3>5. Answered'
      BY <2>4, <2>5, <2>7, <3>1, <3>3, <3>4 DEF Answered
    <3> QED
      BY <1>5, <2>4, <3>5 DEF Exchanging
  <2> QED
    BY <1>3, <2>6, <2>7
<1>7. ASSUME cache[f.kind] # 0, phase = "IDLE", StartTransfer(f.kind), UNCHANGED toS3
       PROVE  Exchanging'
  <2>1. f.kind = wanted /\ f.kind \in Kinds
    <3>1. f \in FrameToBridge
      BY <1>1, TakeBridgeTyped
    <3> QED
      BY <1>1, <1>3, <1>4, <3>1, FramesTyped DEF Request
  <2>2. pubs[cache[f.kind]].kind = wanted
    BY <1>7, <2>1 DEF Caching
  <2>3. /\ phase' = "BEGIN" /\ ~ awaiting' /\ snap' = cache[f.kind]
    BY <1>7 DEF StartTransfer
  <2>4. wanted' = ActivePage.kind' /\ mode' = "waiting"
    BY <1>1, <1>3, <1>4, <2>2, <2>3 DEF ActivePage
  <2>5. Resting
    BY <1>3, <1>7
  <2>6. /\ Without(toS3', Bulk) /\ Without(toS3', {"ERROR"}) /\ Without(toS3', {"HELLO"})
        /\ Without(toBridge', {"ACK"})
    BY <1>3, <1>5, <1>7, <2>5 DEF Resting, Keeps
  <2>7. NoRequest'
    BY <1>3, <1>4, <2>6 DEF NoRequest
  <2>8. Delivering'
    BY <2>3, <2>4, <2>6, <2>7 DEF Delivering
  <2> QED
    BY <1>5, <2>6, <2>8 DEF Exchanging
<1>8. Stalled => FALSE
  BY BothEngaged DEF Stalled
<1> QED
  BY <1>1, <1>6, <1>7, <1>8

(* An acknowledgement is the one the phase waits for.                       *)
LEMMA AckExchange ==
  ASSUME IInv, Exchanging, NEW i \in 1..Len(toBridge), HandleAck(i)
  PROVE  Exchanging'
<1> USE DEF IInv, Typed
<1> DEFINE f == toBridge[i]
<1>1. /\ f.type = "ACK" /\ TakeBridge(i, f)
      /\ UNCHANGED <<toS3, up, mode, wanted, got, bytes>> /\ UNCHANGED pubs
      /\ AckMatches(f) => AdvanceOnAck(f)
  BY DEF HandleAck, cacheVars, recvVars
<1> HIDE DEF f
<1>2. /\ \A T : Without(toBridge, T) => f.type \notin T /\ Without(toBridge', T)
      /\ \A T : f.type \notin T => Keeps(toBridge, toBridge', T)
      /\ \A T, g : f.type \in T /\ Single(toBridge, T, g) => f = g /\ Without(toBridge', T)
  BY <1>1, TakenFromBridge
<1>3. ~ Without(toBridge, {"ACK"})
  BY <1>1, <1>2
<1>4. Answered
  BY <1>3 DEF Exchanging, Resting, Delivering
<1>5. f = Ack(transferId, ExpectedAck) /\ Without(toBridge', {"ACK"})
  BY <1>1, <1>2, <1>4 DEF Answered
<1>6. AdvanceOnAck(f) /\ f.off = ExpectedAck
  BY <1>1, <1>4, <1>5 DEF AckMatches, Answered, Ack
<1>7. /\ up' /\ Without(toS3', {"HELLO"}) /\ Without(toBridge', {"HELLO"})
      /\ Without(toS3', Bulk)
  BY <1>1, <1>2, <1>4 DEF Exchanging, Answered
<1>8. S3Side /\ Keeps(toBridge, toBridge', {"REQUEST"})
  BY <1>1, <1>2 DEF S3Side, Keeps
<1>9. NoRequest => NoRequest'
  BY <1>8 DEF NoRequest, S3Side, Keeps
<1>10. ~ awaiting' /\ transferId' = transferId
  BY <1>6 DEF AdvanceOnAck
<1>11. ASSUME Collecting, snap' = snap
       PROVE  Collecting' /\ ActiveSize' = ActiveSize
  <2>1. ActivePage' = ActivePage
    BY <1>1, <1>11 DEF ActivePage
  <2>2. NoRequest'
    BY <1>9, <1>11 DEF Collecting
  <2> QED
    BY <1>1, <1>10, <1>11, <2>1, <2>2, CollectingKept DEF ActiveSize
<1>12. CASE phase = "BEGIN"
  <2>1. /\ phase' = "CHUNK" /\ UNCHANGED <<offset, snap>> /\ offset = 0
        /\ Collecting /\ bytes = <<>>
    BY <1>4, <1>6, <1>12 DEF AdvanceOnAck, Answered, Sending
  <2>2. Collecting' /\ Len(bytes)' = offset'
    BY <1>1, <1>11, <2>1
  <2>3. Delivering'
    BY <1>5, <1>7, <1>10, <2>1, <2>2 DEF Delivering
  <2> QED
    BY <1>7, <2>3 DEF Exchanging
<1>13. CASE phase = "CHUNK"
  <2>1. /\ phase' = (IF AllSent(f.off) THEN "END" ELSE "CHUNK") /\ snap' = snap
        /\ Collecting /\ Len(bytes) = offset + 1 /\ offset' = offset + 1 /\ f.off = offset + 1
    BY <1>4, <1>6, <1>13 DEF AdvanceOnAck, Answered, ExpectedAck
  <2>2. Collecting' /\ Len(bytes)' = offset' /\ ActiveSize' = ActiveSize
    BY <1>1, <1>11, <2>1
  <2>3. phase' = "END" => Len(bytes)' = ActiveSize'
    <3>1. offset \in Nat /\ Len(bytes) <= ActiveSize /\ ActiveSize \in Nat
      <4>1. ActiveSize = got.total /\ got.total \in Nat
        BY <2>1 DEF Collecting, S3Typed
      <4> QED
        BY <2>1, <4>1 DEF BridgeTyped, Collecting
    <3> QED
      BY <1>1, <2>1, <2>2, <3>1 DEF AllSent
  <2>4. phase' \in {"CHUNK", "END"}
    BY <2>1
  <2>5. Delivering'
    BY <1>5, <1>7, <1>10, <2>2, <2>3, <2>4 DEF Delivering
  <2> QED
    BY <1>7, <2>5 DEF Exchanging
<1>14. CASE phase = "END"
  <2>1. phase' = "IDLE" /\ Asking
    BY <1>4, <1>6, <1>14 DEF AdvanceOnAck, Answered
  <2>2. Asking'
    <3>1. /\ Single(toBridge, {"REQUEST"}, Request(wanted))
               => Single(toBridge', {"REQUEST"}, Request(wanted))
          /\ Without(toBridge, {"REQUEST"}) => Without(toBridge', {"REQUEST"})
      BY <1>8 DEF Keeps
    <3>2. Request(wanted)' = Request(wanted)
      BY <1>1 DEF Request
    <3> QED
      BY <1>1, <1>9, <2>1, <3>1, <3>2 DEF Asking
  <2>3. Resting'
    BY <1>5, <1>7, <1>10, <2>1, <2>2 DEF Resting
  <2> QED
    BY <1>7, <2>3 DEF Exchanging
<1>15. phase \in Phases /\ phase # "IDLE"
  BY <1>4 DEF BridgeTyped, Phases, Answered
<1> QED
  BY <1>12, <1>13, <1>14, <1>15 DEF Phases

(* poll_send sends every frame once: while it waits, the frame or its       *)
(* acknowledgement is under way, and the clock has not run out.             *)
LEMMA SentOnce ==
  ASSUME IInv, Exchanging, Timely, PollSend
  PROVE  ~ awaiting /\ Delivering /\ Without(toS3, Bulk) /\ NoRequest
<1> USE DEF IInv, Typed
<1>1. phase # "IDLE" /\ (awaiting => Elapsed)
  BY DEF PollSend
<1>2. toS3 \in Seq(FrameToS3) /\ toBridge \in Seq(FrameToBridge) /\ phase \in Phases
  BY DEF LinkTyped, BridgeTyped, Phases
<1>3. ASSUME awaiting
      PROVE  FALSE
  <2>1. toS3 = <<>> /\ toBridge = <<>>
    BY <1>1, <1>3 DEF Elapsed
  <2>2. \/ Single(toS3, Bulk, CurrentFrame)
        \/ Single(toBridge, {"ACK"}, Ack(transferId, ExpectedAck))
    BY <1>1, <1>3 DEF Exchanging, Resting, Delivering, Answered
  <2>3. CASE Single(toS3, Bulk, CurrentFrame)
    BY <1>2, <2>1, <2>3, SingleIn, Zenon
  <2>4. CASE Single(toBridge, {"ACK"}, Ack(transferId, ExpectedAck))
    BY <1>2, <2>1, <2>4, SingleIn, Zenon
  <2> QED
    BY <2>2, <2>3, <2>4
<1>4. Delivering /\ Without(toS3, Bulk)
  BY <1>1, <1>3 DEF Exchanging, Resting, Delivering, Answered
<1>5. NoRequest
  BY <1>1, <1>2, <1>4 DEF Delivering, Collecting, Phases
<1> QED
  BY <1>3, <1>4, <1>5

(* The frame of the phase is then under way.                                *)
LEMMA SendExchange ==
  ASSUME IInv, Exchanging, AnnouncementsFit, Timely, PollSend
  PROVE  Exchanging'
<1> USE DEF IInv, Typed
<1>1. /\ phase # "IDLE" /\ awaiting' = TRUE
      /\ toS3' = Offer(toS3, CurrentFrame)
      /\ UNCHANGED <<toBridge, up, phase, transferId, offset, snap, pubs, mode, wanted, got, bytes>>
  BY DEF PollSend, CurrentFrame, cacheVars, recvVars
<1>2. phase \in Phases
  BY DEF BridgeTyped, Phases
<1>3. ~ awaiting /\ Delivering /\ Without(toS3, Bulk) /\ NoRequest
  BY SentOnce
<1>4. Without(toS3, {"ERROR"})
  BY <1>3 DEF NoRequest
<1>5. CurrentFrame.type = phase /\ CurrentFrame.type \in Bulk
  BY <1>1, <1>2 DEF CurrentFrame, Begin, Chunk, End, Phases, Bulk
<1>6. /\ \A T : CurrentFrame.type \notin T => Keeps(toS3, toS3', T)
      /\ \A T : CurrentFrame.type \in T /\ Without(toS3, T) => Single(toS3', T, CurrentFrame)
  BY <1>1, <1>3, <1>4, SentToS3
<1>7. /\ Single(toS3', Bulk, CurrentFrame) /\ Without(toS3', {"ERROR"})
      /\ Without(toS3', {"HELLO"})
  <2>1. CurrentFrame.type \notin {"ERROR"} /\ CurrentFrame.type \notin {"HELLO"}
    BY <1>5 DEF Bulk
  <2>2. Keeps(toS3, toS3', {"ERROR"}) /\ Keeps(toS3, toS3', {"HELLO"})
    BY <1>6, <2>1
  <2> QED
    BY <1>3, <1>4, <1>5, <1>6, <2>2 DEF Keeps, Exchanging
<1>8. ActivePage' = ActivePage
  BY <1>1 DEF ActivePage
<1>9. CurrentFrame' = CurrentFrame /\ ActiveSize' = ActiveSize
  BY <1>1, <1>8, FrameKept
<1>10. NoRequest'
  BY <1>1, <1>3, <1>7 DEF NoRequest
<1>11. Collecting => Collecting'
  BY <1>1, <1>8, <1>10, CollectingKept
<1>12. Delivering'
  BY <1>1, <1>3, <1>7, <1>8, <1>9, <1>10, <1>11 DEF Delivering
<1> QED
  BY <1>1, <1>7, <1>12 DEF Exchanging

(* The client on a healthy link: the frame it takes is the one the phase    *)
(* sent, and it answers with the acknowledgement the phase waits for.       *)
LEMMA AcceptExchange ==
  ASSUME IInv, IInv', Exchanging, 2 <= QueueSize, UNCHANGED <<up, cacheVars, sendVars>>,
         NEW i \in 1..Len(toS3), NEW f, TakeS3(i, f), f.type \in Bulk,
         Delivering, f = CurrentFrame => SendAck,
         f = CurrentFrame =>
           /\ got'.id = transferId /\ Len(bytes') = ExpectedAck
           /\ phase # "END" =>
                /\ mode' = "receiving" /\ got'.total = ActiveSize /\ Len(bytes') <= ActiveSize
                /\ \A n \in 1..Len(bytes') : bytes'[n] = ActivePage.blob[n]
           /\ phase = "END" => mode' = "finished"
  PROVE  Exchanging'
<1> USE DEF IInv, Typed
<1>1. /\ \A T : Without(toS3, T) => f.type \notin T /\ Without(toS3', T)
      /\ \A T, g : f.type \in T /\ Single(toS3, T, g) => f = g /\ Without(toS3', T)
  BY TakenFromS3
<1>2. awaiting /\ f = CurrentFrame /\ Without(toS3', Bulk)
  BY <1>1 DEF Delivering
<1>3. phase \in Phases /\ phase # "IDLE" /\ Without(toBridge, {"ACK"})
  BY DEF BridgeTyped, Phases, Delivering
<1>4. NoRequest
  BY <1>3 DEF Delivering, Collecting, Phases
<1>5. toBridge' = OfferBridge(toBridge, Ack(got'.id, Len(bytes')))
  BY <1>2 DEF SendAck
<1>6. Ack(got'.id, Len(bytes')) = Ack(transferId, ExpectedAck)
  BY <1>2
<1>7. toBridge' = OfferBridge(toBridge, Ack(transferId, ExpectedAck))
  BY <1>5, <1>6
<1>8. Ack(transferId, ExpectedAck).type = "ACK"
  BY DEF Ack
<1>9. up /\ Without(toBridge, {"HELLO"}) /\ Without(toBridge, {"REQUEST"})
  BY <1>4 DEF Exchanging, NoRequest
<1>10. /\ \A T : "ACK" \notin T => Keeps(toBridge, toBridge', T)
       /\ \A T : "ACK" \in T /\ Without(toBridge, T)
            => Single(toBridge', T, Ack(transferId, ExpectedAck))
  BY <1>3, <1>7, <1>8, <1>9, SentToBridge
<1>11. /\ Single(toBridge', {"ACK"}, Ack(transferId, ExpectedAck))
       /\ Keeps(toBridge, toBridge', {"REQUEST"}) /\ Keeps(toBridge, toBridge', {"HELLO"})
  BY <1>3, <1>10
<1>12. NoRequest' /\ Without(toBridge', {"HELLO"}) /\ Without(toS3', {"HELLO"}) /\ up'
  BY <1>1, <1>4, <1>9, <1>11 DEF NoRequest, Keeps, Exchanging
<1>13. /\ UNCHANGED <<phase, awaiting, transferId, offset, snap>> /\ ActivePage' = ActivePage
  BY DEF sendVars, cacheVars, ActivePage
<1>14. ExpectedAck' = ExpectedAck /\ ActiveSize' = ActiveSize
  BY <1>13, FrameKept
<1>15. Ack(transferId, ExpectedAck)' = Ack(transferId, ExpectedAck)
  BY <1>13, <1>14 DEF Ack
<1>16. phase # "END" => Collecting'
  BY <1>2, <1>12, <1>13, <1>14 DEF Collecting
<1>17. phase = "END" => Asking'
  BY <1>2, <1>12 DEF Asking
<1>18. /\ phase = "BEGIN" => ExpectedAck = 0 /\ Len(bytes') = 0
       /\ phase = "CHUNK" => Len(bytes') = offset + 1
  BY <1>2 DEF ExpectedAck
<1>19. phase = "BEGIN" => bytes' = <<>>
  <2>1. ASSUME phase = "BEGIN"
        PROVE  bytes' = <<>>
    <3>1. Len(bytes') = 0 /\ bytes' \in Seq(Data)
      BY <1>18, <2>1
    <3> QED
      BY <3>1, EmptySeq
  <2> QED
    BY <2>1
<1>20. Answered'
  BY <1>2, <1>3, <1>11, <1>13, <1>15, <1>16, <1>17, <1>18, <1>19 DEF Answered, Phases
<1> QED
  BY <1>12, <1>20 DEF Exchanging

(* The frames a client may take on a healthy link.                          *)
LEMMA ReceiveExchange ==
  ASSUME IInv, IInv', Exchanging, 2 <= QueueSize, NEW i \in 1..Len(toS3),
         \/ ReceiveBegin(i) \/ ReceiveChunk(i) \/ ReceiveEnd(i)
         \/ ReceiveError(i) \/ ReceiveChanged(i) \/ ReceiveHello(i)
  PROVE  Exchanging'
<1> USE DEF IInv, Typed
<1>1. ASSUME NEW f, TakeS3(i, f)
      PROVE  /\ \A T : Without(toS3, T) => f.type \notin T /\ Without(toS3', T)
             /\ \A T : f.type \notin T => Keeps(toS3, toS3', T)
             /\ \A T, g : f.type \in T /\ Single(toS3, T, g) => f = g /\ Without(toS3', T)
  BY <1>1, TakenFromS3
<1>2. ASSUME NEW f, TakeS3(i, f), f.type \in Bulk
      PROVE  /\ Delivering /\ f = CurrentFrame /\ f.type = phase
  <2>1. ~ Without(toS3, Bulk)
    BY <1>1, <1>2
  <2>2. Delivering /\ f = CurrentFrame
    BY <1>1, <1>2, <2>1 DEF Exchanging, Resting, Delivering, Answered
  <2>3. phase \in Phases /\ phase # "IDLE"
    BY <2>2 DEF BridgeTyped, Phases, Delivering
  <2> QED
    BY <2>2, <2>3 DEF CurrentFrame, Begin, Chunk, End, Phases
<1>3. /\ phase # "IDLE" => /\ snap \in 1..Len(pubs) /\ ActiveSize \in Nat \ {0}
                           /\ ActivePage.blob \in Seq(Data)
      /\ phase = "BEGIN" => offset = 0
      /\ phase = "CHUNK" => offset < ActiveSize
      /\ offset \in Nat /\ bytes \in Seq(Data)
  BY PublicationsTyped DEF Sending, ActiveSize, ActivePage, BridgeTyped, S3Typed
<1>4. CASE ReceiveBegin(i)
  <2> DEFINE f == toS3[i]
  <2>1. /\ f.type = "BEGIN" /\ TakeS3(i, f) /\ UNCHANGED <<up, cacheVars, sendVars>>
        /\ \/ mode = "receiving" /\ f.id = got.id
           \/ /\ mode = "waiting" /\ f.kind = wanted
              /\ got'.id = f.id /\ got'.total = f.total
              /\ mode' = "receiving" /\ bytes' = <<>> /\ SendAck
           \/ ~ (mode = "waiting" /\ f.kind = wanted)
    BY <1>4 DEF ReceiveBegin
  <2> HIDE DEF f
  <2>2. Delivering /\ f = CurrentFrame /\ phase = "BEGIN" /\ f.type \in Bulk
    BY <1>2, <2>1 DEF Bulk
  <2>3. f.id = transferId /\ f.kind = ActivePage.kind /\ f.total = ActiveSize
    BY <2>2 DEF CurrentFrame, Begin
  <2>4. mode = "waiting" /\ wanted = ActivePage.kind
    BY <2>2 DEF Delivering
  <2>5. got'.id = transferId /\ got'.total = ActiveSize /\ mode' = "receiving" /\ bytes' = <<>> /\ SendAck
    BY <2>1, <2>3, <2>4
  <2>6. ExpectedAck = 0 /\ Len(bytes') = 0
    BY <2>2, <2>5 DEF ExpectedAck
  <2>7. Len(bytes') <= ActiveSize /\ \A n \in 1..Len(bytes') : bytes'[n] = ActivePage.blob[n]
    BY <1>3, <2>2, <2>6
  <2> QED
    BY <2>1, <2>2, <2>5, <2>6, <2>7, AcceptExchange
<1>5. CASE ReceiveChunk(i)
  <2> DEFINE f == toS3[i]
  <2>1. /\ f.type = "CHUNK" /\ TakeS3(i, f) /\ UNCHANGED <<up, cacheVars, sendVars>>
        /\ \/ mode = "receiving" /\ f.id # got.id
           \/ mode = "receiving" /\ f.id = got.id /\ Duplicate(f)
           \/ /\ mode = "receiving" /\ f.id = got.id /\ f.off = Len(bytes)
              /\ bytes' = Append(bytes, f.data) /\ UNCHANGED <<mode, got>> /\ SendAck
           \/ mode # "receiving" \/ f.off # Len(bytes)
    BY <1>5 DEF ReceiveChunk
  <2> HIDE DEF f
  <2>2. Delivering /\ f = CurrentFrame /\ phase = "CHUNK" /\ f.type \in Bulk
    BY <1>2, <2>1 DEF Bulk
  <2>3. f.id = transferId /\ f.off = offset /\ f.data = ActivePage.blob[offset + 1]
    BY <2>2 DEF CurrentFrame, Chunk
  <2>4. Collecting /\ Len(bytes) = offset
    BY <2>2 DEF Delivering
  <2>5. ~ Duplicate(f)
    BY <1>3, <2>3, <2>4 DEF Duplicate
  <2>6. bytes' = Append(bytes, f.data) /\ UNCHANGED <<mode, got>> /\ SendAck
    BY <2>1, <2>3, <2>4, <2>5 DEF Collecting
  <2>7. /\ Len(bytes') = offset + 1 /\ bytes'[offset + 1] = f.data
        /\ \A n \in 1..offset : bytes'[n] = bytes[n]
    BY <1>3, <2>4, <2>6
  <2>8. ExpectedAck = offset + 1 /\ offset + 1 <= ActiveSize
    BY <1>3, <2>2 DEF ExpectedAck
  <2>9. ASSUME NEW n \in 1..Len(bytes')
        PROVE  bytes'[n] = ActivePage.blob[n]
    <3>1. n \in 1..offset \/ n = offset + 1
      BY <1>3, <2>7
    <3>2. n \in 1..offset => bytes'[n] = ActivePage.blob[n]
      BY <2>4, <2>7 DEF Collecting
    <3> QED
      BY <2>3, <2>7, <3>1, <3>2
  <2>10. /\ got'.id = transferId /\ got'.total = ActiveSize /\ mode' = "receiving"
         /\ Len(bytes') = ExpectedAck /\ Len(bytes') <= ActiveSize
    BY <2>4, <2>6, <2>7, <2>8 DEF Collecting
  <2> QED
    BY <2>1, <2>2, <2>6, <2>9, <2>10, AcceptExchange
<1>6. CASE ReceiveEnd(i)
  <2> DEFINE f == toS3[i]
  <2>1. /\ f.type = "END" /\ TakeS3(i, f) /\ UNCHANGED <<up, cacheVars, sendVars>>
        /\ \/ mode = "finished"
           \/ mode = "receiving" /\ mode' = "finished" /\ UNCHANGED <<got, bytes>> /\ SendAck
           \/ mode = "receiving" /\ ~ EndMatches(f)
           \/ mode # "receiving"
    BY <1>6 DEF ReceiveEnd
  <2> HIDE DEF f
  <2>2. Delivering /\ f = CurrentFrame /\ phase = "END" /\ f.type \in Bulk
    BY <1>2, <2>1 DEF Bulk
  <2>3. f.id = transferId /\ f.total = ActiveSize /\ f.crc = Crc(ActivePage.blob)
    BY <2>2 DEF CurrentFrame, End
  <2>4. Collecting /\ Len(bytes) = ActiveSize
    BY <2>2 DEF Delivering
  <2>5. bytes = ActivePage.blob
    <3>1. /\ ActivePage.blob \in Seq(Data) /\ Len(ActivePage.blob) = Len(bytes)
      BY <1>3, <2>2, <2>4 DEF ActiveSize
    <3>2. \A n \in 1..Len(bytes) : bytes[n] = ActivePage.blob[n]
      BY <2>4 DEF Collecting
    <3> QED
      BY <1>3, <3>1, <3>2, SeqEqual
  <2>6. EndMatches(f)
    BY <2>3, <2>4, <2>5 DEF EndMatches, Collecting
  <2>7. mode' = "finished" /\ UNCHANGED <<got, bytes>> /\ SendAck
    BY <2>1, <2>4, <2>6 DEF Collecting
  <2>8. got'.id = transferId /\ Len(bytes') = ExpectedAck
    BY <2>2, <2>4, <2>7 DEF Collecting, ExpectedAck
  <2> QED
    BY <2>1, <2>2, <2>7, <2>8, AcceptExchange
<1>7. CASE ReceiveError(i)
  <2> DEFINE f == toS3[i]
  <2>1. /\ f.type = "ERROR" /\ TakeS3(i, f) /\ mode' = "idle" /\ UNCHANGED pubs
        /\ UNCHANGED <<toBridge, up, sendVars>>
    BY <1>7 DEF ReceiveError, Fail, cacheVars
  <2> HIDE DEF f
  <2>2. ~ NoRequest /\ ~ Collecting
    BY <1>1, <2>1 DEF NoRequest, Collecting
  <2>3. Resting \/ (Answered /\ phase = "END")
    <3>1. phase \in Phases
      BY DEF BridgeTyped, Phases
    <3> QED
      BY <2>2, <3>1 DEF Exchanging, Delivering, Answered, Resting, Phases
  <2>4. /\ mode = "waiting" /\ Without(toBridge, {"REQUEST"})
        /\ \E g : Single(toS3, {"ERROR"}, g)
    <3>1. Asking
      BY <2>3 DEF Resting, Answered
    <3>2. ~ Without(toS3, {"ERROR"})
      BY <1>1, <2>1
    <3> QED
      BY <2>2, <3>1, <3>2 DEF Asking
  <2>5. Without(toS3', {"ERROR"})
    BY <1>1, <2>1, <2>4
  <2>6. Asking'
    BY <2>1, <2>4, <2>5 DEF Asking, NoRequest
  <2>7. Without(toS3', Bulk) /\ Without(toS3', {"HELLO"})
    BY <1>1, <2>1, <2>3 DEF Exchanging, Resting, Answered
  <2>8. UNCHANGED <<phase, awaiting, transferId, offset, snap>> /\ ActivePage' = ActivePage
    BY <2>1 DEF sendVars, ActivePage
  <2>9. CASE Resting
    <3>1. Resting'
      BY <2>1, <2>6, <2>7, <2>8, <2>9 DEF Resting
    <3> QED
      BY <2>1, <2>7, <3>1 DEF Exchanging
  <2>10. CASE Answered /\ phase = "END"
    <3>1. Ack(transferId, ExpectedAck)' = Ack(transferId, ExpectedAck)
      BY <2>8, FrameKept DEF Ack
    <3>2. Answered'
      BY <2>1, <2>6, <2>7, <2>8, <2>10, <3>1 DEF Answered
    <3> QED
      BY <2>1, <2>7, <3>2 DEF Exchanging
  <2> QED
    BY <2>3, <2>9, <2>10
<1>8. CASE ReceiveChanged(i)
  <2> DEFINE f == toS3[i]
  <2>1. /\ f.type = "CHANGED" /\ TakeS3(i, f) /\ UNCHANGED pubs
        /\ UNCHANGED <<toBridge, up, sendVars, mode, wanted, got, bytes>>
    BY <1>8 DEF ReceiveChanged, cacheVars
  <2> HIDE DEF f
  <2>2. S3Side /\ BridgeSide
    BY <1>1, <2>1, SideStays DEF S3Side, Bulk
  <2>3. PageStays
    BY <2>1 DEF PageStays, ActivePage, sendVars
  <2> QED
    BY <2>1, <2>2, <2>3, ExchangeKept
<1>9. CASE ReceiveHello(i)
  <2>1. TakeS3(i, Hello) /\ Hello.type = "HELLO"
    BY <1>9 DEF ReceiveHello, Hello
  <2> QED
    BY <1>1, <2>1 DEF Exchanging
<1> QED
  BY <1>4, <1>5, <1>6, <1>7, <1>8, <1>9

(* A request leaves only when nothing that could answer it is under way.    *)
LEMMA RequestSent ==
  ASSUME IInv, Exchanging, 2 <= QueueSize, SendRequest
  PROVE  Exchanging'
<1> USE DEF IInv, Typed
<1>1. /\ mode # "waiting" /\ mode # "receiving" /\ mode' = "waiting"
      /\ toBridge' = OfferBridge(toBridge, Request(NextKind)) /\ wanted' = NextKind
      /\ UNCHANGED <<toS3, up, sendVars, pubs, got, bytes>>
  BY DEF SendRequest, Active, cacheVars
<1>2. PICK k : k = NextKind
  OBVIOUS
<1>3. toBridge' = OfferBridge(toBridge, Request(k)) /\ wanted' = k
  BY <1>1, <1>2
<1>4. phase \in Phases
  BY DEF BridgeTyped, Phases
<1>5. /\ Resting \/ (Answered /\ phase = "END")
      /\ Asking /\ NoRequest /\ Without(toS3, Bulk)
      /\ Without(toBridge, {"ACK"}) \/ \E a : Single(toBridge, {"ACK"}, a)
  <2>1. ~ Collecting
    BY <1>1 DEF Collecting
  <2>2. Resting \/ (Answered /\ phase = "END")
    BY <1>1, <1>4, <2>1 DEF Exchanging, Delivering, Answered, Resting, Phases
  <2> QED
    BY <1>1, <2>2 DEF Resting, Answered, Asking
<1>6. Request(k).type = "REQUEST" /\ up /\ Without(toBridge, {"HELLO"}) /\ Without(toBridge, {"REQUEST"})
  BY <1>5 DEF Request, Exchanging, NoRequest
<1>7. /\ \A T : "REQUEST" \notin T => Keeps(toBridge, toBridge', T)
      /\ \A T : "REQUEST" \in T /\ Without(toBridge, T) => Single(toBridge', T, Request(k))
  BY <1>3, <1>5, <1>6, SentToBridge
<1>8. /\ Single(toBridge', {"REQUEST"}, Request(k))
      /\ Keeps(toBridge, toBridge', {"ACK"}) /\ Keeps(toBridge, toBridge', {"HELLO"})
  BY <1>6, <1>7
<1>9. Request(wanted)' = Request(k)
  BY <1>3 DEF Request
<1>10. Asking'
  BY <1>1, <1>5, <1>8, <1>9 DEF Asking, NoRequest
<1>11. /\ up' /\ Without(toS3', {"HELLO"}) /\ Without(toBridge', {"HELLO"})
       /\ Without(toS3', Bulk)
  BY <1>1, <1>5, <1>6, <1>8 DEF Exchanging, Keeps
<1>12. UNCHANGED <<phase, awaiting, transferId, offset, snap>> /\ ActivePage' = ActivePage
  BY <1>1 DEF sendVars, ActivePage
<1>13. CASE Resting
  <2>1. Resting'
    BY <1>8, <1>10, <1>11, <1>12, <1>13 DEF Resting, Keeps
  <2> QED
    BY <1>11, <2>1 DEF Exchanging
<1>14. CASE Answered /\ phase = "END"
  <2>1. Ack(transferId, ExpectedAck)' = Ack(transferId, ExpectedAck)
    BY <1>12, FrameKept DEF Ack
  <2>2. Single(toBridge', {"ACK"}, Ack(transferId, ExpectedAck))
    BY <1>8, <1>14 DEF Answered, Keeps
  <2>3. Answered'
    BY <1>10, <1>11, <1>12, <1>14, <2>1, <2>2 DEF Answered
  <2> QED
    BY <1>11, <2>3 DEF Exchanging
<1> QED
  BY <1>5, <1>13, <1>14

(* Nothing that goes on beside the exchange disturbs it, and no fault is    *)
(* among the steps of a healthy link.                                       *)
LEMMA BesideExchange ==
  ASSUME IInv, Exchanging, losses' = 0, faults' = 0,
         RequestDue \/ CooldownOver \/ TakeCompleted \/ Environment \/ SlotKept
  PROVE  Exchanging'
<1> USE DEF IInv, Typed
<1>1. losses \in Nat /\ faults \in Nat
  BY BoundsAssumption DEF LinkTyped
<1>2. ASSUME UNCHANGED <<linkVars, up, sendVars, pubs, mode, wanted, got, bytes>>
      PROVE  Exchanging'
  <2>1. S3Side /\ BridgeSide
    BY <1>2, SideStays DEF linkVars
  <2>2. PageStays
    BY <1>2 DEF PageStays, ActivePage, sendVars
  <2> QED
    BY <1>2, <2>1, <2>2, ExchangeKept
<1>3. CASE RequestDue \/ CooldownOver \/ SelectPlaylist \/ BridgeAvailable \/ SlotKept
  <2>1. UNCHANGED <<linkVars, up, sendVars, pubs, mode, wanted, got, bytes>>
    BY <1>3 DEF RequestDue, CooldownOver, SelectPlaylist, BridgeAvailable, SlotKept,
                cacheVars, recvVars
  <2> QED
    BY <1>2, <2>1
<1>4. CASE TakeCompleted
  <2>1. UNCHANGED <<toS3, toBridge, up, sendVars, pubs>> /\ mode = "finished"
    BY <1>4 DEF TakeCompleted, linkVars, cacheVars, Holding
  <2>2. CASE UNCHANGED <<mode, wanted, got, bytes>>
    BY <1>2, <1>4, <2>1, <2>2 DEF TakeCompleted
  <2>3. CASE mode' = "idle"
    <3>1. S3Side /\ BridgeSide /\ ActivePage' = ActivePage
      BY <2>1, SideStays DEF ActivePage, sendVars
    <3>2. phase \in Phases
      BY DEF BridgeTyped, Phases
    <3>3. Resting \/ (Answered /\ phase = "END")
      BY <2>1, <3>2 DEF Exchanging, Resting, Delivering, Answered, Collecting, Phases
    <3>4. NoRequest
      BY <2>1, <3>3 DEF Resting, Answered, Asking
    <3>5. Asking'
      BY <2>1, <2>3, <3>4 DEF Asking, NoRequest
    <3>6. UNCHANGED <<phase, awaiting, transferId, offset, snap>>
      BY <2>1 DEF sendVars
    <3>7. Ack(transferId, ExpectedAck)' = Ack(transferId, ExpectedAck)
      BY <3>1, <3>6, FrameKept DEF Ack
    <3>8. Resting => Resting'
      BY <2>1, <3>5, <3>6 DEF Resting
    <3>9. Answered /\ phase = "END" => Answered'
      BY <2>1, <3>5, <3>6, <3>7 DEF Answered
    <3> QED
      BY <2>1, <3>3, <3>8, <3>9 DEF Exchanging
  <2> QED
    BY <1>4, <2>2, <2>3 DEF TakeCompleted, Fail
<1>5. ASSUME NEW k \in Kinds, NEW b \in Blobs, NEW c \in 0..MaxSelections, Publish(k, b, c)
      PROVE  Exchanging'
  <2>1. /\ toS3' = Offer(toS3, Changed(k))
        /\ UNCHANGED <<toBridge, up, sendVars, mode, wanted, got, bytes>>
    BY <1>5 DEF Publish, recvVars
  <2>2. Changed(k).type = "CHANGED" /\ toS3 \in Seq(FrameToS3)
    BY DEF Changed, LinkTyped
  <2>3. \A T : "CHANGED" \notin T => Keeps(toS3, toS3', T)
    BY <2>1, <2>2, OfferKeeps, Zenon
  <2>4. S3Side /\ BridgeSide
    BY <2>1, <2>3, SideStays DEF S3Side, Bulk
  <2>5. PageStays
    <3>1. PICK page : pubs' = Append(pubs, page) /\ snap' = snap
      BY <1>5 DEF Publish, sendVars
    <3>2. pubs \in Seq(Publication) /\ (phase # "IDLE" => snap \in 1..Len(pubs))
      BY DEF BridgeTyped, Sending
    <3>3. phase # "IDLE" => pubs'[snap] = pubs[snap]
      BY <3>1, <3>2
    <3> QED
      BY <3>1, <3>3 DEF PageStays, ActivePage
  <2> QED
    BY <2>1, <2>4, <2>5, ExchangeKept
<1>6. LoseFrame \/ BridgeUnavailable \/ LinkLost \/ BridgeDown \/ S3Restart => FALSE
  BY <1>1 DEF LoseFrame, BridgeUnavailable, LinkLost, BridgeDown, S3Restart
<1>7. BridgeBoot => FALSE
  BY DEF BridgeBoot, Exchanging
<1> QED
  BY <1>3, <1>4, <1>5, <1>6, <1>7 DEF Environment

(* A step of the slot makes a transfer overdue only if it is counted.       *)
LEMMA SlotStepCounts ==
  SlotStep => (UNCHANGED <<overdue, slow>>) \/ slow' = slow + 1
  BY DEF SlotStep, PictureBegins, PictureEnds, PictureDrags

(* Whatever else a step does, it makes no transfer overdue.                 *)
LEMMA OverdueSteps ==
  ASSUME [Next]_vars
  PROVE  \/ slow' = slow + 1
         \/ slow' = slow /\ (overdue' => overdue)
<1>1. BridgeStep \/ S3Step \/ Environment => slow' = slow /\ (overdue' => overdue)
  BY BridgeStepClears, S3StepClears, EnvironmentClears DEF OverdueClears, slotVars
<1>2. UNCHANGED vars => slow' = slow /\ (overdue' => overdue)
  BY DEF vars, slotVars
<1> QED
  BY <1>1, <1>2, SlotStepCounts DEF Next

LEMMA AlwaysOnTime == Spec => []OnTime
<1>1. Init => OnTime
  BY DEF Init, OnTime
<1>2. ASSUME OnTime, [Next]_vars
      PROVE  OnTime'
  BY <1>2, OverdueSteps DEF OnTime
<1> QED
  BY <1>1, <1>2, PTL DEF Spec

(* What was lost, which faults there were and which pictures were too slow  *)
(* is never forgotten.                                                      *)
LEMMA FaultsGrow ==
  ASSUME IInv, OnTime, [Next]_vars, Undisturbed'
  PROVE  Undisturbed
<1>1. losses \in Nat /\ faults \in Nat
  BY BoundsAssumption DEF IInv, Typed, LinkTyped
<1>2. BridgeStep => UNCHANGED <<losses, faults>>
  BY DEF BridgeStep, HandleRequest, HandleAck, BridgeHello, PollSend, StallTimeout, linkVars
<1>3. S3Step => UNCHANGED <<losses, faults>>
  BY DEF S3Step, ReceiveBegin, ReceiveChunk, ReceiveEnd, ReceiveError, ReceiveChanged,
         ReceiveHello, SendRequest, RequestDue, ClientTimeout, CooldownOver, TakeCompleted,
         linkVars
<1>4. Environment => /\ UNCHANGED losses \/ losses' = losses + 1
                     /\ UNCHANGED faults \/ faults' = faults + 1
  BY DEF Environment, Publish, SelectPlaylist, BridgeAvailable, BridgeUnavailable, LinkLost,
         LoseFrame, BridgeDown, BridgeBoot, S3Restart, linkVars
<1>5. SlotStep \/ UNCHANGED vars => UNCHANGED <<losses, faults>>
  BY SlotSteps DEF SlotKept, linkVars
<1>6. losses = 0 /\ faults = 0
  BY <1>1, <1>2, <1>3, <1>4, <1>5 DEF Next, Undisturbed
<1>7. slow = 0
  BY OverdueSteps DEF OnTime, Undisturbed
<1> QED
  BY <1>6, <1>7 DEF Undisturbed

(* The exchange is inductive: no timeout, no HELLO and no repetition ever   *)
(* interrupts it, and no picture that lets a transfer go on in time.        *)
LEMMA HealthyStep ==
  ASSUME Timely, 2 <= QueueSize
  PROVE  IInv /\ IInv' /\ OnTime /\ Healthy /\ AnnouncementsFit /\ [Next]_vars => Healthy'
<1> SUFFICES ASSUME IInv, IInv', OnTime, Healthy, AnnouncementsFit, [Next]_vars, Undisturbed'
             PROVE  Exchanging'
  BY DEF Healthy
<1>1. Undisturbed
  BY FaultsGrow
<1>2. Exchanging /\ ~ overdue
  BY <1>1 DEF Healthy, OnTime, Undisturbed
<1>0. losses' = 0 /\ faults' = 0
  BY DEF Undisturbed
<1>3. ASSUME NEW i \in 1..Len(toBridge), BridgeHello(i)
      PROVE  FALSE
  <2>1. TakeBridge(i, Hello) /\ Hello.type \in {"HELLO"} /\ Without(toBridge, {"HELLO"})
    BY <1>2, <1>3 DEF BridgeHello, Hello, Exchanging
  <2> QED
    BY <2>1, TakenFromBridge DEF IInv, Typed
<1>4. StallTimeout \/ ClientTimeout => FALSE
  BY <1>2, BothEngaged DEF StallTimeout, Stalled, ClientTimeout, Expired, ServerWaits
<1>5. BridgeStep => Exchanging'
  BY <1>2, <1>3, <1>4, RequestExchange, AckExchange, SendExchange DEF BridgeStep
<1>6. S3Step => Exchanging'
  BY <1>0, <1>1, <1>2, <1>4, ReceiveExchange, RequestSent, BesideExchange DEF S3Step, Undisturbed
<1>7. SlotStep \/ UNCHANGED vars => Exchanging'
  BY <1>0, <1>2, SlotSteps, BesideExchange
<1> QED
  BY <1>0, <1>2, <1>5, <1>6, <1>7, BesideExchange DEF Next

LEMMA InitHealthy == Init => Healthy
<1> SUFFICES ASSUME Init
             PROVE  Exchanging
  BY DEF Healthy
<1>1. \A T : Without(toS3, T) /\ Without(toBridge, T)
  BY DEF Init, Without
<1>2. Asking
  BY <1>1 DEF Init, Asking, NoRequest
<1> QED
  BY <1>1, <1>2 DEF Init, Exchanging, Resting

LEMMA HealthyNeverStalls ==
  IInv /\ Healthy => HealthyLinkNeverStalls
  BY BothEngaged DEF Healthy, HealthyLinkNeverStalls, Undisturbed

(* On a link that loses nothing no transfer runs into a timeout before a    *)
(* picture holds the bulk slot until one is 2 s without progress, for pages *)
(* of any size, any interleaving of refreshes, requests, selections and     *)
(* shorter pictures and transfer ids that wrap, as long as LIBRARY_CHANGED  *)
(* frames alone never fill the receive queue of the S3.                     *)
THEOREM NothingStalls ==
  ASSUME Timely, 2 <= QueueSize
  PROVE  Spec /\ []AnnouncementsFit => []HealthyLinkNeverStalls
<1>1. IInv /\ IInv' /\ OnTime /\ Healthy /\ AnnouncementsFit /\ [Next]_vars => Healthy'
  BY HealthyStep
<1> QED
  BY <1>1, InitHealthy, HealthyNeverStalls, AlwaysOnTime, Inductive, PTL DEF Spec

(* How far announcements can fill that queue on a healthy link.             *)
Announced ==
  Undisturbed =>
    /\ Len(pubs) <= MaxPublishes /\ Len(toS3) <= Len(pubs) + 1
    /\ OnlyAnnounced => Len(toS3) <= Len(pubs)

(* What a step of a healthy link does to the queue of the S3.               *)
QueueRests == UNCHANGED <<toS3, pubs>>
QueueTaken == UNCHANGED pubs /\ \E i \in 1..Len(toS3) : toS3' = RemoveAt(toS3, i)
QueueAnswered ==
  /\ UNCHANGED pubs /\ OnlyAnnounced
  /\ \E g : g.type \in Bulk \cup {"ERROR"} /\ toS3' = Offer(toS3, g)
QueueAnnounced ==
  /\ Len(pubs) < MaxPublishes
  /\ \E k, page : pubs' = Append(pubs, page) /\ toS3' = Offer(toS3, Changed(k))

LEMMA QueueSteps ==
  ASSUME IInv, Exchanging, Timely, [Next]_vars, Undisturbed, Undisturbed'
  PROVE  QueueRests \/ QueueTaken \/ QueueAnswered \/ QueueAnnounced
<1>1. ASSUME NEW i \in 1..Len(toBridge), HandleRequest(i)
      PROVE  QueueRests \/ QueueAnswered
  <2>1. TakeBridge(i, toBridge[i]) /\ toBridge[i].type = "REQUEST"
    BY <1>1 DEF HandleRequest
  <2>2. ~ Without(toBridge, {"REQUEST"})
    BY <2>1 DEF Without
  <2>3. OnlyAnnounced
    BY <2>2, RequestAlone DEF OnlyAnnounced, Without
  <2>4. UNCHANGED toS3 \/ toS3' = Offer(toS3, Error(1)) \/ toS3' = Offer(toS3, Error(2))
    BY <1>1 DEF HandleRequest
  <2>5. Error(1).type \in Bulk \cup {"ERROR"} /\ Error(2).type \in Bulk \cup {"ERROR"}
    BY DEF Error
  <2>6. UNCHANGED pubs
    BY <1>1 DEF HandleRequest, cacheVars
  <2> QED
    BY <2>3, <2>4, <2>5, <2>6 DEF QueueRests, QueueAnswered
<1>2. ASSUME PollSend
      PROVE  QueueAnswered
  <2>1. Delivering /\ OnlyAnnounced
    BY <1>2, SentOnce DEF OnlyAnnounced, NoRequest, Without
  <2>2. phase \in Phases /\ phase # "IDLE"
    BY <2>1 DEF IInv, Typed, BridgeTyped, Phases, Delivering
  <2>3. CurrentFrame.type \in Bulk \cup {"ERROR"}
    BY <2>2 DEF CurrentFrame, Begin, Chunk, End, Phases, Bulk
  <2>4. toS3' = Offer(toS3, CurrentFrame) /\ UNCHANGED pubs
    BY <1>2 DEF PollSend, CurrentFrame, cacheVars
  <2> QED
    BY <2>1, <2>3, <2>4 DEF QueueAnswered
<1>3. ASSUME NEW i \in 1..Len(toBridge), HandleAck(i) \/ BridgeHello(i)
      PROVE  QueueRests
  BY <1>3 DEF HandleAck, BridgeHello, cacheVars, QueueRests
<1>4. StallTimeout => QueueRests
  BY DEF StallTimeout, cacheVars, linkVars, QueueRests
<1>5. ASSUME NEW i \in 1..Len(toS3),
             \/ ReceiveBegin(i) \/ ReceiveChunk(i) \/ ReceiveEnd(i)
             \/ ReceiveError(i) \/ ReceiveChanged(i) \/ ReceiveHello(i)
      PROVE  QueueTaken
  BY <1>5 DEF QueueTaken, ReceiveBegin, ReceiveChunk, ReceiveEnd, ReceiveError, ReceiveChanged,
              ReceiveHello, TakeS3, cacheVars
<1>6. SendRequest \/ RequestDue \/ ClientTimeout \/ CooldownOver \/ TakeCompleted => QueueRests
  BY DEF QueueRests, SendRequest, RequestDue, ClientTimeout, CooldownOver, TakeCompleted,
              cacheVars, linkVars
<1>7. ASSUME NEW k \in Kinds, NEW b \in Blobs, NEW c \in 0..MaxSelections, Publish(k, b, c)
      PROVE  QueueAnnounced
  BY <1>7 DEF Publish, QueueAnnounced
<1>8. SelectPlaylist \/ BridgeAvailable \/ SlotKept => QueueRests
  BY DEF QueueRests, SelectPlaylist, BridgeAvailable, SlotKept, cacheVars, linkVars
<1>9. LoseFrame \/ BridgeUnavailable \/ LinkLost \/ BridgeDown \/ S3Restart \/ BridgeBoot => FALSE
  BY DEF LoseFrame, BridgeUnavailable, LinkLost, BridgeDown, S3Restart, BridgeBoot, Exchanging,
         Undisturbed
<1> QED
  BY <1>1, <1>2, <1>3, <1>4, <1>5, <1>6, <1>7, <1>8, <1>9, SlotSteps
  DEF Next, BridgeStep, S3Step, Environment

(* An answer joins announcements only, and leaves before the next.          *)
LEMMA AnnouncedStep ==
  ASSUME IInv, Healthy, Timely, Announced, [Next]_vars, Undisturbed, Undisturbed'
  PROVE  Announced'
<1>1. /\ Len(pubs) <= MaxPublishes /\ Len(toS3) <= Len(pubs) + 1
      /\ OnlyAnnounced => Len(toS3) <= Len(pubs)
  BY DEF Announced
<1>2. /\ toS3 \in Seq(FrameToS3) /\ Len(toS3) \in Nat
      /\ pubs \in Seq(Publication) /\ Len(pubs) \in Nat /\ MaxPublishes \in Nat
  BY BoundsAssumption DEF IInv, Typed, LinkTyped, BridgeTyped
<1>3. CASE UNCHANGED <<toS3, pubs>>
  BY <1>1, <1>3 DEF Announced, OnlyAnnounced
<1>4. ASSUME UNCHANGED pubs, NEW i \in 1..Len(toS3), toS3' = RemoveAt(toS3, i)
      PROVE  Announced'
  <2>1. Len(toS3') = Len(toS3) - 1
    BY <1>2, <1>4, RemoveAtSeq, Zenon
  <2> QED
    BY <1>1, <1>2, <1>4, <2>1 DEF Announced
<1>5. ASSUME UNCHANGED pubs, OnlyAnnounced, NEW g, g.type \in Bulk \cup {"ERROR"},
             toS3' = Offer(toS3, g)
      PROVE  Announced'
  <2>1. CASE toS3' = toS3
    BY <1>1, <1>5, <2>1 DEF Announced
  <2>2. CASE toS3' = Append(toS3, g)
    <3>1. Single(toS3', Bulk \cup {"ERROR"}, g)
      BY <1>2, <1>5, <2>2, PutIn, Zenon DEF OnlyAnnounced
    <3>2. ~ OnlyAnnounced'
      BY <3>1 DEF Single, OnlyAnnounced, Without
    <3>3. Len(toS3') = Len(toS3) + 1
      BY <1>2, <2>2
    <3> QED
      BY <1>1, <1>2, <1>5, <3>2, <3>3 DEF Announced
  <2> QED
    BY <1>5, <2>1, <2>2 DEF Offer
<1>6. ASSUME Len(pubs) < MaxPublishes, NEW k, NEW page, pubs' = Append(pubs, page),
             toS3' = Offer(toS3, Changed(k))
      PROVE  Announced'
  <2>1. Len(pubs') = Len(pubs) + 1
    BY <1>2, <1>6
  <2>2. Len(toS3') <= Len(toS3) + 1 /\ Len(toS3') \in Nat
    BY <1>2, <1>6 DEF Offer
  <2>3. OnlyAnnounced' => OnlyAnnounced
    <3>1. CASE toS3' = toS3
      BY <3>1 DEF OnlyAnnounced
    <3>2. CASE toS3' = Append(toS3, Changed(k))
      BY <1>2, <3>2, PutIn, Zenon DEF OnlyAnnounced
    <3> QED
      BY <1>6, <3>1, <3>2 DEF Offer
  <2> QED
    BY <1>1, <1>2, <1>6, <2>1, <2>2, <2>3 DEF Announced
<1> QED
  BY <1>3, <1>4, <1>5, <1>6, QueueSteps
  DEF Healthy, QueueRests, QueueTaken, QueueAnswered, QueueAnnounced

LEMMA AnnouncedInductive ==
  ASSUME Timely
  PROVE  IInv /\ OnTime /\ Healthy /\ Announced /\ [Next]_vars => Announced'
<1> SUFFICES ASSUME IInv, OnTime, Healthy, Announced, [Next]_vars, Undisturbed'
             PROVE  Announced'
  BY DEF Announced
<1>1. Undisturbed
  BY FaultsGrow
<1> QED
  BY <1>1, AnnouncedStep

(* The same without anything assumed of a behaviour, if the queue of the S3 *)
(* has room for the announcement of every page that is ever published and   *)
(* one frame more.                                                          *)
THEOREM NothingStallsWithRoom ==
  ASSUME Timely, 2 <= QueueSize, MaxPublishes < QueueSize
  PROVE  Spec => []HealthyLinkNeverStalls
<1>1. Init => Announced
  BY BoundsAssumption DEF Init, Announced
<1>2. IInv /\ Announced /\ Undisturbed => AnnouncementsFit
  BY BoundsAssumption DEF IInv, Typed, LinkTyped, BridgeTyped, Announced, AnnouncementsFit
<1>3. IInv /\ IInv' /\ OnTime /\ Healthy /\ Announced /\ [Next]_vars => Healthy' /\ Announced'
  <2> SUFFICES ASSUME IInv, IInv', OnTime, Healthy, Announced, [Next]_vars
               PROVE  Healthy'
    BY AnnouncedInductive
  <2>1. CASE Undisturbed'
    BY <1>2, <2>1, FaultsGrow, HealthyStep
  <2>2. CASE ~ Undisturbed'
    BY <2>2 DEF Healthy
  <2> QED
    BY <2>1, <2>2
<1> QED
  BY <1>1, <1>3, InitHealthy, HealthyNeverStalls, AlwaysOnTime, Inductive, PTL DEF Spec

=============================================================================
