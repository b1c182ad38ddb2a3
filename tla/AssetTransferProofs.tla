-------------------------- MODULE AssetTransferProofs --------------------------
(***************************************************************************)
(* For every value of the constants: the queue of the server holds items   *)
(* of one transfer, what the client completes is one whole picture, and    *)
(* from the end of a transfer to the end of its decode nothing is under    *)
(* way that could disturb it.                                              *)
(***************************************************************************)
EXTENDS AssetTransfer, QueueLemmas, SequenceTheorems, TLAPS

(* Frames and items as the Bridge may build them: an END is that of a       *)
(* picture read to its end.                                                 *)
Begins == {Begin(id, n) : id \in Nat, n \in Nat}
Chunks == {Chunk(id, o, d) : id \in Nat, o \in Nat, d \in Nat \X Nat}
Ends   == {End(id, p) : id \in Nat, p \in Pictures}
Errors == {Error(id) : id \in Nat}
Items  == Begins \cup Chunks \cup Ends \cup Errors

BridgeFrames == {Request(k) : k \in Nat} \cup {Ack(id, o) : id \in Nat, o \in Nat}

JobsOK ==
  /\ jobs \in Seq([kind : Nat, size : Nat]) /\ offset \in Nat
  /\ taskAt \in {"off", "open", "begin", "read", "end", "error", "exit"}
  /\ taskAt # "off" => jobs # <<>>
  /\ taskAt = "open" => jobs[Job].size = 0
  /\ taskAt = "end" => offset = jobs[Job].size /\ offset > 0

QueueOK ==
  /\ transferId \in Nat /\ queue \in Seq(Items)
  /\ {pending, item} \subseteq Items \cup {NoItem}
  /\ item # NoItem => taskAt \in {"begin", "read", "end", "error"}

LinkOK ==
  /\ toS3 \in Seq(Items) /\ requests \in Nat
  /\ toBridge \in Seq(BridgeFrames)

ClientOK == gotId \in Nat /\ bytes \in Seq(Nat \X Nat)

IInv == JobsOK /\ QueueOK /\ LinkOK /\ ClientOK /\ QueueOfOneTransfer

(* The client completes a transfer only with a whole picture.               *)
CompletesWhole == completed' /\ ~ completed => bytes' \in Pictures'

------------------------------------------------------------------------------
(* Sequences *)

(* Offering a frame to a queue keeps its type.                              *)
LEMMA OfferTyped ==
  ASSUME NEW S, NEW q \in Seq(S), NEW f \in S
  PROVE  Offer(q, f) \in Seq(S)
BY DEF Offer

------------------------------------------------------------------------------
(* Pictures *)

(* As long as no download starts or learns its size, the items that may     *)
(* exist are the same.                                                      *)
LEMMA ItemsStay ==
  ASSUME jobs' = jobs
  PROVE  Items' = Items /\ Pictures' = Pictures
BY DEF Items, Begins, Chunks, Ends, Errors, Pictures, Picture

(* When one does, those that existed remain.                                *)
LEMMA ItemsGrow ==
  ASSUME \A j \in 1..Len(jobs) : jobs[j].size > 0 =>
           j \in 1..Len(jobs') /\ jobs'[j].size = jobs[j].size
  PROVE  Items \subseteq Items'
<1>1. Pictures \subseteq Pictures'
  BY DEF Pictures, Picture
<1>2. Ends \subseteq Ends'
  BY <1>1 DEF Ends
<1> QED
  BY <1>2 DEF Items, Begins, Chunks, Errors

(* The type of an item tells which it is.                                   *)
LEMMA ItemsTyped ==
  /\ NoItem \notin Items
  /\ \A f \in Items :
       /\ f.id \in Nat
       /\ f.type = "BEGIN" => f.total \in Nat
       /\ f.type = "CHUNK" => f.data \in Nat \X Nat
       /\ f.type = "END" => f.crc \in Pictures
<1> SUFFICES ASSUME NEW f \in Items
             PROVE  /\ f # NoItem /\ f.id \in Nat
                    /\ f.type = "BEGIN" => f.total \in Nat
                    /\ f.type = "CHUNK" => f.data \in Nat \X Nat
                    /\ f.type = "END" => f.crc \in Pictures
  OBVIOUS
<1>1. CASE f \in Begins
  BY <1>1 DEF Begins, Begin, NoItem
<1>2. CASE f \in Chunks
  BY <1>2 DEF Chunks, Chunk, NoItem
<1>3. CASE f \in Ends
  BY <1>3 DEF Ends, End, NoItem
<1>4. CASE f \in Errors
  BY <1>4 DEF Errors, Error, NoItem
<1> QED
  BY <1>1, <1>2, <1>3, <1>4 DEF Items

------------------------------------------------------------------------------
(* What a step leaves alone *)

(* A step that leaves both queues alone leaves them typed.                  *)
LEMMA LinkStays ==
  ASSUME IInv, Items \subseteq Items', UNCHANGED <<toS3, toBridge, requests>>
  PROVE  LinkOK'
<1>1. toS3' \in Seq(Items')
  BY SeqGrows DEF IInv, LinkOK
<1> QED
  BY <1>1 DEF IInv, LinkOK

(* A step that leaves the server alone.                                     *)
LEMMA ServerStays ==
  ASSUME IInv, UNCHANGED serverVars, LinkOK', ClientOK'
  PROVE  IInv'
<1>1. Items' = Items
  BY ItemsStay DEF serverVars, taskVars
<1>2. JobsOK'
  BY DEF IInv, JobsOK, serverVars, taskVars, Job
<1>3. QueueOK'
  BY <1>1 DEF IInv, QueueOK, serverVars, taskVars
<1>4. QueueOfOneTransfer'
  BY DEF IInv, QueueOfOneTransfer, serverVars, taskVars
<1> QED
  BY <1>2, <1>3, <1>4 DEF IInv

(* Taking a frame leaves the queue to the S3 typed.                         *)
LEMMA TakeS3Typed ==
  ASSUME LinkOK, NEW i \in 1..Len(toS3), NEW type, TakeS3(i, type)
  PROVE  /\ toS3[i] \in Items /\ toS3[i].type = type /\ toS3' \in Seq(Items)
BY RemoveAtSeq DEF LinkOK, TakeS3

(* Taking a frame leaves the queue to the Bridge typed.                     *)
LEMMA TakeBridgeTyped ==
  ASSUME LinkOK, NEW i \in 1..Len(toBridge), NEW type, TakeBridge(i, type)
  PROVE  /\ toBridge[i] \in BridgeFrames /\ toBridge[i].type = type
         /\ toBridge' \in Seq(BridgeFrames)
BY RemoveAtSeq DEF LinkOK, TakeBridge

(* What the Bridge sends is an item it may build.                           *)
LEMMA SendS3Typed ==
  ASSUME LinkOK, NEW f \in Items, SendS3(f)
  PROVE  toS3' \in Seq(Items)
BY OfferTyped DEF LinkOK, SendS3

(* What the S3 answers is a frame the Bridge expects.                       *)
LEMMA SendAckTyped ==
  ASSUME LinkOK, NEW m, NEW id \in Nat, NEW b \in Seq(Nat \X Nat), SendAck(m, id, b)
  PROVE  toBridge' \in Seq(BridgeFrames)
<1>1. Ack(id, Len(b)) \in BridgeFrames
  BY DEF BridgeFrames
<1>2. toBridge \in Seq(BridgeFrames)
  BY DEF LinkOK
<1>3. Offer(toBridge, Ack(id, Len(b))) \in Seq(BridgeFrames)
  BY <1>1, <1>2, OfferTyped
<1> QED
  BY <1>2, <1>3 DEF SendAck

------------------------------------------------------------------------------
(* The S3 and what only concerns the link *)

(* A client that at most clears its buffer stays typed.                     *)
LEMMA ClientKept ==
  ASSUME ClientOK, gotId' \in {gotId, 0}, bytes' = bytes \/ bytes' = << >>
  PROVE  ClientOK'
<1>1. << >> \in Seq(Nat \X Nat)
  OBVIOUS
<1>2. gotId' \in Nat
  BY DEF ClientOK
<1>3. bytes' \in Seq(Nat \X Nat)
  BY <1>1, Zenon DEF ClientOK
<1> QED
  BY <1>2, <1>3 DEF ClientOK

(* RADAR_BEGIN on the S3 keeps the invariant.                               *)
LEMMA ReceiveBeginKeeps ==
  ASSUME IInv, NEW i \in 1..Len(toS3), ReceiveBegin(i)
  PROVE  IInv'
<1> DEFINE f == toS3[i]
<1>1. f \in Items /\ f.type = "BEGIN" /\ toS3' \in Seq(Items)
  BY TakeS3Typed DEF IInv, ReceiveBegin
<1>2. f.id \in Nat
  BY <1>1, ItemsTyped
<1>3. UNCHANGED <<losses, serverVars, heard, loopVars, requests, faults>>
  BY DEF ReceiveBegin, ClientUnchanged
<1>4. << >> \in Seq(Nat \X Nat)
  OBVIOUS
<1>5. ClientOK' /\ toBridge' \in Seq(BridgeFrames)
  <2>1. CASE mode = "receiving" /\ f.id = gotId
    <3>1. SendAck(mode, gotId, bytes) /\ UNCHANGED clientVars
      BY <2>1 DEF ReceiveBegin
    <3> QED
      BY <3>1, SendAckTyped DEF IInv, ClientOK, clientVars
  <2>2. CASE mode = "waiting"
    <3>1. \/ gotId' = f.id /\ bytes' = << >> /\ SendAck("receiving", f.id, << >>)
          \/ Fail /\ UNCHANGED toBridge
      BY <2>2 DEF ReceiveBegin
    <3>2. CASE gotId' = f.id /\ bytes' = << >> /\ SendAck("receiving", f.id, << >>)
      BY <1>2, <1>4, <3>2, SendAckTyped DEF IInv, ClientOK
    <3>3. CASE Fail /\ UNCHANGED toBridge
      BY <1>4, <3>3 DEF IInv, ClientOK, LinkOK, Fail
    <3> QED
      BY <3>1, <3>2, <3>3
  <2>3. CASE ~ (mode = "receiving" /\ f.id = gotId) /\ mode # "waiting"
    <3>1. UNCHANGED <<toBridge, clientVars>>
      BY <2>3 DEF ReceiveBegin
    <3> QED
      BY <3>1 DEF IInv, ClientOK, LinkOK, clientVars
  <2> QED
    BY <2>1, <2>2, <2>3
<1>6. LinkOK'
  BY <1>1, <1>3, <1>5, ItemsStay DEF IInv, LinkOK, serverVars, taskVars, BridgeFrames
<1> QED
  BY <1>3, <1>5, <1>6, ServerStays

(* RADAR_CHUNK on the S3 keeps it.                                          *)
LEMMA ReceiveChunkKeeps ==
  ASSUME IInv, NEW i \in 1..Len(toS3), ReceiveChunk(i)
  PROVE  IInv'
<1> DEFINE f == toS3[i]
<1>1. f \in Items /\ f.type = "CHUNK" /\ toS3' \in Seq(Items)
  BY TakeS3Typed DEF IInv, ReceiveChunk
<1>2. f.data \in Nat \X Nat
  BY <1>1, ItemsTyped
<1>3. UNCHANGED <<losses, serverVars, heard, loopVars, requests, faults>>
  BY DEF ReceiveChunk, ClientUnchanged
<1>4. \/ Fail /\ UNCHANGED toBridge
      \/ /\ bytes' \in {bytes, Append(bytes, f.data)}
         /\ SendAck(mode, gotId, bytes') /\ UNCHANGED gotId
  BY DEF ReceiveChunk
<1>5. ClientOK' /\ toBridge' \in Seq(BridgeFrames)
  <2>1. CASE Fail /\ UNCHANGED toBridge
    BY <2>1 DEF IInv, ClientOK, LinkOK, Fail
  <2>2. CASE /\ bytes' \in {bytes, Append(bytes, f.data)}
             /\ SendAck(mode, gotId, bytes') /\ UNCHANGED gotId
    <3>1. bytes' \in Seq(Nat \X Nat) /\ gotId \in Nat
      <4>1. bytes \in Seq(Nat \X Nat) /\ gotId \in Nat
        BY DEF IInv, ClientOK
      <4>2. Append(bytes, f.data) \in Seq(Nat \X Nat)
        BY <1>2, <4>1, AppendProperties
      <4> QED
        BY <2>2, <4>1, <4>2
    <3> QED
      BY <2>2, <3>1, SendAckTyped DEF IInv, ClientOK
  <2> QED
    BY <1>4, <2>1, <2>2
<1>6. LinkOK'
  BY <1>1, <1>3, <1>5, ItemsStay DEF IInv, LinkOK, serverVars, taskVars, BridgeFrames
<1> QED
  BY <1>3, <1>5, <1>6, ServerStays

(* RADAR_END keeps it, and completes only a picture read to its end: its    *)
(* CRC is that of the bytes.                                                *)
LEMMA ReceiveEndKeeps ==
  ASSUME IInv, NEW i \in 1..Len(toS3), ReceiveEnd(i)
  PROVE  IInv' /\ CompletesWhole
<1> DEFINE f == toS3[i]
<1>1. f \in Items /\ f.type = "END" /\ toS3' \in Seq(Items)
  BY TakeS3Typed DEF IInv, ReceiveEnd
<1>2. f.crc \in Pictures
  BY <1>1, ItemsTyped
<1>3. UNCHANGED <<losses, serverVars, heard, loopVars, requests, faults>>
  BY DEF ReceiveEnd, ClientUnchanged
<1>4. \/ /\ Checks(f) /\ SendAck("finished", gotId, bytes)
         /\ UNCHANGED <<gotId, bytes>>
      \/ Fail /\ UNCHANGED toBridge
      \/ SendAck(mode, gotId, bytes) /\ UNCHANGED clientVars
      \/ UNCHANGED <<toBridge, clientVars>>
  BY DEF ReceiveEnd
<1>5. ClientOK'
  BY <1>4, ClientKept DEF IInv, Fail, clientVars
<1>6. toBridge' \in Seq(BridgeFrames)
  BY <1>4, SendAckTyped DEF IInv, ClientOK, LinkOK
<1>7. Items' = Items /\ Pictures' = Pictures
  BY <1>3, ItemsStay DEF serverVars, taskVars
<1>8. LinkOK'
  BY <1>1, <1>3, <1>6, <1>7 DEF IInv, LinkOK, BridgeFrames
<1>9. CompletesWhole
  <2>1. CASE Checks(f) /\ UNCHANGED <<gotId, bytes>>
    BY <1>2, <1>7, <2>1 DEF CompletesWhole, Checks
  <2>2. CASE Fail \/ UNCHANGED clientVars
    BY <2>2 DEF CompletesWhole, Fail, clientVars
  <2> QED
    BY <1>4, <2>1, <2>2 DEF clientVars
<1> QED
  BY <1>3, <1>5, <1>8, <1>9, ServerStays

(* The other steps of the loop of the S3 send nothing but a request.        *)
LEMMA LoopKeeps ==
  ASSUME IInv,
         \/ (\E i \in 1..Len(toS3) : ReceiveError(i)) \/ ClientTimeout \/ StartDecode
         \/ DecodeEnds \/ HandleDone \/ HandleFailure \/ LinkDownPass \/ BridgeStatus
  PROVE  IInv'
<1>1. UNCHANGED <<serverVars, requests, toBridge>> /\ toS3' \in Seq(Items)
  <2>1. toS3 \in Seq(Items)
    BY DEF IInv, LinkOK
  <2>2. CASE \E i \in 1..Len(toS3) : ReceiveError(i)
    BY <2>2, TakeS3Typed DEF IInv, ReceiveError, ClientUnchanged
  <2>3. CASE ClientTimeout
    BY <2>1, <2>3 DEF ClientTimeout, ClientUnchanged
  <2>4. CASE \/ StartDecode \/ DecodeEnds \/ HandleDone \/ HandleFailure
             \/ LinkDownPass \/ BridgeStatus
    BY <2>1, <2>4 DEF StartDecode, DecodeEnds, HandleDone, HandleFailure,
       LinkDownPass, BridgeStatus, LoopUnchanged, linkVars
  <2> QED
    BY <2>2, <2>3, <2>4
<1>2. gotId' = gotId /\ (bytes' = bytes \/ bytes' = << >>)
  BY DEF ReceiveError, ClientTimeout, StartDecode, DecodeEnds, HandleDone,
     HandleFailure, LinkDownPass, LinkDownReset, BridgeStatus, Fail, ResetClient, clientVars
<1>3. ClientOK'
  BY <1>2, ClientKept DEF IInv
<1>4. LinkOK'
  BY <1>1, ItemsStay DEF IInv, LinkOK, serverVars, taskVars, BridgeFrames
<1> QED
  BY <1>1, <1>3, <1>4, ServerStays

(* A request of the S3 keeps it.                                            *)
LEMMA SendRequestKeeps ==
  ASSUME IInv, SendRequest
  PROVE  IInv'
<1>1. requests + 1 \in Nat
  BY DEF IInv, LinkOK
<1>2. Request(requests + 1) \in BridgeFrames
  BY <1>1 DEF BridgeFrames
<1>3. toBridge' \in Seq(BridgeFrames)
  BY <1>2, OfferTyped DEF IInv, LinkOK, SendRequest
<1>4. requests' \in Nat
  BY <1>1 DEF SendRequest
<1>5. LinkOK'
  BY <1>3, <1>4, ItemsStay DEF IInv, LinkOK, SendRequest, serverVars, taskVars, BridgeFrames
<1> QED
  BY <1>5, ServerStays DEF IInv, ClientOK, SendRequest

(* Losing a frame, losing the link, restarting the S3.                      *)
LEMMA EnvironmentKeeps ==
  ASSUME IInv, Lose \/ Outage \/ S3Restart
  PROVE  IInv'
<1>1. UNCHANGED <<serverVars, requests>>
  BY DEF Lose, Outage, FallSilent, S3Restart, s3Vars
<1>2. toS3' \in Seq(Items) /\ toBridge' \in Seq(BridgeFrames)
  <2>1. CASE Lose
    BY <2>1, RemoveAtSeq DEF IInv, LinkOK, Lose
  <2>2. CASE Outage \/ S3Restart
    <3>1. toS3' = << >> /\ toBridge' = toBridge
      BY <2>2 DEF Outage, FallSilent, S3Restart
    <3> QED
      BY <3>1 DEF IInv, LinkOK
  <2> QED
    BY <2>1, <2>2
<1>3. gotId' \in {gotId, 0} /\ (bytes' = bytes \/ bytes' = << >>)
  BY DEF Lose, Outage, FallSilent, S3Restart, LinkDownReset, ResetClient, s3Vars, clientVars
<1>4. ClientOK'
  BY <1>3, ClientKept DEF IInv
<1>5. LinkOK'
  BY <1>1, <1>2, ItemsStay DEF IInv, LinkOK, serverVars, taskVars, BridgeFrames
<1> QED
  BY <1>1, <1>4, <1>5, ServerStays

------------------------------------------------------------------------------
(* The server *)

(* Steps of the server that leave the download alone: the items move from   *)
(* the queue to pending and to the link.                                    *)
LEMMA QueueStepKeeps ==
  ASSUME IInv, UNCHANGED <<taskVars, transferId, gotId, bytes, requests>>,
         queue' \in Seq(Items), ToSet(queue') \subseteq ToSet(queue),
         pending' \in ToSet(queue) \cup {pending, NoItem},
         toS3' \in Seq(Items), toBridge' \in Seq(BridgeFrames)
  PROVE  IInv'
<1>1. Items' = Items
  BY ItemsStay DEF taskVars
<1>2. JobsOK'
  BY DEF IInv, JobsOK, taskVars, Job
<1>3. pending' \in Items \cup {NoItem}
  BY DEF IInv, QueueOK, ToSet
<1>4. QueueOK'
  BY <1>1, <1>3 DEF IInv, QueueOK, taskVars
<1>5. QueueOfOneTransfer'
  BY DEF IInv, QueueOfOneTransfer, taskVars
<1> QED
  BY <1>1, <1>2, <1>4, <1>5 DEF IInv, LinkOK, ClientOK, BridgeFrames

(* A refused request keeps it.                                              *)
LEMMA RefuseKeeps ==
  ASSUME IInv, NEW i \in 1..Len(toBridge), RefuseRequest(i)
  PROVE  IInv'
<1>1. Error(0) \in Items
  BY DEF Items, Errors
<1>2. toS3' \in Seq(Items) /\ toBridge' \in Seq(BridgeFrames)
  BY <1>1, SendS3Typed, TakeBridgeTyped DEF IInv, RefuseRequest
<1>3. LinkOK'
  BY <1>2, ItemsStay DEF IInv, LinkOK, RefuseRequest, serverVars, taskVars, BridgeFrames
<1> QED
  BY <1>3, ServerStays DEF IInv, ClientOK, RefuseRequest, s3Vars, clientVars

(* An acknowledgement keeps it.                                             *)
LEMMA AcknowledgeKeeps ==
  ASSUME IInv, NEW i \in 1..Len(toBridge), Acknowledge(i)
  PROVE  IInv'
<1>1. toBridge' \in Seq(BridgeFrames)
  BY TakeBridgeTyped DEF IInv, Acknowledge
<1>2. pending' \in {pending, NoItem}
  BY DEF Acknowledge
<1> QED
  BY <1>1, <1>2, QueueStepKeeps
  DEF IInv, QueueOK, LinkOK, Acknowledge, s3Vars, clientVars

(* Sending the next item keeps it.                                          *)
LEMMA SendItemKeeps ==
  ASSUME IInv, SendItem
  PROVE  IInv'
<1>1. queue \in Seq(Items) /\ queue # << >>
  BY DEF IInv, QueueOK, SendItem
<1>2. /\ Head(queue) \in Items /\ Head(queue) \in ToSet(queue)
      /\ Tail(queue) \in Seq(Items) /\ ToSet(Tail(queue)) \subseteq ToSet(queue)
  BY <1>1 DEF ToSet
<1>3. toS3' \in Seq(Items)
  BY <1>2, SendS3Typed DEF IInv, SendItem
<1>4. pending' \in {NoItem, Head(queue)} /\ queue' = Tail(queue)
  BY DEF SendItem
<1> QED
  BY <1>2, <1>3, <1>4, QueueStepKeeps DEF IInv, LinkOK, SendItem, s3Vars, clientVars

(* Sending an item again keeps it.                                          *)
LEMMA ResendKeeps ==
  ASSUME IInv, Resend
  PROVE  IInv'
<1>1. pending \in Items
  BY DEF IInv, QueueOK, Resend
<1>2. toS3' \in Seq(Items)
  BY <1>1, SendS3Typed DEF IInv, Resend
<1> QED
  BY <1>2, QueueStepKeeps DEF IInv, QueueOK, LinkOK, Resend, serverVars, s3Vars, clientVars

(* The stall timeout keeps it.                                              *)
LEMMA StallAbortKeeps ==
  ASSUME IInv, StallAbort
  PROVE  IInv'
<1>1. queue' = << >> /\ ToSet(queue') \subseteq ToSet(queue) /\ pending' = NoItem
  BY DEF StallAbort, ToSet
<1> QED
  BY <1>1, QueueStepKeeps DEF IInv, LinkOK, StallAbort, linkVars, s3Vars, clientVars

(* A start finds the queue drained and no item in the hands of the task.    *)
LEMMA StartKeeps ==
  ASSUME IInv, NEW i \in 1..Len(toBridge), StartRequest(i)
  PROVE  IInv'
<1> DEFINE k == toBridge[i].kind
<1>1. toBridge' \in Seq(BridgeFrames) /\ k \in Nat
  <2>1. toBridge[i] \in BridgeFrames /\ toBridge[i].type = "REQUEST"
        /\ toBridge' \in Seq(BridgeFrames)
    BY TakeBridgeTyped DEF IInv, StartRequest
  <2> QED
    BY <2>1 DEF BridgeFrames, Request, Ack
<1>2. /\ taskAt = "off" /\ pending = NoItem
      /\ queue' = << >> /\ transferId' = transferId + 1 /\ taskAt' = "open"
      /\ item' = NoItem /\ offset' = 0 /\ pending' = pending
      /\ jobs' = Append(jobs, [kind |-> k, size |-> 0])
      /\ UNCHANGED <<toS3, requests, gotId, bytes>>
  BY DEF StartRequest, Start, Busy, s3Vars, clientVars
<1>3. jobs \in Seq([kind : Nat, size : Nat]) /\ [kind |-> k, size |-> 0] \in [kind : Nat, size : Nat]
  BY <1>1 DEF IInv, JobsOK
<1>4. /\ jobs' \in Seq([kind : Nat, size : Nat]) /\ Len(jobs') = Len(jobs) + 1
      /\ \A j \in 1..Len(jobs) : jobs'[j] = jobs[j]
      /\ jobs'[Len(jobs')] = [kind |-> k, size |-> 0]
  BY <1>2, <1>3, AppendProperties
<1>5. Items \subseteq Items'
  <2>1. Len(jobs) \in Nat
    BY <1>3
  <2>2. ASSUME NEW j \in 1..Len(jobs)
        PROVE  j \in 1..Len(jobs') /\ jobs'[j].size = jobs[j].size
    BY <1>4, <2>1, SMTT(20)
  <2> QED
    BY <2>2, ItemsGrow
<1>6. JobsOK'
  BY <1>2, <1>4, SMTT(20) DEF JobsOK, Job
<1>7. QueueOK'
  BY <1>2 DEF IInv, QueueOK
<1>8. LinkOK'
  <2>1. toS3' \in Seq(Items')
    BY <1>2, <1>5, SeqGrows DEF IInv, LinkOK
  <2> QED
    BY <1>1, <1>2, <2>1 DEF IInv, LinkOK, BridgeFrames
<1>9. QueueOfOneTransfer'
  BY <1>2 DEF QueueOfOneTransfer, ToSet
<1> QED
  BY <1>2, <1>6, <1>7, <1>8, <1>9 DEF IInv, ClientOK

------------------------------------------------------------------------------
(* The download task *)

(* Opening the source keeps it: the size of the download is set once.       *)
LEMMA OpenSourceKeeps ==
  ASSUME IInv, OpenSource
  PROVE  IInv'
<1>1. /\ taskAt = "open" /\ jobs # << >> /\ jobs[Job].size = 0 /\ Job \in 1..Len(jobs)
      /\ jobs \in Seq([kind : Nat, size : Nat])
  BY DEF IInv, JobsOK, OpenSource, Job
<1>2. /\ taskAt' \in {"error", "begin"} /\ offset' = 0
      /\ UNCHANGED <<item, queue, pending, transferId, toS3, toBridge, requests, gotId, bytes>>
  BY DEF OpenSource, Goto, TaskUnchanged, linkVars, s3Vars, clientVars
<1>3. /\ jobs' \in Seq([kind : Nat, size : Nat]) /\ Len(jobs') = Len(jobs)
      /\ \A j \in 1..Len(jobs) : j # Job => jobs'[j] = jobs[j]
  <2>1. CASE jobs' = jobs
    BY <1>1, <2>1
  <2>2. CASE \E n \in Sizes : jobs' = [jobs EXCEPT ![Job].size = n]
    <3>1. PICK n \in Nat : jobs' = [jobs EXCEPT ![Job].size = n]
      BY <2>2, AssetBounds
    <3>2. [jobs[Job] EXCEPT !.size = n] \in [kind : Nat, size : Nat]
      <4>1. jobs[Job] \in [kind : Nat, size : Nat]
        BY <1>1, ElementOfSeq
      <4> QED
        BY <4>1
    <3>3. jobs' = [jobs EXCEPT ![Job] = [jobs[Job] EXCEPT !.size = n]]
      BY <3>1
    <3> QED
      BY <1>1, <3>2, <3>3, ExceptSeq
  <2> QED
    BY <2>1, <2>2 DEF OpenSource
<1>4. Items \subseteq Items'
  <2>1. \A j \in 1..Len(jobs) : jobs[j].size > 0 => j # Job
    BY <1>1
  <2>2. \A j \in 1..Len(jobs) : jobs[j].size > 0 =>
          j \in 1..Len(jobs') /\ jobs'[j].size = jobs[j].size
    BY <1>3, <2>1
  <2> QED
    BY <2>2, ItemsGrow
<1>5. JobsOK'
  BY <1>1, <1>2, <1>3 DEF JobsOK, Job
<1>6. QueueOK'
  <2>1. queue' \in Seq(Items')
    BY <1>2, <1>4, SeqGrows DEF IInv, QueueOK
  <2> QED
    BY <1>1, <1>2, <1>4, <2>1 DEF IInv, QueueOK
<1>7. LinkOK'
  BY <1>2, <1>4, LinkStays
<1> QED
  BY <1>2, <1>5, <1>6, <1>7 DEF IInv, ClientOK, QueueOfOneTransfer

(* The item the task is about to enqueue is a good one, and its own.        *)
LEMMA NextItemTyped ==
  ASSUME IInv, HasItem
  PROVE  NextItem \in Items /\ NextItem.id = transferId
<1>1. Job \in 1..Len(jobs) /\ jobs[Job].size \in Nat /\ Job \in Nat /\ transferId \in Nat /\ offset \in Nat
  <2>1. jobs \in Seq([kind : Nat, size : Nat]) /\ jobs # << >> /\ transferId \in Nat /\ offset \in Nat
    BY DEF IInv, JobsOK, QueueOK, HasItem
  <2>2. Len(jobs) \in 1..Len(jobs)
    BY <2>1
  <2>3. jobs[Len(jobs)] \in [kind : Nat, size : Nat]
    BY <2>1, <2>2, ElementOfSeq
  <2> QED
    BY <2>1, <2>2, <2>3 DEF Job
<1>2. CASE taskAt = "begin"
  <2>1. NextItem = Begin(transferId, AnnouncedSize) /\ AnnouncedSize \in Nat
    BY <1>1, <1>2 DEF NextItem, AnnouncedSize
  <2> QED
    BY <1>1, <2>1 DEF Items, Begins, Begin
<1>3. CASE taskAt = "read"
  <2>1. NextItem = Chunk(transferId, offset, <<Job, offset + 1>>)
    BY <1>3 DEF NextItem
  <2>2. <<Job, offset + 1>> \in Nat \X Nat
    BY <1>1
  <2>3. Chunk(transferId, offset, <<Job, offset + 1>>) \in Chunks
    BY <1>1, <2>2 DEF Chunks
  <2> QED
    BY <2>1, <2>3 DEF Items, Chunk
<1>4. CASE taskAt = "end"
  <2>1. NextItem = End(transferId, Picture(Job))
    BY <1>4 DEF NextItem, Picture, IInv, JobsOK
  <2>2. Picture(Job) \in Pictures
    BY <1>1, <1>4 DEF Pictures, IInv, JobsOK
  <2>3. End(transferId, Picture(Job)) \in Ends
    BY <1>1, <2>2 DEF Ends
  <2> QED
    BY <2>1, <2>3 DEF Items, End
<1>5. CASE taskAt = "error"
  <2>1. NextItem = Error(transferId)
    BY <1>5 DEF NextItem
  <2> QED
    BY <1>1, <2>1 DEF Items, Errors, Error
<1> QED
  BY <1>2, <1>3, <1>4, <1>5 DEF HasItem

(* A step of the task after it has opened its source.                       *)
LEMMA TaskStepKeeps ==
  ASSUME IInv, TaskUnchanged, jobs' = jobs,
         taskAt # "off", taskAt' \in {"off", "begin", "read", "end", "error", "exit"},
         offset' \in Nat,
         taskAt' = "end" => offset' = jobs[Job].size /\ offset' > 0,
         queue' \in Seq(Items), item' \in Items \cup {NoItem},
         item' # NoItem => /\ taskAt' \in {"begin", "read", "end", "error"}
                           /\ item'.id = transferId,
         \A it \in ToSet(queue') : it.id = transferId \/ it = NoItem
  PROVE  IInv'
<1>1. Items' = Items
  BY ItemsStay
<1>2. UNCHANGED <<pending, transferId, toS3, toBridge, requests, gotId, bytes>>
  BY DEF TaskUnchanged, linkVars, s3Vars, clientVars
<1>3. JobsOK'
  BY DEF IInv, JobsOK, Job
<1>4. QueueOK'
  BY <1>1, <1>2 DEF IInv, QueueOK
<1>5. LinkOK'
  BY <1>1, <1>2 DEF IInv, LinkOK, BridgeFrames
<1>6. QueueOfOneTransfer'
  BY <1>2 DEF IInv, QueueOfOneTransfer
<1> QED
  BY <1>2, <1>3, <1>4, <1>5, <1>6 DEF IInv, ClientOK

(* Putting an item of this transfer keeps the queue one of this transfer.   *)
LEMMA PutKeeps ==
  ASSUME IInv, NEW it \in Items, it.id = transferId,
         taskAt \in {"begin", "read", "end", "error"}, Put(it), UNCHANGED jobs, TaskUnchanged
  PROVE  IInv'
<1>1. queue \in Seq(Items) /\ queue' = Append(queue, it) /\ item' = NoItem
  BY DEF IInv, QueueOK, Put
<1>2. queue' \in Seq(Items) /\ \A x \in ToSet(queue') : x \in ToSet(queue) \/ x = it
  BY <1>1 DEF ToSet
<1>3. \A x \in ToSet(queue') : x.id = transferId \/ x = NoItem
  BY <1>2 DEF IInv, QueueOfOneTransfer
<1>4. taskAt' \in {"read", "exit"} /\ offset' \in Nat
  BY DEF IInv, JobsOK, Put, Goto
<1> QED
  BY <1>1, <1>2, <1>3, <1>4, TaskStepKeeps

(* The items already there are of this transfer.                            *)
LEMMA QueueIsOwn ==
  ASSUME IInv
  PROVE  /\ queue \in Seq(Items) /\ item \in Items \cup {NoItem}
         /\ \A it \in ToSet(queue) : it.id = transferId \/ it = NoItem
         /\ item # NoItem => /\ item \in Items /\ item.id = transferId
                             /\ taskAt \in {"begin", "read", "end", "error"}
         /\ offset \in Nat
BY DEF IInv, JobsOK, QueueOK, QueueOfOneTransfer

(* An item put by the download task is one of the present transfer.         *)
LEMMA EnqueueKeeps ==
  ASSUME IInv, Enqueue
  PROVE  IInv'
<1>1. item = NoItem /\ HasItem /\ UNCHANGED jobs /\ TaskUnchanged
  BY DEF Enqueue
<1>2. NextItem \in Items /\ NextItem.id = transferId
  BY <1>1, NextItemTyped
<1>3. taskAt \in {"begin", "read", "end", "error"}
  BY <1>1 DEF HasItem
<1>4. CASE Refused /\ UNCHANGED <<item, queue>>
  BY <1>1, <1>3, <1>4, QueueIsOwn, TaskStepKeeps DEF Refused, Goto
<1>5. CASE Put(NextItem)
  BY <1>1, <1>2, <1>3, <1>5, PutKeeps
<1>6. CASE item' = NextItem /\ UNCHANGED <<taskAt, offset, queue>>
  BY <1>1, <1>2, <1>3, <1>6, QueueIsOwn, TaskStepKeeps DEF IInv, JobsOK
<1> QED
  BY <1>4, <1>5, <1>6 DEF Enqueue

(* The other steps of the download task keep it.                            *)
LEMMA TaskKeeps ==
  ASSUME IInv, EnqueueWaiting \/ GiveUp \/ StopReading \/ TaskExit
  PROVE  IInv'
<1>1. CASE EnqueueWaiting
  BY <1>1, QueueIsOwn, PutKeeps DEF EnqueueWaiting
<1>2. CASE GiveUp
  BY <1>2, QueueIsOwn, TaskStepKeeps DEF GiveUp, Refused, Goto
<1>3. CASE StopReading
  BY <1>3, QueueIsOwn, TaskStepKeeps DEF StopReading, Goto
<1>4. CASE TaskExit
  BY <1>4, QueueIsOwn, TaskStepKeeps DEF TaskExit, Goto
<1> QED
  BY <1>1, <1>2, <1>3, <1>4

(* A restart of the Bridge keeps it: no item is left.                       *)
LEMMA BridgeRestartKeeps ==
  ASSUME IInv, BridgeRestart
  PROVE  IInv'
<1>1. /\ toS3' = << >> /\ toBridge' = << >> /\ queue' = << >>
      /\ item' = NoItem /\ pending' = NoItem /\ transferId' = 0
      /\ taskAt' = "off" /\ offset' = 0 /\ UNCHANGED <<jobs, requests>>
  BY DEF BridgeRestart, FallSilent
<1>2. gotId' = gotId /\ (bytes' = bytes \/ bytes' = << >>)
  BY DEF BridgeRestart, FallSilent, LinkDownReset, ResetClient, clientVars
<1>3. JobsOK'
  BY <1>1 DEF IInv, JobsOK
<1>4. QueueOK' /\ QueueOfOneTransfer'
  BY <1>1 DEF QueueOK, QueueOfOneTransfer, ToSet
<1>5. LinkOK'
  BY <1>1 DEF IInv, LinkOK
<1>6. ClientOK'
  BY <1>2, ClientKept DEF IInv
<1> QED
  BY <1>3, <1>4, <1>5, <1>6 DEF IInv

------------------------------------------------------------------------------
(* The invariant holds at the start.                                        *)
LEMMA InitKeeps == Init => IInv
<1> SUFFICES ASSUME Init PROVE IInv
  OBVIOUS
<1>1. JobsOK /\ QueueOK
  BY DEF Init, JobsOK, QueueOK
<1>2. LinkOK /\ ClientOK
  BY DEF Init, LinkOK, ClientOK
<1>3. QueueOfOneTransfer
  BY DEF Init, QueueOfOneTransfer, ToSet
<1> QED
  BY <1>1, <1>2, <1>3 DEF IInv

(* Every step keeps the invariant.                                          *)
LEMMA StepKeeps == IInv /\ [Next]_vars => IInv'
<1> SUFFICES ASSUME IInv, [Next]_vars PROVE IInv'
  OBVIOUS
<1>1. CASE BridgeLoop
  BY <1>1, StartKeeps, RefuseKeeps, AcknowledgeKeeps, SendItemKeeps, ResendKeeps,
     StallAbortKeeps DEF BridgeLoop
<1>2. CASE DownloadTask
  BY <1>2, OpenSourceKeeps, EnqueueKeeps, TaskKeeps DEF DownloadTask
<1>3. CASE S3Loop \/ DecodeEnds
  BY <1>3, ReceiveBeginKeeps, ReceiveChunkKeeps, ReceiveEndKeeps, SendRequestKeeps,
     LoopKeeps DEF S3Loop
<1>4. CASE Environment
  BY <1>4, EnvironmentKeeps, BridgeRestartKeeps DEF Environment
<1>5. CASE UNCHANGED vars
  <2>1. LinkOK' /\ ClientOK'
    BY <1>5, ItemsStay DEF IInv, LinkOK, ClientOK, BridgeFrames, vars, linkVars,
       serverVars, taskVars, s3Vars, clientVars
  <2> QED
    BY <1>5, <2>1, ServerStays DEF vars
<1> QED
  BY <1>1, <1>2, <1>3, <1>4, <1>5 DEF Next

(* No other step completes a transfer.                                      *)
LEMMA OnlyEndCompletes ==
  ASSUME [Next]_vars, ~ \E i \in 1..Len(toS3) : ReceiveEnd(i)
  PROVE  completed' => completed
<1>1. CASE BridgeLoop
  BY <1>1 DEF BridgeLoop, StartRequest, RefuseRequest, Acknowledge, SendItem, Resend,
     StallAbort, s3Vars, clientVars
<1>2. CASE DownloadTask
  BY <1>2 DEF DownloadTask, OpenSource, Enqueue, EnqueueWaiting, GiveUp, StopReading,
     TaskExit, TaskUnchanged, s3Vars, clientVars
<1>3. CASE S3Loop \/ DecodeEnds
  <2>1. CASE \E i \in 1..Len(toS3) : ReceiveBegin(i) \/ ReceiveChunk(i) \/ ReceiveError(i)
    BY <2>1 DEF ReceiveBegin, ReceiveChunk, ReceiveError, Fail, clientVars
  <2>2. CASE ClientTimeout \/ SendRequest \/ StartDecode \/ DecodeEnds
    BY <2>2 DEF ClientTimeout, SendRequest, StartDecode, DecodeEnds, Fail, clientVars
  <2>3. CASE HandleDone \/ HandleFailure \/ LinkDownPass \/ BridgeStatus
    BY <2>3 DEF HandleDone, HandleFailure, LinkDownPass, LinkDownReset, ResetClient,
       BridgeStatus, Fail, clientVars
  <2> QED
    BY <1>3, <2>1, <2>2, <2>3 DEF S3Loop
<1>4. CASE Environment
  BY <1>4 DEF Environment, Lose, Outage, BridgeRestart, S3Restart, FallSilent,
     LinkDownReset, ResetClient, s3Vars, clientVars
<1>5. CASE UNCHANGED vars
  BY <1>5 DEF vars, s3Vars, clientVars
<1> QED
  BY <1>1, <1>2, <1>3, <1>4, <1>5 DEF Next

(* Whatever is aborted, refused, lost or restarted, and although a task     *)
(* blocked on the full queue may put its item after the abort: no item of   *)
(* an earlier transfer is left when the next one starts.                    *)
THEOREM AssetQueueOfOneTransfer == Spec => []QueueOfOneTransfer
<1>1. IInv => QueueOfOneTransfer
  BY DEF IInv
<1> QED
  BY <1>1, InitKeeps, StepKeeps, PTL DEF Spec

(* For all sizes and bounds: the client of the S3 takes for complete only   *)
(* what is, chunk by chunk, one picture the Bridge has read to its end.     *)
THEOREM AssetCompletesWhole == Spec => [][CompletesWhole]_vars
<1>1. IInv /\ [Next]_vars => [CompletesWhole]_vars
  <2> SUFFICES ASSUME IInv, [Next]_vars PROVE CompletesWhole
    OBVIOUS
  <2>1. CASE \E i \in 1..Len(toS3) : ReceiveEnd(i)
    BY <2>1, ReceiveEndKeeps
  <2>2. CASE ~ \E i \in 1..Len(toS3) : ReceiveEnd(i)
    BY <2>2, OnlyEndCompletes DEF CompletesWhole
  <2> QED
    BY <2>1, <2>2
<1> QED
  BY <1>1, InitKeeps, StepKeeps, PTL DEF Spec

------------------------------------------------------------------------------
(* The exchange.  From the end of a transfer until its decode has ended     *)
(* nothing is under way that could disturb the S3, so the worker keeps its  *)
(* buffer, decodes one whole picture, and the two halves of the transaction *)
(* stay together.  The argument is that of a stop-and-wait protocol:        *)
(* RADAR_END is sent only after a chunk was acknowledged, and that          *)
(* acknowledgement tells the Bridge that no request is on its way and no    *)
(* further RADAR_BEGIN of the same transfer.                                *)

(* The inductive invariant of the exchange *)

Unacked == ToSet(queue) \cup {pending}
IsBulk(f) == f.type \in {"BEGIN", "CHUNK", "END"}
IsFirst(it) == it.type = "CHUNK" /\ it.off = 0

(* The task has put its last item.                                          *)
Over == taskAt \in {"exit", "off"} /\ queue = <<>> /\ item = NoItem

(* No RADAR_BEGIN of the present transfer will be sent any more.            *)
Begun == taskAt \notin {"open", "begin"} /\ \A it \in Unacked : it.type # "BEGIN"

(* No RADAR_BEGIN of transfer t will ever reach the client again.           *)
Past(t) == /\ \A f \in ToSet(toS3) : ~ (f.type = "BEGIN" /\ f.id = t)
           /\ t = transferId => Begun

NoRequest == \A f \in ToSet(toBridge) : f.type # "REQUEST"

(* The items of a transfer are enqueued in order, RADAR_END last.           *)
Late  == \/ taskAt = "end" \/ (taskAt = "read" /\ offset > 0)
         \/ \E it \in Unacked : it.type = "END"
Early == \E it \in Unacked : it.type = "BEGIN" \/ IsFirst(it)
Schedule ==
  /\ item # NoItem => HasItem /\ item = NextItem
  /\ taskAt \in {"open", "begin"} => queue = <<>> /\ pending = NoItem
  /\ pending.type # "ERROR"
  /\ \A i \in 1..Len(queue) :
       /\ queue[i].type = "BEGIN" => i = 1 /\ pending = NoItem
       /\ queue[i].type = "END" => i = Len(queue) /\ taskAt \in {"exit", "off"}
  /\ pending.type = "END" => Over
  /\ ~ abort /\ Late /\ (\E it \in Unacked : it.type = "BEGIN") =>
       \E it \in ToSet(queue) : IsFirst(it)

------------------------------------------------------------------------------
(* The order in which the items are enqueued *)

(* What the fields of the items in the hands of the server say.             *)
LEMMA UnackedTyped ==
  ASSUME IInv
  PROVE  /\ queue \in Seq(Items) /\ NoItem.type = "NONE"
         /\ \A f \in Items : f.type \in {"BEGIN", "CHUNK", "END", "ERROR"}
         /\ pending = NoItem \/ pending \in Items
<1>1. \A f \in Items : f.type \in {"BEGIN", "CHUNK", "END", "ERROR"}
  BY DEF Items, Begins, Begin, Chunks, Chunk, Ends, End, Errors, Error
<1> QED
  BY <1>1 DEF IInv, QueueOK, NoItem

(* The type of the next item follows from the place of the task.            *)
LEMMA NextItemIs ==
  ASSUME IInv, HasItem
  PROVE  /\ NextItem.type = "BEGIN" <=> taskAt = "begin"
         /\ NextItem.type = "CHUNK" <=> taskAt = "read"
         /\ NextItem.type = "END" <=> taskAt = "end"
         /\ taskAt = "read" => NextItem.off = offset
         /\ NextItem \in Items /\ NextItem.id = transferId
<1>1. NextItem \in Items /\ NextItem.id = transferId
  BY NextItemTyped
<1>2. taskAt = "begin" => NextItem = Begin(transferId, AnnouncedSize)
  BY DEF NextItem
<1>3. taskAt = "read" => NextItem = Chunk(transferId, offset, <<Job, offset + 1>>)
  BY DEF NextItem
<1>4. taskAt = "end" => NextItem = End(transferId, [n \in 1..offset |-> <<Job, n>>])
  BY DEF NextItem
<1>5. taskAt = "error" => NextItem = Error(transferId)
  BY DEF NextItem
<1> QED
  BY <1>1, <1>2, <1>3, <1>4, <1>5 DEF HasItem, Begin, Chunk, End, Error

(* Putting the next item of a transfer keeps the order.                     *)
LEMMA PutSchedules ==
  ASSUME IInv, Schedule, HasItem, Put(NextItem), UNCHANGED <<jobs, pending, abort, transferId>>
  PROVE  Schedule'
<1> DEFINE it == NextItem
<1>1. /\ it.type = "BEGIN" <=> taskAt = "begin"
      /\ it.type = "CHUNK" <=> taskAt = "read"
      /\ it.type = "END" <=> taskAt = "end"
      /\ taskAt = "read" => it.off = offset
      /\ it \in Items
  BY NextItemIs
<1>2. /\ queue \in Seq(Items) /\ queue' = Append(queue, it) /\ item' = NoItem
  BY DEF Put, IInv, QueueOK
<1> HIDE DEF it
<1>3. /\ Len(queue') = Len(queue) + 1 /\ queue'[Len(queue) + 1] = it
      /\ \A i \in 1..Len(queue) : queue'[i] = queue[i]
      /\ Len(queue) \in Nat
      /\ \A i \in 1..Len(queue') : i \in 1..Len(queue) \/ i = Len(queue) + 1
  BY <1>1, <1>2
<1>4. ToSet(queue') = ToSet(queue) \cup {it}
  BY <1>2, <1>3 DEF ToSet
<1>5. /\ taskAt \in {"begin", "read"} => taskAt' = "read"
      /\ taskAt \in {"end", "error"} => taskAt' = "exit"
      /\ taskAt = "read" => offset' = offset + 1
      /\ taskAt = "begin" => offset' = 0
      /\ taskAt \in {"begin", "read", "end", "error"}
  BY DEF Put, Goto, HasItem
<1>6. \A i \in 1..Len(queue') :
        /\ queue'[i].type = "BEGIN" => i = 1 /\ pending' = NoItem
        /\ queue'[i].type = "END" => i = Len(queue') /\ taskAt' \in {"exit", "off"}
  <2> SUFFICES ASSUME NEW i \in 1..Len(queue')
               PROVE  /\ queue'[i].type = "BEGIN" => i = 1 /\ pending' = NoItem
                      /\ queue'[i].type = "END" => i = Len(queue') /\ taskAt' \in {"exit", "off"}
    OBVIOUS
  <2>1. CASE i \in 1..Len(queue)
    BY <1>3, <1>5, <2>1 DEF Schedule
  <2>2. CASE i = Len(queue) + 1
    BY <1>1, <1>2, <1>3, <1>5, <2>2 DEF Schedule
  <2> QED
    BY <1>3, <2>1, <2>2
<1>7. pending'.type = "END" => Over'
  BY <1>5 DEF Schedule, Over
<1>8. ~ abort' /\ Late' /\ (\E x \in Unacked' : x.type = "BEGIN") =>
        \E x \in ToSet(queue') : IsFirst(x)
  <2> SUFFICES ASSUME ~ abort', Late', NEW b \in Unacked', b.type = "BEGIN"
               PROVE  \E x \in ToSet(queue') : IsFirst(x)
    OBVIOUS
  <2>1. CASE taskAt = "begin"
    <3>1. queue = << >> /\ pending = NoItem /\ taskAt' = "read" /\ offset' = 0
      BY <1>5, <2>1 DEF Schedule
    <3>2. ToSet(queue) = {} /\ ToSet(queue') = {it}
      BY <1>4, <3>1 DEF ToSet
    <3> QED
      BY <1>1, <2>1, <3>1, <3>2 DEF Late, Unacked, NoItem
  <2>2. CASE taskAt = "read" /\ offset = 0
    BY <1>1, <1>4, <2>2 DEF IsFirst
  <2>3. CASE (taskAt = "read" /\ offset # 0) \/ taskAt = "end"
    <3>1. Late /\ b \in Unacked
      <4>1. offset \in Nat
        BY DEF IInv, JobsOK
      <4> QED
        BY <1>1, <1>4, <2>3, <4>1 DEF Late, Unacked
    <3> QED
      BY <1>4, <3>1 DEF Schedule
  <2>4. CASE taskAt = "error"
    <3>1. it.type \notin {"BEGIN", "END"} /\ taskAt' = "exit"
      BY <1>1, <1>5, <2>4
    <3>2. Late /\ b \in Unacked
      BY <1>4, <3>1 DEF Late, Unacked
    <3> QED
      BY <1>4, <3>2 DEF Schedule
  <2> QED
    BY <1>5, <2>1, <2>2, <2>3, <2>4
<1> QED
  BY <1>2, <1>5, <1>6, <1>7, <1>8 DEF Schedule

(* A step that neither puts an item nor starts a transfer keeps it when     *)
(* the items only move from the queue to pending, or are dropped.           *)
LEMMA ServerSchedules ==
  ASSUME IInv, Schedule,
         \/ UNCHANGED serverVars
         \/ \E i \in 1..Len(toBridge) : StartRequest(i) \/ Acknowledge(i)
         \/ SendItem \/ StallAbort \/ OpenSource \/ GiveUp \/ StopReading \/ TaskExit
         \/ BridgeRestart
  PROVE  Schedule'
<1>0. queue \in Seq(Items)
  BY DEF IInv, QueueOK
<1>1. CASE UNCHANGED serverVars
  BY <1>1 DEF serverVars, taskVars, Schedule, HasItem, NextItem, AnnouncedSize, Job, Over,
              Late, Unacked
<1>2. CASE (\E i \in 1..Len(toBridge) : StartRequest(i)) \/ StallAbort \/ BridgeRestart
  <2>1. /\ queue' = << >> /\ pending' = NoItem
        /\ item' = NoItem \/ UNCHANGED <<item, taskAt, offset, jobs, transferId>>
    BY <1>2 DEF StartRequest, Start, Busy, StallAbort, BridgeRestart, taskVars
  <2>2. item' # NoItem => HasItem' /\ item' = NextItem'
    BY <2>1 DEF Schedule, HasItem, NextItem, AnnouncedSize, Job
  <2>3. Len(queue') = 0 /\ Unacked' = {NoItem}
    BY <2>1 DEF Unacked, ToSet
  <2> QED
    BY <2>1, <2>2, <2>3 DEF Schedule, NoItem
<1>3. CASE \E i \in 1..Len(toBridge) : Acknowledge(i)
  <2>1. /\ UNCHANGED <<taskVars, queue, abort, transferId>>
        /\ pending' = pending \/ pending' = NoItem
    BY <1>3 DEF Acknowledge
  <2>2. Unacked' \subseteq Unacked \cup {NoItem}
    BY <2>1 DEF Unacked
  <2> QED
    BY <2>1, <2>2 DEF taskVars, Schedule, HasItem, NextItem, AnnouncedSize, Job, Over, Late,
                      NoItem
<1>4. CASE SendItem
  <2>1. /\ UNCHANGED <<taskVars, abort, transferId>> /\ pending = NoItem /\ queue # << >>
        /\ queue' = Tail(queue)
        /\ pending' = IF queue[1].type = "ERROR" THEN NoItem ELSE queue[1]
    BY <1>0, <1>4 DEF SendItem
  <2>2. /\ Len(queue') = Len(queue) - 1 /\ Len(queue) \in Nat \ {0}
        /\ \A i \in 1..Len(queue') : queue'[i] = queue[i + 1]
        /\ \A i \in 1..Len(queue') : i + 1 \in 1..Len(queue)
    BY <1>0, <2>1
  <2>3. ToSet(queue) = ToSet(queue') \cup {queue[1]}
    <3>1. DOMAIN queue = 1..Len(queue) /\ DOMAIN queue' = 1..Len(queue')
      BY <1>0, <2>1
    <3>2. ASSUME NEW i \in 1..Len(queue)
          PROVE  i = 1 \/ (i - 1 \in 1..Len(queue') /\ queue[i] = queue'[i - 1])
      <4>1. i # 1 => i - 1 \in 1..Len(queue') /\ (i - 1) + 1 = i
        BY <2>2
      <4> QED
        BY <2>2, <4>1
    <3>3. 1 \in 1..Len(queue)
      BY <2>2
    <3>4. ToSet(queue) \subseteq ToSet(queue') \cup {queue[1]}
      <4>1. ASSUME NEW x \in ToSet(queue)
            PROVE  x \in ToSet(queue') \cup {queue[1]}
        <5>1. PICK i \in 1..Len(queue) : x = queue[i]
          BY <3>1, Zenon DEF ToSet
        <5>2. i # 1 => x = queue'[i - 1] /\ i - 1 \in DOMAIN queue'
          BY <3>1, <3>2, <5>1
        <5> QED
          BY <5>1, <5>2 DEF ToSet
      <4> QED
        BY <4>1
    <3>5. ToSet(queue') \subseteq ToSet(queue)
      BY <2>2, <3>1, Zenon DEF ToSet
    <3>6. queue[1] \in ToSet(queue)
      BY <3>1, <3>3, Zenon DEF ToSet
    <3> QED
      BY <3>4, <3>5, <3>6
  <2>4. Unacked' \subseteq Unacked
    BY <2>1, <2>3 DEF Unacked
  <2>5. \A i \in 1..Len(queue') :
          /\ queue'[i].type # "BEGIN"
          /\ queue'[i].type = "END" => i = Len(queue') /\ taskAt' \in {"exit", "off"}
    <3> SUFFICES ASSUME NEW i \in 1..Len(queue')
                 PROVE  /\ queue'[i].type # "BEGIN"
                        /\ queue'[i].type = "END" => i = Len(queue') /\ taskAt' \in {"exit", "off"}
      OBVIOUS
    <3>1. i + 1 \in 1..Len(queue) /\ i + 1 # 1 /\ queue'[i] = queue[i + 1]
      BY <2>2
    <3>2. i + 1 = Len(queue) => i = Len(queue')
      BY <2>2
    <3> QED
      BY <2>1, <3>1, <3>2 DEF Schedule, taskVars
  <2>6. pending'.type = "END" => Over'
    <3> SUFFICES ASSUME pending'.type = "END" PROVE Over'
      OBVIOUS
    <3>1. queue[1].type = "END" /\ 1 \in 1..Len(queue)
      BY <2>1, <2>2 DEF NoItem
    <3>2. Len(queue) = 1 /\ taskAt \in {"exit", "off"}
      BY <3>1 DEF Schedule
    <3>3. item = NoItem
      BY <3>2 DEF Schedule, HasItem
    <3> QED
      BY <1>0, <2>1, <3>2, <3>3 DEF Over, taskVars
  <2>7. ~ abort' /\ Late' /\ (\E x \in Unacked' : x.type = "BEGIN") =>
          \E x \in ToSet(queue') : IsFirst(x)
    <3> SUFFICES ASSUME ~ abort', Late', NEW b \in Unacked', b.type = "BEGIN"
                 PROVE  \E x \in ToSet(queue') : IsFirst(x)
      OBVIOUS
    <3>1. PICK x \in ToSet(queue) : IsFirst(x)
      BY <2>1, <2>4 DEF Schedule, Late, taskVars
    <3>2. b = queue[1]
      <4>1. \A y \in ToSet(queue') : y.type # "BEGIN"
        BY <1>0, <2>1, <2>5 DEF ToSet
      <4> QED
        BY <2>1, <4>1 DEF Unacked, NoItem
    <3> QED
      BY <2>3, <3>1, <3>2 DEF IsFirst
  <2>8. pending'.type # "ERROR"
    BY <2>1 DEF NoItem
  <2>9. taskAt' \notin {"open", "begin"}
    BY <2>1 DEF Schedule, taskVars
  <2>10. item' # NoItem => HasItem' /\ item' = NextItem'
    BY <2>1 DEF Schedule, taskVars, HasItem, NextItem, AnnouncedSize, Job
  <2> QED
    BY <2>5, <2>6, <2>7, <2>8, <2>9, <2>10 DEF Schedule
<1>5. CASE OpenSource
  <2>1. /\ taskAt = "open" /\ taskAt' \in {"error", "begin"}
        /\ UNCHANGED <<item, queue, pending, abort>>
    BY <1>5 DEF OpenSource, Goto, TaskUnchanged
  <2>2. queue' = << >> /\ pending' = NoItem /\ item' = NoItem
    BY <2>1 DEF Schedule, HasItem
  <2>3. Len(queue') = 0 /\ Unacked' = {NoItem}
    BY <2>2 DEF Unacked, ToSet
  <2> QED
    BY <2>2, <2>3 DEF Schedule, NoItem
<1>6. CASE GiveUp \/ StopReading \/ TaskExit
  <2>1. /\ item' = NoItem /\ UNCHANGED <<queue, pending, abort>>
        /\ taskAt \notin {"off", "open"} /\ taskAt' \notin {"open", "begin"}
    BY <1>6 DEF GiveUp, StopReading, TaskExit, Refused, Goto, TaskUnchanged, Schedule, HasItem
  <2>2. Unacked' = Unacked
    BY <2>1 DEF Unacked
  <2>3. \A i \in 1..Len(queue) : queue[i].type = "END" => taskAt' \in {"exit", "off"}
    BY <1>6 DEF GiveUp, StopReading, TaskExit, Goto, Schedule, HasItem
  <2>4. pending.type = "END" => Over'
    BY <1>6, <2>1 DEF GiveUp, StopReading, TaskExit, Goto, Schedule, HasItem, Over
  <2>5. ~ abort /\ Late' => Late
    <3>1. ~ abort => StopReading \/ TaskExit
      BY <1>6 DEF GiveUp
    <3>2. CASE StopReading
      <4>1. offset \in Nat
        BY DEF IInv, JobsOK
      <4> QED
        BY <2>2, <3>2, <4>1 DEF StopReading, Goto, Late
    <3>3. CASE TaskExit
      BY <2>2, <3>3 DEF TaskExit, Goto, Late
    <3> QED
      BY <3>1, <3>2, <3>3
  <2> QED
    BY <2>1, <2>2, <2>3, <2>4, <2>5 DEF Schedule
<1> QED
  BY <1>1, <1>2, <1>3, <1>4, <1>5, <1>6

(* A refused item is dropped, a waiting one is put when a place falls free. *)
LEMMA EnqueueSchedules ==
  ASSUME IInv, Schedule, Enqueue \/ EnqueueWaiting
  PROVE  Schedule'
<1>1. CASE EnqueueWaiting
  BY <1>1, PutSchedules DEF EnqueueWaiting, TaskUnchanged, Schedule
<1>2. CASE Enqueue /\ abort
  <2>1. /\ item' = NoItem /\ UNCHANGED <<queue, pending, abort>> /\ abort
        /\ taskAt \in {"begin", "read", "end", "error"} /\ taskAt' \in {"error", "exit"}
    BY <1>2 DEF Enqueue, Refused, Goto, TaskUnchanged, HasItem
  <2> QED
    BY <2>1 DEF Schedule, Over
<1>3. CASE Enqueue /\ Put(NextItem)
  BY <1>3, PutSchedules DEF Enqueue, TaskUnchanged
<1>4. CASE Enqueue /\ item' = NextItem /\ UNCHANGED <<taskAt, offset, queue>>
  <2>1. /\ HasItem /\ UNCHANGED <<jobs, pending, abort, transferId>>
    BY <1>4 DEF Enqueue, TaskUnchanged
  <2>2. HasItem' /\ NextItem' = NextItem /\ Unacked' = Unacked
    BY <1>4, <2>1 DEF HasItem, NextItem, AnnouncedSize, Job, Unacked
  <2>3. ~ Over /\ pending.type # "END"
    BY <2>1 DEF HasItem, Over, Schedule
  <2> QED
    BY <1>4, <2>1, <2>2, <2>3 DEF Schedule, Late
<1> QED
  BY <1>1, <1>2, <1>3, <1>4 DEF Enqueue

(* Every step keeps the order.                                              *)
LEMMA ScheduleKept ==
  ASSUME IInv, Schedule, [Next]_vars
  PROVE  Schedule'
<1>1. CASE BridgeLoop
  BY <1>1, ServerSchedules DEF BridgeLoop, RefuseRequest, Resend
<1>2. CASE DownloadTask
  BY <1>2, ServerSchedules, EnqueueSchedules DEF DownloadTask
<1>3. CASE S3Loop \/ DecodeEnds
  <2>1. UNCHANGED serverVars
    BY <1>3 DEF S3Loop, ReceiveBegin, ReceiveChunk, ReceiveEnd, ReceiveError, ClientTimeout,
                SendRequest, StartDecode, HandleDone, HandleFailure, LinkDownPass,
                BridgeStatus, DecodeEnds, ClientUnchanged, LoopUnchanged
  <2> QED
    BY <2>1, ServerSchedules
<1>4. CASE Environment
  BY <1>4, ServerSchedules DEF Environment, Lose, Outage, S3Restart
<1>5. CASE UNCHANGED vars
  BY <1>5, ServerSchedules DEF vars
<1> QED
  BY <1>1, <1>2, <1>3, <1>4, <1>5 DEF Next

------------------------------------------------------------------------------
(* Queues *)

(* A frame that is no control frame is taken only when it is the oldest.    *)
LEMMA TakenFirst ==
  ASSUME LinkOK, NEW i \in 1..Len(toS3), NEW type \in {"BEGIN", "CHUNK", "END"},
         TakeS3(i, type)
  PROVE  /\ toS3[1].type = type /\ i = 1 /\ toS3[1] \in ToSet(toS3)
         /\ toS3' = RemoveAt(toS3, 1) /\ 1 \in 1..Len(toS3)
<1>1. i = 1
  BY DEF TakeS3, Poppable, IsControl
<1> QED
  BY <1>1 DEF TakeS3, LinkOK, ToSet

------------------------------------------------------------------------------
(* What the steps of the S3 and of the Bridge do to the exchange *)

(* The client answers with an acknowledgement.                              *)
Answers ==
  /\ mode' \in {"receiving", "finished"}
  /\ toBridge' = Append(toBridge, Ack(gotId', Len(bytes')))
  /\ mode = "finished" => \E f \in ToSet(toS3) : IsBulk(f)

(* What the client does with BEGIN, CHUNK and END, and when it is done with *)
(* the bytes.                                                               *)
Attaches ==
  /\ mode = "waiting" /\ mode' = "receiving" /\ bytes' = <<>>
  /\ \E f \in ToSet(toS3) : f.type = "BEGIN" /\ gotId' = f.id
Reads ==
  /\ mode = "receiving" /\ UNCHANGED <<mode, gotId>>
  /\ 1 \in 1..Len(toS3) /\ toS3' = RemoveAt(toS3, 1)
  /\ toS3[1].type = "CHUNK" /\ toS3[1].id = gotId
Finishes ==
  /\ mode = "receiving" /\ mode' = "finished" /\ UNCHANGED <<gotId, bytes>>
  /\ 1 \in 1..Len(toS3) /\ toS3' = RemoveAt(toS3, 1)
  /\ toS3[1].type = "END" /\ toS3[1].id = gotId /\ toS3[1].crc = bytes
Releases == UNCHANGED <<mode, gotId>> /\ bytes' = <<>>

(* The server sends the next item, or again the one not acknowledged.       *)
Sends(f) == \/ SendItem /\ queue # <<>> /\ f = queue[1]
            \/ Resend /\ pending # NoItem /\ f = pending

(* A full queue drops the acknowledgement.                                  *)
LEMMA AckOffered ==
  ASSUME NEW m, NEW id, NEW b, SendAck(m, id, b)
  PROVE  \/ UNCHANGED toBridge
         \/ m \in {"receiving", "finished"} /\ toBridge' = Append(toBridge, Ack(id, Len(b)))
BY DEF SendAck, Offer

(* RADAR_BEGIN, RADAR_CHUNK and RADAR_END at the client.                    *)
LEMMA ReceiveStep ==
  ASSUME IInv, NEW i \in 1..Len(toS3), ReceiveBegin(i) \/ ReceiveChunk(i) \/ ReceiveEnd(i)
  PROVE  /\ UNCHANGED serverVars /\ toS3' = RemoveAt(toS3, i)
         /\ UNCHANGED toBridge \/ Answers
         /\ \/ UNCHANGED <<mode, gotId, bytes>>
            \/ mode' = "idle"
            \/ Attaches \/ Reads \/ Finishes
<1> DEFINE f == toS3[i]
<1>1. /\ UNCHANGED serverVars /\ toS3' = RemoveAt(toS3, i) /\ f \in ToSet(toS3)
      /\ f.type \in {"BEGIN", "CHUNK", "END"} /\ IsBulk(f)
  BY DEF ReceiveBegin, ReceiveChunk, ReceiveEnd, TakeS3, ClientUnchanged, IInv, LinkOK, ToSet,
         IsBulk
<1>2. CASE ReceiveBegin(i)
  <2>1. f.type = "BEGIN"
    BY <1>2 DEF ReceiveBegin, TakeS3
  <2>2. CASE mode = "receiving" /\ f.id = gotId
    <3>1. SendAck(mode, gotId, bytes) /\ UNCHANGED <<mode, gotId, bytes>>
      BY <1>2, <2>2 DEF ReceiveBegin, clientVars
    <3> QED
      BY <1>1, <2>2, <3>1, AckOffered DEF Answers
  <2>3. CASE mode = "waiting"
    <3>1. \/ /\ mode' = "receiving" /\ gotId' = f.id /\ bytes' = <<>>
             /\ SendAck("receiving", f.id, <<>>)
          \/ mode' = "idle" /\ UNCHANGED toBridge
      BY <1>2, <2>3 DEF ReceiveBegin, Fail
    <3>2. CASE /\ mode' = "receiving" /\ gotId' = f.id /\ bytes' = <<>>
               /\ SendAck("receiving", f.id, <<>>)
      BY <1>1, <2>1, <2>3, <3>2, AckOffered DEF Answers, Attaches
    <3> QED
      BY <1>1, <3>1, <3>2
  <2>4. CASE ~ (mode = "receiving" /\ f.id = gotId) /\ mode # "waiting"
    BY <1>1, <1>2, <2>4 DEF ReceiveBegin, clientVars
  <2> QED
    BY <2>2, <2>3, <2>4
<1>3. CASE ReceiveChunk(i)
  <2>1. /\ toS3[1].type = "CHUNK" /\ i = 1 /\ toS3' = RemoveAt(toS3, 1)
    BY <1>3, TakenFirst DEF ReceiveChunk, IInv
  <2>2. \/ mode' = "idle" /\ UNCHANGED toBridge
        \/ /\ UNCHANGED <<mode, gotId>> /\ SendAck(mode, gotId, bytes')
           /\ mode # "receiving" => bytes' = bytes
           /\ mode = "receiving" => f.id = gotId
    BY <1>3 DEF ReceiveChunk, Fail
  <2>3. CASE /\ UNCHANGED <<mode, gotId>> /\ SendAck(mode, gotId, bytes')
             /\ mode # "receiving" => bytes' = bytes
             /\ mode = "receiving" => f.id = gotId
    <3>1. UNCHANGED toBridge \/ Answers
      BY <1>1, <2>3, AckOffered DEF Answers
    <3>2. UNCHANGED <<mode, gotId, bytes>> \/ Reads
      BY <1>1, <2>1, <2>3 DEF Reads
    <3> QED
      BY <1>1, <3>1, <3>2
  <2> QED
    BY <1>1, <2>2, <2>3
<1>4. CASE ReceiveEnd(i)
  <2>1. /\ toS3[1].type = "END" /\ i = 1 /\ toS3' = RemoveAt(toS3, 1)
    BY <1>4, TakenFirst DEF ReceiveEnd, IInv
  <2>2. CASE mode = "receiving" /\ Checks(f)
    <3>1. mode' = "finished" /\ SendAck("finished", gotId, bytes) /\ UNCHANGED <<gotId, bytes>>
      BY <1>4, <2>2 DEF ReceiveEnd
    <3>2. Finishes
      BY <2>1, <2>2, <3>1 DEF Finishes, Checks
    <3> QED
      BY <1>1, <2>2, <3>1, <3>2, AckOffered DEF Answers
  <2>3. CASE mode = "receiving" /\ ~ Checks(f)
    BY <1>1, <1>4, <2>3 DEF ReceiveEnd, Fail
  <2>4. CASE mode = "finished" /\ f.id = gotId /\ f.total = Len(bytes)
    <3>1. SendAck(mode, gotId, bytes) /\ UNCHANGED <<mode, gotId, bytes>>
      BY <1>4, <2>4 DEF ReceiveEnd, clientVars
    <3> QED
      BY <1>1, <2>4, <3>1, AckOffered DEF Answers
  <2>5. CASE mode # "receiving" /\ ~ (mode = "finished" /\ f.id = gotId /\ f.total = Len(bytes))
    BY <1>1, <1>4, <2>5 DEF ReceiveEnd, clientVars
  <2> QED
    BY <2>2, <2>3, <2>4, <2>5
<1> QED
  BY <1>2, <1>3, <1>4

(* Every step of the S3, and what only concerns the link.                   *)
LEMMA ClientStep ==
  ASSUME IInv, S3Loop \/ DecodeEnds \/ Lose \/ Outage \/ S3Restart
  PROVE  /\ UNCHANGED serverVars
         /\ Thinned(toS3', toS3) /\ ToSet(toS3') \subseteq ToSet(toS3)
         /\ \/ Thinned(toBridge', toBridge) /\ ToSet(toBridge') \subseteq ToSet(toBridge)
            \/ SendRequest \/ Answers
         /\ \/ UNCHANGED <<mode, gotId, bytes>>
            \/ mode' \in {"idle", "waiting"}
            \/ Releases \/ Attaches \/ Reads \/ Finishes
<1>0. toS3 \in Seq(Items) /\ toBridge \in Seq(BridgeFrames)
  BY DEF IInv, LinkOK
<1>1. /\ (toS3' = toS3 \/ toS3' = <<>> \/ \E i \in 1..Len(toS3) : toS3' = RemoveAt(toS3, i)) =>
           Thinned(toS3', toS3) /\ ToSet(toS3') \subseteq ToSet(toS3)
      /\ (toBridge' = toBridge \/ \E i \in 1..Len(toBridge) : toBridge' = RemoveAt(toBridge, i)) =>
           Thinned(toBridge', toBridge) /\ ToSet(toBridge') \subseteq ToSet(toBridge)
  BY <1>0, ThinnedBy
<1>2. CASE \E i \in 1..Len(toS3) : ReceiveBegin(i) \/ ReceiveChunk(i) \/ ReceiveEnd(i)
  BY <1>1, <1>2, ReceiveStep
<1>3. CASE (\E i \in 1..Len(toS3) : ReceiveError(i)) \/ ClientTimeout
  BY <1>1, <1>3 DEF ReceiveError, ClientTimeout, TakeS3, Fail, ClientUnchanged
<1>4. CASE SendRequest
  BY <1>1, <1>4 DEF SendRequest
<1>5. CASE StartDecode \/ HandleDone \/ HandleFailure \/ LinkDownPass \/ BridgeStatus \/ DecodeEnds
  BY <1>1, <1>5 DEF StartDecode, HandleDone, HandleFailure, LinkDownPass, BridgeStatus,
     DecodeEnds, LinkDownReset, ResetClient, LoopUnchanged, linkVars, clientVars, Fail, Releases
<1>6. CASE Lose
  BY <1>1, <1>6 DEF Lose, s3Vars, clientVars
<1>7. CASE Outage
  BY <1>1, <1>7 DEF Outage, FallSilent, LinkDownReset, ResetClient, clientVars
<1>8. CASE S3Restart
  BY <1>1, <1>8 DEF S3Restart
<1> QED
  BY <1>2, <1>3, <1>4, <1>5, <1>6, <1>7, <1>8 DEF S3Loop

(* Every step of the Bridge but its restart.                                *)
LEMMA ServerStep ==
  ASSUME IInv, BridgeLoop \/ DownloadTask
  PROVE  /\ UNCHANGED <<s3Vars, requests, losses, faults>>
         /\ Thinned(toBridge', toBridge) /\ ToSet(toBridge') \subseteq ToSet(toBridge)
         /\ \/ toS3' = toS3
            \/ toS3' = Append(toS3, Error(0)) /\ ~ NoRequest /\ UNCHANGED serverVars
            \/ \E f : Sends(f) /\ toS3' = Append(toS3, f)
<1>0. toS3 \in Seq(Items) /\ toBridge \in Seq(BridgeFrames) /\ queue \in Seq(Items)
  BY DEF IInv, LinkOK, QueueOK
<1>1. (toBridge' = toBridge \/ \E i \in 1..Len(toBridge) : toBridge' = RemoveAt(toBridge, i)) =>
        Thinned(toBridge', toBridge) /\ ToSet(toBridge') \subseteq ToSet(toBridge)
  BY <1>0, ThinnedBy
<1>2. CASE \E i \in 1..Len(toBridge) : StartRequest(i) \/ Acknowledge(i)
  BY <1>1, <1>2 DEF StartRequest, Acknowledge, TakeBridge
<1>3. ASSUME NEW i \in 1..Len(toBridge), RefuseRequest(i)
      PROVE  /\ UNCHANGED <<s3Vars, requests, losses, faults>>
             /\ toBridge' = RemoveAt(toBridge, i)
             /\ toS3' = toS3 \/ toS3' = Append(toS3, Error(0))
             /\ ~ NoRequest /\ UNCHANGED serverVars
  BY <1>0, <1>3 DEF RefuseRequest, TakeBridge, SendS3, Offer, NoRequest, ToSet
<1>4. CASE SendItem
  <2>1. Head(queue) = queue[1] /\ queue # <<>>
    BY <1>4 DEF SendItem
  <2> QED
    BY <1>1, <1>4, <2>1 DEF SendItem, SendS3, Offer, Sends
<1>5. CASE Resend
  BY <1>1, <1>5 DEF Resend, SendS3, Offer, Sends
<1>6. CASE StallAbort \/ DownloadTask
  BY <1>1, <1>6 DEF StallAbort, DownloadTask, OpenSource, Enqueue, EnqueueWaiting, GiveUp,
     StopReading, TaskExit, TaskUnchanged, linkVars
<1> QED
  BY <1>1, <1>2, <1>3, <1>4, <1>5, <1>6 DEF BridgeLoop

------------------------------------------------------------------------------
(* The invariant of the exchange *)

(* Frames to the S3: none of a future transfer; RADAR_BEGIN before the      *)
(* chunks, which says that it will not be sent again; RADAR_END only when   *)
(* the client can no longer start that transfer anew.                       *)
ToClient ==
  /\ \A f \in ToSet(toS3) : f.id <= transferId
  /\ \A i, j \in 1..Len(toS3) :
       toS3[i].type = "CHUNK" /\ toS3[j].type = "BEGIN" /\ toS3[i].id = toS3[j].id => j < i
  /\ \A f \in ToSet(toS3) : f.type = "CHUNK" /\ f.id = transferId => Begun
  /\ \A f \in ToSet(toS3) : f.type = "END" => Past(f.id)

(* An acknowledgement of a chunk says that the client has taken RADAR_BEGIN.*)
ToServer ==
  \A f \in ToSet(toBridge) : f.type = "ACK" /\ f.off > 0 => f.id <= transferId /\ Past(f.id)

(* Once RADAR_END is next, the first chunk has been acknowledged.           *)
Answered ==
  ~ abort /\ Late /\ ~ Early =>
    Past(transferId) /\ (mode = "receiving" /\ gotId = transferId => NoRequest)

(* What the client is attached to; a restarted Bridge counts from 0 while   *)
(* the worker still reads a picture of the previous life.                   *)
Attached ==
  /\ mode = "receiving" => gotId <= transferId
  /\ mode = "finished" =>
       gotId <= transferId \/ (pending = NoItem /\ \A f \in ToSet(toS3) : ~ IsBulk(f))
  /\ mode \in {"receiving", "finished"} /\ bytes # <<>> => Past(gotId)

(* The request of the client is older than its acknowledgements.            *)
AckAfterRequest ==
  mode = "receiving" =>
    \A i, j \in 1..Len(toBridge) :
      /\ toBridge[i].type = "ACK" /\ toBridge[i].id = gotId /\ toBridge[i].off > 0
      /\ toBridge[j].type = "REQUEST"
      => j < i

(* When the RADAR_END the client waits for is under way, nothing follows it *)
(* and nothing more will come of the server.                                *)
EndIsLast ==
  mode = "receiving" =>
    \A i \in 1..Len(toS3) :
      toS3[i].type = "END" /\ toS3[i].id = gotId =>
        /\ gotId = transferId /\ Over /\ NoRequest
        /\ \A j \in 1..Len(toS3) : toS3[j].type = "ERROR" => j < i

(* So nothing disturbs the S3 until the picture is decoded.                 *)
FinishedIsQuiet ==
  mode = "finished" =>
    Over /\ NoRequest /\ \A f \in ToSet(toS3) : f.type # "ERROR"

(* The loop of the S3 and the worker.                                       *)
Transaction ==
  /\ Active => /\ activeKind = requested /\ activeKind # NONE /\ decode = "off"
               /\ ~ completed /\ ~ failure /\ heard /\ requested = requests
  /\ completed \/ decode = "run" =>
       activeKind = done /\ activeKind # NONE /\ mode = "finished" /\ ~ failure
  /\ completed => decode = "off"
  /\ activeKind # NONE => Active \/ completed \/ decode # "off" \/ failure

Exchange ==
  /\ ToClient /\ ToServer /\ Answered /\ Attached
  /\ AckAfterRequest /\ EndIsLast /\ FinishedIsQuiet

------------------------------------------------------------------------------
(* The exchange: that nothing comes again *)

(* A RADAR_BEGIN that is not to be sent again stays so.                     *)
LEMMA BegunStays ==
  ASSUME IInv, Schedule, Begun, [Next]_vars, ~ \E i \in 1..Len(toBridge) : StartRequest(i)
  PROVE  Begun'
<1>1. CASE UNCHANGED serverVars
  BY <1>1 DEF Begun, Unacked, serverVars, taskVars
<1>2. CASE BridgeRestart
  BY <1>2 DEF BridgeRestart, Begun, Unacked, ToSet, NoItem
<1>3. CASE \/ \E i \in 1..Len(toBridge) : Acknowledge(i)
           \/ SendItem \/ StallAbort \/ OpenSource \/ GiveUp \/ StopReading \/ TaskExit
  <2>1. taskAt' \notin {"open", "begin"}
    BY <1>3 DEF Acknowledge, SendItem, StallAbort, OpenSource, GiveUp, StopReading, TaskExit,
       Refused, Goto, taskVars, Begun
  <2>2. pending' \in Unacked \cup {NoItem} /\ ToSet(queue') \subseteq ToSet(queue)
    <3>1. CASE SendItem
      <4>1. /\ queue \in Seq(Items) /\ queue # <<>> /\ queue' = Tail(queue)
            /\ pending' \in {NoItem, Head(queue)}
        BY <3>1 DEF SendItem, IInv, QueueOK
      <4>2. Head(queue) \in ToSet(queue)
        BY <4>1 DEF ToSet
      <4>3. ToSet(queue') \subseteq ToSet(queue)
        BY <4>1 DEF ToSet
      <4> QED
        BY <4>1, <4>2, <4>3 DEF Unacked
    <3>2. CASE ~ SendItem
      <4>1. queue' \in {queue, <<>>} /\ pending' \in {pending, NoItem}
        BY <1>3, <3>2 DEF Acknowledge, StallAbort, OpenSource, GiveUp, StopReading, TaskExit,
           TaskUnchanged
      <4> QED
        BY <4>1 DEF Unacked, ToSet
    <3> QED
      BY <3>1, <3>2
  <2> QED
    BY <2>1, <2>2 DEF Begun, Unacked, NoItem
<1>4. CASE Enqueue \/ EnqueueWaiting
  <2>1. \/ UNCHANGED <<queue, pending>> /\ taskAt' \notin {"open", "begin"}
        \/ HasItem /\ Put(NextItem) /\ UNCHANGED pending
    BY <1>4 DEF Enqueue, EnqueueWaiting, TaskUnchanged, Refused, Goto, Schedule, Begun
  <2>2. CASE UNCHANGED <<queue, pending>> /\ taskAt' \notin {"open", "begin"}
    BY <2>2 DEF Begun, Unacked
  <2>3. CASE HasItem /\ Put(NextItem) /\ UNCHANGED pending
    <3>1. NextItem.type # "BEGIN" /\ queue' = Append(queue, NextItem)
      BY <2>3, NextItemIs DEF Put, Begun
    <3>2. ToSet(queue') = ToSet(queue) \cup {NextItem}
      BY <3>1, Appended DEF IInv, QueueOK
    <3>3. taskAt' \notin {"open", "begin"}
      BY <2>3 DEF Put, Goto
    <3> QED
      BY <2>3, <3>1, <3>2, <3>3 DEF Begun, Unacked
  <2> QED
    BY <2>1, <2>2, <2>3
<1>5. CASE S3Loop \/ DecodeEnds \/ Lose \/ Outage \/ S3Restart
  BY <1>1, <1>5, ClientStep
<1> QED
  BY <1>1, <1>2, <1>3, <1>4, <1>5 DEF Next, BridgeLoop, DownloadTask, Environment, RefuseRequest,
     Resend, vars

(* What the server sends is an item of the present transfer.                *)
LEMMA SentIsOwn ==
  ASSUME IInv, NEW f, Sends(f)
  PROVE  f \in Unacked /\ f \in Items /\ f.id = transferId
<1>1. queue # <<>> => queue[1] \in ToSet(queue) /\ queue[1] \in Items
  BY DEF IInv, QueueOK, ToSet
<1>2. \A it \in Items : it # NoItem
  BY ItemsTyped
<1> QED
  BY <1>1, <1>2 DEF Sends, Unacked, IInv, QueueOK, QueueOfOneTransfer

(* The frames to the S3 after a step of the Bridge.                         *)
LEMMA SentFrames ==
  ASSUME IInv, BridgeLoop \/ DownloadTask
  PROVE  \A f \in ToSet(toS3') :
           \/ f \in ToSet(toS3)
           \/ f = Error(0) /\ ~ NoRequest
           \/ Sends(f)
<1>1. toS3 \in Seq(Items)
  BY DEF IInv, LinkOK
<1>2. \A f : ToSet(Append(toS3, f)) = ToSet(toS3) \cup {f}
  BY <1>1, Appended
<1>3. CASE toS3' = toS3
  BY <1>3
<1>4. CASE toS3' = Append(toS3, Error(0)) /\ ~ NoRequest
  BY <1>2, <1>4
<1>5. CASE \E f : Sends(f) /\ toS3' = Append(toS3, f)
  BY <1>2, <1>5
<1> QED
  BY <1>3, <1>4, <1>5, ServerStep

(* The transfer id counts the transfers of this life of the Bridge.         *)
LEMMA TransferIdSteps ==
  ASSUME IInv, [Next]_vars
  PROVE  \/ BridgeRestart
         \/ transferId' = transferId /\ ~ \E i \in 1..Len(toBridge) : StartRequest(i)
         \/ transferId' = transferId + 1 /\ \E i \in 1..Len(toBridge) : StartRequest(i)
<1>0. transferId \in Nat
  BY DEF IInv, QueueOK
<1>1. \A i \in 1..Len(toBridge) : StartRequest(i) => transferId' = transferId + 1
  BY DEF StartRequest, Start
<1>2. CASE BridgeLoop \/ DownloadTask
  <2>1. (\E i \in 1..Len(toBridge) : StartRequest(i)) \/ UNCHANGED transferId
    BY <1>2 DEF BridgeLoop, DownloadTask, RefuseRequest, Acknowledge, SendItem, Resend,
       StallAbort, OpenSource, Enqueue, EnqueueWaiting, GiveUp, StopReading, TaskExit,
       TaskUnchanged, serverVars
  <2> QED
    BY <1>0, <1>1, <2>1
<1>3. CASE S3Loop \/ DecodeEnds \/ Lose \/ Outage \/ S3Restart
  BY <1>0, <1>1, <1>3, ClientStep DEF serverVars
<1>4. CASE UNCHANGED vars
  BY <1>0, <1>1, <1>4 DEF vars, serverVars
<1> QED
  BY <1>2, <1>3, <1>4 DEF Next, Environment

(* RADAR_BEGIN of a transfer that is past does not come again.              *)
LEMMA PastStays ==
  ASSUME IInv, Schedule, [Next]_vars
  PROVE  \A t \in Nat :
           /\ Past(t)
           /\ t <= transferId \/ ~ \E i \in 1..Len(toBridge) : StartRequest(i)
           => Past(t)'
<1> SUFFICES ASSUME NEW t \in Nat, Past(t),
                    t <= transferId \/ ~ \E i \in 1..Len(toBridge) : StartRequest(i)
             PROVE  Past(t)'
  OBVIOUS
<1>1. CASE BridgeRestart
  <2>1. toS3' = <<>> /\ taskAt' = "off" /\ queue' = <<>> /\ pending' = NoItem
    BY <1>1 DEF BridgeRestart, FallSilent
  <2> QED
    BY <2>1 DEF Past, Begun, Unacked, ToSet, NoItem
<1>2. CASE UNCHANGED serverVars /\ ToSet(toS3') \subseteq ToSet(toS3)
  BY <1>2 DEF Past, Begun, Unacked, serverVars, taskVars
<1>3. CASE BridgeLoop \/ DownloadTask
  <2>1. \A f \in ToSet(toS3') : f \in ToSet(toS3) \/ (f.type = "BEGIN" => f.id = transferId /\ ~ Begun)
    BY <1>3, SentFrames, SentIsOwn DEF Error, Begun
  <2>2. CASE transferId' = transferId /\ ~ \E i \in 1..Len(toBridge) : StartRequest(i)
    BY <2>1, <2>2, BegunStays DEF Past
  <2>3. CASE transferId' = transferId + 1 /\ \E i \in 1..Len(toBridge) : StartRequest(i)
    <3>1. transferId \in Nat
      BY DEF IInv, QueueOK
    <3> QED
      BY <2>1, <2>3, <3>1 DEF Past
  <2> QED
    BY <1>1, <2>2, <2>3, TransferIdSteps
<1>4. CASE UNCHANGED vars
  BY <1>2, <1>4 DEF vars, linkVars
<1>5. CASE S3Loop \/ DecodeEnds \/ Lose \/ Outage \/ S3Restart
  BY <1>2, <1>5, ClientStep
<1> QED
  BY <1>1, <1>3, <1>4, <1>5 DEF Next, Environment

(* RADAR_END is sent alone, and only after a chunk was acknowledged.        *)
LEMMA SentEnd ==
  ASSUME IInv, Schedule, Answered, NEW f, Sends(f), f.type = "END"
  PROVE  /\ Past(transferId) /\ Over'
         /\ mode = "receiving" /\ gotId = transferId => NoRequest
<1>1. ~ abort /\ f \in Unacked
  BY SentIsOwn DEF Sends, SendItem, Resend
<1>2. CASE SendItem /\ queue # <<>> /\ f = queue[1]
  <2>1. queue \in Seq(Items) /\ 1 \in 1..Len(queue)
    BY <1>2 DEF IInv, QueueOK
  <2>2. Len(queue) = 1 /\ taskAt \in {"exit", "off"}
    BY <1>2, <2>1 DEF Schedule
  <2>3. ToSet(queue) = {f}
    BY <1>2, <2>1, <2>2 DEF ToSet
  <2>4. pending = NoItem /\ NoItem.type = "NONE" /\ item = NoItem
    BY <1>2, <2>2 DEF SendItem, NoItem, Schedule, HasItem
  <2>5. ~ Early /\ Late
    BY <1>1, <2>3, <2>4 DEF Early, Late, Unacked, IsFirst
  <2>6. queue' = <<>> /\ UNCHANGED <<taskAt, item>>
    BY <1>2, <2>1, <2>2 DEF SendItem, taskVars
  <2> QED
    BY <1>1, <2>2, <2>4, <2>5, <2>6 DEF Answered, Over
<1>3. CASE Resend /\ pending # NoItem /\ f = pending
  <2>1. Over /\ ToSet(queue) = {}
    BY <1>3 DEF Schedule, Over, ToSet
  <2>2. ~ Early /\ Late
    BY <1>1, <1>3, <2>1 DEF Early, Late, Unacked, IsFirst
  <2> QED
    BY <1>1, <1>3, <2>1, <2>2 DEF Answered, Over, Resend, serverVars, taskVars
<1> QED
  BY <1>2, <1>3 DEF Sends

(* A chunk is sent only after its RADAR_BEGIN was acknowledged.             *)
LEMMA SentChunk ==
  ASSUME IInv, Schedule, NEW f, Sends(f), f.type = "CHUNK"
  PROVE  Begun
<1>0. queue \in Seq(Items) /\ NoItem.type = "NONE"
  BY DEF IInv, QueueOK, NoItem
<1>1. taskAt \notin {"open", "begin"}
  BY <1>0 DEF Sends, Schedule
<1>2. \A i \in 1..Len(queue) : queue[i].type # "BEGIN"
  BY <1>0 DEF Sends, Schedule
<1>3. pending.type # "BEGIN"
  BY <1>0 DEF Sends, SendItem
<1> QED
  BY <1>0, <1>1, <1>2, <1>3 DEF Begun, Unacked, ToSet

(* No step puts a frame to the S3 out of its order.                         *)
LEMMA ToClientKept ==
  ASSUME IInv, Schedule, ToClient, Answered, [Next]_vars
  PROVE  ToClient'
<1>0. /\ toS3 \in Seq(Items) /\ transferId \in Nat
      /\ \A f \in ToSet(toS3) : f \in Items /\ f.id \in Nat
  BY ItemsTyped DEF IInv, QueueOK, LinkOK, ToSet
<1>1. \A f \in ToSet(toS3) : f.type = "END" => Past(f.id)'
  BY <1>0, PastStays DEF ToClient
<1>2. CASE BridgeRestart
  <2>1. toS3' = <<>>
    BY <1>2 DEF BridgeRestart, FallSilent
  <2> QED
    BY <2>1 DEF ToClient, ToSet
<1>3. CASE UNCHANGED serverVars /\ Thinned(toS3', toS3) /\ ToSet(toS3') \subseteq ToSet(toS3)
  <2>1. transferId' = transferId /\ Begun' = Begun
    BY <1>3 DEF Begun, Unacked, serverVars, taskVars
  <2>2. \A i, j \in 1..Len(toS3') :
          toS3'[i].type = "CHUNK" /\ toS3'[j].type = "BEGIN" /\ toS3'[i].id = toS3'[j].id => j < i
    <3>1. ASSUME NEW i \in 1..Len(toS3'), NEW j \in 1..Len(toS3')
          PROVE  toS3'[i].type = "CHUNK" /\ toS3'[j].type = "BEGIN" /\ toS3'[i].id = toS3'[j].id
                 => j < i
      <4>1. PICK m \in 1..Len(toS3), n \in 1..Len(toS3) :
              toS3'[i] = toS3[m] /\ toS3'[j] = toS3[n] /\ (j < i <=> n < m)
        BY <1>3 DEF Thinned
      <4> QED
        BY <4>1 DEF ToClient
    <3> QED
      BY <3>1
  <2> QED
    BY <1>1, <1>3, <2>1, <2>2 DEF ToClient
<1>4. CASE (BridgeLoop \/ DownloadTask) /\ ~ BridgeRestart
  <2>1. \A f \in ToSet(toS3) : /\ f.id <= transferId'
                               /\ f.type = "CHUNK" /\ f.id = transferId' => Begun'
    <3>1. \A f \in ToSet(toS3) : /\ f.id <= transferId /\ f.id \in Nat
                                 /\ f.type = "CHUNK" /\ f.id = transferId => Begun
      BY <1>0 DEF ToClient
    <3>2. CASE transferId' = transferId /\ ~ \E i \in 1..Len(toBridge) : StartRequest(i)
      BY <3>1, <3>2, BegunStays
    <3>3. CASE transferId' = transferId + 1
      BY <1>0, <3>1, <3>3
    <3> QED
      BY <1>4, <3>2, <3>3, TransferIdSteps
  <2>2. ASSUME NEW f, Sends(f)
        PROVE  /\ f.id <= transferId'
               /\ f.type = "CHUNK" => Begun'
               /\ f.type = "END" => Past(f.id)'
    <3>1. f.id = transferId /\ transferId' = transferId
      BY <2>2, SentIsOwn DEF Sends, SendItem, Resend, serverVars
    <3>2. ~ \E i \in 1..Len(toBridge) : StartRequest(i)
      BY <1>0, <1>4, <3>1, TransferIdSteps
    <3>3. f.type = "CHUNK" => Begun'
      BY <2>2, <3>2, SentChunk, BegunStays
    <3>4. f.type = "END" => Past(f.id)'
      BY <1>0, <2>2, <3>1, <3>2, SentEnd, PastStays
    <3> QED
      BY <1>0, <3>1, <3>3, <3>4
  <2>3. Error(0).type = "ERROR" /\ Error(0).id = 0 /\ transferId' \in Nat
    BY <1>0, <1>4, TransferIdSteps DEF Error
  <2>4. \A f \in ToSet(toS3') : /\ f.id <= transferId'
                                /\ f.type = "CHUNK" /\ f.id = transferId' => Begun'
                                /\ f.type = "END" => Past(f.id)'
    BY <1>1, <1>4, <2>1, <2>2, <2>3, SentFrames
  <2>5. \A i, j \in 1..Len(toS3') :
          toS3'[i].type = "CHUNK" /\ toS3'[j].type = "BEGIN" /\ toS3'[i].id = toS3'[j].id => j < i
    <3>1. CASE toS3' = toS3
      BY <3>1 DEF ToClient
    <3>2. ASSUME NEW f, toS3' = Append(toS3, f),
                 f.type = "BEGIN" => f.id = transferId /\ ~ Begun
          PROVE  \A i, j \in 1..Len(toS3') :
                   /\ toS3'[i].type = "CHUNK" /\ toS3'[j].type = "BEGIN"
                   /\ toS3'[i].id = toS3'[j].id
                   => j < i
      <4>1. /\ Len(toS3') = Len(toS3) + 1 /\ toS3'[Len(toS3) + 1] = f /\ Len(toS3) \in Nat
            /\ \A i \in 1..Len(toS3) : toS3'[i] = toS3[i] /\ toS3[i] \in ToSet(toS3)
        BY <1>0, <3>2, Appended DEF ToSet
      <4>2. ASSUME NEW i \in 1..Len(toS3'), NEW j \in 1..Len(toS3'),
                   toS3'[i].type = "CHUNK", toS3'[j].type = "BEGIN", toS3'[i].id = toS3'[j].id
            PROVE  j < i
        <5>1. CASE i \in 1..Len(toS3) /\ j \in 1..Len(toS3)
          BY <4>1, <4>2, <5>1 DEF ToClient
        <5>2. CASE i = Len(toS3) + 1
          <6>1. j # i
            BY <4>2
          <6> QED
            BY <4>1, <5>2, <6>1
        <5>3. CASE i \in 1..Len(toS3) /\ j = Len(toS3) + 1
          BY <3>2, <4>1, <4>2, <5>3 DEF ToClient
        <5> QED
          BY <4>1, <5>1, <5>2, <5>3
      <4> QED
        BY <4>2
    <3>3. ASSUME NEW f, Sends(f)
          PROVE  f.type = "BEGIN" => f.id = transferId /\ ~ Begun
      BY <3>3, SentIsOwn DEF Begun
    <3> QED
      BY <1>4, <2>3, <3>1, <3>2, <3>3, ServerStep
  <2> QED
    BY <2>4, <2>5 DEF ToClient
<1>5. CASE S3Loop \/ DecodeEnds \/ Lose \/ Outage \/ S3Restart
  BY <1>3, <1>5, ClientStep
<1>6. CASE UNCHANGED vars
  BY <1>0, <1>3, <1>6, ThinnedBy DEF vars, linkVars
<1> QED
  BY <1>2, <1>4, <1>5, <1>6 DEF Next, Environment

------------------------------------------------------------------------------
(* The exchange: when nothing more will come *)

(* A server that has put its last item and is asked for nothing may only    *)
(* repeat that item.                                                        *)
LEMMA QuietServer ==
  ASSUME IInv, Schedule, Over, NoRequest, BridgeLoop \/ DownloadTask
  PROVE  /\ Over' /\ NoRequest' /\ UNCHANGED <<jobs, transferId>>
         /\ ~ \E i \in 1..Len(toBridge) : StartRequest(i)
         /\ pending' \in {pending, NoItem}
         /\ \/ toS3' = toS3
            \/ toS3' = Append(toS3, pending) /\ Resend /\ pending # NoItem
<1>0. \A i \in 1..Len(toBridge) : toBridge[i].type # "REQUEST"
  BY DEF NoRequest, IInv, LinkOK, ToSet
<1>1. NoRequest'
  BY ServerStep DEF NoRequest
<1>2. CASE \E i \in 1..Len(toBridge) : StartRequest(i) \/ RefuseRequest(i)
  BY <1>0, <1>2 DEF StartRequest, RefuseRequest, TakeBridge
<1>3. CASE \E i \in 1..Len(toBridge) : Acknowledge(i)
  BY <1>0, <1>1, <1>3 DEF Acknowledge, Over, taskVars, StartRequest, TakeBridge
<1>4. CASE SendItem
  BY <1>4 DEF SendItem, Over
<1>5. CASE Resend
  <2>1. pending # NoItem /\ (toS3' = toS3 \/ toS3' = Append(toS3, pending))
    BY <1>5 DEF Resend, SendS3, Offer
  <2>2. UNCHANGED serverVars /\ ~ \E i \in 1..Len(toBridge) : StartRequest(i)
    BY <1>0, <1>5 DEF Resend, StartRequest, TakeBridge
  <2> QED
    BY <1>1, <1>5, <2>1, <2>2 DEF Over, serverVars, taskVars
<1>6. CASE StallAbort
  BY <1>0, <1>1, <1>6 DEF StallAbort, Over, taskVars, linkVars, StartRequest, TakeBridge
<1>7. CASE DownloadTask
  <2>1. TaskExit
    BY <1>7 DEF DownloadTask, OpenSource, Enqueue, EnqueueWaiting, GiveUp, StopReading, HasItem,
       Over
  <2> QED
    BY <1>0, <1>1, <2>1 DEF TaskExit, Goto, TaskUnchanged, Over, linkVars, StartRequest,
       TakeBridge
<1> QED
  BY <1>2, <1>3, <1>4, <1>5, <1>6, <1>7 DEF BridgeLoop

(* What the restart of the Bridge leaves of the S3.                         *)
LEMMA RestartStep ==
  ASSUME Transaction, BridgeRestart
  PROVE  /\ toS3' = <<>> /\ toBridge' = <<>> /\ pending' = NoItem /\ queue' = <<>>
         /\ item' = NoItem /\ taskAt' = "off" /\ transferId' = 0 /\ UNCHANGED <<jobs, requests>>
         /\ \/ mode' = "idle"
            \/ /\ UNCHANGED <<clientVars, activeKind, decode, source>> /\ decode = "run"
               /\ ~ Active /\ mode = "finished"
<1>1. CASE decode = "run"
  BY <1>1 DEF BridgeRestart, FallSilent, LinkDownReset, Transaction, Active
<1>2. CASE decode # "run"
  BY <1>2 DEF BridgeRestart, FallSilent, LinkDownReset, ResetClient
<1> QED
  BY <1>1, <1>2

(* What the client is attached to stays past.                               *)
LEMMA AttachedKept ==
  ASSUME IInv, Schedule, Exchange, Transaction, [Next]_vars
  PROVE  Attached'
<1>0. /\ toS3 \in Seq(Items) /\ transferId \in Nat /\ gotId \in Nat
      /\ \A i \in 1..Len(toS3) : toS3[i] \in ToSet(toS3)
  BY DEF IInv, QueueOK, LinkOK, ClientOK, ToSet
<1>1. mode = "finished" => ~ \E i \in 1..Len(toBridge) : StartRequest(i)
  <2>1. \A i \in 1..Len(toBridge) : toBridge[i] \in ToSet(toBridge)
    BY DEF IInv, LinkOK, ToSet
  <2> QED
    BY <2>1 DEF Exchange, FinishedIsQuiet, NoRequest, StartRequest, TakeBridge
<1>2. mode \in {"receiving", "finished"} /\ Past(gotId) /\ gotId' = gotId => Past(gotId)'
  <2> SUFFICES ASSUME mode \in {"receiving", "finished"}, Past(gotId), gotId' = gotId
               PROVE  Past(gotId)'
    OBVIOUS
  <2>1. gotId <= transferId \/ ~ \E i \in 1..Len(toBridge) : StartRequest(i)
    BY <1>1 DEF Exchange, Attached
  <2>2. \A t \in Nat : t = gotId => Past(t)'
    BY <2>1, PastStays
  <2> QED
    BY <1>0, <2>2 DEF Past
<1>3. CASE S3Loop \/ DecodeEnds \/ Lose \/ Outage \/ S3Restart
  <2>1. /\ transferId' = transferId /\ pending' = pending
        /\ ToSet(toS3') \subseteq ToSet(toS3)
    BY <1>3, ClientStep DEF serverVars
  <2>2. CASE UNCHANGED <<mode, gotId, bytes>> \/ Releases
    BY <1>2, <2>1, <2>2 DEF Exchange, Attached, Releases
  <2>3. CASE mode' \in {"idle", "waiting"}
    BY <2>3 DEF Attached
  <2>4. CASE Attaches
    BY <2>1, <2>4 DEF Attaches, Exchange, ToClient, Attached
  <2>5. CASE Reads
    <3>1. Past(gotId)
      <4>1. \A f \in ToSet(toS3) : ~ (f.type = "BEGIN" /\ f.id = gotId)
        <5>1. \A j \in 1..Len(toS3) : ~ (toS3[j].type = "BEGIN" /\ toS3[j].id = gotId)
          BY <1>0, <2>5 DEF Reads, Exchange, ToClient
        <5> QED
          BY <1>0, <5>1 DEF ToSet
      <4>2. gotId = transferId => Begun
        BY <1>0, <2>5 DEF Reads, Exchange, ToClient
      <4> QED
        BY <4>1, <4>2 DEF Past
    <3> QED
      BY <1>2, <2>1, <2>5, <3>1 DEF Reads, Exchange, Attached
  <2>6. CASE Finishes
    <3>1. Past(gotId)
      BY <1>0, <2>6 DEF Finishes, Exchange, ToClient
    <3> QED
      BY <1>2, <2>1, <2>6, <3>1 DEF Finishes, Exchange, Attached
  <2> QED
    BY <1>3, <2>2, <2>3, <2>4, <2>5, <2>6, ClientStep
<1>4. CASE (BridgeLoop \/ DownloadTask) /\ ~ BridgeRestart
  <2>1. UNCHANGED <<mode, gotId, bytes>>
    BY <1>4, ServerStep DEF s3Vars, clientVars
  <2>2. gotId <= transferId => gotId <= transferId'
    BY <1>0, <1>4, TransferIdSteps
  <2>3. mode = "finished" /\ pending = NoItem /\ (\A f \in ToSet(toS3) : ~ IsBulk(f)) =>
          pending' = NoItem /\ \A f \in ToSet(toS3') : ~ IsBulk(f)
    BY <1>4, QuietServer DEF Exchange, FinishedIsQuiet
  <2> QED
    BY <1>2, <2>1, <2>2, <2>3 DEF Exchange, Attached
<1>5. CASE BridgeRestart
  BY <1>2, <1>5, RestartStep DEF Exchange, Attached, clientVars, ToSet
<1>6. CASE UNCHANGED vars
  BY <1>2, <1>6 DEF Exchange, Attached, vars, linkVars, serverVars, s3Vars, clientVars
<1> QED
  BY <1>3, <1>4, <1>5, <1>6 DEF Next, Environment

------------------------------------------------------------------------------
(* The exchange: what acknowledgements and the end of a transfer tell *)

(* The fields of the frames to the Bridge.                                  *)
LEMMA BridgeFramesTyped ==
  \A f \in BridgeFrames :
    /\ f.type \in {"REQUEST", "ACK"}
    /\ f.type = "ACK" => f.id \in Nat /\ f.off \in Nat
    /\ f.type = "REQUEST" => f.kind \in Nat
BY DEF BridgeFrames, Request, Ack

(* How the client comes to receive, and to be finished.                     *)
LEMMA ModeStep ==
  ASSUME IInv, Transaction, [Next]_vars
  PROVE  /\ mode' = "receiving" => (mode = "receiving" /\ gotId' = gotId) \/ Attaches
         /\ mode' = "finished" => (mode = "finished" /\ gotId' = gotId) \/ Finishes
<1>1. CASE S3Loop \/ DecodeEnds \/ Lose \/ Outage \/ S3Restart
  BY <1>1, ClientStep DEF Attaches, Reads, Finishes, Releases
<1>2. CASE BridgeLoop \/ DownloadTask
  BY <1>2, ServerStep DEF s3Vars, clientVars
<1>3. CASE BridgeRestart
  BY <1>3, RestartStep DEF clientVars
<1>4. CASE UNCHANGED vars
  BY <1>4 DEF vars, s3Vars, clientVars
<1> QED
  BY <1>1, <1>2, <1>3, <1>4 DEF Next, Environment

(* An acknowledgement of a chunk keeps saying what it says.                 *)
LEMMA ToServerKept ==
  ASSUME IInv, Schedule, Exchange, Transaction, [Next]_vars, Attached'
  PROVE  ToServer'
<1>0. /\ toBridge \in Seq(BridgeFrames) /\ transferId \in Nat
      /\ \A f \in ToSet(toBridge) : f \in BridgeFrames
  BY DEF IInv, QueueOK, LinkOK, ToSet
<1>1. CASE BridgeRestart
  BY <1>1, RestartStep DEF ToServer, ToSet
<1>2. ASSUME ~ BridgeRestart, NEW f \in ToSet(toBridge), f.type = "ACK", f.off > 0
      PROVE  f.id <= transferId' /\ Past(f.id)'
  <2>1. f.id \in Nat /\ f.id <= transferId /\ Past(f.id)
    BY <1>0, <1>2, BridgeFramesTyped DEF Exchange, ToServer
  <2> QED
    BY <1>0, <1>2, <2>1, PastStays, TransferIdSteps
<1>3. CASE Answers /\ ~ BridgeRestart
  <2>1. ToSet(toBridge') = ToSet(toBridge) \cup {Ack(gotId', Len(bytes'))}
    BY <1>0, <1>3, Appended DEF Answers
  <2>2. ASSUME Len(bytes') > 0
        PROVE  gotId' <= transferId' /\ Past(gotId)'
    <3>1. bytes' # <<>>
      BY <2>2
    <3>2. Past(gotId)' /\ (mode' = "receiving" => gotId' <= transferId')
      BY <1>3, <3>1 DEF Answers, Attached
    <3>3. mode' = "finished" => gotId' = gotId /\ gotId <= transferId
      BY <1>3, ModeStep DEF Answers, Exchange, Attached, Finishes
    <3>4. gotId <= transferId => gotId <= transferId'
      BY <1>0, <1>3, TransferIdSteps DEF IInv, ClientOK
    <3> QED
      BY <1>3, <3>2, <3>3, <3>4 DEF Answers
  <2>3. \A f \in ToSet(toBridge') : f.type = "ACK" /\ f.off > 0 => f.id <= transferId' /\ Past(f.id)'
    BY <1>2, <1>3, <2>1, <2>2 DEF Ack, Past
  <2> QED
    BY <2>3 DEF ToServer
<1>4. CASE SendRequest /\ ~ BridgeRestart
  <2>1. ToSet(toBridge') = ToSet(toBridge) \cup {Request(requests + 1)}
    BY <1>0, <1>4, Appended DEF SendRequest, Offer, IsControl, Request
  <2> QED
    BY <1>2, <1>4, <2>1 DEF ToServer, Request
<1>5. CASE ToSet(toBridge') \subseteq ToSet(toBridge) /\ ~ BridgeRestart
  BY <1>2, <1>5 DEF ToServer
<1> QED
  BY <1>1, <1>3, <1>4, <1>5, ClientStep, ServerStep DEF Next, Environment, vars, linkVars

(* The acknowledgements of the client stay behind its request.              *)
LEMMA AckAfterRequestKept ==
  ASSUME IInv, Exchange, Transaction, [Next]_vars
  PROVE  AckAfterRequest'
<1> SUFFICES ASSUME mode' = "receiving",
                    NEW i \in 1..Len(toBridge'), NEW j \in 1..Len(toBridge'),
                    toBridge'[i].type = "ACK", toBridge'[i].id = gotId', toBridge'[i].off > 0,
                    toBridge'[j].type = "REQUEST"
             PROVE  j < i
  BY DEF AckAfterRequest
<1>0. toBridge \in Seq(BridgeFrames) /\ \A m \in 1..Len(toBridge) : toBridge[m] \in ToSet(toBridge)
  BY DEF IInv, LinkOK, ToSet
<1>1. \A m, n \in 1..Len(toBridge) :
        /\ toBridge[m].type = "ACK" /\ toBridge[m].id = gotId' /\ toBridge[m].off > 0
        /\ toBridge[n].type = "REQUEST"
        => n < m
  <2>1. CASE mode = "receiving" /\ gotId' = gotId
    BY <2>1 DEF Exchange, AckAfterRequest
  <2>2. CASE Attaches
    BY <1>0, <2>2 DEF Attaches, Exchange, ToServer, Past
  <2> QED
    BY <2>1, <2>2, ModeStep
<1>2. CASE Thinned(toBridge', toBridge)
  <2>1. PICK m \in 1..Len(toBridge), n \in 1..Len(toBridge) :
          toBridge'[i] = toBridge[m] /\ toBridge'[j] = toBridge[n] /\ (j < i <=> n < m)
    BY <1>2 DEF Thinned
  <2> QED
    BY <1>1, <2>1
<1>3. CASE Answers
  <2>1. /\ Len(toBridge') = Len(toBridge) + 1 /\ Len(toBridge) \in Nat
        /\ toBridge'[Len(toBridge) + 1].type = "ACK"
        /\ \A m \in 1..Len(toBridge) : toBridge'[m] = toBridge[m]
    BY <1>0, <1>3, Appended DEF Answers, Ack
  <2>2. j \in 1..Len(toBridge)
    BY <2>1
  <2> QED
    BY <1>1, <2>1, <2>2
<1>4. CASE BridgeRestart
  BY <1>4, RestartStep
<1>5. CASE UNCHANGED vars
  BY <1>0, <1>2, <1>5, ThinnedBy DEF vars, linkVars
<1>6. ~ SendRequest
  BY DEF SendRequest
<1> QED
  BY <1>2, <1>3, <1>4, <1>5, <1>6, ClientStep, ServerStep DEF Next, Environment

(* A queue of the server whose oldest item is sent.                         *)
LEMMA SentLeaves ==
  ASSUME IInv, SendItem
  PROVE  /\ ToSet(queue) = ToSet(queue') \cup {queue[1]} /\ Unacked' \subseteq Unacked
         /\ pending = NoItem /\ pending' = IF queue[1].type = "ERROR" THEN NoItem ELSE queue[1]
<1>1. /\ queue \in Seq(Items) /\ queue # <<>> /\ queue' = Tail(queue) /\ pending = NoItem
      /\ pending' = IF queue[1].type = "ERROR" THEN NoItem ELSE queue[1]
  BY DEF IInv, QueueOK, SendItem
<1>2. /\ 1 \in 1..Len(queue) /\ DOMAIN queue = 1..Len(queue) /\ DOMAIN queue' = 1..Len(queue')
      /\ \A i \in 1..Len(queue') : i + 1 \in 1..Len(queue) /\ queue'[i] = queue[i + 1]
      /\ \A i \in 1..Len(queue) : i = 1 \/ (i - 1 \in 1..Len(queue') /\ queue'[i - 1] = queue[i])
  BY <1>1
<1>3. \A x \in ToSet(queue) : x \in ToSet(queue') \cup {queue[1]}
  <2> SUFFICES ASSUME NEW i \in 1..Len(queue) PROVE queue[i] \in ToSet(queue') \cup {queue[1]}
    BY <1>2 DEF ToSet
  <2> QED
    BY <1>2 DEF ToSet
<1>4. \A x \in ToSet(queue') : x \in ToSet(queue)
  <2> SUFFICES ASSUME NEW i \in 1..Len(queue') PROVE queue'[i] \in ToSet(queue)
    BY <1>2 DEF ToSet
  <2> QED
    BY <1>2 DEF ToSet
<1>5. queue[1] \in ToSet(queue)
  BY <1>2 DEF ToSet
<1> QED
  BY <1>1, <1>3, <1>4, <1>5 DEF Unacked

(* Only an acknowledgement makes RADAR_END the next news for the client.    *)
LEMMA LateStays ==
  ASSUME IInv, Schedule, BridgeLoop \/ DownloadTask,
         ~ \E i \in 1..Len(toBridge) : Acknowledge(i),
         ~ abort', Late', ~ Early'
  PROVE  ~ abort /\ Late /\ ~ Early
<1>0. offset \in Nat /\ NoItem.type = "NONE" /\ ~ IsFirst(NoItem)
  BY DEF IInv, JobsOK, NoItem, IsFirst
<1>1. CASE (\E i \in 1..Len(toBridge) : StartRequest(i)) \/ OpenSource
  <2>1. /\ queue' = <<>> /\ pending' = NoItem /\ taskAt' \in {"open", "error", "begin"}
    BY <1>1 DEF StartRequest, Start, Busy, OpenSource, Schedule, TaskUnchanged, Goto
  <2> QED
    BY <1>0, <2>1 DEF Late, Unacked, ToSet
<1>2. CASE (\E i \in 1..Len(toBridge) : RefuseRequest(i)) \/ Resend
  BY <1>2 DEF RefuseRequest, Resend, serverVars, taskVars, Late, Early, Unacked
<1>3. CASE StallAbort \/ GiveUp
  BY <1>3 DEF StallAbort, GiveUp, TaskUnchanged
<1>4. CASE SendItem
  <2>1. UNCHANGED <<abort, taskAt, offset>>
    BY <1>4 DEF SendItem, taskVars
  <2>2. \A it \in Unacked : it.type \in {"BEGIN", "CHUNK"} => it \in Unacked'
    BY <1>0, <1>4, SentLeaves DEF Unacked
  <2>3. \A it \in Unacked : it.type = "BEGIN" \/ IsFirst(it) => it \in Unacked'
    BY <2>2 DEF IsFirst
  <2>4. Late
    BY <1>4, <2>1, SentLeaves DEF Late
  <2> QED
    BY <2>1, <2>3, <2>4 DEF Early
<1>5. CASE StopReading \/ TaskExit
  BY <1>0, <1>5 DEF StopReading, TaskExit, TaskUnchanged, Goto, Late, Early, Unacked
<1>6. CASE Enqueue \/ EnqueueWaiting
  <2>1. CASE UNCHANGED <<taskAt, offset, queue, pending, abort>>
    BY <2>1 DEF Late, Early, Unacked
  <2>2. CASE HasItem /\ Put(NextItem) /\ UNCHANGED <<pending, abort>>
    <3>1. ToSet(queue') = ToSet(queue) \cup {NextItem} /\ ~ abort
      BY <2>2, Appended DEF Put, IInv, QueueOK
    <3>2. ~ Early /\ NextItem.type # "BEGIN" /\ ~ IsFirst(NextItem)
      BY <2>2, <3>1 DEF Early, Unacked
    <3>3. CASE taskAt = "read"
      BY <1>0, <2>2, <3>1, <3>2, <3>3, NextItemIs DEF IsFirst, Late
    <3>4. CASE taskAt = "end"
      BY <3>1, <3>2, <3>4 DEF Late
    <3>5. CASE taskAt = "error"
      <4>1. taskAt' = "exit" /\ NextItem.type # "END"
        BY <2>2, <3>5, NextItemIs DEF Put, Goto
      <4> QED
        BY <2>2, <3>1, <3>2, <4>1 DEF Late, Unacked
    <3> QED
      BY <2>2, <3>2, <3>3, <3>4, <3>5, NextItemIs DEF HasItem
  <2> QED
    BY <1>6, <2>1, <2>2 DEF Enqueue, EnqueueWaiting, TaskUnchanged, Schedule
<1> QED
  BY <1>1, <1>2, <1>3, <1>4, <1>5, <1>6 DEF BridgeLoop, DownloadTask

(* The acknowledgement of the first chunk: the client is past RADAR_BEGIN,  *)
(* and its request, which is older, has been taken.                         *)
LEMMA AcknowledgedChunk ==
  ASSUME IInv, Schedule, Exchange, NEW i \in 1..Len(toBridge), Acknowledge(i),
         ~ abort', Late', ~ Early'
  PROVE  /\ Past(transferId)
         /\ mode = "receiving" /\ gotId = transferId => NoRequest
<1>0. /\ NoItem.type = "NONE" /\ toBridge \in Seq(BridgeFrames)
      /\ toBridge[i] \in ToSet(toBridge) /\ toBridge[i] \in BridgeFrames /\ toBridge[i].type = "ACK"
  BY DEF NoItem, IInv, LinkOK, ToSet, Acknowledge, TakeBridge
<1>1. /\ UNCHANGED <<queue, taskAt, offset, abort>>
      /\ pending' = pending \/ pending' = NoItem
  BY DEF Acknowledge, taskVars
<1>2. CASE ~ Early
  <2>1. ~ abort /\ Late
    BY <1>0, <1>1 DEF Late, Unacked
  <2> QED
    BY <1>2, <2>1 DEF Exchange, Answered
<1>3. CASE Early
  <2>1. /\ pending # NoItem /\ (pending.type = "BEGIN" \/ IsFirst(pending))
        /\ toBridge[i].id = pending.id /\ toBridge[i].off = Expected(pending)
    BY <1>1, <1>3 DEF Early, Unacked, Acknowledge
  <2>2. pending.type # "BEGIN"
    <3> SUFFICES ASSUME pending.type = "BEGIN" PROVE FALSE
      OBVIOUS
    <3>1. ~ abort /\ Late /\ pending \in Unacked
      BY <1>0, <1>1 DEF Late, Unacked
    <3>2. \E it \in ToSet(queue) : IsFirst(it)
      BY <3>1 DEF Schedule
    <3> QED
      BY <1>1, <3>2 DEF Early, Unacked
  <2>3. toBridge[i].id = transferId /\ toBridge[i].off = 1
    BY <2>1, <2>2 DEF Expected, IsFirst, IInv, QueueOfOneTransfer
  <2>4. Past(transferId)
    BY <1>0, <2>3 DEF Exchange, ToServer
  <2>5. ASSUME mode = "receiving", gotId = transferId
        PROVE  NoRequest
    <3>1. i = 1
      BY <1>0 DEF Acknowledge, TakeBridge, Poppable, IsControl
    <3>2. \A j \in 1..Len(toBridge) : toBridge[j].type # "REQUEST"
      BY <1>0, <2>3, <2>5, <3>1 DEF Exchange, AckAfterRequest
    <3> QED
      BY <1>0, <3>2 DEF NoRequest, ToSet
  <2> QED
    BY <2>4, <2>5
<1> QED
  BY <1>2, <1>3

(* So the end of a transfer finds the client past its beginning.            *)
LEMMA AnsweredKept ==
  ASSUME IInv, Schedule, Exchange, Transaction, [Next]_vars
  PROVE  Answered'
<1> SUFFICES ASSUME ~ abort', Late', ~ Early'
             PROVE  /\ Past(transferId)'
                    /\ mode' = "receiving" /\ gotId' = transferId' => NoRequest'
  BY DEF Answered
<1>0. transferId \in Nat
  BY DEF IInv, QueueOK
<1>1. ASSUME Past(transferId), transferId' = transferId
      PROVE  Past(transferId)'
  <2>1. \A t \in Nat : t = transferId => Past(t)'
    BY <1>1, PastStays
  <2> QED
    BY <1>0, <1>1, <2>1 DEF Past
<1>2. CASE S3Loop \/ DecodeEnds \/ Lose \/ Outage \/ S3Restart
  <2>1. UNCHANGED serverVars /\ ToSet(toS3') \subseteq ToSet(toS3)
    BY <1>2, ClientStep
  <2>2. /\ Past(transferId) /\ transferId' = transferId
        /\ mode = "receiving" /\ gotId = transferId => NoRequest
    BY <2>1 DEF Exchange, Answered, Late, Early, Unacked, serverVars, taskVars
  <2>3. ~ (Attaches /\ gotId' = transferId)
    BY <2>2 DEF Attaches, Past
  <2>4. mode' = "receiving" /\ NoRequest => NoRequest'
    <3>1. ~ SendRequest \/ mode' # "receiving"
      BY DEF SendRequest
    <3>2. Answers => ToSet(toBridge') = ToSet(toBridge) \cup {Ack(gotId', Len(bytes'))}
      BY Appended DEF Answers, IInv, LinkOK
    <3> QED
      BY <1>2, <3>1, <3>2, ClientStep DEF NoRequest, Ack
  <2> QED
    BY <1>1, <2>2, <2>3, <2>4, ModeStep
<1>3. CASE BridgeLoop \/ DownloadTask
  <2>1. /\ Past(transferId)
        /\ mode = "receiving" /\ gotId = transferId => NoRequest
    BY <1>3, LateStays, AcknowledgedChunk DEF Exchange, Answered
  <2>2. UNCHANGED <<mode, gotId>> /\ ToSet(toBridge') \subseteq ToSet(toBridge)
    BY <1>3, ServerStep DEF s3Vars, clientVars
  <2>3. ~ \E i \in 1..Len(toBridge) : StartRequest(i)
    <3>1. \A i \in 1..Len(toBridge) :
            StartRequest(i) => queue' = <<>> /\ pending' = NoItem /\ taskAt' = "open"
      BY DEF StartRequest, Start, Busy
    <3>2. queue' = <<>> => ToSet(queue') = {}
      BY DEF ToSet
    <3> QED
      BY <3>1, <3>2 DEF Late, Unacked, NoItem
  <2>4. CASE transferId' = transferId
    BY <1>1, <2>1, <2>2, <2>4 DEF NoRequest
  <2> QED
    BY <2>3, <2>4, TransferIdSteps, RestartStep DEF Late, Unacked, ToSet, NoItem
<1>4. CASE BridgeRestart
  BY <1>4, RestartStep DEF Late, Unacked, ToSet, NoItem
<1>5. CASE UNCHANGED vars
  <2>1. /\ ~ abort /\ Late /\ ~ Early
        /\ UNCHANGED <<mode, gotId, transferId, toBridge>>
    BY <1>5 DEF vars, linkVars, serverVars, s3Vars, clientVars, taskVars, Late, Early, Unacked
  <2> QED
    BY <1>1, <2>1 DEF Exchange, Answered, NoRequest
<1> QED
  BY <1>2, <1>3, <1>4, <1>5 DEF Next, Environment

(* Nothing overtakes or follows the end of a transfer.                      *)
LEMMA EndIsLastKept ==
  ASSUME IInv, Schedule, Exchange, Transaction, [Next]_vars
  PROVE  EndIsLast'
<1> SUFFICES ASSUME mode' = "receiving", NEW i \in 1..Len(toS3'),
                    toS3'[i].type = "END", toS3'[i].id = gotId'
             PROVE  /\ gotId' = transferId' /\ Over' /\ NoRequest'
                    /\ \A j \in 1..Len(toS3') : toS3'[j].type = "ERROR" => j < i
  BY DEF EndIsLast
<1>0. toS3 \in Seq(Items) /\ \A m \in 1..Len(toS3) : toS3[m] \in ToSet(toS3)
  BY DEF IInv, LinkOK, ToSet
<1>1. \A m \in 1..Len(toS3) :
        toS3[m].type = "END" /\ toS3[m].id = gotId' =>
          /\ mode = "receiving" /\ gotId' = gotId /\ gotId = transferId /\ Over /\ NoRequest
          /\ \A n \in 1..Len(toS3) : toS3[n].type = "ERROR" => n < m
  <2>1. CASE mode = "receiving" /\ gotId' = gotId
    BY <2>1 DEF Exchange, EndIsLast
  <2>2. CASE Attaches
    <3>1. \A m \in 1..Len(toS3) : ~ (toS3[m].type = "END" /\ toS3[m].id = gotId')
      BY <1>0, <2>2 DEF Attaches, Exchange, ToClient, Past
    <3> QED
      BY <3>1
  <2> QED
    BY <2>1, <2>2, ModeStep
<1>2. CASE /\ UNCHANGED serverVars /\ Thinned(toS3', toS3)
           /\ \A f \in ToSet(toBridge') : f \in ToSet(toBridge) \/ f.type = "ACK"
  <2>1. \A j \in 1..Len(toS3') : \E m, n \in 1..Len(toS3) :
          toS3'[i] = toS3[m] /\ toS3'[j] = toS3[n] /\ (j < i <=> n < m)
    BY <1>2 DEF Thinned
  <2>2. PICK m \in 1..Len(toS3) : toS3'[i] = toS3[m]
    BY <2>1
  <2>3. Over /\ NoRequest /\ gotId' = transferId
    BY <1>1, <2>2
  <2>4. Over' /\ NoRequest' /\ gotId' = transferId'
    BY <1>2, <2>3 DEF Over, NoRequest, serverVars, taskVars
  <2> QED
    BY <1>1, <2>1, <2>4
<1>3. CASE S3Loop \/ DecodeEnds \/ Lose \/ Outage \/ S3Restart
  <2>1. ~ SendRequest
    BY DEF SendRequest
  <2>2. Answers => ToSet(toBridge') = ToSet(toBridge) \cup {Ack(gotId', Len(bytes'))}
    BY Appended DEF Answers, IInv, LinkOK
  <2> QED
    BY <1>2, <1>3, <2>1, <2>2, ClientStep DEF Ack
<1>4. CASE BridgeLoop \/ DownloadTask
  <2>1. UNCHANGED <<mode, gotId>> /\ (NoRequest => NoRequest')
    BY <1>4, ServerStep DEF s3Vars, clientVars, NoRequest
  <2>2. CASE \E m \in 1..Len(toS3) : toS3[m].type = "END" /\ toS3[m].id = gotId'
    <3>1. gotId' = transferId /\ Over /\ NoRequest
      BY <1>1, <2>2
    <3>2. /\ Over' /\ NoRequest' /\ transferId' = transferId
          /\ toS3' = toS3 \/ (toS3' = Append(toS3, pending) /\ pending.type # "ERROR")
      BY <1>4, <3>1, QuietServer DEF Schedule
    <3>3. CASE toS3' = toS3
      BY <1>1, <3>1, <3>2, <3>3
    <3>4. CASE toS3' = Append(toS3, pending) /\ pending.type # "ERROR"
      <4>1. /\ Len(toS3') = Len(toS3) + 1 /\ Len(toS3) \in Nat
            /\ toS3'[Len(toS3) + 1] = pending
            /\ \A m \in 1..Len(toS3) : toS3'[m] = toS3[m]
        BY <1>0, <3>4, Appended
      <4>2. \A j \in 1..Len(toS3') : toS3'[j].type = "ERROR" => j \in 1..Len(toS3)
        BY <3>4, <4>1
      <4>3. CASE i \in 1..Len(toS3)
        BY <1>1, <3>1, <3>2, <4>1, <4>2, <4>3
      <4>4. CASE i = Len(toS3) + 1
        BY <3>1, <3>2, <4>1, <4>2, <4>4
      <4> QED
        BY <4>1, <4>3, <4>4
    <3> QED
      BY <3>2, <3>3, <3>4
  <2>3. CASE ~ \E m \in 1..Len(toS3) : toS3[m].type = "END" /\ toS3[m].id = gotId'
    <3>1. PICK f : toS3' = Append(toS3, f) /\ (f = Error(0) \/ Sends(f))
      BY <1>4, <2>3, ServerStep
    <3>2. /\ Len(toS3') = Len(toS3) + 1 /\ Len(toS3) \in Nat /\ toS3'[Len(toS3) + 1] = f
          /\ \A m \in 1..Len(toS3) : toS3'[m] = toS3[m]
      BY <1>0, <3>1, Appended
    <3>3. i = Len(toS3) + 1 /\ f.type = "END" /\ f.id = gotId'
      BY <2>3, <3>2
    <3>4. Sends(f) /\ gotId' = transferId /\ transferId' = transferId
      BY <3>1, <3>3, SentIsOwn DEF Error, Sends, SendItem, Resend, serverVars
    <3>5. Over' /\ NoRequest
      BY <2>1, <3>3, <3>4, SentEnd DEF Exchange
    <3>6. \A j \in 1..Len(toS3') : toS3'[j].type = "ERROR" => j < i
      BY <3>2, <3>3
    <3> QED
      BY <2>1, <3>4, <3>5, <3>6
  <2> QED
    BY <2>2, <2>3
<1>5. CASE BridgeRestart
  BY <1>5, RestartStep
<1>6. CASE UNCHANGED vars
  BY <1>0, <1>2, <1>6, ThinnedBy DEF vars, linkVars
<1> QED
  BY <1>3, <1>4, <1>5, <1>6 DEF Next, Environment

(* From the end of a transfer to the next request nothing is under way.     *)
LEMMA FinishedIsQuietKept ==
  ASSUME IInv, Schedule, Exchange, Transaction, [Next]_vars
  PROVE  FinishedIsQuiet'
<1> SUFFICES ASSUME mode' = "finished"
             PROVE  Over' /\ NoRequest' /\ \A f \in ToSet(toS3') : f.type # "ERROR"
  BY DEF FinishedIsQuiet
<1>0. toS3 \in Seq(Items) /\ toBridge \in Seq(BridgeFrames) /\ \A m \in 1..Len(toS3) : toS3[m] \in ToSet(toS3)
  BY DEF IInv, LinkOK, ToSet
<1>1. CASE S3Loop \/ DecodeEnds \/ Lose \/ Outage \/ S3Restart
  <2>1. Over /\ NoRequest /\ \A f \in ToSet(toS3') : f.type # "ERROR"
    <3>1. CASE mode = "finished"
      BY <1>1, <3>1, ClientStep DEF Exchange, FinishedIsQuiet
    <3>2. CASE Finishes
      <4>1. Over /\ NoRequest /\ \A j \in 1..Len(toS3) : toS3[j].type = "ERROR" => j < 1
        BY <3>2 DEF Finishes, Exchange, EndIsLast
      <4>2. \A f \in ToSet(toS3') : \E j \in 1..Len(toS3) : f = toS3[j] /\ ~ (j < 1)
        BY <1>0, <3>2, Behind DEF Finishes
      <4> QED
        BY <4>1, <4>2
    <3> QED
      BY <3>1, <3>2, ModeStep
  <2>2. ~ SendRequest
    BY DEF SendRequest
  <2>3. Answers => ToSet(toBridge') = ToSet(toBridge) \cup {Ack(gotId', Len(bytes'))}
    BY <1>0, Appended DEF Answers
  <2>4. NoRequest'
    BY <1>1, <2>1, <2>2, <2>3, ClientStep DEF NoRequest, Ack
  <2> QED
    BY <1>1, <2>1, <2>4, ClientStep DEF Over, serverVars, taskVars
<1>2. CASE BridgeLoop \/ DownloadTask
  <2>1. Over /\ NoRequest /\ \A f \in ToSet(toS3) : f.type # "ERROR"
    BY <1>2, ServerStep DEF s3Vars, clientVars, Exchange, FinishedIsQuiet
  <2>2. CASE toS3' = toS3
    BY <1>2, <2>1, <2>2, QuietServer
  <2>3. CASE toS3' = Append(toS3, pending) /\ pending.type # "ERROR"
    <3>1. ToSet(toS3') = ToSet(toS3) \cup {pending}
      BY <1>0, <2>3, Appended
    <3> QED
      BY <1>2, <2>1, <2>3, <3>1, QuietServer
  <2> QED
    BY <1>2, <2>1, <2>2, <2>3, QuietServer DEF Schedule
<1>3. CASE BridgeRestart
  BY <1>3, RestartStep DEF Over, NoRequest, ToSet
<1>4. CASE UNCHANGED vars
  BY <1>4 DEF vars, linkVars, serverVars, taskVars, s3Vars, clientVars, Exchange,
     FinishedIsQuiet, Over, NoRequest
<1> QED
  BY <1>1, <1>2, <1>3, <1>4 DEF Next, Environment

=============================================================================
