--------------------------- MODULE AssetDecodeProofs ---------------------------
(***************************************************************************)
(* For every value of the constants: the five invariants the runs check of *)
(* the picture transfer.  The exchange (AssetTransferProofs) is quiet from *)
(* the end of a transfer to the end of its decode; here this is joined     *)
(* with the transaction of the loop of the S3: which request the Bridge    *)
(* took last, and which picture a RADAR_END completes.                     *)
(***************************************************************************)
EXTENDS AssetTransferProofs

------------------------------------------------------------------------------
(* The inductive invariant *)

LastKind == IF jobs = <<>> THEN 0 ELSE jobs[Job].kind

(* Requests are taken in the order in which they are sent, each once.       *)
Asked ==
  /\ transferId <= LastKind /\ LastKind <= requests /\ requests <= MaxRequests
  /\ \A i \in 1..Len(toBridge) :
       toBridge[i].type = "REQUEST" =>
         /\ LastKind < toBridge[i].kind /\ toBridge[i].kind <= requests
         /\ \A j \in 1..Len(toBridge) :
              j < i /\ toBridge[j].type = "REQUEST" => toBridge[j].kind < toBridge[i].kind

(* RADAR_END of the present transfer is that of the last download; without  *)
(* a loss that is the one asked for, once the request has been answered.    *)
EndOfLast ==
  \A f \in ToSet(toS3) \cup Unacked :
    f.type = "END" /\ f.id = transferId => f.crc = Picture(Job)
AskedIsAnswered ==
  losses = 0 /\ Active =>
    \/ Request(requested) \in ToSet(toBridge)
    \/ \E f \in ToSet(toS3) : f.type = "ERROR"
    \/ LastKind = requested

AssetInv ==
  /\ IInv /\ Schedule /\ Exchange /\ Transaction /\ losses \in Nat
  /\ Asked /\ EndOfLast /\ AskedIsAnswered /\ TypeOK

------------------------------------------------------------------------------
(* The transaction of the loop *)

(* The loop of the S3 never works for two transactions at a time.           *)
LEMMA TransactionKept ==
  ASSUME IInv, Exchange, Transaction, TypeOK, [Next]_vars
  PROVE  Transaction'
<1>1. CASE UNCHANGED <<s3Vars, requests>>
  BY <1>1 DEF Transaction, Active, s3Vars, clientVars, loopVars
<1>2. CASE \E i \in 1..Len(toS3) : ReceiveBegin(i)
  <2>1. /\ UNCHANGED <<heard, loopVars, requests>>
        /\ \/ UNCHANGED clientVars
           \/ /\ mode = "waiting" /\ mode' = "receiving"
              /\ UNCHANGED <<completed, requested, done, failure>>
           \/ mode = "waiting" /\ Fail
    BY <1>2 DEF ReceiveBegin, ClientUnchanged
  <2>2. CASE UNCHANGED clientVars
    BY <2>1, <2>2 DEF Transaction, Active, clientVars, loopVars
  <2>3. CASE mode = "waiting"
    BY <2>1, <2>3 DEF Transaction, Active, Fail, clientVars, loopVars
  <2> QED
    BY <2>1, <2>2, <2>3
<1>3. CASE \E i \in 1..Len(toS3) : ReceiveChunk(i)
  <2>1. /\ UNCHANGED <<heard, loopVars, requests>>
        /\ \/ UNCHANGED <<mode, completed, requested, done, failure>>
           \/ mode = "receiving" /\ Fail
    BY <1>3 DEF ReceiveChunk, ClientUnchanged
  <2> QED
    BY <2>1 DEF Transaction, Active, Fail, loopVars
<1>4. CASE \E i \in 1..Len(toS3) : ReceiveEnd(i)
  <2>1. /\ UNCHANGED <<heard, loopVars, requests>>
        /\ \/ UNCHANGED clientVars
           \/ /\ mode = "receiving" /\ mode' = "finished" /\ completed' = TRUE
              /\ done' = requested /\ UNCHANGED failure
           \/ mode = "receiving" /\ Fail
    BY <1>4 DEF ReceiveEnd, ClientUnchanged
  <2>2. CASE UNCHANGED clientVars
    BY <2>1, <2>2 DEF Transaction, Active, clientVars, loopVars
  <2>3. CASE mode = "receiving"
    BY <2>1, <2>3 DEF Transaction, Active, Fail, clientVars, loopVars
  <2> QED
    BY <2>1, <2>2, <2>3
<1>5. CASE (\E i \in 1..Len(toS3) : ReceiveError(i)) \/ ClientTimeout
  <2>1. mode # "finished" /\ Fail /\ UNCHANGED <<heard, loopVars, requests>>
    <3>1. \A i \in 1..Len(toS3) : toS3[i] \in ToSet(toS3)
      BY DEF IInv, LinkOK, ToSet
    <3> QED
      BY <1>5, <3>1 DEF ReceiveError, ClientTimeout, TakeS3, Active, ClientUnchanged, Exchange,
         FinishedIsQuiet
  <2> QED
    BY <2>1 DEF Transaction, Active, Fail, loopVars
<1>6. CASE SendRequest
  <2>1. requests + 1 # NONE
    BY DEF IInv, LinkOK, NONE
  <2>2. /\ decode = "off" /\ ~ completed /\ ~ failure /\ heard
    BY <1>6 DEF SendRequest, Transaction, TypeOK
  <2> QED
    BY <1>6, <2>1, <2>2 DEF SendRequest, Transaction, Active
<1>7. CASE StartDecode \/ DecodeEnds
  BY <1>7 DEF StartDecode, DecodeEnds, LoopUnchanged, Fail, Transaction, Active, clientVars
<1>8. CASE HandleDone \/ HandleFailure
  BY <1>8 DEF HandleDone, HandleFailure, LoopUnchanged, Fail, Transaction, Active
<1>9. CASE LinkDownPass \/ Outage \/ BridgeRestart
  BY <1>9 DEF LinkDownPass, Outage, BridgeRestart, FallSilent, LinkDownReset, ResetClient,
     LoopUnchanged, Transaction, Active, clientVars
<1>10. CASE BridgeStatus
  BY <1>10 DEF BridgeStatus, Transaction, Active
<1>11. CASE S3Restart
  BY <1>11 DEF S3Restart, Transaction, Active
<1>12. CASE BridgeLoop \/ DownloadTask \/ Lose \/ UNCHANGED vars
  BY <1>1, <1>12, ServerStep DEF Lose, vars
<1> QED
  BY <1>2, <1>3, <1>4, <1>5, <1>6, <1>7, <1>8, <1>9, <1>10, <1>11, <1>12 DEF Next, S3Loop,
     Environment

------------------------------------------------------------------------------
(* Requests *)

(* Downloads have a kind and a size.                                        *)
LEMMA JobsTyped ==
  ASSUME IInv
  PROVE  \A k \in 1..Len(jobs) : jobs[k].kind \in Nat /\ jobs[k].size \in Nat
<1>1. jobs \in Seq([kind : Nat, size : Nat])
  BY DEF IInv, JobsOK
<1>2. \A k \in 1..Len(jobs) : jobs[k] \in [kind : Nat, size : Nat]
  BY <1>1, ElementOfSeq, Zenon
<1>3. \A r \in [kind : Nat, size : Nat] : r.kind \in Nat /\ r.size \in Nat
  OBVIOUS
<1> QED
  BY <1>2, <1>3

(* The kind of the last download changes only when one starts.              *)
LEMMA LastKindStays ==
  ASSUME IInv, [Next]_vars, ~ \E i \in 1..Len(toBridge) : StartRequest(i)
  PROVE  LastKind' = LastKind
<1>1. jobs \in Seq([kind : Nat, size : Nat])
  BY DEF IInv, JobsOK
<1>2. CASE jobs' = jobs
  BY <1>2 DEF LastKind, Job
<1>3. CASE OpenSource
  <2>1. /\ jobs # <<>>
        /\ jobs' = jobs \/ \E n : jobs' = [jobs EXCEPT ![Job].size = n]
    BY <1>3 DEF OpenSource, IInv, JobsOK
  <2>2. ASSUME NEW n, jobs' = [jobs EXCEPT ![Job].size = n]
        PROVE  LastKind' = LastKind
    <3>1. Len(jobs) \in 1..Len(jobs) /\ Len(jobs') = Len(jobs) /\ jobs' # <<>>
      BY <1>1, <2>1, <2>2
    <3>2. jobs'[Len(jobs)].kind = jobs[Len(jobs)].kind
      BY <1>1, <2>2, <3>1 DEF Job
    <3> QED
      BY <2>1, <3>1, <3>2 DEF LastKind, Job
  <2> QED
    BY <1>2, <2>1, <2>2
<1>4. OpenSource \/ jobs' = jobs
  <2>1. CASE BridgeLoop \/ DownloadTask
    BY <2>1 DEF BridgeLoop, DownloadTask, RefuseRequest, Acknowledge, SendItem, Resend,
       StallAbort, Enqueue, EnqueueWaiting, GiveUp, StopReading, TaskExit, serverVars, taskVars
  <2>2. CASE S3Loop \/ DecodeEnds \/ Lose \/ Outage \/ S3Restart
    BY <2>2, ClientStep DEF serverVars, taskVars
  <2>3. CASE BridgeRestart \/ UNCHANGED vars
    BY <2>3 DEF BridgeRestart, vars, serverVars, taskVars
  <2> QED
    BY <2>1, <2>2, <2>3 DEF Next, Environment
<1> QED
  BY <1>2, <1>3, <1>4

(* A download that starts is that of the request taken.                     *)
LEMMA LastKindStarts ==
  ASSUME IInv, NEW i \in 1..Len(toBridge), StartRequest(i)
  PROVE  LastKind' = toBridge[i].kind /\ toBridge' = RemoveAt(toBridge, i)
         /\ toBridge[i].type = "REQUEST" /\ toS3' = toS3 /\ UNCHANGED <<s3Vars, requests, losses>>
<1>1. /\ jobs \in Seq([kind : Nat, size : Nat])
      /\ jobs' = Append(jobs, [kind |-> toBridge[i].kind, size |-> 0])
      /\ toBridge' = RemoveAt(toBridge, i) /\ toBridge[i].type = "REQUEST"
  BY DEF IInv, JobsOK, StartRequest, Start, TakeBridge
<1>2. Len(jobs') = Len(jobs) + 1 /\ jobs'[Len(jobs) + 1].kind = toBridge[i].kind /\ jobs' # <<>>
  BY <1>1
<1> QED
  BY <1>1, <1>2 DEF LastKind, Job, StartRequest

(* Requests keep their order, and the last one taken is older than all that *)
(* are under way.                                                           *)
LEMMA AskedKept ==
  ASSUME IInv, Transaction, Asked, [Next]_vars
  PROVE  Asked'
<1>0. /\ toBridge \in Seq(BridgeFrames) /\ transferId \in Nat /\ requests \in Nat
      /\ LastKind \in Nat /\ MaxRequests \in Nat
      /\ \A i \in 1..Len(toBridge) : toBridge[i] \in BridgeFrames
  <2>1. LastKind \in Nat
    <3>1. jobs \in Seq([kind : Nat, size : Nat])
      BY DEF IInv, JobsOK
    <3>2. jobs # <<>> => Len(jobs) \in 1..Len(jobs)
      BY <3>1
    <3> QED
      BY <3>2, JobsTyped DEF LastKind, Job
  <2>2. MaxRequests \in Nat
    BY AssetBounds
  <2>3. \A i \in 1..Len(toBridge) : toBridge[i] \in BridgeFrames
    BY DEF IInv, LinkOK
  <2> QED
    BY <2>1, <2>2, <2>3 DEF IInv, LinkOK, QueueOK
<1>1. \A i \in 1..Len(toBridge) : toBridge[i].type = "REQUEST" => toBridge[i].kind \in Nat
  BY <1>0, BridgeFramesTyped
<1>2. CASE Thinned(toBridge', toBridge) /\ UNCHANGED <<transferId, requests, LastKind>>
  <2>1. ASSUME NEW i \in 1..Len(toBridge'), toBridge'[i].type = "REQUEST"
        PROVE  /\ LastKind' < toBridge'[i].kind /\ toBridge'[i].kind <= requests'
               /\ \A j \in 1..Len(toBridge') :
                    j < i /\ toBridge'[j].type = "REQUEST" => toBridge'[j].kind < toBridge'[i].kind
    <3>1. \A j \in 1..Len(toBridge') : \E m, n \in 1..Len(toBridge) :
            toBridge'[i] = toBridge[m] /\ toBridge'[j] = toBridge[n] /\ (j < i <=> n < m)
      BY <1>2 DEF Thinned
    <3> QED
      BY <1>2, <2>1, <3>1 DEF Asked
  <2> QED
    BY <1>2, <2>1 DEF Asked
<1>3. ASSUME NEW f, toBridge' = Append(toBridge, f), f.type = "REQUEST" => f.kind = requests + 1,
             IF f.type = "REQUEST" THEN requests' = requests + 1 /\ requests' <= MaxRequests
             ELSE requests' = requests,
             UNCHANGED <<transferId, LastKind>>
      PROVE  Asked'
  <2>1. /\ Len(toBridge') = Len(toBridge) + 1 /\ toBridge'[Len(toBridge) + 1] = f
        /\ Len(toBridge) \in Nat
        /\ \A i \in 1..Len(toBridge) : toBridge'[i] = toBridge[i]
    BY <1>0, <1>3, Appended
  <2>2. ASSUME NEW i \in 1..Len(toBridge'), toBridge'[i].type = "REQUEST"
        PROVE  /\ LastKind' < toBridge'[i].kind /\ toBridge'[i].kind <= requests'
               /\ \A j \in 1..Len(toBridge') :
                    j < i /\ toBridge'[j].type = "REQUEST" => toBridge'[j].kind < toBridge'[i].kind
    <3>1. CASE i \in 1..Len(toBridge)
      <4>1. \A j \in 1..Len(toBridge') : j < i => j \in 1..Len(toBridge)
        BY <2>1, <3>1
      <4> QED
        BY <1>0, <1>1, <1>3, <2>1, <2>2, <3>1, <4>1 DEF Asked
    <3>2. CASE i = Len(toBridge) + 1
      <4>1. \A j \in 1..Len(toBridge') : j < i => j \in 1..Len(toBridge)
        BY <2>1, <3>2
      <4> QED
        BY <1>0, <1>1, <1>3, <2>1, <2>2, <3>2, <4>1 DEF Asked
    <3> QED
      BY <2>1, <3>1, <3>2
  <2>3. LastKind' <= requests' /\ requests' <= MaxRequests /\ transferId' <= LastKind'
    BY <1>0, <1>3 DEF Asked
  <2> QED
    BY <2>2, <2>3 DEF Asked
<1>4. ASSUME NEW i \in 1..Len(toBridge), StartRequest(i)
      PROVE  Asked'
  <2>1. /\ LastKind' = toBridge[i].kind /\ toBridge[i].type = "REQUEST" /\ requests' = requests
        /\ transferId' = transferId + 1
    BY <1>4, LastKindStarts DEF StartRequest, Start
  <2>2. /\ Len(toBridge') = Len(toBridge) - 1
        /\ \A j \in 1..(Len(toBridge) - 1) :
             toBridge'[j] = IF j < i THEN toBridge[j] ELSE toBridge[j + 1]
    BY <1>0, <1>4, RemoveAtElements, LastKindStarts, Zenon
  <2>3. \A j \in 1..Len(toBridge) : j < i => toBridge[j].type # "REQUEST"
    BY <1>4, <2>1 DEF StartRequest, TakeBridge, Poppable, IsControl
  <2>4. \A j \in 1..Len(toBridge') :
          toBridge'[j].type = "REQUEST" =>
            j + 1 \in 1..Len(toBridge) /\ toBridge'[j] = toBridge[j + 1] /\ i < j + 1
    BY <2>2, <2>3
  <2>5. ASSUME NEW j \in 1..Len(toBridge'), toBridge'[j].type = "REQUEST"
        PROVE  /\ LastKind' < toBridge'[j].kind /\ toBridge'[j].kind <= requests'
               /\ \A k \in 1..Len(toBridge') :
                    k < j /\ toBridge'[k].type = "REQUEST" => toBridge'[k].kind < toBridge'[j].kind
    <3>1. j + 1 \in 1..Len(toBridge) /\ toBridge'[j] = toBridge[j + 1] /\ i < j + 1
      BY <2>4, <2>5
    <3>2. /\ toBridge[j + 1].kind <= requests
          /\ \A k \in 1..Len(toBridge) :
               k < j + 1 /\ toBridge[k].type = "REQUEST" => toBridge[k].kind < toBridge[j + 1].kind
      BY <2>5, <3>1 DEF Asked
    <3>3. ASSUME NEW k \in 1..Len(toBridge'), k < j, toBridge'[k].type = "REQUEST"
          PROVE  toBridge'[k].kind < toBridge'[j].kind
      <4>1. k + 1 \in 1..Len(toBridge) /\ toBridge'[k] = toBridge[k + 1] /\ k + 1 < j + 1
        BY <2>4, <3>3
      <4> QED
        BY <3>1, <3>2, <3>3, <4>1
    <3> QED
      BY <2>1, <3>1, <3>2, <3>3
  <2>6. transferId' <= LastKind' /\ LastKind' <= requests' /\ requests' <= MaxRequests
    <3>1. /\ toBridge[i].kind \in Nat /\ LastKind < toBridge[i].kind
          /\ toBridge[i].kind <= requests
      BY <1>1, <2>1 DEF Asked
    <3>2. transferId <= LastKind /\ requests <= MaxRequests
      BY DEF Asked
    <3> QED
      BY <1>0, <2>1, <3>1, <3>2
  <2> QED
    BY <2>5, <2>6 DEF Asked
<1>5. CASE BridgeRestart
  BY <1>0, <1>5, RestartStep DEF Asked, LastKind, Job
<1>6. CASE (BridgeLoop \/ DownloadTask) /\ ~ BridgeRestart /\ ~ \E i \in 1..Len(toBridge) : StartRequest(i)
  BY <1>2, <1>6, ServerStep, TransferIdSteps, LastKindStays
<1>7. CASE SendRequest
  <2>1. toBridge' = Append(toBridge, Request(requests + 1)) /\ requests' = requests + 1
    BY <1>7 DEF SendRequest, Offer, IsControl, Request
  <2>2. requests' <= MaxRequests /\ UNCHANGED <<transferId, LastKind>>
    BY <1>0, <1>7, <2>1 DEF SendRequest, serverVars, taskVars, LastKind, Job
  <2> QED
    BY <1>3, <2>1, <2>2 DEF Request
<1>8. CASE (S3Loop \/ DecodeEnds \/ Lose \/ Outage \/ S3Restart) /\ ~ SendRequest
  <2>1. UNCHANGED <<transferId, LastKind>>
    BY <1>8, ClientStep DEF serverVars, taskVars, LastKind, Job
  <2>2. requests' = requests
    BY <1>8 DEF S3Loop, ReceiveBegin, ReceiveChunk, ReceiveEnd, ReceiveError, ClientTimeout,
       StartDecode, HandleDone, HandleFailure, LinkDownPass, BridgeStatus, DecodeEnds, Lose,
       Outage, FallSilent, S3Restart, ClientUnchanged, LoopUnchanged
  <2>3. CASE Answers
    BY <1>3, <2>1, <2>2, <2>3 DEF Answers, Ack
  <2> QED
    BY <1>2, <1>8, <2>1, <2>2, <2>3, ClientStep
<1>9. CASE UNCHANGED vars
  BY <1>9 DEF vars, linkVars, serverVars, taskVars, Asked, LastKind, Job
<1> QED
  BY <1>4, <1>5, <1>6, <1>7, <1>8, <1>9 DEF Next, Environment

------------------------------------------------------------------------------
(* Which picture a transfer brings *)

(* What a step of the Bridge may add to the items in its hands.             *)
LEMMA UnackedStep ==
  ASSUME IInv, Schedule, BridgeLoop \/ DownloadTask
  PROVE  \A f \in Unacked' : \/ f \in Unacked \cup {NoItem}
                             \/ f = NextItem /\ HasItem /\ Put(NextItem) /\ UNCHANGED jobs
<1>1. CASE \/ \E i \in 1..Len(toBridge) : StartRequest(i) \/ Acknowledge(i) \/ RefuseRequest(i)
           \/ Resend \/ StallAbort \/ OpenSource \/ GiveUp \/ StopReading \/ TaskExit
  <2>1. queue' \in {queue, <<>>} /\ pending' \in {pending, NoItem}
    BY <1>1 DEF StartRequest, Start, Acknowledge, RefuseRequest, Resend, StallAbort, OpenSource,
       GiveUp, StopReading, TaskExit, TaskUnchanged, serverVars
  <2> QED
    BY <2>1 DEF Unacked, ToSet
<1>2. CASE SendItem
  BY <1>2, SentLeaves
<1>3. CASE Enqueue \/ EnqueueWaiting
  <2>1. \/ UNCHANGED <<queue, pending>>
        \/ HasItem /\ Put(NextItem) /\ UNCHANGED <<pending, jobs>>
    BY <1>3 DEF Enqueue, EnqueueWaiting, TaskUnchanged, Schedule
  <2>2. CASE HasItem /\ Put(NextItem) /\ UNCHANGED <<pending, jobs>>
    <3>1. ToSet(queue') = ToSet(queue) \cup {NextItem}
      BY <2>2, Appended DEF Put, IInv, QueueOK
    <3> QED
      BY <2>2, <3>1 DEF Unacked
  <2> QED
    BY <2>1, <2>2 DEF Unacked
<1> QED
  BY <1>1, <1>2, <1>3 DEF BridgeLoop, DownloadTask

(* RADAR_END of the present transfer is that of the last download.          *)
LEMMA EndOfLastKept ==
  ASSUME IInv, Schedule, Exchange, Transaction, EndOfLast, [Next]_vars
  PROVE  EndOfLast'
<1>0. /\ transferId \in Nat /\ NoItem.type = "NONE"
      /\ \A f \in ToSet(toS3) : f.id \in Nat
  BY ItemsTyped DEF IInv, QueueOK, LinkOK, ToSet, NoItem
<1>1. CASE UNCHANGED serverVars /\ ToSet(toS3') \subseteq ToSet(toS3)
  BY <1>1 DEF EndOfLast, Unacked, Picture, Job, serverVars, taskVars
<1>2. CASE BridgeRestart
  <2>1. toS3' = <<>> /\ queue' = <<>> /\ pending' = NoItem
    BY <1>2, RestartStep
  <2> QED
    BY <1>0, <2>1 DEF EndOfLast, Unacked, ToSet
<1>3. ASSUME NEW i \in 1..Len(toBridge), StartRequest(i)
      PROVE  EndOfLast'
  <2>1. /\ queue' = <<>> /\ pending' = NoItem /\ toS3' = toS3 /\ transferId' = transferId + 1
    BY <1>3 DEF StartRequest, Start, Busy
  <2>2. \A f \in ToSet(toS3') \cup Unacked' : f.id # transferId' \/ f = NoItem
    BY <1>0, <2>1 DEF Exchange, ToClient, Unacked, ToSet
  <2> QED
    BY <1>0, <2>2 DEF EndOfLast
<1>4. CASE OpenSource
  <2>1. /\ queue' = <<>> /\ pending' = NoItem /\ toS3' = toS3 /\ transferId' = transferId
        /\ taskAt = "open"
    BY <1>4 DEF OpenSource, TaskUnchanged, Schedule, linkVars
  <2>2. \A f \in ToSet(toS3) : f.type = "END" => f.id # transferId
    BY <2>1 DEF Exchange, ToClient, Past, Begun
  <2>3. Unacked' = {NoItem}
    BY <2>1 DEF Unacked, ToSet
  <2> QED
    BY <1>0, <2>1, <2>2, <2>3 DEF EndOfLast
<1>5. CASE /\ BridgeLoop \/ DownloadTask
           /\ ~ OpenSource /\ ~ \E i \in 1..Len(toBridge) : StartRequest(i)
  <2>1. jobs' = jobs /\ transferId' = transferId
    BY <1>5 DEF BridgeLoop, DownloadTask, RefuseRequest, Acknowledge, SendItem, Resend,
       StallAbort, Enqueue, EnqueueWaiting, GiveUp, StopReading, TaskExit, TaskUnchanged,
       serverVars, taskVars
  <2>2. Picture(Job)' = Picture(Job)
    BY <2>1 DEF Picture, Job
  <2>3. HasItem /\ NextItem.type = "END" => NextItem.crc = Picture(Job)
    <3>1. CASE HasItem /\ NextItem.type = "END"
      <4>1. taskAt = "end" /\ offset = jobs[Job].size
        BY <3>1, NextItemIs DEF IInv, JobsOK
      <4>2. NextItem = End(transferId, [n \in 1..offset |-> <<Job, n>>])
        BY <4>1 DEF NextItem
      <4> QED
        BY <4>1, <4>2 DEF End, Picture
    <3> QED
      BY <3>1
  <2>4. \A f \in Unacked' : f.type = "END" /\ f.id = transferId => f.crc = Picture(Job)
    BY <1>0, <1>5, <2>3, UnackedStep DEF EndOfLast
  <2>5. \A f \in ToSet(toS3') : f.type = "END" /\ f.id = transferId => f.crc = Picture(Job)
    BY <1>5, SentFrames, SentIsOwn DEF EndOfLast, Error
  <2> QED
    BY <2>1, <2>2, <2>4, <2>5 DEF EndOfLast
<1>6. CASE S3Loop \/ DecodeEnds \/ Lose \/ Outage \/ S3Restart
  BY <1>1, <1>6, ClientStep
<1>7. CASE UNCHANGED vars
  BY <1>1, <1>7 DEF vars, linkVars
<1> QED
  BY <1>2, <1>3, <1>4, <1>5, <1>6, <1>7 DEF Next, Environment

(* The other frames of a queue remain in it.                                *)
LEMMA Remains ==
  ASSUME NEW S, NEW q \in Seq(S), NEW i \in 1..Len(q), NEW x \in ToSet(q), x # q[i]
  PROVE  x \in ToSet(RemoveAt(q, i))
<1> DEFINE r == RemoveAt(q, i)
<1>1. /\ r \in Seq(S) /\ Len(r) = Len(q) - 1
      /\ \A j \in 1..(Len(q) - 1) : r[j] = IF j < i THEN q[j] ELSE q[j + 1]
  BY RemoveAtElements, Zenon
<1> HIDE DEF r
<1>2. PICK m \in 1..Len(q) : x = q[m]
  BY DEF ToSet
<1>3. CASE m < i
  <2>1. m \in 1..Len(r) /\ r[m] = x
    BY <1>1, <1>2, <1>3
  <2> QED
    BY <1>1, <2>1 DEF ToSet, r
<1>4. CASE i < m
  <2>1. m - 1 \in 1..Len(r) /\ (m - 1) + 1 = m /\ ~ (m - 1 < i)
    BY <1>1, <1>4
  <2>2. r[m - 1] = x
    BY <1>1, <1>2, <2>1
  <2> QED
    BY <1>1, <2>1, <2>2 DEF ToSet, r
<1> QED
  BY <1>2, <1>3, <1>4

(* As long as no frame is lost a request is on its way, taken or refused.   *)
LEMMA AskedIsAnsweredKept ==
  ASSUME IInv, Transaction, losses \in Nat, Asked, AskedIsAnswered, [Next]_vars
  PROVE  AskedIsAnswered'
<1> SUFFICES ASSUME losses' = 0, Active'
             PROVE  \/ Request(requested') \in ToSet(toBridge')
                    \/ \E f \in ToSet(toS3') : f.type = "ERROR"
                    \/ LastKind' = requested'
  BY DEF AskedIsAnswered
<1>0. /\ toS3 \in Seq(Items) /\ toBridge \in Seq(BridgeFrames)
      /\ \A i \in 1..Len(toBridge) : toBridge[i] \in ToSet(toBridge)
  BY DEF IInv, LinkOK, ToSet
<1>1. CASE SendRequest
  <2>1. /\ toBridge' = Append(toBridge, Request(requests + 1)) /\ requested' = requests + 1
    BY <1>1 DEF SendRequest, Offer, IsControl, Request
  <2>2. ToSet(toBridge') = ToSet(toBridge) \cup {Request(requests + 1)}
    BY <1>0, <2>1, Appended
  <2> QED
    BY <2>1, <2>2
<1>2. ASSUME losses = 0, Active, requested' = requested, LastKind' = LastKind,
             \A x \in ToSet(toBridge) : x.type = "REQUEST" => x \in ToSet(toBridge'),
             \A x \in ToSet(toS3) : x.type = "ERROR" => x \in ToSet(toS3')
      PROVE  \/ Request(requested') \in ToSet(toBridge')
             \/ \E f \in ToSet(toS3') : f.type = "ERROR"
             \/ LastKind' = requested'
  BY <1>2 DEF AskedIsAnswered, Request
<1>3. CASE \E i \in 1..Len(toS3) : ReceiveBegin(i) \/ ReceiveChunk(i) \/ ReceiveEnd(i)
  <2>1. PICK i \in 1..Len(toS3) : ReceiveBegin(i) \/ ReceiveChunk(i) \/ ReceiveEnd(i)
    BY <1>3
  <2>2. /\ losses' = losses /\ jobs' = jobs /\ toS3' = RemoveAt(toS3, i)
        /\ toS3[i].type # "ERROR"
    BY <2>1 DEF ReceiveBegin, ReceiveChunk, ReceiveEnd, TakeS3, ClientUnchanged, serverVars, taskVars
  <2>3. Active /\ requested' = requested
    BY <2>1 DEF ReceiveBegin, ReceiveChunk, ReceiveEnd, Fail, Active, clientVars
  <2>4. \A x \in ToSet(toS3) : x.type = "ERROR" => x \in ToSet(toS3')
    BY <1>0, <2>2, Remains
  <2>5. \A x \in ToSet(toBridge) : x \in ToSet(toBridge')
    <3>1. Answers => ToSet(toBridge') = ToSet(toBridge) \cup {Ack(gotId', Len(bytes'))}
      BY <1>0, Appended DEF Answers
    <3> QED
      BY <2>1, <3>1, ReceiveStep
  <2> QED
    BY <1>2, <2>2, <2>3, <2>4, <2>5 DEF LastKind, Job
<1>4. CASE (\E i \in 1..Len(toS3) : ReceiveError(i)) \/ ClientTimeout
  BY <1>4 DEF ReceiveError, ClientTimeout, Fail, Active
<1>5. CASE \/ StartDecode \/ DecodeEnds \/ HandleDone \/ HandleFailure \/ LinkDownPass
           \/ BridgeStatus \/ UNCHANGED vars
  <2>1. UNCHANGED <<linkVars, jobs>>
    BY <1>5 DEF StartDecode, DecodeEnds, HandleDone, HandleFailure, LinkDownPass, BridgeStatus,
       LoopUnchanged, serverVars, taskVars, vars
  <2>2. Active /\ requested' = requested
    BY <1>5 DEF StartDecode, DecodeEnds, HandleDone, HandleFailure, LinkDownPass, LinkDownReset,
       ResetClient, BridgeStatus, Fail, Active, clientVars, s3Vars, vars
  <2> QED
    BY <1>2, <2>1, <2>2 DEF linkVars, LastKind, Job
<1>6. CASE Lose
  BY <1>6 DEF Lose
<1>7. CASE Outage \/ BridgeRestart \/ S3Restart
  BY <1>7 DEF Outage, BridgeRestart, FallSilent, S3Restart, LinkDownReset, ResetClient, Active,
     Transaction, clientVars
<1>8. CASE (\E i \in 1..Len(toBridge) : StartRequest(i))
  <2>1. PICK i \in 1..Len(toBridge) : StartRequest(i)
    BY <1>8
  <2>2. /\ LastKind' = toBridge[i].kind /\ toBridge' = RemoveAt(toBridge, i)
        /\ toBridge[i].type = "REQUEST" /\ toS3' = toS3 /\ UNCHANGED <<s3Vars, requests, losses>>
    BY <2>1, LastKindStarts
  <2>3. losses = 0 /\ Active /\ requested' = requested
    BY <2>2 DEF s3Vars, clientVars, Active
  <2>4. LastKind # requested
    <3>1. /\ LastKind < toBridge[i].kind /\ toBridge[i].kind <= requests
          /\ requested = requests
      BY <2>2, <2>3 DEF Asked, Transaction
    <3>2. /\ requests \in Nat /\ toBridge[i].kind \in Nat
      BY <1>0, <2>2, BridgeFramesTyped DEF IInv, LinkOK
    <3> QED
      BY <3>1, <3>2
  <2>5. CASE Request(requested) \in ToSet(toBridge)
    <3>1. CASE Request(requested) = toBridge[i]
      BY <2>2, <2>3, <3>1 DEF Request
    <3>2. CASE Request(requested) # toBridge[i]
      BY <1>0, <2>2, <2>3, <2>5, <3>2, Remains
    <3> QED
      BY <3>1, <3>2
  <2> QED
    BY <2>2, <2>3, <2>4, <2>5 DEF AskedIsAnswered
<1>9. CASE \E i \in 1..Len(toBridge) : RefuseRequest(i)
  <2>1. heard
    BY <1>9 DEF RefuseRequest, s3Vars, clientVars, Active, Transaction
  <2>2. toS3' = Append(toS3, Error(0))
    BY <1>9, <2>1 DEF RefuseRequest, SendS3, Offer, IsControl, Error
  <2>3. ToSet(toS3') = ToSet(toS3) \cup {Error(0)}
    BY <1>0, <2>2, Appended
  <2>4. Error(0) \in ToSet(toS3') /\ Error(0).type = "ERROR"
    BY <2>3 DEF Error
  <2> QED
    BY <2>4
<1>10. CASE /\ BridgeLoop \/ DownloadTask
            /\ ~ \E i \in 1..Len(toBridge) : StartRequest(i) \/ RefuseRequest(i)
  <2>1. UNCHANGED <<s3Vars, losses>> /\ LastKind' = LastKind
    BY <1>10, ServerStep, LastKindStays
  <2>2. \A x \in ToSet(toS3) : x \in ToSet(toS3')
    <3>1. \A f : ToSet(Append(toS3, f)) = ToSet(toS3) \cup {f}
      BY <1>0, Appended
    <3> QED
      BY <1>10, <3>1, ServerStep
  <2>3. \A x \in ToSet(toBridge) : x.type = "REQUEST" => x \in ToSet(toBridge')
    <3>1. CASE \E i \in 1..Len(toBridge) : Acknowledge(i)
      <4>1. PICK i \in 1..Len(toBridge) : toBridge' = RemoveAt(toBridge, i) /\ toBridge[i].type = "ACK"
        BY <3>1 DEF Acknowledge, TakeBridge
      <4> QED
        BY <1>0, <4>1, Remains
    <3>2. CASE SendItem \/ Resend \/ StallAbort \/ DownloadTask
      BY <3>2 DEF SendItem, Resend, StallAbort, DownloadTask, OpenSource, Enqueue, EnqueueWaiting,
         GiveUp, StopReading, TaskExit, TaskUnchanged, linkVars
    <3> QED
      BY <1>10, <3>1, <3>2 DEF BridgeLoop
  <2> QED
    BY <1>2, <2>1, <2>2, <2>3 DEF s3Vars, clientVars, Active
<1> QED
  BY <1>1, <1>3, <1>4, <1>5, <1>6, <1>7, <1>8, <1>9, <1>10 DEF Next, BridgeLoop, S3Loop, Environment

------------------------------------------------------------------------------
(* From the end of a transfer to the end of its decode *)

(* Nothing but the end of a transfer gives the loop a picture to decode.    *)
Decoding == completed \/ decode = "run"
Completes ==
  /\ Finishes /\ toS3[1] \in Items /\ toS3[1].type = "END" /\ done' = requested
  /\ UNCHANGED <<serverVars, decode, losses>>

(* While a picture waits for the worker or is read by it, no step changes   *)
(* the picture, its kind or the downloads.                                  *)
LEMMA DecodingStep ==
  ASSUME IInv, Schedule, Exchange, Transaction, TypeOK, [Next]_vars, Decoding'
  PROVE  \/ Completes
         \/ Decoding /\ UNCHANGED <<bytes, done, jobs>>
<1>0. /\ \A i \in 1..Len(toS3) : toS3[i] \in ToSet(toS3)
      /\ Decoding => mode = "finished" /\ Over /\ NoRequest /\ ~ Active
      /\ Decoding => \A f \in ToSet(toS3) : f.type # "ERROR"
  BY DEF IInv, LinkOK, ToSet, Decoding, Transaction, Exchange, FinishedIsQuiet, Active
<1>1. CASE (\E i \in 1..Len(toS3) : ReceiveBegin(i) \/ ReceiveChunk(i))
  <2>1. UNCHANGED <<decode, jobs>> /\ (completed' => completed)
    BY <1>1 DEF ReceiveBegin, ReceiveChunk, Fail, ClientUnchanged, loopVars, serverVars, taskVars,
       clientVars
  <2>2. Decoding
    BY <2>1 DEF Decoding
  <2>3. UNCHANGED <<bytes, done>>
    BY <1>0, <1>1, <2>2 DEF ReceiveBegin, ReceiveChunk, clientVars
  <2> QED
    BY <2>1, <2>2, <2>3
<1>2. CASE \E i \in 1..Len(toS3) : ReceiveEnd(i)
  <2>1. PICK i \in 1..Len(toS3) : ReceiveEnd(i)
    BY <1>2
  <2>2. UNCHANGED <<serverVars, decode, losses>>
    BY <2>1 DEF ReceiveEnd, ClientUnchanged, loopVars
  <2>3. CASE mode = "receiving" /\ Checks(toS3[i])
    <3>1. /\ mode' = "finished" /\ done' = requested /\ UNCHANGED <<gotId, bytes>>
      BY <2>1, <2>3 DEF ReceiveEnd
    <3>2. /\ i = 1 /\ toS3[1].type = "END" /\ toS3' = RemoveAt(toS3, 1) /\ toS3[1] \in Items
      BY <2>1, TakenFirst, TakeS3Typed DEF ReceiveEnd, IInv
    <3>3. Finishes
      BY <2>3, <3>1, <3>2 DEF Finishes, Checks
    <3> QED
      BY <2>2, <3>1, <3>2, <3>3 DEF Completes
  <2>4. CASE ~ (mode = "receiving" /\ Checks(toS3[i]))
    <3>1. Decoding
      BY <2>1, <2>2, <2>4 DEF ReceiveEnd, Fail, clientVars, Decoding
    <3>2. UNCHANGED clientVars
      BY <1>0, <2>1, <3>1 DEF ReceiveEnd
    <3> QED
      BY <2>2, <3>1, <3>2 DEF clientVars, serverVars, taskVars
  <2> QED
    BY <2>3, <2>4
<1>3. CASE (\E i \in 1..Len(toS3) : ReceiveError(i)) \/ ClientTimeout
  BY <1>0, <1>3 DEF ReceiveError, ClientTimeout, TakeS3, Fail, ClientUnchanged, loopVars, Decoding
<1>4. CASE SendRequest
  BY <1>4 DEF SendRequest, Transaction, Decoding
<1>5. CASE StartDecode \/ DecodeEnds \/ BridgeStatus
  BY <1>5 DEF StartDecode, DecodeEnds, BridgeStatus, Fail, LoopUnchanged, clientVars, serverVars,
     taskVars, Decoding
<1>6. CASE HandleDone \/ HandleFailure
  <2>1. CASE HandleDone
    BY <2>1 DEF HandleDone, Fail, Decoding, Transaction
  <2>2. CASE HandleFailure
    BY <2>2 DEF HandleFailure, LoopUnchanged, serverVars, taskVars, Decoding
  <2> QED
    BY <1>6, <2>1, <2>2
<1>7. CASE LinkDownPass \/ Outage \/ BridgeRestart
  <2>1. jobs' = jobs /\ decode' = decode /\ LinkDownReset
    BY <1>7 DEF LinkDownPass, Outage, BridgeRestart, FallSilent, LoopUnchanged, serverVars, taskVars
  <2> QED
    BY <2>1 DEF LinkDownReset, ResetClient, Decoding, clientVars
<1>8. CASE S3Restart
  BY <1>8 DEF S3Restart, Decoding
<1>9. CASE BridgeLoop \/ DownloadTask
  <2>1. UNCHANGED s3Vars
    BY <1>9, ServerStep
  <2>2. Decoding /\ UNCHANGED <<bytes, done>>
    BY <2>1 DEF s3Vars, clientVars, loopVars, Decoding
  <2> QED
    BY <1>0, <1>9, <2>2, QuietServer
<1>10. CASE Lose \/ UNCHANGED vars
  BY <1>10 DEF Lose, vars, s3Vars, clientVars, loopVars, serverVars, taskVars, Decoding
<1> QED
  BY <1>1, <1>2, <1>3, <1>4, <1>5, <1>6, <1>7, <1>8, <1>9, <1>10 DEF Next, S3Loop, Environment

(* The worker is started on the bytes of the client, and no step changes    *)
(* them while it runs.                                                      *)
LEMMA WorkerOwnsBufferKept ==
  ASSUME IInv, Schedule, Exchange, Transaction, TypeOK, WorkerOwnsBuffer, [Next]_vars
  PROVE  WorkerOwnsBuffer'
<1> SUFFICES ASSUME decode' = "run" PROVE bytes' = source'
  BY DEF WorkerOwnsBuffer
<1>1. CASE StartDecode
  BY <1>1 DEF StartDecode
<1>2. CASE ~ StartDecode
  <2>1. UNCHANGED <<decode, source>>
    <3>1. CASE S3Loop
      BY <1>2, <3>1 DEF S3Loop, ReceiveBegin, ReceiveChunk, ReceiveEnd, ReceiveError,
         ClientTimeout, SendRequest, HandleDone, HandleFailure, LinkDownPass, BridgeStatus,
         ClientUnchanged, LoopUnchanged, loopVars
    <3>2. CASE DecodeEnds \/ Lose \/ Outage \/ BridgeRestart \/ S3Restart
      BY <3>2 DEF DecodeEnds, Lose, Outage, BridgeRestart, FallSilent, S3Restart, s3Vars, loopVars
    <3>3. CASE BridgeLoop \/ DownloadTask \/ UNCHANGED vars
      BY <3>3, ServerStep DEF vars, s3Vars, loopVars
    <3> QED
      BY <3>1, <3>2, <3>3 DEF Next, Environment
  <2>2. mode = "finished"
    BY <2>1 DEF Transaction
  <2>3. bytes' = bytes
    BY <2>2, DecodingStep DEF Decoding, Completes, Finishes
  <2> QED
    BY <2>1, <2>3 DEF WorkerOwnsBuffer
<1> QED
  BY <1>1, <1>2

(* What is decoded is one whole picture.                                    *)
LEMMA WholePictureKept ==
  ASSUME IInv, Schedule, Exchange, Transaction, TypeOK, WholePicture, [Next]_vars
  PROVE  WholePicture'
<1> SUFFICES ASSUME Decoding' PROVE bytes' \in Pictures'
  BY DEF WholePicture, Decoding
<1>1. CASE Completes
  <2>1. bytes \in Pictures
    BY <1>1, ItemsTyped DEF Completes, Finishes
  <2> QED
    BY <1>1, <2>1, ItemsStay DEF Completes, Finishes, serverVars, taskVars
<1>2. CASE Decoding /\ UNCHANGED <<bytes, done, jobs>>
  BY <1>2, ItemsStay DEF WholePicture, Decoding
<1> QED
  BY <1>1, <1>2, DecodingStep

(* Without a loss it is the picture asked for.                              *)
LEMMA RightPictureKept ==
  ASSUME AssetInv, RightPicture, [Next]_vars
  PROVE  RightPicture'
<1> USE DEF AssetInv
<1> SUFFICES ASSUME losses' = 0, Decoding' PROVE jobs'[bytes'[1][1]].kind = done'
  BY DEF RightPicture, Decoding
<1>1. losses = 0
  <2>1. CASE Lose
    BY <2>1 DEF Lose
  <2>2. CASE S3Loop \/ DecodeEnds \/ Outage \/ S3Restart \/ BridgeRestart \/ UNCHANGED vars
    BY <2>2 DEF S3Loop, ReceiveBegin, ReceiveChunk, ReceiveEnd, ReceiveError, ClientTimeout,
       SendRequest, StartDecode, HandleDone, HandleFailure, LinkDownPass, BridgeStatus, DecodeEnds,
       Outage, BridgeRestart, FallSilent, S3Restart, ClientUnchanged, LoopUnchanged, linkVars, vars
  <2>3. CASE BridgeLoop \/ DownloadTask
    BY <2>3, ServerStep
  <2> QED
    BY <2>1, <2>2, <2>3 DEF Next, Environment
<1>2. CASE Decoding /\ UNCHANGED <<bytes, done, jobs>>
  BY <1>1, <1>2 DEF RightPicture, Decoding
<1>3. CASE Completes
  <2>1. /\ mode = "receiving" /\ 1 \in 1..Len(toS3) /\ toS3[1].type = "END"
        /\ toS3[1].id = gotId /\ toS3[1].crc = bytes /\ toS3[1] \in Items
        /\ UNCHANGED <<bytes, jobs>> /\ done' = requested /\ toS3[1] \in ToSet(toS3)
    BY <1>3 DEF Completes, Finishes, serverVars, taskVars, IInv, LinkOK, ToSet
  <2>2. /\ gotId = transferId /\ NoRequest
        /\ \A j \in 1..Len(toS3) : toS3[j].type # "ERROR"
    BY <2>1 DEF Exchange, EndIsLast
  <2>3. bytes = Picture(Job) /\ bytes \in Pictures
    BY <2>1, <2>2, ItemsTyped DEF EndOfLast
  <2>4. bytes[1][1] = Job
    <3>2. PICK k \in 1..Len(jobs) : jobs[k].size > 0 /\ bytes = Picture(k)
      BY <2>3 DEF Pictures
    <3>3. jobs[k].size \in Nat
      BY JobsTyped
    <3>4. 1 \in DOMAIN bytes
      BY <3>2, <3>3 DEF Picture
    <3> QED
      BY <2>3, <3>4 DEF Picture
  <2>5. LastKind = requested
    <3>1. Request(requested) \notin ToSet(toBridge)
      BY <2>2 DEF NoRequest, Request
    <3>2. ~ \E f \in ToSet(toS3) : f.type = "ERROR"
      BY <2>2 DEF ToSet, IInv, LinkOK
    <3> QED
      BY <1>1, <2>1, <3>1, <3>2 DEF AskedIsAnswered, Active
  <2>6. jobs # <<>>
    <3>1. \E k \in 1..Len(jobs) : TRUE
      BY <2>3 DEF Pictures
    <3> QED
      BY <3>1
  <2> QED
    BY <2>1, <2>4, <2>5, <2>6 DEF LastKind
<1> QED
  BY <1>2, <1>3, DecodingStep

------------------------------------------------------------------------------
(* Types and lengths *)

(* The variables of the S3 that are flags, places or kinds.                 *)
S3Typed ==
  /\ mode \in {"idle", "waiting", "receiving", "finished"}
  /\ decode \in {"off", "run", "ok", "bad"}
  /\ {heard, available, completed, failure} \subseteq BOOLEAN
  /\ {requested, done, activeKind} \subseteq Kinds \cup {NONE}

(* They stay so.                                                            *)
LEMMA S3TypedKept ==
  ASSUME IInv, S3Typed, [Next]_vars
  PROVE  S3Typed'
<1>1. CASE UNCHANGED s3Vars
  BY <1>1 DEF S3Typed, s3Vars, clientVars, loopVars
<1>2. CASE Fail /\ UNCHANGED <<heard, activeKind>> /\ decode' \in {decode, "off"}
  BY <1>2 DEF Fail, S3Typed
<1>3. CASE \E i \in 1..Len(toS3) : ReceiveBegin(i)
  <2>1. /\ UNCHANGED <<heard, loopVars>>
        /\ \/ UNCHANGED clientVars
           \/ mode' = "receiving" /\ UNCHANGED <<available, completed, requested, done, failure>>
           \/ Fail
    BY <1>3 DEF ReceiveBegin, ClientUnchanged
  <2> QED
    BY <1>1, <1>2, <2>1 DEF S3Typed, s3Vars, loopVars
<1>4. CASE \E i \in 1..Len(toS3) : ReceiveChunk(i)
  <2>1. /\ UNCHANGED <<heard, loopVars>>
        /\ \/ UNCHANGED <<mode, available, completed, requested, done, failure>>
           \/ Fail
    BY <1>4 DEF ReceiveChunk, ClientUnchanged
  <2> QED
    BY <1>2, <2>1 DEF S3Typed, loopVars
<1>5. CASE \E i \in 1..Len(toS3) : ReceiveEnd(i)
  <2>1. /\ UNCHANGED <<heard, loopVars>>
        /\ \/ UNCHANGED clientVars
           \/ /\ mode' = "finished" /\ completed' = TRUE /\ done' = requested
              /\ UNCHANGED <<available, requested, failure>>
           \/ Fail
    BY <1>5 DEF ReceiveEnd, ClientUnchanged
  <2> QED
    BY <1>1, <1>2, <2>1 DEF S3Typed, s3Vars, loopVars
<1>6. CASE (\E i \in 1..Len(toS3) : ReceiveError(i)) \/ ClientTimeout
  BY <1>2, <1>6 DEF ReceiveError, ClientTimeout, ClientUnchanged, loopVars
<1>7. CASE SendRequest
  <2>1. requests + 1 \in Kinds
    <3>1. MaxRequests \in Nat
      BY AssetBounds
    <3> QED
      BY <1>7, <3>1 DEF SendRequest, Kinds, IInv, LinkOK
  <2>2. /\ mode' = "waiting" /\ failure' = FALSE /\ UNCHANGED <<heard, available, completed, decode>>
        /\ requested' = requests + 1 /\ activeKind' = requests + 1 /\ done' = NONE
    BY <1>7 DEF SendRequest
  <2> QED
    BY <2>1, <2>2 DEF S3Typed
<1>8. CASE StartDecode \/ DecodeEnds \/ HandleDone \/ HandleFailure \/ BridgeStatus
  BY <1>8 DEF StartDecode, DecodeEnds, HandleDone, HandleFailure, BridgeStatus, LoopUnchanged, Fail,
     S3Typed, clientVars
<1>9. CASE LinkDownPass \/ Outage \/ BridgeRestart
  <2>1. LinkDownReset /\ UNCHANGED decode /\ heard' \in {heard, FALSE}
    BY <1>9 DEF LinkDownPass, Outage, BridgeRestart, FallSilent, LoopUnchanged
  <2> QED
    BY <2>1 DEF LinkDownReset, ResetClient, S3Typed, clientVars
<1>10. CASE S3Restart
  BY <1>10 DEF S3Restart, S3Typed
<1>11. CASE BridgeLoop \/ DownloadTask \/ Lose \/ UNCHANGED vars
  BY <1>1, <1>11, ServerStep DEF Lose, vars
<1> QED
  BY <1>3, <1>4, <1>5, <1>6, <1>7, <1>8, <1>9, <1>10, <1>11 DEF Next, S3Loop, Environment

(* The queue of the server, the download and the buffer of the client stay  *)
(* within their lengths.                                                    *)
ServerBounded == /\ abort \in BOOLEAN /\ Len(queue) <= ItemSlots /\ offset \in 0..MaxBytes

(* Every step keeps the server within its lengths. *)
LEMMA ServerBoundedKept ==
  ASSUME IInv, Schedule, ServerBounded, [Next]_vars
  PROVE  ServerBounded'
<1>0. /\ queue \in Seq(Items) /\ ItemSlots \in Nat /\ MaxBytes \in Nat /\ offset \in Nat
  BY AssetBounds DEF IInv, QueueOK, JobsOK
<1>1. CASE UNCHANGED <<abort, queue, offset>>
  BY <1>1 DEF ServerBounded
<1>2. CASE (\E i \in 1..Len(toBridge) : StartRequest(i)) \/ StallAbort \/ BridgeRestart
  <2>1. /\ abort' \in BOOLEAN /\ queue' = <<>> /\ offset' \in {offset, 0}
    BY <1>2 DEF StartRequest, Start, StallAbort, BridgeRestart, taskVars
  <2> QED
    BY <1>0, <2>1 DEF ServerBounded
<1>3. CASE SendItem
  <2>1. UNCHANGED <<abort, offset>> /\ queue # <<>> /\ queue' = Tail(queue)
    BY <1>3 DEF SendItem, taskVars
  <2>2. Len(queue') = Len(queue) - 1 /\ Len(queue) \in Nat
    BY <1>0, <2>1
  <2> QED
    BY <1>0, <2>1, <2>2 DEF ServerBounded
<1>4. CASE OpenSource \/ GiveUp \/ StopReading \/ TaskExit
  <2>1. UNCHANGED <<abort, queue>> /\ offset' \in {offset, 0}
    BY <1>4 DEF OpenSource, GiveUp, StopReading, TaskExit, TaskUnchanged, Refused, Goto
  <2> QED
    BY <1>0, <2>1 DEF ServerBounded
<1>5. CASE Enqueue \/ EnqueueWaiting
  <2>1. CASE HasItem /\ Put(NextItem) /\ UNCHANGED abort
    <3>1. /\ Len(queue) < ItemSlots /\ queue' = Append(queue, NextItem)
          /\ offset' \in {0, offset + 1} /\ (taskAt # "read" => offset' = 0)
      BY <2>1 DEF Put, Goto
    <3>2. offset' \in 0..MaxBytes
      BY <1>0, <2>1, <3>1 DEF HasItem
    <3>3. Len(queue') = Len(queue) + 1 /\ Len(queue) \in Nat
      BY <1>0, <3>1
    <3> QED
      BY <1>0, <2>1, <3>1, <3>2, <3>3 DEF ServerBounded
  <2>2. CASE UNCHANGED <<abort, queue>> /\ offset' \in {offset, 0}
    BY <1>0, <2>2 DEF ServerBounded
  <2> QED
    BY <1>5, <2>1, <2>2 DEF Enqueue, EnqueueWaiting, TaskUnchanged, Schedule, Refused, Goto
<1>6. CASE (\E i \in 1..Len(toBridge) : Acknowledge(i) \/ RefuseRequest(i)) \/ Resend
  BY <1>1, <1>6 DEF Acknowledge, RefuseRequest, Resend, serverVars, taskVars
<1>7. CASE S3Loop \/ DecodeEnds \/ Lose \/ Outage \/ S3Restart \/ UNCHANGED vars
  BY <1>1, <1>7, ClientStep DEF vars, serverVars, taskVars
<1> QED
  BY <1>2, <1>3, <1>4, <1>5, <1>6, <1>7 DEF Next, BridgeLoop, DownloadTask, Environment

(* The buffer of the client holds at most a largest picture, of a transfer  *)
(* that has been.                                                           *)
ClientBounded == Len(bytes) <= MaxBytes /\ gotId <= MaxRequests

(* Every step keeps the client within its buffer. *)
LEMMA ClientBoundedKept ==
  ASSUME AssetInv, [Next]_vars, ClientBounded
  PROVE  ClientBounded'
<1> USE DEF AssetInv
<1>0. /\ bytes \in Seq(Nat \X Nat) /\ gotId \in Nat /\ MaxBytes \in Nat /\ MaxRequests \in Nat
      /\ transferId \in Nat /\ requests \in Nat /\ Len(bytes) \in Nat
  BY AssetBounds DEF IInv, ClientOK, QueueOK, LinkOK
<1>1. CASE gotId' \in {gotId, 0} /\ (bytes' = bytes \/ bytes' = <<>>)
  <2>1. Len(bytes') <= MaxBytes
    BY <1>0, <1>1 DEF ClientBounded
  <2>2. gotId' <= MaxRequests
    BY <1>0, <1>1 DEF ClientBounded
  <2> QED
    BY <2>1, <2>2 DEF ClientBounded
<1>2. CASE \E i \in 1..Len(toS3) : ReceiveBegin(i)
  <2>1. PICK i \in 1..Len(toS3) : ReceiveBegin(i)
    BY <1>2
  <2>2. toS3[i].id <= transferId /\ toS3[i].id \in Nat
    BY <2>1, ItemsTyped DEF Exchange, ToClient, IInv, LinkOK, ToSet
  <2>3. toS3[i].id <= MaxRequests
    <3>1. LastKind \in Nat
      <4>1. jobs # <<>> => Job \in 1..Len(jobs)
        BY DEF IInv, JobsOK, Job
      <4> QED
        BY <4>1, JobsTyped DEF LastKind
    <3>2. transferId <= LastKind /\ LastKind <= requests /\ requests <= MaxRequests
      BY DEF Asked
    <3> HIDE DEF AssetInv
    <3> QED
      BY <1>0, <2>2, <3>1, <3>2
  <2>4. \/ UNCHANGED <<gotId, bytes>>
        \/ gotId' = toS3[i].id /\ bytes' = <<>>
        \/ gotId' = gotId /\ bytes' = <<>>
    BY <2>1 DEF ReceiveBegin, Fail, clientVars
  <2> QED
    BY <1>0, <2>3, <2>4 DEF ClientBounded
<1>3. CASE \E i \in 1..Len(toS3) : ReceiveChunk(i)
  <2>1. PICK i \in 1..Len(toS3) : ReceiveChunk(i)
    BY <1>3
  <2>2. \/ gotId' = gotId /\ (bytes' = bytes \/ bytes' = <<>>)
        \/ gotId' = gotId /\ bytes' = Append(bytes, toS3[i].data) /\ ~ (Len(bytes) >= MaxBytes)
    BY <2>1 DEF ReceiveChunk, Fail
  <2>3. Len(Append(bytes, toS3[i].data)) = Len(bytes) + 1
    BY <1>0
  <2> QED
    BY <1>0, <1>1, <2>2, <2>3 DEF ClientBounded
<1>4. CASE \E i \in 1..Len(toS3) : ReceiveEnd(i)
  BY <1>1, <1>4 DEF ReceiveEnd, Fail, clientVars
<1>5. CASE \/ (\E i \in 1..Len(toS3) : ReceiveError(i)) \/ ClientTimeout \/ SendRequest
           \/ StartDecode \/ DecodeEnds \/ HandleDone \/ HandleFailure \/ BridgeStatus
  BY <1>1, <1>5 DEF ReceiveError, ClientTimeout, SendRequest, StartDecode, DecodeEnds, HandleDone,
     HandleFailure, BridgeStatus, Fail, clientVars
<1>6. CASE LinkDownPass \/ Environment
  BY <1>1, <1>6 DEF LinkDownPass, Environment, Lose, Outage, BridgeRestart, FallSilent, S3Restart,
     LinkDownReset, ResetClient, clientVars, s3Vars
<1>7. CASE BridgeLoop \/ DownloadTask \/ UNCHANGED vars
  BY <1>1, <1>7, ServerStep DEF vars, s3Vars, clientVars
<1> QED
  BY <1>2, <1>3, <1>4, <1>5, <1>6, <1>7 DEF Next, S3Loop

------------------------------------------------------------------------------
(* The invariants of the runs *)

(* The parts above are the type invariant.                                  *)
LEMMA TypeParts ==
  /\ TypeOK => S3Typed /\ ServerBounded /\ ClientBounded
  /\ IInv /\ Asked /\ S3Typed /\ ServerBounded /\ ClientBounded => TypeOK
<1>1. ASSUME TypeOK
      PROVE  S3Typed /\ ServerBounded /\ ClientBounded
  <2>1. MaxRequests \in Nat
    BY AssetBounds
  <2> QED
    BY <1>1, <2>1 DEF TypeOK, S3Typed, ServerBounded, ClientBounded
<1>2. ASSUME IInv, Asked, S3Typed, ServerBounded, ClientBounded
      PROVE  TypeOK
  <2>1. /\ MaxRequests \in Nat /\ transferId \in Nat /\ gotId \in Nat /\ requests \in Nat
    BY <1>2, AssetBounds DEF IInv, QueueOK, ClientOK, LinkOK
  <2>2. LastKind \in Nat
    <3>1. jobs # <<>> => Job \in 1..Len(jobs)
      BY <1>2 DEF IInv, JobsOK, Job
    <3> QED
      BY <1>2, <3>1, JobsTyped DEF LastKind
  <2>3. transferId <= LastKind /\ LastKind <= requests /\ requests <= MaxRequests
    BY <1>2 DEF Asked
  <2>4. {transferId, gotId} \subseteq 0..MaxRequests
    BY <1>2, <2>1, <2>2, <2>3 DEF ClientBounded
  <2>5. /\ taskAt \in {"off", "open", "begin", "read", "end", "error", "exit"}
        /\ Len(queue) <= ItemSlots /\ offset \in 0..MaxBytes /\ abort \in BOOLEAN
        /\ Len(bytes) <= MaxBytes
    BY <1>2 DEF IInv, JobsOK, ServerBounded, ClientBounded
  <2> QED
    BY <1>2, <2>4, <2>5 DEF TypeOK, S3Typed
<1> QED
  BY <1>1, <1>2

(* The inductive invariant, with the three properties of the decode.        *)
AssetTruths == AssetInv /\ WorkerOwnsBuffer /\ WholePicture /\ RightPicture

(* It holds when both ends have just started.                               *)
LEMMA TruthsInit == Init => AssetTruths
<1> SUFFICES ASSUME Init PROVE AssetTruths
  OBVIOUS
<1>1. IInv
  BY InitKeeps
<1>2. /\ ToSet(toS3) = {} /\ ToSet(toBridge) = {} /\ ToSet(queue) = {} /\ NoItem.type = "NONE"
      /\ Len(toS3) = 0 /\ Len(toBridge) = 0 /\ Len(queue) = 0 /\ pending = NoItem /\ item = NoItem
  BY DEF Init, ToSet, NoItem
<1>3. Schedule
  BY <1>2 DEF Init, Schedule, Over, Unacked, Late
<1>4. Exchange
  BY <1>2 DEF Init, Exchange, ToClient, ToServer, Answered, Late, Unacked, Attached,
     AckAfterRequest, EndIsLast, FinishedIsQuiet
<1>5. Transaction /\ losses \in Nat
  BY DEF Init, Transaction, Active
<1>6. Asked /\ EndOfLast /\ AskedIsAnswered
  <2>1. MaxRequests \in Nat
    BY AssetBounds
  <2> QED
    BY <1>2, <2>1 DEF Init, Asked, LastKind, EndOfLast, Unacked, AskedIsAnswered, Active
<1>7. S3Typed /\ ServerBounded /\ ClientBounded
  <2>1. MaxRequests \in Nat /\ MaxBytes \in Nat /\ ItemSlots \in Nat
    BY AssetBounds
  <2>2. S3Typed
    BY DEF Init, S3Typed
  <2>3. ServerBounded
    <3>1. abort \in BOOLEAN /\ queue = <<>> /\ offset = 0
      BY DEF Init
    <3> QED
      BY <3>1, <1>2, <2>1 DEF ServerBounded
  <2>4. ClientBounded
    BY <2>1 DEF Init, ClientBounded
  <2> QED
    BY <2>2, <2>3, <2>4
<1>8. WorkerOwnsBuffer /\ WholePicture /\ RightPicture
  BY DEF Init, WorkerOwnsBuffer, WholePicture, RightPicture
<1> QED
  BY <1>1, <1>3, <1>4, <1>5, <1>6, <1>7, <1>8, TypeParts DEF AssetInv, AssetTruths

(* And every step keeps it.                                                 *)
LEMMA TruthsStep == AssetTruths /\ [Next]_vars => AssetTruths'
<1> SUFFICES ASSUME AssetTruths, [Next]_vars PROVE AssetTruths'
  OBVIOUS
<1> USE DEF AssetTruths, AssetInv
<1>1. IInv' /\ Schedule'
  BY StepKeeps, ScheduleKept
<1>2. Exchange'
  <2>1. ToClient' /\ Answered'
    BY ToClientKept, AnsweredKept DEF Exchange
  <2>2. Attached' /\ ToServer'
    BY AttachedKept, ToServerKept
  <2>3. AckAfterRequest' /\ EndIsLast' /\ FinishedIsQuiet'
    BY AckAfterRequestKept, EndIsLastKept, FinishedIsQuietKept
  <2> QED
    BY <2>1, <2>2, <2>3 DEF Exchange
<1>3. Transaction' /\ Asked' /\ EndOfLast' /\ AskedIsAnswered'
  BY TransactionKept, AskedKept, EndOfLastKept, AskedIsAnsweredKept
<1>4. losses' \in Nat
  BY ClientStep, ServerStep DEF Next, S3Loop, ReceiveBegin, ReceiveChunk, ReceiveEnd, ReceiveError,
     ClientTimeout, SendRequest, StartDecode, HandleDone, HandleFailure, LinkDownPass,
     BridgeStatus, DecodeEnds, Environment, Lose, Outage, BridgeRestart, FallSilent, S3Restart,
     ClientUnchanged, LoopUnchanged, linkVars, vars
<1>5. TypeOK'
  <2>1. S3Typed /\ ServerBounded /\ ClientBounded
    BY TypeParts
  <2>2. S3Typed' /\ ServerBounded' /\ ClientBounded'
    BY <2>1, S3TypedKept, ServerBoundedKept, ClientBoundedKept
  <2>3. IInv' /\ Asked' /\ S3Typed' /\ ServerBounded' /\ ClientBounded' => TypeOK'
    BY TypeParts, PTL
  <2> QED
    BY <1>1, <1>3, <2>2, <2>3
<1>6. WorkerOwnsBuffer' /\ WholePicture' /\ RightPicture'
  BY WorkerOwnsBufferKept, WholePictureKept, RightPictureKept
<1> QED
  BY <1>1, <1>2, <1>3, <1>4, <1>5, <1>6

(* For all sizes, lengths of the queues and bounds of the environment.      *)
LEMMA TruthsHold == Spec => []AssetTruths
BY TruthsInit, TruthsStep, PTL DEF Spec

(* The types and lengths of the run hold: in particular the buffer of the   *)
(* client never takes more than RADAR_MAX_BYTES, whatever is announced.     *)
THEOREM AssetTypeCorrect == Spec => []TypeOK
<1>1. AssetTruths => TypeOK
  BY DEF AssetTruths, AssetInv
<1> QED
  BY <1>1, TruthsHold, PTL

(* No late error, timeout, loss of the link, restart of the Bridge or new   *)
(* request changes the bytes while the worker on the other core reads them. *)
THEOREM WorkerKeepsBuffer == Spec => []WorkerOwnsBuffer
<1>1. AssetTruths => WorkerOwnsBuffer
  BY DEF AssetTruths
<1> QED
  BY <1>1, TruthsHold, PTL

(* The worker decodes one whole picture, every chunk of one download in     *)
(* order, although transfer ids start over with every life of the Bridge.   *)
THEOREM DecodesWholePicture == Spec => []WholePicture
<1>1. AssetTruths => WholePicture
  BY DEF AssetTruths
<1> QED
  BY <1>1, TruthsHold, PTL

(* As long as no frame is lost that picture is the one the display asked    *)
(* for, although RADAR_BEGIN does not say which picture it starts.  Behind  *)
(* a lost error that refuses a request nothing is claimed: the client still *)
(* waits, and takes the BEGIN of an earlier picture for the one it wants.   *)
THEOREM DecodesRightPicture == Spec => []RightPicture
<1>1. AssetTruths => RightPicture
  BY DEF AssetTruths
<1> QED
  BY <1>1, TruthsHold, PTL

(* The client and the loop of the S3 agree about the transaction under way. *)
THEOREM TransactionTogether == Spec => []TransactionInStep
<1>1. AssetTruths => TransactionInStep
  BY DEF AssetTruths, AssetInv, Transaction, TransactionInStep
<1> QED
  BY <1>1, TruthsHold, PTL

=============================================================================
