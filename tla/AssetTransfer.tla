----------------------------- MODULE AssetTransfer -----------------------------
(***************************************************************************)
(* The transfer of one picture at a time (radar, cover, photo, floorplan)  *)
(* from the Bridge to the S3: RadarProxyServer with its download task, the *)
(* RadarProxyClient, the decode worker on the other core of the S3, and    *)
(* the loop of the S3 around them (the "outer" transaction, activeKind).   *)
(*                                                                         *)
(* A picture is a sequence of chunks; a chunk is <<job, place>>, where job *)
(* numbers the downloads, so chunks of two downloads never look alike and  *)
(* the CRC32 is the sequence it is computed from.  Frames travel in one    *)
(* queue per direction.  A full queue drops bulk frames; control frames    *)
(* are lost by Lose only.  A timeout may fire whenever its clock runs: the *)
(* clocks (12 s at either end, the cooldowns) are not compared.            *)
(*                                                                         *)
(* Every request asks for a kind of its own (radar, cover, photo, house, a *)
(* second cover ...): nothing but RightPicture tells kinds apart, and it   *)
(* is strongest when no two requests are of the same kind.                 *)
(***************************************************************************)
EXTENDS Integers, Sequences, SequencesExt

CONSTANTS
  Sizes,        \* sizes of the pictures a source may serve, in chunks
  Announced,    \* those of them it announces as Content-Length
  MaxBytes,     \* RADAR_MAX_BYTES, in chunks
  ItemSlots,    \* length of the item queue of the server, 10 in the code
  FrameSlots,   \* FRAME_QUEUE_SIZE as bulk frames meet it
  MaxRequests, MaxLosses, MaxFaults   \* bounds of the environment

NONE  == 0
Kinds == 1..MaxRequests

ASSUME AssetBounds ==
  /\ Sizes \subseteq Nat /\ Announced \subseteq Sizes /\ {MaxBytes, ItemSlots, FrameSlots} \subseteq Nat \ {0}
  /\ {MaxRequests, MaxLosses, MaxFaults} \subseteq Nat

VARIABLES
  toS3, toBridge,        \* frames in flight, oldest first
  taskAt, item, offset,  \* download_task_: place, item to enqueue, chunks read
  queue, pending,        \* queue_ and pending_ of the server
  abort, transferId,     \* abort_, transfer_id_
  heard, available,      \* the S3 hears the Bridge; available_
  mode, gotId, total,    \* waiting_/receiving_/finished_; transfer_id_, expected_total_
  bytes, completed,      \* bytes_, completed_
  requested, done,       \* requested_kind_, completed_kind_
  failure, activeKind,   \* failure_pending_, dual_mcu_asset_active_kind
  decode, source,        \* the decode worker, and what it was started on
  jobs,                  \* history: kind and size of every download
  requests, losses, faults

linkVars   == <<toS3, toBridge, losses>>
taskVars   == <<taskAt, item, offset, jobs>>
serverVars == <<taskVars, queue, pending, abort, transferId>>
clientVars == <<available, mode, gotId, total, bytes, completed, requested,
                done, failure>>
loopVars   == <<activeKind, decode, source>>
s3Vars     == <<heard, clientVars, loopVars>>
vars == <<linkVars, serverVars, s3Vars, requests, faults>>

------------------------------------------------------------------------------
(* Frames, which are also the items of the server's queue.                  *)
Begin(id, n)    == [type |-> "BEGIN", id |-> id, total |-> n]
Chunk(id, o, d) == [type |-> "CHUNK", id |-> id, off |-> o, data |-> d]
End(id, s)      == [type |-> "END", id |-> id, total |-> Len(s), crc |-> s]
Error(id)       == [type |-> "ERROR", id |-> id]
Request(k)      == [type |-> "REQUEST", kind |-> k]
Ack(id, o)      == [type |-> "ACK", id |-> id, off |-> o]
NoItem          == [type |-> "NONE", id |-> 0]

IsControl(f) == f.type \in {"REQUEST", "ERROR"}
Poppable(q) ==
  {i \in 1..Len(q) : \/ i = 1
                     \/ IsControl(q[i]) /\ \A j \in 1..(i - 1) : ~ IsControl(q[j])}
Offer(q, f) == IF IsControl(f) \/ Len(q) < FrameSlots THEN Append(q, f) ELSE q

TakeS3(i, type) == /\ i \in Poppable(toS3) /\ toS3[i].type = type
                   /\ toS3' = RemoveAt(toS3, i)
TakeBridge(i, type) == /\ i \in Poppable(toBridge) /\ toBridge[i].type = type
                       /\ toBridge' = RemoveAt(toBridge, i)
(* While the S3 hears nothing, what the Bridge sends is lost.               *)
SendS3(f) == toS3' = IF heard THEN Offer(toS3, f) ELSE toS3

------------------------------------------------------------------------------
Init ==
  /\ toS3 = <<>> /\ toBridge = <<>> /\ losses = 0
  /\ taskAt = "off" /\ item = NoItem /\ offset = 0
  /\ queue = <<>> /\ pending = NoItem /\ abort = FALSE /\ transferId = 0
  /\ heard = FALSE /\ available = FALSE /\ mode = "idle" /\ gotId = 0 /\ total = 0
  /\ bytes = <<>> /\ completed = FALSE /\ requested = NONE /\ done = NONE
  /\ failure = FALSE /\ activeKind = NONE
  /\ decode = "off" /\ source = <<>>
  /\ jobs = <<>> /\ requests = 0 /\ faults = 0

------------------------------------------------------------------------------
(* Bridge: RadarProxyServer.  active_ is taskAt # "off".                    *)
BusyActiveOnly == taskAt # "off"     \* mutant: the queue is not looked at
Busy == taskAt # "off" \/ pending # NoItem \/ queue # <<>>

Start(k) ==
  /\ ~ Busy
  /\ queue' = <<>> /\ abort' = FALSE /\ transferId' = transferId + 1
  /\ taskAt' = "open" /\ item' = NoItem /\ offset' = 0
  /\ jobs' = Append(jobs, [kind |-> k, size |-> 0])
  /\ UNCHANGED pending

StartRequest(i) ==
  /\ TakeBridge(i, "REQUEST") /\ Start(toBridge[i].kind)
  /\ UNCHANGED <<toS3, losses, s3Vars, requests, faults>>

(* A busy server, an invalid URL or no memory for a task: error 11 or 12.   *)
RefuseSilently(i) ==     \* mutant
  /\ TakeBridge(i, "REQUEST")
  /\ UNCHANGED <<toS3, losses, serverVars, s3Vars, requests, faults>>
RefuseRequest(i) ==
  /\ TakeBridge(i, "REQUEST") /\ SendS3(Error(0))
  /\ UNCHANGED <<losses, serverVars, s3Vars, requests, faults>>

Expected(it) == CASE it.type = "CHUNK" -> it.off + 1
                  [] it.type = "END" -> it.total
                  [] OTHER -> 0

Acknowledge(i) ==
  /\ TakeBridge(i, "ACK")
  /\ pending' = IF /\ pending # NoItem /\ toBridge[i].id = pending.id
                   /\ toBridge[i].off = Expected(pending)
                THEN NoItem ELSE pending
  /\ UNCHANGED <<toS3, losses, taskVars, queue, abort, transferId, s3Vars,
                 requests, faults>>

(* poll_send in the shared bulk slot.  An error is sent once and does not   *)
(* wait for an acknowledgement.  After the stall timeout (abort) every poll *)
(* only drains, until the next start.                                       *)
SendItem ==
  /\ ~ abort /\ pending = NoItem /\ queue # <<>>
  /\ queue' = Tail(queue) /\ SendS3(Head(queue))
  /\ pending' = IF Head(queue).type = "ERROR" THEN NoItem ELSE Head(queue)
  /\ UNCHANGED <<toBridge, losses, taskVars, abort, transferId, s3Vars,
                 requests, faults>>

Resend ==
  /\ ~ abort /\ pending # NoItem /\ SendS3(pending)
  /\ UNCHANGED <<toBridge, losses, serverVars, s3Vars, requests, faults>>

StallAbortKeepsPending ==   \* mutant
  /\ Busy /\ abort' = TRUE /\ queue' = <<>>
  /\ UNCHANGED <<linkVars, taskVars, pending, transferId, s3Vars, requests, faults>>
StallAbort ==
  /\ Busy /\ abort' = TRUE /\ pending' = NoItem /\ queue' = <<>>
  /\ UNCHANGED <<linkVars, taskVars, transferId, s3Vars, requests, faults>>

------------------------------------------------------------------------------
(* Bridge: download_task_ on its own core.  enqueue_ looks at abort_ when   *)
(* it is entered and after each wait of 100 ms for a place in the queue; a  *)
(* place that falls free during the wait is taken without another look.     *)
TaskUnchanged == UNCHANGED <<linkVars, pending, abort, transferId, s3Vars,
                             requests, faults>>
Job == Len(jobs)

(* Chunks read so far, which only the read loop and END look at.            *)
Goto(place, chunks) ==
  taskAt' = place /\ offset' = IF place \in {"read", "end"} THEN chunks ELSE 0

OpenSource ==
  /\ taskAt = "open"
  /\ \/ Goto("error", 0) /\ UNCHANGED jobs   \* errors 1 to 3
     \/ \E n \in Sizes :
          /\ jobs' = [jobs EXCEPT ![Job].size = n]
          /\ Goto(IF n \in Announced /\ n > MaxBytes THEN "error" ELSE "begin", 0)
  /\ UNCHANGED <<item, queue>> /\ TaskUnchanged

AnnouncedSize == IF jobs[Job].size \in Announced THEN jobs[Job].size ELSE 0
NextItem ==
  CASE taskAt = "begin" -> Begin(transferId, AnnouncedSize)
    [] taskAt = "read"  -> Chunk(transferId, offset, <<Job, offset + 1>>)
    [] taskAt = "end"   -> End(transferId, [n \in 1..offset |-> <<Job, n>>])
    [] taskAt = "error" -> Error(transferId)
HasItem == \/ taskAt \in {"begin", "end", "error"}
           \/ taskAt = "read" /\ offset < jobs[Job].size /\ offset < MaxBytes

PutUnbounded(it) ==         \* mutant
  /\ queue' = Append(queue, it) /\ item' = NoItem
  /\ Goto(IF taskAt \in {"begin", "read"} THEN "read" ELSE "exit",
          IF taskAt = "read" THEN offset + 1 ELSE 0)
Put(it) ==
  /\ Len(queue) < ItemSlots /\ queue' = Append(queue, it) /\ item' = NoItem
  /\ CASE taskAt = "begin" -> Goto("read", 0)
       [] taskAt = "read"  -> Goto("read", offset + 1)
       [] OTHER            -> Goto("exit", 0)
(* A chunk that enqueue_ refuses is reported as error 5.                    *)
Refused == Goto(IF taskAt = "read" THEN "error" ELSE "exit", 0)

Enqueue ==
  /\ item = NoItem /\ HasItem
  /\ IF abort THEN Refused /\ UNCHANGED <<item, queue>>
     ELSE \/ Put(NextItem)
          \/ /\ Len(queue) = ItemSlots /\ item' = NextItem
             /\ UNCHANGED <<taskAt, offset, queue>>
  /\ UNCHANGED jobs /\ TaskUnchanged

EnqueueWaiting == item # NoItem /\ Put(item) /\ UNCHANGED jobs /\ TaskUnchanged

GiveUp ==
  /\ item # NoItem /\ abort
  /\ item' = NoItem /\ Refused
  /\ UNCHANGED <<jobs, queue>> /\ TaskUnchanged

(* The read loop ends: everything read, too long, or the source failed.     *)
StopReadingTruncated ==     \* mutant
  /\ taskAt = "read" /\ item = NoItem /\ offset \in {jobs[Job].size, MaxBytes}
  /\ Goto(IF offset = 0 THEN "error" ELSE "end", offset)
  /\ UNCHANGED <<item, jobs, queue>> /\ TaskUnchanged
StopReading ==
  /\ taskAt = "read" /\ item = NoItem
  /\ \/ Goto("error", 0)
     \/ /\ offset = jobs[Job].size
        /\ Goto(IF offset = 0 THEN "error" ELSE "end", offset)
  /\ UNCHANGED <<item, jobs, queue>> /\ TaskUnchanged

TaskExit ==
  /\ taskAt = "exit" /\ Goto("off", 0)
  /\ UNCHANGED <<item, jobs, queue>> /\ TaskUnchanged

------------------------------------------------------------------------------
(* S3: RadarProxyClient *)
Active == mode \in {"waiting", "receiving"}

(* send_ack: only while receiving or after the end of a transfer.           *)
SendAck(m, id, b) ==
  toBridge' = IF m \in {"receiving", "finished"}
              THEN Offer(toBridge, Ack(id, Len(b))) ELSE toBridge

Fail ==
  /\ mode' = "idle" /\ completed' = FALSE /\ failure' = TRUE
  /\ bytes' = <<>> /\ requested' = NONE
  /\ UNCHANGED <<available, gotId, total, done>>

ResetClient ==
  /\ mode' = "idle" /\ completed' = FALSE /\ bytes' = <<>>
  /\ requested' = NONE /\ done' = NONE
  /\ UNCHANGED <<gotId, total, failure>>

ClientUnchanged == UNCHANGED <<losses, serverVars, heard, loopVars, requests, faults>>

ReceiveBegin(i) ==
  LET f == toS3[i] IN
  /\ TakeS3(i, "BEGIN")
  /\ CASE mode = "receiving" /\ f.id = gotId ->
            SendAck(mode, gotId, bytes) /\ UNCHANGED clientVars
       [] mode = "waiting" ->
            \/ /\ mode' = "receiving" /\ gotId' = f.id /\ total' = f.total
               /\ bytes' = <<>> /\ SendAck("receiving", f.id, <<>>)
               /\ UNCHANGED <<available, completed, requested, done, failure>>
            \/ Fail /\ UNCHANGED toBridge          \* no memory: error 14
       [] OTHER -> UNCHANGED <<toBridge, clientVars>>
  /\ ClientUnchanged

(* append, then send_ack whatever append said.                              *)
Capacity == IF total > 0 THEN total ELSE MaxBytes
ReceiveChunk(i) ==
  LET f == toS3[i]
      misplaced == f.id # gotId \/ Len(bytes) >= MaxBytes
      fits == f.off = Len(bytes) IN
  /\ TakeS3(i, "CHUNK")
  /\ IF mode = "receiving" /\ (misplaced \/ (fits /\ Len(bytes) >= Capacity))
     THEN Fail /\ UNCHANGED toBridge
     ELSE /\ bytes' = IF mode = "receiving" /\ fits THEN Append(bytes, f.data) ELSE bytes
          /\ SendAck(mode, gotId, bytes')
          /\ UNCHANGED <<available, mode, gotId, total, completed, requested,
                         done, failure>>
  /\ ClientUnchanged

Checks(f) == /\ f.id = gotId /\ f.total = Len(bytes) /\ f.crc = bytes
             /\ total > 0 => f.total = total
ReceiveEnd(i) ==
  LET f == toS3[i] IN
  /\ TakeS3(i, "END")
  /\ CASE mode = "receiving" /\ Checks(f) ->
            /\ mode' = "finished" /\ completed' = TRUE /\ done' = requested
            /\ SendAck("finished", gotId, bytes)
            /\ UNCHANGED <<available, gotId, total, bytes, requested, failure>>
       [] mode = "receiving" /\ ~ Checks(f) -> Fail /\ UNCHANGED toBridge
       [] mode = "finished" /\ f.id = gotId /\ f.total = Len(bytes) ->
            SendAck(mode, gotId, bytes) /\ UNCHANGED clientVars
       [] OTHER -> UNCHANGED <<toBridge, clientVars>>
  /\ ClientUnchanged

(* remote_error: whatever the id and whatever the client is doing.          *)
ReceiveError(i) ==
  /\ TakeS3(i, "ERROR") /\ Fail
  /\ UNCHANGED toBridge /\ ClientUnchanged

TimeoutReceiving ==         \* mutant
  /\ mode = "receiving" /\ Fail
  /\ UNCHANGED <<toS3, toBridge>> /\ ClientUnchanged
ClientTimeout ==
  /\ Active /\ Fail
  /\ UNCHANGED <<toS3, toBridge>> /\ ClientUnchanged

------------------------------------------------------------------------------
(* S3: the loop of dual-mcu-s3-core and the decode worker.                  *)
LoopUnchanged == UNCHANGED <<linkVars, serverVars, heard, requests, faults>>

(* Whichever picture is pending, once its cooldown is over.  A pass of the  *)
(* loop comes here after it has handled the worker's report and a failure.  *)
SendRequest ==
  LET k == requests + 1 IN
  /\ available /\ heard /\ ~ Active /\ activeKind = NONE
  /\ decode \notin {"ok", "bad"} /\ ~ failure
  /\ requests < MaxRequests /\ requests' = k
  /\ toBridge' = Offer(toBridge, Request(k))
  /\ mode' = "waiting" /\ requested' = k
  /\ failure' = FALSE /\ done' = NONE
  /\ activeKind' = k
  /\ UNCHANGED <<toS3, losses, serverVars, heard, available, gotId, total, bytes,
                 completed, decode, source, faults>>

(* take_completed, when the user leaves the display alone for 100 ms.  The  *)
(* worker reads the bytes of the client in place.                           *)
StartDecode ==
  /\ decode # "run" /\ completed
  /\ \/ /\ completed' = FALSE /\ decode' = "run" /\ source' = bytes
        /\ UNCHANGED <<available, mode, gotId, total, bytes, requested, done,
                       failure>>
     \/ Fail /\ decode' = "off" /\ UNCHANGED source     \* no memory for a task
  /\ UNCHANGED <<activeKind>> /\ LoopUnchanged

(* asset_decode_done: the worker reports, the loop has not looked yet.      *)
DecodeEnds ==
  /\ decode = "run" /\ decode' \in {"ok", "bad"}
  /\ UNCHANGED <<clientVars, activeKind, source>> /\ LoopUnchanged

(* release_completed_bytes follows either way.                              *)
HandleDone ==
  /\ decode \in {"ok", "bad"} /\ decode' = "off" /\ source' = <<>>
  /\ IF decode = "ok"
     THEN /\ activeKind' = NONE /\ bytes' = IF Active THEN bytes ELSE <<>>
          /\ UNCHANGED <<available, mode, gotId, total, completed, requested,
                         done, failure>>
     ELSE Fail /\ UNCHANGED activeKind
  /\ LoopUnchanged

HandleFailure ==
  /\ failure /\ failure' = FALSE /\ activeKind' = NONE
  /\ UNCHANGED <<available, mode, gotId, total, bytes, completed, requested, done,
                 decode, source>> /\ LoopUnchanged

(* What every pass of the loop does while the Bridge is silent: it leaves   *)
(* the buffer alone as long as the worker reads it.                         *)
LinkDownResetAlways ==      \* mutant
  ResetClient /\ available' = FALSE /\ activeKind' = NONE
LinkDownResetInner ==       \* mutant
  IF decode = "run" THEN UNCHANGED <<clientVars, activeKind>>
  ELSE ResetClient /\ available' = FALSE /\ UNCHANGED activeKind
LinkDownReset ==
  IF decode = "run" THEN UNCHANGED <<clientVars, activeKind>>
  ELSE ResetClient /\ available' = FALSE /\ activeKind' = NONE

LinkDownPass ==
  /\ ~ heard /\ available /\ decode # "run"
  /\ LinkDownReset
  /\ UNCHANGED <<decode, source>> /\ LoopUnchanged

(* BRIDGE_STATUS: this Bridge always offers pictures.  The first status     *)
(* after an outage warms the radar cache, if there is no radar picture.     *)
BridgeStatus ==
  /\ ~ heard \/ ~ available
  /\ heard' = TRUE /\ available' = TRUE
  /\ UNCHANGED <<linkVars, serverVars, mode, gotId, total, bytes, completed,
                 requested, done, failure, activeKind, decode, source,
                 requests, faults>>

------------------------------------------------------------------------------
(* Environment *)

Lose ==
  /\ losses < MaxLosses /\ losses' = losses + 1
  /\ \/ \E i \in 1..Len(toS3) : toS3' = RemoveAt(toS3, i) /\ UNCHANGED toBridge
     \/ \E i \in 1..Len(toBridge) : toBridge' = RemoveAt(toBridge, i) /\ UNCHANGED toS3
  /\ UNCHANGED <<serverVars, s3Vars, requests, faults>>

(* No frame for 1500 ms: nothing is in flight to the S3 any more.           *)
FallSilent ==
  /\ heard /\ faults < MaxFaults /\ faults' = faults + 1
  /\ heard' = FALSE /\ toS3' = <<>> /\ LinkDownReset
  /\ UNCHANGED <<losses, decode, source, requests>>

Outage == FallSilent /\ UNCHANGED <<toBridge, serverVars>>

(* The Bridge needs more than 1500 ms to boot; transfer ids start over.     *)
BridgeRestart ==
  /\ FallSilent /\ toBridge' = <<>>
  /\ taskAt' = "off" /\ item' = NoItem /\ queue' = <<>> /\ pending' = NoItem
  /\ abort' = FALSE /\ transferId' = 0 /\ offset' = 0
  /\ UNCHANGED jobs

S3Restart ==
  /\ faults < MaxFaults /\ faults' = faults + 1
  /\ toS3' = <<>> /\ heard' = FALSE /\ available' = FALSE
  /\ mode' = "idle" /\ gotId' = 0 /\ total' = 0 /\ bytes' = <<>>
  /\ completed' = FALSE /\ requested' = NONE /\ done' = NONE
  /\ failure' = FALSE /\ activeKind' = NONE
  /\ decode' = "off" /\ source' = <<>>
  /\ UNCHANGED <<toBridge, losses, serverVars, requests>>

------------------------------------------------------------------------------
BridgeLoop ==
  \/ \E i \in 1..Len(toBridge) : StartRequest(i) \/ RefuseRequest(i) \/ Acknowledge(i)
  \/ SendItem \/ Resend \/ StallAbort

DownloadTask ==
  OpenSource \/ Enqueue \/ EnqueueWaiting \/ GiveUp \/ StopReading \/ TaskExit

S3Loop ==
  \/ \E i \in 1..Len(toS3) :
       ReceiveBegin(i) \/ ReceiveChunk(i) \/ ReceiveEnd(i) \/ ReceiveError(i)
  \/ ClientTimeout \/ SendRequest
  \/ StartDecode \/ HandleDone \/ HandleFailure \/ LinkDownPass
  \/ BridgeStatus

Environment == Lose \/ Outage \/ BridgeRestart \/ S3Restart

Next == BridgeLoop \/ DownloadTask \/ S3Loop \/ DecodeEnds \/ Environment

Spec == Init /\ [][Next]_vars

(* The task waits for its source.  The read loop repeats a read that yields *)
(* nothing without a look at abort_: a source may keep it there for ever.   *)
AwaitsSource == taskAt = "read" /\ item = NoItem

(* Both loops run for ever and notice a clock that has run out; the worker  *)
(* ends; the download task goes on except while it waits for its source,    *)
(* opening which has a timeout; the user leaves the display alone now and   *)
(* then.  Nothing is assumed of what a source sends, of frames being        *)
(* delivered, of outages and restarts.                                      *)
S3Progress == \/ ClientTimeout \/ StartDecode \/ DecodeEnds \/ HandleDone
              \/ HandleFailure \/ LinkDownPass
TaskProgress == ~ AwaitsSource /\ DownloadTask
Fairness == WF_vars(S3Progress) /\ WF_vars(TaskProgress) /\ WF_vars(StallAbort)

FairSpec == Spec /\ Fairness

------------------------------------------------------------------------------
(* Properties *)

Seqs(S, n) == UNION {[1..m -> S] : m \in 0..n}

(* Every variable stays in its type; the queues stay within their lengths.  *)
TypeOK ==
  /\ taskAt \in {"off", "open", "begin", "read", "end", "error", "exit"}
  /\ mode \in {"idle", "waiting", "receiving", "finished"}
  /\ decode \in {"off", "run", "ok", "bad"}
  /\ {abort, heard, available, completed, failure} \subseteq BOOLEAN
  /\ {requested, done, activeKind} \subseteq Kinds \cup {NONE}
  /\ Len(queue) <= ItemSlots /\ offset \in 0..MaxBytes /\ Len(bytes) <= MaxBytes
  /\ {transferId, gotId} \subseteq 0..MaxRequests

(* The worker on the other core reads the compressed bytes in place: as     *)
(* long as it runs, nothing the loop does (a late error, a timeout, the     *)
(* loss of the link, a new request) may clear or change that buffer.        *)
WorkerOwnsBuffer == decode = "run" => bytes = source

Picture(j) == [n \in 1..jobs[j].size |-> <<j, n>>]
Pictures == {Picture(j) : j \in {k \in 1..Len(jobs) : jobs[k].size > 0}}

(* What is handed to the worker is one whole picture: every chunk of one    *)
(* download, in order, whatever was lost, repeated, aborted or restarted    *)
(* and although the Bridge uses a transfer id again after a restart.        *)
WholePicture == completed \/ decode = "run" => bytes \in Pictures

(* RADAR_BEGIN does not say which picture it starts.  As long as no frame   *)
(* is lost the picture decoded as a cover is the cover, and so on, even     *)
(* when an outage leaves the Bridge busy with the previous request.         *)
RightPicture ==
  losses = 0 /\ (completed \/ decode = "run") => jobs[bytes[1][1]].kind = done

(* The ten-slot queue never holds an item of an earlier transfer, although  *)
(* a task blocked on a full queue may still put an item after the abort     *)
(* that drained it.                                                         *)
QueueOfOneTransfer ==
  \A it \in {pending, item} \cup ToSet(queue) : it = NoItem \/ it.id = transferId

(* The two halves of a transaction on the S3 stay together: a transfer or a *)
(* decode in progress is that of dual_mcu_asset_active_kind, and an active  *)
(* kind is one something still works on.                                    *)
TransactionInStep ==
  /\ Active => activeKind = requested /\ decode = "off"
  /\ completed \/ decode = "run" => activeKind = done
  /\ activeKind # NONE => Active \/ completed \/ decode # "off" \/ failure

(* Comment on the recovery of the outer transaction: no asset remains       *)
(* indefinitely requested.                                                  *)
NoAssetStuck == activeKind # NONE ~> activeKind = NONE

(* Only the source of a download can keep radar_server busy for ever, by    *)
(* holding a read open that yields nothing.  Whatever else goes wrong, the  *)
(* stall and the task leave no item behind, and the next picture and the    *)
(* library get the bulk slot, if perhaps long after a page has stalled.     *)
BridgeFreed == Busy ~> (~ Busy \/ []AwaitsSource)
=============================================================================
