--------------------------- MODULE LibraryTransfer ---------------------------
(***************************************************************************)
(* The stop-and-wait transfer of media-library pages from the ESP32 Bridge *)
(* (LibraryProxyServer) to the ESP32-S3 (LibraryProxyClient), with the     *)
(* handlers of both firmware loops around it: the request scheduler of the *)
(* S3, the cache refresh of the Bridge, HELLO, LIBRARY_CHANGED, the loss   *)
(* of the link and the restart of either processor.                        *)
(*                                                                         *)
(* A page is a sequence of chunks and offsets count chunks.  Frames travel *)
(* in one queue per direction: a receiver takes the oldest frame or, ahead *)
(* of bulk frames, the first control frame (Link::pop_priority).  A frame  *)
(* may be lost (a bad CRC16) and one that meets a full queue is dropped.   *)
(* A timeout may fire whenever its timer runs; with Timely = TRUE it fires *)
(* only when the peer can no longer answer, or when a picture has held the *)
(* bulk slot of the Bridge for as long.                                    *)
(***************************************************************************)
EXTENDS Integers, Sequences, SequencesExt

CONSTANTS
  Kinds,        \* the LibraryKind values in use, a subset of 2..5
  Data,         \* contents of one chunk
  BlobsOf,      \* [Kinds -> sets of encoded pages, each a Seq(Data)]
  PagePos,      \* [page -> its place in the paged catalogue, from 0]
  Crc(_),       \* library_crc32_update over a sequence of chunks
  QueueSize,    \* FRAME_QUEUE_SIZE
  MaxId,        \* largest transfer id, 65535 in the code
  Timely,       \* TRUE: timeouts are long against the latency of the link
  MaxTransfers, \* bound on the transfers of one boot; none if above MaxId
  MaxPublishes, MaxLosses, MaxFaults, MaxSelections, \* bounds
  MaxSlow       \* bound on the pictures that hold the slot for 2 s

PLAYLIST_PAGE   == 4
PLAYLIST_TRACKS == 5
Retained == {2, 3, PLAYLIST_PAGE} \cap Kinds   \* desired mask 0x0E
Blobs    == UNION {BlobsOf[k] : k \in Kinds}

ASSUME KindsAssumption == Kinds \subseteq 2..5
ASSUME BlobsAssumption ==
  /\ BlobsOf \in [Kinds -> SUBSET Seq(Data)]
  /\ \A b \in Blobs : b # <<>>
  /\ \A k, l \in Kinds : k # l => BlobsOf[k] \cap BlobsOf[l] = {}
  /\ PagePos \in [Blobs -> Nat]
ASSUME BoundsAssumption ==
  /\ QueueSize \in Nat \ {0} /\ MaxId \in Nat \ {0} /\ MaxTransfers \in Nat
  /\ {MaxPublishes, MaxLosses, MaxFaults, MaxSelections, MaxSlow} \subseteq Nat
  /\ Timely \in BOOLEAN

VARIABLES
  toS3, toBridge,   \* frames in flight, oldest first
  losses,           \* frames lost so far
  up,               \* the Bridge is running
  cache,            \* cache_: version of the page held per kind, 0 = not ready
  lookup,           \* lookup_entries_: pages indexed per kind
  phase, awaiting, transferId, offset,   \* LibraryProxyServer
  snap,             \* active_blob_ / active_context_: version being sent
  picture,          \* radar_server.busy(): a picture holds the bulk slot
  overdue,          \* one held it until last_progress_ms_ was 2 s ago
  slow,             \* pictures so far that did
  avail, mode, wanted, got, bytes, completed, cooldown,  \* LibraryProxyClient
  due,              \* 2 s since dual_mcu_library_last_request_ms
  desired, fetched, \* dual_mcu_library_desired_mask / _bridge_mask
  gen,              \* playlist_track_generation
  ours,             \* history: publications made for a selection of this life of the S3
  shelf,            \* pages the media picker of the S3 shows, per kind
  pubs,             \* history: every page the Bridge has cached, in order
  installed,        \* history: newest version installed per kind
  faults            \* restarts and outages so far

linkVars  == <<toS3, toBridge, losses>>
cacheVars == <<cache, lookup, pubs>>
sendVars  == <<phase, awaiting, transferId, offset, snap>>
slotVars  == <<picture, overdue, slow>>
recvVars  == <<mode, wanted, got, bytes, completed, cooldown>>
pickVars  == <<due, desired, fetched, gen, ours, shelf, installed>>
vars == <<linkVars, up, slotVars, cacheVars, sendVars, avail, recvVars, pickVars,
          faults>>

------------------------------------------------------------------------------
(* Frames.  Only the transfer frames are bulk traffic.  ver, the version of *)
(* the page a frame was made from, is a history field nobody reads.         *)
Begin(id, k, n, c, v) ==
  [type |-> "BEGIN", id |-> id, kind |-> k, total |-> n, ctx |-> c, ver |-> v]
Chunk(id, o, d, v)   == [type |-> "CHUNK", id |-> id, off |-> o, data |-> d, ver |-> v]
End(id, n, s, v)     == [type |-> "END", id |-> id, total |-> n, crc |-> s, ver |-> v]
Error(code)          == [type |-> "ERROR", code |-> code]
Changed(k)           == [type |-> "CHANGED", kind |-> k]
Request(k)           == [type |-> "REQUEST", kind |-> k]
Ack(id, o)           == [type |-> "ACK", id |-> id, off |-> o]
Hello                == [type |-> "HELLO"]

IsControl(f) == f.type \notin {"BEGIN", "CHUNK", "END", "ACK"}

(* pop_priority: the oldest frame, or the first control frame behind bulk. *)
Poppable(q) ==
  {i \in 1..Len(q) : \/ i = 1
                     \/ IsControl(q[i]) /\ \A j \in 1..(i - 1) : ~ IsControl(q[j])}

(* decode_received_frame_: a frame for a full queue is counted and dropped. *)
OfferUnbounded(q, f) == Append(q, f)  \* mutant
Offer(q, f) == IF Len(q) < QueueSize THEN Append(q, f) ELSE q

OfferBridge(q, f) == IF up THEN Offer(q, f) ELSE q

(* The frozen copy a transfer sends; the mutant reads the live cache. *)
LivePage == pubs[cache[pubs[snap].kind]]
ActivePage == pubs[snap]
ActiveSize == Len(ActivePage.blob)
NextId(id) == IF id = MaxId THEN 1 ELSE id + 1

TakeS3(i, f) == /\ i \in Poppable(toS3) /\ f = toS3[i]
                /\ toS3' = RemoveAt(toS3, i)
TakeBridge(i, f) == /\ up /\ i \in Poppable(toBridge) /\ f = toBridge[i]
                    /\ toBridge' = RemoveAt(toBridge, i)

------------------------------------------------------------------------------
Init ==
  /\ toS3 = <<>> /\ toBridge = <<>> /\ losses = 0 /\ up = TRUE
  /\ cache = [k \in Kinds |-> 0] /\ lookup = [k \in Kinds |-> 0] /\ pubs = <<>>
  /\ phase = "IDLE" /\ awaiting = FALSE /\ transferId = 0 /\ offset = 0 /\ snap = 0
  /\ overdue = FALSE /\ picture = FALSE /\ slow = 0
  /\ avail = FALSE /\ mode = "idle" /\ wanted = 0
  /\ got = [id |-> 0, kind |-> 0, total |-> 0, ctx |-> 0, ver |-> 0]
  /\ bytes = <<>> /\ completed = FALSE /\ cooldown = FALSE
  /\ due = TRUE /\ desired = Retained /\ fetched = {} /\ gen = 0 /\ ours = {}
  /\ shelf = [k \in Kinds |-> <<>>] /\ installed = [k \in Kinds |-> 0]
  /\ faults = 0

------------------------------------------------------------------------------
(* Bridge: LibraryProxyServer *)

ResetTransfer ==
  /\ phase' = "IDLE" /\ awaiting' = FALSE /\ offset' = 0 /\ snap' = 0
  /\ overdue' = FALSE
  /\ UNCHANGED transferId

(* cache_bridge_library, cache_bridge_library_page: Home Assistant delivers a *)
(* page; set / set_page replaces the cache and LIBRARY_CHANGED is announced.  *)
(* A page of tracks names the generation of the selection it answers, which   *)
(* was made in this life of the S3 or, after a restart, in an earlier one.    *)
Publish(k, b, c) ==
  /\ up /\ Len(pubs) < MaxPublishes
  /\ b \in BlobsOf[k]
  /\ PagePos[b] <= lookup[k]
  /\ pubs' = Append(pubs, [kind |-> k, blob |-> b, ctx |-> c])
  /\ \/ k # PLAYLIST_TRACKS /\ c = 0 /\ UNCHANGED ours
     \/ k = PLAYLIST_TRACKS /\ c \in 1..gen /\ ours' = ours \cup {Len(pubs')}
     \/ k = PLAYLIST_TRACKS /\ c # 0 /\ faults > 0 /\ UNCHANGED ours
  /\ cache' = [cache EXCEPT ![k] = Len(pubs')]
  /\ lookup' = [lookup EXCEPT ![k] = PagePos[b] + 1]
  /\ toS3' = Offer(toS3, Changed(k))
  /\ UNCHANGED <<toBridge, losses, up, slotVars, sendVars, avail, recvVars, due, desired,
                 fetched, gen, shelf, installed, faults>>

(* handle_request freezes the cached page under the next transfer id. *)
StartTransfer(k) ==
  /\ transferId < MaxTransfers
  /\ snap' = cache[k]
  /\ transferId' = NextId(transferId)
  /\ offset' = 0 /\ phase' = "BEGIN" /\ awaiting' = FALSE /\ overdue' = FALSE

ExpectedAckEndZero == IF phase = "CHUNK" THEN offset + 1 ELSE 0  \* mutant
ExpectedAck == CASE phase = "BEGIN" -> 0
                 [] phase = "CHUNK" -> offset + 1
                 [] phase = "END"   -> ActiveSize

AckMatches(f) ==
  phase # "IDLE" /\ awaiting /\ f.id = transferId /\ f.off = ExpectedAck

(* A clock of 40 ms or more runs out: what was sent has long arrived. *)
Elapsed == Timely => toS3 = <<>> /\ toBridge = <<>>

(* The peer of the current transfer has answered or still can. *)
PeerEngaged ==
  \/ \E f \in ToSet(toBridge) : f.type = "ACK" /\ AckMatches(f)
  \/ mode \in {"receiving", "finished"} /\ got.id = transferId
  \/ mode = "waiting" /\ phase = "BEGIN" /\ wanted = ActivePage.kind

(* TRANSFER_STALL_TIMEOUT_MS has passed without progress. *)
Stalled == phase # "IDLE" /\ (overdue \/ (Timely => ~ PeerEngaged))

HandleRequest(i) ==
  \E f \in {toBridge[i]} :
    /\ f.type = "REQUEST" /\ TakeBridge(i, f)
    /\ \/ /\ cache[f.kind] = 0
          /\ toS3' = Offer(toS3, Error(1))
          /\ UNCHANGED <<sendVars, overdue>>
       \/ /\ cache[f.kind] # 0 /\ (phase = "IDLE" \/ Stalled)
          /\ StartTransfer(f.kind)
          /\ UNCHANGED toS3
       \/ /\ cache[f.kind] # 0 /\ phase # "IDLE" /\ ~ overdue
          /\ toS3' = Offer(toS3, Error(2))
          /\ UNCHANGED <<sendVars, overdue>>
    /\ UNCHANGED <<losses, up, picture, slow, cacheVars, avail, recvVars, pickVars, faults>>

(* poll_send: the frame of the current phase, again after 40 ms without ack.  *)
(* The loop calls it in the shared bulk slot and only while radar_server is   *)
(* not busy.                                                                  *)
PollSend ==
  /\ up /\ phase # "IDLE" /\ ~ picture /\ ~ overdue
  /\ awaiting => Elapsed
  /\ toS3' = Offer(toS3,
       CASE phase = "BEGIN" -> Begin(transferId, ActivePage.kind, ActiveSize, ActivePage.ctx, snap)
         [] phase = "CHUNK" -> Chunk(transferId, offset, ActivePage.blob[offset + 1], snap)
         [] phase = "END"   -> End(transferId, ActiveSize, Crc(ActivePage.blob), snap))
  /\ awaiting' = TRUE
  /\ UNCHANGED <<toBridge, losses, up, slotVars, cacheVars, phase, transferId, offset, snap,
                 avail, recvVars, pickVars, faults>>

(* poll_send gives a transfer up after 2000 ms without progress. *)
StallTimeout ==
  /\ up /\ ~ picture /\ Stalled /\ (overdue \/ Elapsed)
  /\ ResetTransfer
  /\ UNCHANGED <<linkVars, up, picture, slow, cacheVars, avail, recvVars, pickVars, faults>>

AllSentEarly(o) == o + 1 >= ActiveSize  \* mutant
AllSent(o) == o >= ActiveSize

(* acknowledge *)
AdvanceOnAck(f) ==
  /\ awaiting' = FALSE /\ overdue' = FALSE
  /\ \/ /\ phase = "BEGIN" /\ phase' = "CHUNK"
        /\ UNCHANGED <<offset, snap>>
     \/ /\ phase = "CHUNK" /\ offset' = f.off
        /\ phase' = IF AllSent(f.off) THEN "END" ELSE "CHUNK"
        /\ UNCHANGED snap
     \/ /\ phase = "END" /\ phase' = "IDLE" /\ snap' = 0
        /\ UNCHANGED offset
  /\ UNCHANGED transferId

HandleAck(i) ==
  \E f \in {toBridge[i]} :
    /\ f.type = "ACK" /\ TakeBridge(i, f)
    /\ IF AckMatches(f) THEN AdvanceOnAck(f) ELSE UNCHANGED <<sendVars, overdue>>
    /\ UNCHANGED <<toS3, losses, up, picture, slow, cacheVars, avail, recvVars, pickVars, faults>>

BridgeHello(i) ==
  /\ TakeBridge(i, Hello)
  /\ ResetTransfer
  /\ UNCHANGED <<toS3, losses, up, picture, slow, cacheVars, avail, recvVars, pickVars, faults>>

(* radar_server, the other user of the slot (AssetTransfer): it is busy from  *)
(* a request of the S3 until its download and the transfer have ended.        *)
PictureBegins ==
  /\ up /\ ~ picture /\ picture' = TRUE
  /\ UNCHANGED <<linkVars, up, overdue, slow, cacheVars, sendVars, avail, recvVars, pickVars,
                 faults>>

PictureEnds ==
  /\ picture /\ picture' = FALSE
  /\ UNCHANGED <<linkVars, up, overdue, slow, cacheVars, sendVars, avail, recvVars, pickVars,
                 faults>>

(* It has held the slot until the open transfer is 2 s without progress.      *)
PictureDrags ==
  /\ picture /\ phase # "IDLE" /\ ~ overdue /\ Elapsed
  /\ slow < MaxSlow /\ slow' = slow + 1
  /\ overdue' = TRUE
  /\ UNCHANGED <<linkVars, up, picture, cacheVars, sendVars, avail, recvVars, pickVars, faults>>

------------------------------------------------------------------------------
(* S3: LibraryProxyClient and the loop around it *)

Active == mode \in {"waiting", "receiving"}

SendAck == toBridge' = OfferBridge(toBridge, Ack(got'.id, Len(bytes')))

(* fail_ and reset_ *)
Fail ==
  /\ mode' = "idle" /\ completed' = FALSE /\ bytes' = <<>> /\ cooldown' = TRUE
  /\ UNCHANGED <<wanted, got>>
ResetClient ==
  /\ mode' = "idle" /\ completed' = FALSE /\ bytes' = <<>>
  /\ UNCHANGED <<wanted, got, cooldown>>

MissingKinds == desired \ fetched

(* The scheduler asks for tracks, then the playlist page, then 2 and 3. *)
RequestOrder == <<PLAYLIST_TRACKS, PLAYLIST_PAGE, 2, 3>>
NextKind ==
  RequestOrder[CHOOSE i \in 1..4 : /\ RequestOrder[i] \in MissingKinds
                                  /\ \A j \in 1..(i - 1) : RequestOrder[j] \notin MissingKinds]

SendRequest ==
  /\ avail /\ due /\ ~ Active /\ ~ cooldown /\ ~ completed /\ MissingKinds # {}
  /\ due' = FALSE
  /\ toBridge' = OfferBridge(toBridge, Request(NextKind))
  /\ wanted' = NextKind /\ mode' = "waiting"
  /\ UNCHANGED <<toS3, losses, up, slotVars, cacheVars, sendVars, avail, got, bytes, completed,
                 cooldown, desired, fetched, gen, ours, shelf, installed, faults>>

RequestDue ==
  /\ ~ due /\ Elapsed /\ due' = TRUE
  /\ UNCHANGED <<linkVars, up, slotVars, cacheVars, sendVars, avail, recvVars, desired, fetched,
                 gen, ours, shelf, installed, faults>>

ReceiveBegin(i) ==
  \E f \in {toS3[i]} :
    /\ f.type = "BEGIN" /\ TakeS3(i, f)
    /\ \/ /\ mode = "receiving" /\ f.id = got.id
          /\ UNCHANGED recvVars /\ SendAck
       \/ /\ mode = "waiting" /\ f.kind = wanted
          /\ got' = [id |-> f.id, kind |-> f.kind, total |-> f.total, ctx |-> f.ctx,
                     ver |-> f.ver]
          /\ mode' = "receiving" /\ bytes' = <<>>
          /\ UNCHANGED <<wanted, completed, cooldown>> /\ SendAck
       \/ /\ ~ (mode = "receiving" /\ f.id = got.id)
          /\ ~ (mode = "waiting" /\ f.kind = wanted)
          /\ UNCHANGED <<recvVars, toBridge>>
    /\ UNCHANGED <<losses, up, slotVars, cacheVars, sendVars, avail, pickVars, faults>>

Duplicate(f) == f.off < Len(bytes) /\ bytes[f.off + 1] = f.data

ReceiveChunk(i) ==
  \E f \in {toS3[i]} :
    /\ f.type = "CHUNK" /\ TakeS3(i, f)
    /\ \/ /\ mode = "receiving" /\ f.id # got.id
          /\ Fail /\ UNCHANGED toBridge
       \/ /\ mode = "receiving" /\ f.id = got.id /\ Duplicate(f)
          /\ UNCHANGED recvVars /\ SendAck
       \/ /\ mode = "receiving" /\ f.id = got.id /\ f.off = Len(bytes)
          /\ bytes' = Append(bytes, f.data)
          /\ UNCHANGED <<mode, wanted, got, completed, cooldown>> /\ SendAck
       \/ /\ \/ mode # "receiving"
             \/ f.id = got.id /\ f.off # Len(bytes) /\ ~ Duplicate(f)
          /\ UNCHANGED <<recvVars, toBridge>>
    /\ UNCHANGED <<losses, up, slotVars, cacheVars, sendVars, avail, pickVars, faults>>

EndMatches(f) ==
  /\ f.id = got.id /\ f.total = Len(bytes) /\ f.total = got.total
  /\ f.crc = Crc(bytes)

ReceiveEnd(i) ==
  \E f \in {toS3[i]} :
    /\ f.type = "END" /\ TakeS3(i, f)
    /\ \/ /\ mode = "finished" /\ f.id = got.id /\ f.total = Len(bytes)
          /\ UNCHANGED recvVars /\ SendAck
       \/ /\ mode = "receiving" /\ EndMatches(f)
          /\ mode' = "finished" /\ completed' = TRUE
          /\ UNCHANGED <<wanted, got, bytes, cooldown>> /\ SendAck
       \/ /\ mode = "receiving" /\ ~ EndMatches(f)
          /\ Fail /\ UNCHANGED toBridge
       \/ /\ mode \in {"idle", "waiting"} \/ (mode = "finished"
               /\ ~ (f.id = got.id /\ f.total = Len(bytes)))
          /\ UNCHANGED <<recvVars, toBridge>>
    /\ UNCHANGED <<losses, up, slotVars, cacheVars, sendVars, avail, pickVars, faults>>

(* remote_error reads neither the kind nor an id. *)
ReceiveError(i) ==
  \E f \in {toS3[i]} :
    /\ f.type = "ERROR" /\ TakeS3(i, f)
    /\ Fail
    /\ UNCHANGED <<toBridge, losses, up, slotVars, cacheVars, sendVars, avail, pickVars, faults>>

(* notify_remote_cache_changed lifts the backoff of the kind it asked for. *)
ReceiveChanged(i) ==
  \E f \in {toS3[i]} :
    /\ f.type = "CHANGED" /\ TakeS3(i, f)
    /\ desired' = desired \cup {f.kind} /\ due' = TRUE
    /\ fetched' = fetched \ {f.kind}
    /\ cooldown' = (cooldown /\ (Active \/ wanted # f.kind))
    /\ UNCHANGED <<toBridge, losses, up, slotVars, cacheVars, sendVars, avail, mode, wanted, got,
                   bytes, completed, gen, ours, shelf, installed, faults>>

ReceiveHello(i) ==
  /\ TakeS3(i, Hello)
  /\ toBridge' = OfferBridge(toBridge, Hello)
  /\ UNCHANGED <<losses, up, slotVars, cacheVars, sendVars, avail, recvVars, pickVars, faults>>

(* The server is serving, or is about to answer, the request of the client. *)
ServerEngaged ==
  \/ phase # "IDLE" /\ PeerEngaged
  \/ \E f \in ToSet(toBridge) : f.type = "REQUEST"
  \/ \E f \in ToSet(toS3) : f.type \in {"BEGIN", "CHUNK", "END", "ERROR"}

(* tick: 12 s without progress, because the server is not serving or cannot.  *)
ServerWaits == ServerEngaged /\ ~ (picture /\ overdue)
ReceivingExpired == mode = "receiving" /\ Elapsed /\ (Timely => ~ ServerWaits)  \* mutant
Expired == Active /\ Elapsed /\ (Timely => ~ ServerWaits)

ClientTimeout ==
  /\ Expired
  /\ Fail
  /\ UNCHANGED <<linkVars, up, slotVars, cacheVars, sendVars, avail, pickVars, faults>>

(* The backoff of 10 s outlasts the stall of the server, which it notices     *)
(* unless a picture holds its slot.                                           *)
CooldownOver ==
  /\ cooldown /\ Elapsed /\ cooldown' = FALSE
  /\ Timely => ~ (up /\ Stalled) \/ (picture /\ overdue)
  /\ UNCHANGED <<linkVars, up, slotVars, cacheVars, sendVars, avail, mode, wanted, got, bytes,
                 completed, pickVars, faults>>

(* take_completed and the loop's use of the page: a page that does not      *)
(* decode fails the transfer, tracks of an earlier selection and a page     *)
(* behind a gap are dropped, any other page replaces the rows from its own  *)
(* place on.                                                                *)
Decodes == bytes \in BlobsOf[got.kind]
NeverStale == FALSE  \* mutant
StaleTracks == got.kind = PLAYLIST_TRACKS /\ got.ctx # gen
Gap == PagePos[bytes] > Len(shelf[got.kind])
Usable == Decodes /\ ~ StaleTracks /\ ~ Gap

(* The rows in front of the page: the list is cut at its offset. *)
RowsKept == shelf[got.kind]  \* mutant
RowsBefore == SubSeq(shelf[got.kind], 1, PagePos[bytes])

InstallPage ==
  /\ shelf' = [shelf EXCEPT ![got.kind] =
       Append(RowsBefore, [blob |-> bytes, ctx |-> got.ctx, ver |-> got.ver])]
  /\ installed' = [installed EXCEPT ![got.kind] = got.ver]
  /\ fetched' = fetched \cup {got.kind}
  /\ UNCHANGED <<due, desired, gen, ours>>

TakeCompleted ==
  /\ completed
  /\ IF Decodes THEN /\ completed' = FALSE
                     /\ UNCHANGED <<mode, wanted, got, bytes, cooldown>>
                ELSE Fail
  /\ IF Usable THEN InstallPage ELSE UNCHANGED pickVars
  /\ UNCHANGED <<linkVars, up, slotVars, cacheVars, sendVars, avail, faults>>

(* request_selected_playlist_tracks: a new selection, its list starts empty. *)
SelectPlaylist ==
  /\ PLAYLIST_TRACKS \in Kinds /\ gen < MaxSelections
  /\ gen' = gen + 1
  /\ shelf' = [shelf EXCEPT ![PLAYLIST_TRACKS] = <<>>]
  /\ UNCHANGED <<linkVars, up, slotVars, cacheVars, sendVars, avail, recvVars, due, desired,
                 fetched, ours, installed, faults>>

(* BRIDGE_STATUS carries the library capability of the Bridge. *)
BridgeAvailable ==
  /\ up /\ ~ avail /\ avail' = TRUE
  /\ UNCHANGED <<linkVars, up, slotVars, cacheVars, sendVars, recvVars, pickVars, faults>>

BridgeUnavailable ==
  /\ avail /\ faults < MaxFaults /\ faults' = faults + 1
  /\ avail' = FALSE /\ ResetClient
  /\ UNCHANGED <<linkVars, up, slotVars, cacheVars, sendVars, pickVars>>

(* No heartbeat for 1500 ms: the S3 forgets what it fetched, not what it shows. *)
LinkLost ==
  /\ avail /\ faults < MaxFaults /\ faults' = faults + 1
  /\ avail' = FALSE /\ ResetClient
  /\ fetched' = {} /\ desired' = Retained
  /\ UNCHANGED <<linkVars, up, slotVars, cacheVars, sendVars, due, gen, ours, shelf, installed>>

------------------------------------------------------------------------------
(* Environment *)

LoseFrame ==
  /\ losses < MaxLosses /\ losses' = losses + 1
  /\ \/ \E i \in 1..Len(toS3) : toS3' = RemoveAt(toS3, i) /\ UNCHANGED toBridge
     \/ \E i \in 1..Len(toBridge) : toBridge' = RemoveAt(toBridge, i) /\ UNCHANGED toS3
  /\ UNCHANGED <<up, slotVars, cacheVars, sendVars, avail, recvVars, pickVars, faults>>

(* A restart of the Bridge empties its caches and its receive queue. *)
BridgeDown ==
  /\ up /\ faults < MaxFaults /\ faults' = faults + 1
  /\ up' = FALSE /\ toBridge' = <<>>
  /\ cache' = [k \in Kinds |-> 0] /\ lookup' = [k \in Kinds |-> 0]
  /\ phase' = "IDLE" /\ awaiting' = FALSE /\ offset' = 0 /\ snap' = 0
  /\ overdue' = FALSE /\ picture' = FALSE
  /\ UNCHANGED <<toS3, losses, slow, pubs, transferId, avail, recvVars, pickVars>>

(* It takes seconds to boot: by then the S3 has drained its receive queue.  *)
(* Transfer ids start over.                                                 *)
BridgeBoot ==
  /\ ~ up /\ toS3 = <<>>
  /\ up' = TRUE /\ transferId' = 0
  /\ toS3' = <<Hello>>
  /\ UNCHANGED <<toBridge, losses, slotVars, cacheVars, phase, awaiting, offset, snap,
                 avail, recvVars, pickVars, faults>>

S3Restart ==
  /\ faults < MaxFaults /\ faults' = faults + 1
  /\ toS3' = <<>> /\ toBridge' = OfferBridge(toBridge, Hello)
  /\ avail' = FALSE /\ mode' = "idle" /\ wanted' = 0 /\ bytes' = <<>>
  /\ got' = [id |-> 0, kind |-> 0, total |-> 0, ctx |-> 0, ver |-> 0]
  /\ completed' = FALSE /\ cooldown' = FALSE
  /\ due' = TRUE /\ desired' = Retained /\ fetched' = {} /\ gen' = 0
  /\ ours' = {}
  /\ shelf' = [k \in Kinds |-> <<>>] /\ installed' = [k \in Kinds |-> 0]
  /\ UNCHANGED <<losses, up, slotVars, cacheVars, sendVars>>

------------------------------------------------------------------------------
BridgeStep ==
  \/ \E i \in 1..Len(toBridge) : HandleRequest(i) \/ HandleAck(i) \/ BridgeHello(i)
  \/ PollSend \/ StallTimeout

SlotStep == PictureBegins \/ PictureEnds \/ PictureDrags

S3Step ==
  \/ \E i \in 1..Len(toS3) :
       \/ ReceiveBegin(i) \/ ReceiveChunk(i) \/ ReceiveEnd(i)
       \/ ReceiveError(i) \/ ReceiveChanged(i) \/ ReceiveHello(i)
  \/ SendRequest \/ RequestDue \/ ClientTimeout \/ CooldownOver \/ TakeCompleted

Environment ==
  \/ \E k \in Kinds, b \in Blobs, c \in 0..MaxSelections : Publish(k, b, c)
  \/ SelectPlaylist \/ BridgeAvailable \/ BridgeUnavailable \/ LinkLost
  \/ LoseFrame \/ BridgeDown \/ BridgeBoot \/ S3Restart

(* The loop of each processor takes at least the oldest frame it received. *)
HandleOldest == toBridge # <<>> /\ (HandleRequest(1) \/ HandleAck(1) \/ BridgeHello(1))
ReceiveOldest ==
  /\ toS3 # <<>>
  /\ \/ ReceiveBegin(1) \/ ReceiveChunk(1) \/ ReceiveEnd(1)
     \/ ReceiveError(1) \/ ReceiveChanged(1) \/ ReceiveHello(1)

Next == BridgeStep \/ S3Step \/ SlotStep \/ Environment

Spec == Init /\ [][Next]_vars

(* Both loops run for ever and handle in every pass what has arrived and    *)
(* what is due; a clock that keeps running out is noticed.  A Bridge that   *)
(* is down boots and a running one reports its capabilities.  poll_send gets *)
(* a slot if pictures leave it again and again: between two of them the S3   *)
(* decodes one, which takes longer than the 16 ms to the next slot.  Nothing *)
(* is assumed of Home Assistant, the user, losses, outages and restarts, and *)
(* not that a picture ever ends.                                            *)
Fairness ==
  /\ WF_vars(HandleOldest) /\ SF_vars(PollSend)
  /\ WF_vars(ReceiveOldest) /\ WF_vars(SendRequest) /\ SF_vars(RequestDue)
  /\ WF_vars(TakeCompleted)
  /\ SF_vars(StallTimeout) /\ SF_vars(ClientTimeout) /\ SF_vars(CooldownOver)
  /\ WF_vars(BridgeAvailable) /\ WF_vars(BridgeBoot)

FairSpec == Spec /\ Fairness

------------------------------------------------------------------------------
(* Properties *)


Publication == [kind : Kinds, blob : Blobs, ctx : 0..MaxSelections]
Row == [blob : Blobs, ctx : 0..MaxSelections, ver : Nat]
BeginFrame == [type : {"BEGIN"}, id : 1..MaxId, kind : Kinds, total : Nat,
               ctx : 0..MaxSelections, ver : Nat]
ChunkFrame == [type : {"CHUNK"}, id : 1..MaxId, off : Nat, data : Data, ver : Nat]
EndFrame   == [type : {"END"}, id : 1..MaxId, total : Nat,
               crc : {Crc(b) : b \in Blobs}, ver : Nat]
FrameToS3 == BeginFrame \cup ChunkFrame \cup EndFrame
  \cup [type : {"ERROR"}, code : {1, 2}] \cup [type : {"CHANGED"}, kind : Kinds]
  \cup {Hello}
FrameToBridge == [type : {"REQUEST"}, kind : Kinds]
  \cup [type : {"ACK"}, id : 0..MaxId, off : Nat] \cup {Hello}

(* Every variable stays in its type: frames carry only kinds, ids, offsets  *)
(* and chunks that exist, and the receive queues stay within their size.    *)
LinkTyped ==
  /\ toS3 \in Seq(FrameToS3) /\ Len(toS3) <= QueueSize
  /\ toBridge \in Seq(FrameToBridge) /\ Len(toBridge) <= QueueSize
  /\ losses \in 0..MaxLosses /\ faults \in 0..MaxFaults
BridgeTyped ==
  /\ up \in BOOLEAN
  /\ cache \in [Kinds -> Nat] /\ lookup \in [Kinds -> Nat] /\ pubs \in Seq(Publication)
  /\ phase \in {"IDLE", "BEGIN", "CHUNK", "END"} /\ awaiting \in BOOLEAN
  /\ transferId \in 0..MaxId /\ offset \in Nat /\ snap \in Nat
S3Typed ==
  /\ avail \in BOOLEAN /\ completed \in BOOLEAN /\ cooldown \in BOOLEAN
  /\ mode \in {"idle", "waiting", "receiving", "finished"}
  /\ wanted \in Kinds \cup {0}
  /\ got \in [id : 0..MaxId, kind : Kinds \cup {0}, total : Nat,
               ctx : 0..MaxSelections, ver : Nat]
  /\ bytes \in Seq(Data)
PickerTyped ==
  /\ due \in BOOLEAN /\ desired \subseteq Kinds /\ fetched \subseteq Kinds
  /\ gen \in 0..MaxSelections /\ ours \subseteq Nat
  /\ shelf \in [Kinds -> Seq(Row)] /\ installed \in [Kinds -> Nat]
SlotTyped == picture \in BOOLEAN /\ overdue \in BOOLEAN /\ slow \in 0..MaxSlow
TypeOK == LinkTyped /\ BridgeTyped /\ S3Typed /\ PickerTyped /\ SlotTyped

(* A completed page is, chunk for chunk, the page that the Bridge had       *)
(* cached when it accepted the request, with its kind and context, whatever *)
(* was refreshed, lost, repeated or restarted while the chunks were in      *)
(* flight, and although the CRC cannot tell pages apart.                    *)
CompletedIsPublished ==
  completed => LET page == pubs[got.ver]
               IN  bytes = page.blob /\ got.kind = page.kind /\ got.ctx = page.ctx

(* The track list never shows a row of a playlist the user has left: every  *)
(* page that was published for a selection made since the S3 started is one *)
(* of the present selection.  A page published for an earlier life of the   *)
(* S3 is not excluded: generations start over and it may bear the same one. *)
TracksOfSelection ==
  PLAYLIST_TRACKS \in Kinds =>
    \A row \in ToSet(shelf[PLAYLIST_TRACKS]) :
      row.ver \in ours => row.ctx = gen

(* No list has a hole or a repeated page: the i-th page it holds is a page  *)
(* that belongs at its i-th place.                                          *)
ShelfAssembled ==
  \A k \in Kinds : \A i \in 1..Len(shelf[k]) : PagePos[shelf[k][i].blob] = i - 1

(* Stop and wait: while both ends work on the same transfer the client is   *)
(* at most one chunk ahead of what the server has seen acknowledged, never  *)
(* behind it, and the server is at END only for a client that has it all.   *)
LockStep ==
  phase # "IDLE" /\ got.id = transferId =>
    CASE mode = "receiving" ->
           /\ phase = "BEGIN" => bytes = <<>>
           /\ phase = "CHUNK" => Len(bytes) - offset \in {0, 1}
           /\ phase = "END" => Len(bytes) = ActiveSize
      [] mode = "finished" -> phase = "END"
      [] OTHER -> TRUE

(* On a link that loses nothing only a picture that holds the bulk slot for *)
(* 2 s makes a transfer run into a timeout.  As long as none has, however   *)
(* often pictures took the slot, the peer of every open transfer is working *)
(* on it.                                                                   *)
HealthyLinkNeverStalls ==
  losses = 0 /\ faults = 0 /\ slow = 0 =>
    /\ phase # "IDLE" => PeerEngaged
    /\ Active => ServerEngaged

Catalog == INSTANCE LibraryCatalog WITH view <- installed

(* The lists of the S3 change as LibraryCatalog says: by a whole published  *)
(* page that is at least as new as the one before it, by a selection or by  *)
(* a restart.                                                               *)
ImplementsCatalog == Catalog!Spec

(* Once the Bridge stays up and holds a page of each retained list, the S3  *)
(* gets these lists, after any finite number of losses, outages, restarts   *)
(* and pictures that held the slot for 2 s of a transfer, provided that no  *)
(* picture holds the slot for ever.  Pictures may go on taking it.          *)
Serving == up /\ avail /\ \A k \in Retained : cache[k] # 0
SlotReturns == []<>(~ picture)
RetainedListsArrive == SlotReturns /\ <>[]Serving => <>[](Retained \subseteq fetched)

(* Comment on the client: errors 1 and 2 mean that the Bridge does not hold *)
(* the list yet.  On a link that loses nothing no request finds the server  *)
(* busy with a transfer the client has already completed.                   *)
HealthyLinkNeverBusy ==
  losses = 0 /\ faults = 0 => Error(2) \notin ToSet(toS3)

(* Docs: the periodic snapshot recovers losses, LIBRARY_CHANGED announces   *)
(* what is ready.  At rest, with nothing missing and nothing lost, every    *)
(* list the S3 fetched is the page the Bridge holds.                        *)
AtRest == toS3 = <<>> /\ toBridge = <<>> /\ phase = "IDLE" /\ ~ Active /\ ~ completed
FetchedIsCurrent ==
  up /\ avail /\ AtRest /\ MissingKinds = {} /\ losses = 0 /\ faults = 0 =>
    \A k \in fetched : installed[k] = cache[k]

=============================================================================
