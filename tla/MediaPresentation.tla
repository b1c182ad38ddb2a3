--------------------------- MODULE MediaPresentation ---------------------------
(***************************************************************************)
(* How the S3 comes to show a track: the integration pushes a runtime      *)
(* state, the Bridge stages title, artist and cover URL on the S3 between  *)
(* MEDIA_PRESENTATION_BEGIN and MEDIA_PRESENTATION_COMMIT, and the S3      *)
(* shows them on the commit.  CoverUrlSender and CoverUrlReceiver carry    *)
(* the URL; its acknowledgement releases the commit.  Nothing is           *)
(* retransmitted: a lost frame is repaired by a later snapshot.            *)
(*                                                                         *)
(* The n-th content the integration pushes is the number n; its title and  *)
(* its artist are n, and its cover URL has (n + 1) % 3 chunks              *)
(* <<n, place>>: every third track has no cover.  All frames here are      *)
(* control frames: the receive queues are first in, first out.             *)
(***************************************************************************)
EXTENDS Integers, Sequences, SequencesExt

CONSTANTS
  MaxSyncs,    \* bound on the runtime states pushed
  MaxLosses,   \* bound on the frames lost
  MaxFaults,   \* bound on outages and restarts, of the integration as well
  MaxId        \* the ids of URL transfers are 1..MaxId, 65535 in the code

ASSUME PresentationBounds ==
  {MaxSyncs, MaxLosses, MaxFaults} \subseteq Nat /\ MaxId \in Nat \ {0}

VARIABLES
  toS3, toBridge,      \* frames in flight, oldest first
  api,                 \* bridge_api_connected
  content,             \* bridge_media_title .. _cover_url, 0 = not authoritative
  runtime,             \* bridge_runtime_session, bridge_runtime_sequence
  presentation,        \* bridge_media_presentation_session, _sequence
  sender,              \* CoverUrlSender
  atomic,              \* dual_mcu_ha_bridge_ready and _atomic_media
  staging,             \* dual_mcu_media_presentation_pending
  staged, fields,      \* dual_mcu_media_presentation_title .. _fields
  last,                \* dual_mcu_media_presentation_last_session, _last_sequence
  receiver,            \* CoverUrlReceiver
  shown,               \* media_title_cache, _artist_cache, _entity_picture_cache
  detour,              \* history: what may not belong together, see Untorn
  contents, syncs, losses, faults

linkVars   == <<toS3, toBridge>>
bridgeVars == <<api, content, runtime, presentation, sender>>
stageVars  == <<staging, staged, fields, last>>
s3Vars     == <<atomic, stageVars, receiver, shown, detour>>
bounds     == <<contents, syncs, losses, faults>>
vars == <<linkVars, bridgeVars, s3Vars, bounds>>

Stamp(s, q) == [session |-> s, sequence |-> q]
Url(n)   == [i \in 1..((n + 1) % 3) |-> <<n, i>>]
Cover(n) == IF Url(n) = <<>> THEN 0 ELSE n
Whole(n) == [title |-> n, artist |-> n, cover |-> Cover(n)]
AllFields == {"title", "artist", "cover"}

Begin(st)        == [type |-> "BEGIN", stamp |-> st]
Commit(st)       == [type |-> "COMMIT", stamp |-> st]
Text(f, n)       == [type |-> "TEXT", field |-> f, value |-> n]
Status(a)        == [type |-> "STATUS", atomic |-> a]
UrlBegin(i, n)   == [type |-> "URL_BEGIN", id |-> i, total |-> n]
UrlChunk(i, o, d) == [type |-> "URL_CHUNK", id |-> i, off |-> o, data |-> d]
UrlEnd(i)        == [type |-> "URL_END", id |-> i]
UrlAck(i, r)     == [type |-> "URL_ACK", id |-> i, result |-> r]

NoSender   == [phase |-> 0, id |-> 0, url |-> <<>>, offset |-> 0, waiting |-> FALSE]
NoReceiver == [active |-> FALSE, id |-> 0, total |-> 0, url |-> <<>>]
NoStage    == [stamp |-> Stamp(0, 0), title |-> 0, artist |-> 0, cover |-> 0]

Init ==
  /\ toS3 = <<>> /\ toBridge = <<>>
  /\ api = FALSE /\ content = 0 /\ runtime = Stamp(0, 0) /\ presentation = Stamp(0, 0)
  /\ sender = NoSender /\ receiver = NoReceiver
  /\ atomic = FALSE /\ staging = FALSE /\ staged = NoStage /\ fields = {}
  /\ last = Stamp(0, 0) /\ shown = Whole(0) /\ detour = {}
  /\ contents = 0 /\ syncs = 0 /\ losses = 0 /\ faults = 0

------------------------------------------------------------------------------
(* Bridge *)

QueueUrlNoWrap(url) ==    \* mutant
  sender' = [phase |-> 1, id |-> sender.id + 1, url |-> url, offset |-> 0,
             waiting |-> FALSE]
(* CoverUrlSender::queue: a transfer under way is given up for the new one. *)
QueueUrl(url) ==
  sender' = [phase |-> 1, id |-> IF sender.id = MaxId THEN 1 ELSE sender.id + 1,
             url |-> url, offset |-> 0, waiting |-> FALSE]

(* queue_bridge_media_presentation, after the frames in before.             *)
Present(before, n, stamp) ==
  /\ toS3' = toS3 \o before
             \o <<Begin(stamp), Text("title", n), Text("artist", n)>>
  /\ presentation' = stamp /\ QueueUrl(Url(n))

(* passion_wave_receive_runtime_state: a state with the same presentation   *)
(* moves only the sequence on.  After a restart of the integration it has a *)
(* new session and counts from 1.                                           *)
NextStamp == {Stamp(runtime.session, runtime.sequence + 1)}
             \cup (IF faults < MaxFaults THEN {Stamp(runtime.session + 1, 1)} ELSE {})
Sync(stamp) ==
  /\ syncs < MaxSyncs /\ syncs' = syncs + 1 /\ stamp \in NextStamp
  /\ faults' = IF stamp.session = runtime.session THEN faults ELSE faults + 1
  /\ runtime' = stamp
  /\ \/ /\ contents' = contents + 1 /\ content' = contents'
        /\ Present(<<>>, content', stamp)
     \/ /\ content # 0 /\ UNCHANGED <<content, contents, toS3, presentation, sender>>
  /\ UNCHANGED <<toBridge, api, s3Vars, losses>>

(* Every heartbeat carries BRIDGE_STATUS; one that says nothing new is left *)
(* out here.                                                                *)
SendStatus ==
  /\ api # atomic /\ Status(api) \notin ToSet(toS3)
  /\ toS3' = Append(toS3, Status(api))
  /\ UNCHANGED <<toBridge, bridgeVars, s3Vars, bounds>>

(* send_bridge_snapshot: every 15 minutes, and when the S3 says HELLO or    *)
(* asks for it.  Both are rare against the milliseconds a presentation      *)
(* takes: nothing of an earlier one is in flight.                           *)
Quiet == toS3 = <<>> /\ toBridge = <<>> /\ sender.phase = 0
StatusOnly ==        \* mutant
  /\ Quiet /\ content # 0 /\ toS3' = <<Status(api)>>
  /\ UNCHANGED <<toBridge, bridgeVars, s3Vars, bounds>>
Snapshot ==
  /\ Quiet /\ content # 0
  /\ Present(<<Status(api)>>, content, runtime)
  /\ UNCHANGED <<toBridge, api, content, runtime, s3Vars, bounds>>

(* CoverUrlSender::poll_send: BEGIN, the chunks, END.                       *)
SendUrl ==
  /\ sender.phase # 0
  /\ CASE sender.phase = 1 ->
            /\ toS3' = Append(toS3, UrlBegin(sender.id, Len(sender.url)))
            /\ sender' = [sender EXCEPT !.phase = IF sender.url = <<>> THEN 3 ELSE 2]
       [] sender.phase = 2 ->
            /\ toS3' = Append(toS3, UrlChunk(sender.id, sender.offset,
                                             sender.url[sender.offset + 1]))
            /\ sender' = [sender EXCEPT !.offset = @ + 1,
                 !.phase = IF sender.offset + 1 = Len(sender.url) THEN 3 ELSE 2]
       [] sender.phase = 3 ->
            /\ toS3' = Append(toS3, UrlEnd(sender.id))
            /\ sender' = [NoSender EXCEPT !.id = sender.id, !.waiting = TRUE]
  /\ UNCHANGED <<toBridge, api, content, runtime, presentation, s3Vars, bounds>>

(* MEDIA_COVER_URL_ACK: the commit names the presentation queued last.      *)
AckOfAny(f) == sender.waiting        \* mutant: the transfer id is not compared
AckMatches(f) == sender.waiting /\ f.id = sender.id
ReceiveUrlAck ==
  /\ toBridge # <<>> /\ toBridge' = Tail(toBridge)
  /\ LET f == Head(toBridge) IN
     IF AckMatches(f)
     THEN /\ sender' = [sender EXCEPT !.waiting = FALSE]
          /\ toS3' = IF f.result = 0 THEN Append(toS3, Commit(presentation)) ELSE toS3
     ELSE UNCHANGED <<sender, toS3>>
  /\ UNCHANGED <<api, content, runtime, presentation, s3Vars, bounds>>

(* The Native API connection comes and goes.                                *)
ApiConnects == ~ api /\ api' = TRUE
               /\ UNCHANGED <<linkVars, content, runtime, presentation, sender, s3Vars, bounds>>
ApiDrops ==
  /\ api /\ faults < MaxFaults /\ faults' = faults + 1 /\ api' = FALSE
  /\ UNCHANGED <<linkVars, content, runtime, presentation, sender, s3Vars,
                 contents, syncs, losses>>

------------------------------------------------------------------------------
(* S3 *)
Take(type) == toS3 # <<>> /\ Head(toS3).type = type /\ toS3' = Tail(toS3)
Frame == Head(toS3)
Rest == UNCHANGED <<bridgeVars, bounds>>

ReceiveStatus ==
  /\ Take("STATUS") /\ atomic' = Frame.atomic
  /\ IF Frame.atomic = atomic THEN UNCHANGED <<staging, fields>>
     ELSE staging' = FALSE /\ fields' = {}
  /\ UNCHANGED <<toBridge, staged, last, receiver, shown, detour>> /\ Rest

ReceiveBeginKeepsFields ==        \* mutant: what was staged before counts
  /\ Take("BEGIN")
  /\ IF atomic
     THEN /\ staging' = TRUE /\ staged' = [NoStage EXCEPT !.stamp = Frame.stamp]
          /\ detour' = detour \ {"staged"}
     ELSE UNCHANGED <<staging, staged, detour>>
  /\ UNCHANGED <<toBridge, atomic, fields, last, receiver, shown>> /\ Rest
ReceiveBegin ==
  /\ Take("BEGIN")
  /\ IF atomic
     THEN /\ staging' = TRUE /\ fields' = {}
          /\ staged' = [NoStage EXCEPT !.stamp = Frame.stamp]
          /\ detour' = detour \ {"staged"}
     ELSE UNCHANGED <<staging, staged, fields, detour>>
  /\ UNCHANGED <<toBridge, atomic, last, receiver, shown>> /\ Rest

(* A field is staged or, on the path kept for older firmware, shown at once.*)
Stage(f, n) == /\ staged' = [staged EXCEPT ![f] = n] /\ fields' = fields \cup {f}
               /\ UNCHANGED shown
Show(f, n)  == /\ shown' = [shown EXCEPT ![f] = n] /\ UNCHANGED <<staged, fields>>

ReceiveText ==
  /\ Take("TEXT")
  /\ CASE atomic /\ staging   -> Stage(Frame.field, Frame.value) /\ UNCHANGED detour
       [] atomic /\ ~ staging -> /\ Show(Frame.field, Frame.value)
                                 /\ detour' = detour \cup {"direct"}
       [] OTHER -> UNCHANGED <<staged, fields, shown, detour>>   \* not ready
  /\ UNCHANGED <<toBridge, atomic, staging, last, receiver>> /\ Rest

ReceiveUrlBegin ==
  /\ Take("URL_BEGIN")
  /\ receiver' = [active |-> TRUE, id |-> Frame.id, total |-> Frame.total, url |-> <<>>]
  /\ detour' = detour \ {"receiver"}
  /\ UNCHANGED <<toBridge, atomic, stageVars, shown>> /\ Rest

ReceiveUrlChunk ==
  /\ Take("URL_CHUNK")
  /\ receiver' = IF ~ receiver.active THEN receiver
       ELSE IF /\ Frame.id = receiver.id /\ Frame.off = Len(receiver.url)
               /\ Len(receiver.url) < receiver.total
       THEN [receiver EXCEPT !.url = Append(@, Frame.data)]
       ELSE NoReceiver
  /\ UNCHANGED <<toBridge, atomic, stageVars, shown, detour>> /\ Rest

Finished == /\ receiver.active /\ Frame.id = receiver.id
            /\ Len(receiver.url) = receiver.total
CoverOf(url) == IF url = <<>> THEN 0 ELSE url[1][1]
ReceiveUrlEnd ==
  /\ Take("URL_END")
  /\ toBridge' = Append(toBridge, UrlAck(Frame.id, IF Finished THEN 0 ELSE 1))
  /\ receiver' = NoReceiver
  /\ CASE Finished /\ atomic /\ staging ->
            /\ Stage("cover", CoverOf(receiver.url))
            /\ detour' = IF "receiver" \in detour THEN detour \cup {"staged"} ELSE detour
       [] Finished /\ ~ (atomic /\ staging) ->
            Show("cover", CoverOf(receiver.url)) /\ detour' = detour \cup {"direct"}
       [] OTHER -> UNCHANGED <<staged, fields, shown, detour>>
  /\ UNCHANGED <<atomic, staging, last>> /\ Rest

Newer(st) == st.session # last.session \/ st.sequence > last.sequence
AcceptableIncomplete(st) == st = staged.stamp /\ Newer(st)         \* mutant
Acceptable(st) == st = staged.stamp /\ fields = AllFields /\ Newer(st)

(* A commit that is refused leaves the staging open.                        *)
ReceiveCommit ==
  /\ Take("COMMIT")
  /\ IF atomic /\ staging /\ Acceptable(Frame.stamp)
     THEN /\ shown' = [f \in AllFields |-> staged[f]]
          /\ detour' = (detour \ {"direct", "shown"})
                       \cup (IF "staged" \in detour THEN {"shown"} ELSE {})
          /\ last' = Frame.stamp /\ staging' = FALSE /\ fields' = {}
     ELSE UNCHANGED <<shown, detour, last, staging, fields>>
  /\ UNCHANGED <<toBridge, atomic, staged, receiver>> /\ Rest

------------------------------------------------------------------------------
(* Environment *)

Lose ==
  /\ losses < MaxLosses /\ losses' = losses + 1
  /\ \/ \E i \in 1..Len(toS3) : toS3' = RemoveAt(toS3, i) /\ UNCHANGED toBridge
     \/ \E i \in 1..Len(toBridge) : toBridge' = RemoveAt(toBridge, i) /\ UNCHANGED toS3
  /\ UNCHANGED <<bridgeVars, s3Vars, contents, syncs, faults>>

Fault == faults < MaxFaults /\ faults' = faults + 1 /\ UNCHANGED <<contents, syncs, losses>>

(* 1.5 s without a frame: what was staged is dropped.                       *)
Outage ==
  /\ Fault /\ toS3' = <<>> /\ atomic' = FALSE /\ staging' = FALSE /\ fields' = {}
  /\ UNCHANGED <<toBridge, bridgeVars, staged, last, receiver, shown, detour>>

BridgeRestart ==
  /\ Fault /\ toBridge' = <<>> /\ api' = FALSE /\ content' = 0
  /\ presentation' = Stamp(0, 0) /\ sender' = NoSender
  /\ toS3' = <<>> /\ atomic' = FALSE /\ staging' = FALSE /\ fields' = {}
  /\ detour' = IF receiver.active THEN detour \cup {"receiver"} ELSE detour
  /\ UNCHANGED <<runtime, staged, last, receiver, shown>>

S3Restart ==
  /\ Fault /\ toS3' = <<>> /\ UNCHANGED <<toBridge, bridgeVars>>
  /\ atomic' = FALSE /\ staging' = FALSE /\ staged' = NoStage /\ fields' = {}
  /\ last' = Stamp(0, 0) /\ receiver' = NoReceiver
  /\ shown' = Whole(0) /\ detour' = {}

------------------------------------------------------------------------------
Bridge == \/ \E s \in 0..(MaxFaults + 1), q \in 0..MaxSyncs : Sync(Stamp(s, q))
          \/ SendStatus \/ Snapshot \/ SendUrl \/ ReceiveUrlAck
          \/ ApiConnects \/ ApiDrops
S3 == \/ ReceiveStatus \/ ReceiveBegin \/ ReceiveText \/ ReceiveUrlBegin
      \/ ReceiveUrlChunk \/ ReceiveUrlEnd \/ ReceiveCommit
Environment == Lose \/ Outage \/ BridgeRestart \/ S3Restart
Next == Bridge \/ S3 \/ Environment

Spec == Init /\ [][Next]_vars

(* The loops run for ever and heartbeats and snapshots repeat; that is all: *)
(* which of these steps comes when is left open, and nothing is assumed of  *)
(* Home Assistant or of frames being delivered.                             *)
Progress == S3 \/ SendUrl \/ ReceiveUrlAck \/ SendStatus \/ Snapshot
FairSpec == Spec /\ WF_vars(Progress)

------------------------------------------------------------------------------
(* Properties *)

(* Every variable stays in its type.                                        *)
TypeOK ==
  /\ {api, atomic, staging, sender.waiting, receiver.active} \subseteq BOOLEAN
  /\ sender.phase \in 0..3 /\ sender.offset \in 0..Len(sender.url)
  /\ {sender.id, receiver.id} \subseteq 0..MaxId /\ Len(receiver.url) <= receiver.total
  /\ fields \subseteq AllFields /\ shown \in [AllFields -> 0..MaxSyncs]

(* Docs: the texts and the cover URL stay invisible until the commit.       *)
(* Title, artist and cover on the display belong to one track, whatever was *)
(* lost, overtaken or restarted, with two exceptions that detour records:   *)
(*   "direct"    a frame took the path around the staging that older        *)
(*               firmware needs;                                            *)
(*   "receiver", "staged", "shown"    the receiver held the start of a URL  *)
(*               when the Bridge restarted, took the end of a later URL of  *)
(*               the same id for its end, and that cover was committed.     *)
(* Both need the loss of a BEGIN.                                           *)
Untorn == detour \cap {"direct", "shown"} = {} => \E n \in 0..contents : shown = Whole(n)

Display == INSTANCE TrackDisplay
  WITH pushed <- contents, torn <- detour \cap {"direct", "shown"} # {},
       Covered <- {n \in 1..MaxSyncs : Cover(n) # 0}

(* The display moves as TrackDisplay says: from track to later track, each  *)
(* as a whole, through losses, outages and restarts of the Bridge and of    *)
(* the integration; even texts that took the detour never bring an earlier  *)
(* track back.                                                              *)
ImplementsDisplay == Display!Spec

(* The commit never overtakes the cover it is waiting for: while the commit *)
(* of the presentation that is being staged is in flight, its URL is there. *)
CommitFollowsCover ==
  \A i \in 1..Len(toS3) :
    toS3[i].type = "COMMIT" /\ staging /\ staged.stamp = toS3[i].stamp
    => "cover" \in fields

(* Comment on the periodic snapshot, "a loss-recovery guard": while Home    *)
(* Assistant stays connected and the track does not change, the S3 comes to *)
(* show that track as a whole and keeps showing it, after any losses,       *)
(* outages and restarts, also when it had torn it before.                   *)
SnapshotRepairs ==
  <>[](api /\ content # 0) => <>[](content # 0 /\ shown = Whole(content))

(* The same, but for a cover that was committed with the wrong texts: the   *)
(* snapshot that would repair it bears the stamp of the commit and is not   *)
(* newer.                                                                   *)
PresentationSettles ==
  <>[](api /\ content # 0 /\ "shown" \notin detour)
    => <>[](content # 0 /\ shown = Whole(content))

=============================================================================
